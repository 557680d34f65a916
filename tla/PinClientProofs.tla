--------------------------- MODULE PinClientProofs ---------------------------
(***************************************************************************)
(* Proofs about PinClient, for any PINs, any servers, any range of the     *)
(* replay counter and any number of unit keys and requests.                *)
(***************************************************************************)
EXTENDS PinClient, FiniteSetTheorems, TLAPS

(* TypeOK, in three parts: Boolean variables, the rest of the device, the world. *)
BoolOK == change_pin_requested \in BOOLEAN /\ unsettled \in BOOLEAN

DeviceOK ==
  /\ fReplay \in 0..UINT32_MAX /\ fUnit \in 0..MaxUnits
  /\ fPubkey \in Oracles \cup {None}
  /\ fBlob \in Blobs \cup {None}
  /\ fCounter \in 0..3
  /\ keys \in {"none", "unsaved", "loaded"}
  /\ pc \in {"idle", "enter", "handshake", "unit", "send", "handle_pin", "retry", "reject",
             "load", "change", "save", "ok", "restart"}
  /\ task \in {"get", "set", "change"}
  /\ pin \in Pins \cup {None}
  /\ pinkeys \in PinKeys \cup {None}
  /\ aeskey \in AesKeys \cup {None}
  /\ units \in 0..MaxUnits

WorldOK ==
  /\ sent \subseteq Requests
  /\ answers \subseteq [n : 1..MaxRequests, key : Keys]
  /\ server \in [Oracles -> [1..MaxUnits -> Accounts \cup {None}]]

Interacting == pc \in {"handshake", "unit", "send", "handle_pin", "retry", "load", "save"}

\* A request has been sent and its answer is awaited or in use.
Asked == pc \in {"handle_pin", "load", "save"}

\* A request is known by its number, and a unit key is never created twice.
RequestInv ==
  /\ IsFiniteSet(sent)
  /\ \A q \in sent : q.n <= Cardinality(sent) /\ q.unit <= units
  /\ \A q, r \in sent : q.n = r.n => q = r
  /\ fUnit <= units
  /\ fBlob # None => fBlob.unit <= units

\* The counter in flash is above every counter sent for the present unit key, the counter
\* of the request in progress included.
ReplayInv ==
  /\ \A q \in sent : q.unit = fUnit => q.counter < fReplay
  /\ pc \in {"unit", "send"} \/ Asked => pinkeys # None /\ pinkeys.counter < fReplay
  /\ pc \in {"unit", "send"} => \A q \in sent : q.unit = fUnit => q.counter < pinkeys.counter
  /\ Asked => \A q \in sent : q.unit = fUnit /\ q.n # pinkeys.n => q.counter < pinkeys.counter

\* What is there in each step of the interaction.
StepInv ==
  /\ Interacting => pin # None
  /\ (pc = "send" \/ Asked) => fUnit # 0
  /\ Asked => PinRequest(pinkeys.n) \in sent
  /\ pc = "load" => task = "get"
  /\ pc = "save" => task # "get"
  /\ (Interacting \/ pc = "enter") /\ task = "get" => fBlob # None
  /\ fBlob # None => fCounter > 0

\* Answers belong to requests; once the set_pin in progress is answered, its account is
\* what the server keeps, since every other request for it is too old.
AnswerInv ==
  /\ \A a \in answers : \E r \in sent : r.n = a.n /\ (r.document = "set_pin" => a.key = r.n)
  /\ pc \in {"load", "save"} =>
       /\ aeskey # None /\ aeskey.pin = pin
       /\ \E a \in answers : a.n = pinkeys.n /\ a.key = aeskey.key
  /\ Asked /\ task # "get" /\ (\E a \in answers : a.n = pinkeys.n) =>
       server[Oracle][fUnit] = [pin |-> pin, key |-> pinkeys.n, counter |-> pinkeys.counter]

\* OracleOpensWallet, and that no set_pin is left that the server would still take.
SettledInv ==
  fBlob # None =>
    /\ fBlob.oracle = Oracle
    /\ fUnit = fBlob.unit /\ ~unsettled =>
         LET known == server[fBlob.oracle][fBlob.unit] IN
         /\ known # None
         /\ known.key = fBlob.aes.key /\ known.pin = fBlob.aes.pin
         /\ \A q \in sent : q.document = "set_pin" /\ q.unit = fUnit => q.counter <= known.counter

TypeInv == BoolOK /\ DeviceOK /\ WorldOK
PinInv == TypeInv /\ RequestInv /\ ReplayInv /\ StepInv /\ AnswerInv /\ SettledInv

LEMMA InitPin == Init => PinInv
<1> SUFFICES ASSUME Init PROVE PinInv
  OBVIOUS
<1>1. BoolOK
  BY Zenon DEF Init, BoolOK
<1>2. DeviceOK /\ WorldOK
  BY BoundAssumption DEF Init, DeviceOK, WorldOK
<1>3. RequestInv
  BY FS_EmptySet DEF Init, RequestInv
<1>4. ReplayInv /\ StepInv /\ AnswerInv /\ SettledInv
  BY DEF Init, ReplayInv, StepInv, AnswerInv, SettledInv, Interacting, Asked
<1> QED BY <1>1, <1>2, <1>3, <1>4 DEF PinInv, TypeInv

(* The request that send_http_request_reply sends is a new one. *)
LEMMA NewRequest ==
  ASSUME PinInv, send_http_request_reply
  PROVE  \E n \in 1..MaxRequests :
           /\ n = Cardinality(sent) + 1 /\ Cardinality(sent) \in Nat
           /\ PinRequest(n) \in Requests /\ PinRequest(n) \notin sent
           /\ sent' = sent \cup {PinRequest(n)} /\ IsFiniteSet(sent') /\ Cardinality(sent') = n
           /\ pinkeys' \in PinKeys /\ pinkeys'.n = n /\ pinkeys'.counter = pinkeys.counter
<1> DEFINE n == Cardinality(sent) + 1
<1> USE DEF PinInv, TypeInv, DeviceOK, WorldOK, RequestInv, StepInv, Interacting
<1>1. Cardinality(sent) \in Nat /\ n \in 1..MaxRequests
  BY FS_CardinalityType, BoundAssumption DEF send_http_request_reply
<1>2. /\ PinRequest(n).n = n
      /\ PinRequest(n) \notin sent
  BY <1>1 DEF PinRequest
<1>3. /\ pinkeys \in PinKeys
      /\ Oracle \in Oracles
  BY OracleAssumption DEF send_http_request_reply, ReplayInv, Oracle
<1>4. PinRequest(n) \in Requests
  BY <1>1, <1>3 DEF send_http_request_reply, PinRequest, Requests, PinKeys, Document
<1>5. sent' = sent \cup {PinRequest(n)} /\ IsFiniteSet(sent') /\ Cardinality(sent') = n
  BY <1>2, FS_AddElement DEF send_http_request_reply
<1>6. pinkeys' \in PinKeys /\ pinkeys'.n = n /\ pinkeys'.counter = pinkeys.counter
  BY <1>1, <1>3 DEF send_http_request_reply, PinKeys
<1> QED BY <1>1, <1>2, <1>4, <1>5, <1>6

(* When a wallet is sealed, its key and PIN are what the server keeps. *)
LEMMA SealIsKept ==
  ASSUME PinInv, pc = "save"
  PROVE  /\ fUnit \in 1..MaxUnits /\ Oracle \in Oracles
         /\ server[Oracle][fUnit] =
              [pin |-> aeskey.pin, key |-> aeskey.key, counter |-> pinkeys.counter]
         /\ \A q \in sent : q.unit = fUnit => q.counter <= pinkeys.counter
<1> USE DEF PinInv, StepInv, AnswerInv, Asked, Interacting
<1>1. PinRequest(pinkeys.n) \in sent
  OBVIOUS
<1>2. PinRequest(pinkeys.n).document = "set_pin" /\ PinRequest(pinkeys.n).n = pinkeys.n
      /\ PinRequest(pinkeys.n).counter = pinkeys.counter
  BY DEF PinRequest, Document
<1>3. PICK a \in answers : a.n = pinkeys.n /\ a.key = aeskey.key
  OBVIOUS
<1>4. a.key = pinkeys.n
  BY <1>1, <1>2, <1>3 DEF RequestInv
<1>5. \A q \in sent : q.unit = fUnit => q.counter <= pinkeys.counter
  BY <1>1, <1>2 DEF RequestInv, ReplayInv, TypeInv, WorldOK, DeviceOK, Requests, PinKeys
<1>6. fUnit \in 1..MaxUnits /\ Oracle \in Oracles
  BY BoundAssumption, OracleAssumption DEF TypeInv, DeviceOK, Oracle
<1> QED BY <1>3, <1>4, <1>5, <1>6

LEMMA PinStep ==
  ASSUME PinInv, Next
  PROVE  PinInv'
<1> USE OracleAssumption, BoundAssumption, NoneAssumption
<1> USE DEF PinInv, TypeInv, BoolOK, DeviceOK, WorldOK, RequestInv, ReplayInv, StepInv, AnswerInv,
            SettledInv, Interacting, Asked, Keys, AesKeys, Oracle, keychain_has_pin, flash, world
<1>1. CASE AuthLocked
  <2>1. BoolOK'
    BY <1>1, Zenon DEF AuthLocked
  <2>2. (DeviceOK /\ WorldOK)'
    BY <1>1 DEF AuthLocked, PinKeys, Blobs
  <2>3. (RequestInv /\ ReplayInv)'
    BY <1>1 DEF AuthLocked, Requests, PinKeys, Blobs
  <2>4. (StepInv /\ AnswerInv)'
    BY <1>1 DEF AuthLocked, PinRequest
  <2>5. SettledInv'
    BY <1>1 DEF AuthLocked, Blobs
  <2> QED BY <2>1, <2>2, <2>3, <2>4, <2>5
<1>2. CASE AuthUnsaved
  <2>1. BoolOK'
    BY <1>2, Zenon DEF AuthUnsaved
  <2>2. (DeviceOK /\ WorldOK)'
    BY <1>2 DEF AuthUnsaved, PinKeys, Blobs
  <2>3. (RequestInv /\ ReplayInv)'
    BY <1>2 DEF AuthUnsaved, Requests, PinKeys, Blobs
  <2>4. (StepInv /\ AnswerInv)'
    BY <1>2 DEF AuthUnsaved, PinRequest, Document
  <2>5. SettledInv'
    BY <1>2 DEF AuthUnsaved, Blobs
  <2> QED BY <2>1, <2>2, <2>3, <2>4, <2>5
<1>3. CASE get_pin_get_aeskey
  <2>1. BoolOK'
    BY <1>3, Zenon DEF get_pin_get_aeskey
  <2>2. (DeviceOK /\ WorldOK)'
    BY <1>3 DEF get_pin_get_aeskey, PinKeys, Blobs
  <2>3. (RequestInv /\ ReplayInv)'
    BY <1>3 DEF get_pin_get_aeskey, Requests, PinKeys, Blobs
  <2>4. (StepInv /\ AnswerInv)'
    BY <1>3 DEF get_pin_get_aeskey, PinRequest, Document
  <2>5. SettledInv'
    BY <1>3 DEF get_pin_get_aeskey, Blobs
  <2> QED BY <2>1, <2>2, <2>3, <2>4, <2>5
<1>4. CASE set_pin_get_aeskey
  <2>1. BoolOK'
    BY <1>4, Zenon DEF set_pin_get_aeskey
  <2>2. (DeviceOK /\ WorldOK)'
    BY <1>4 DEF set_pin_get_aeskey, PinKeys, Blobs
  <2>3. (RequestInv /\ ReplayInv)'
    BY <1>4 DEF set_pin_get_aeskey, Requests, PinKeys, Blobs
  <2>4. (StepInv /\ AnswerInv)'
    BY <1>4 DEF set_pin_get_aeskey, PinRequest, Document
  <2>5. SettledInv'
    BY <1>4 DEF set_pin_get_aeskey, Blobs
  <2> QED BY <2>1, <2>2, <2>3, <2>4, <2>5
<1>5. CASE Abandon
  <2>1. BoolOK'
    BY <1>5, Zenon DEF Abandon, Wiped
  <2>2. (DeviceOK /\ WorldOK)'
    BY <1>5 DEF Abandon, Wiped, PinKeys, Blobs
  <2>3. (RequestInv /\ ReplayInv)'
    BY <1>5 DEF Abandon, Wiped, Requests, PinKeys, Blobs
  <2>4. (StepInv /\ AnswerInv)'
    BY <1>5 DEF Abandon, Wiped, PinRequest, Document
  <2>5. SettledInv'
    BY <1>5 DEF Abandon, Wiped, Blobs
  <2> QED BY <2>1, <2>2, <2>3, <2>4, <2>5
<1>6. CASE generate_ephemeral_pinkeys
  <2>1. BoolOK'
    BY <1>6, Zenon DEF generate_ephemeral_pinkeys, storage_get_replay_counter
  <2>2. (DeviceOK /\ WorldOK)'
    BY <1>6 DEF generate_ephemeral_pinkeys, storage_get_replay_counter, PinKeys, Blobs
  <2>3. (RequestInv /\ ReplayInv)'
    BY <1>6 DEF
      generate_ephemeral_pinkeys, storage_get_replay_counter, Requests, PinKeys, Blobs
  <2>4. (StepInv /\ AnswerInv)'
    BY <1>6 DEF generate_ephemeral_pinkeys, storage_get_replay_counter, PinRequest, Document
  <2>5. SettledInv'
    BY <1>6 DEF generate_ephemeral_pinkeys, storage_get_replay_counter, Blobs
  <2> QED BY <2>1, <2>2, <2>3, <2>4, <2>5
<1>7. CASE pin_get_unit_privatekey
  <2>1. BoolOK'
    BY <1>7, Zenon DEF pin_get_unit_privatekey
  <2>2. (DeviceOK /\ WorldOK)'
    BY <1>7 DEF pin_get_unit_privatekey, PinKeys, Blobs
  <2>3. (RequestInv /\ ReplayInv)'
    BY <1>7 DEF pin_get_unit_privatekey, Requests, PinKeys, Blobs
  <2>4. (StepInv /\ AnswerInv)'
    BY <1>7 DEF pin_get_unit_privatekey, PinRequest, Document
  <2>5. SettledInv'
    BY <1>7 DEF pin_get_unit_privatekey, Blobs
  <2> QED BY <2>1, <2>2, <2>3, <2>4, <2>5
<1>8. CASE send_http_request_reply
  <2>1. PICK n \in 1..MaxRequests :
          /\ n = Cardinality(sent) + 1 /\ Cardinality(sent) \in Nat
          /\ PinRequest(n) \in Requests /\ PinRequest(n) \notin sent
          /\ sent' = sent \cup {PinRequest(n)} /\ IsFiniteSet(sent') /\ Cardinality(sent') = n
          /\ pinkeys' \in PinKeys /\ pinkeys'.n = n /\ pinkeys'.counter = pinkeys.counter
    BY <1>8, NewRequest
  <2>2. BoolOK'
    BY <1>8, Zenon DEF send_http_request_reply
  <2>3. DeviceOK' /\ WorldOK'
    BY <1>8, <2>1 DEF send_http_request_reply
  <2>4. RequestInv'
    <3>1. PinRequest(n).n = n /\ PinRequest(n).unit = fUnit
      BY DEF PinRequest
    <3>2. \A q \in sent : q.n \in Nat /\ q.n <= Cardinality(sent)
      BY DEF Requests
    <3>3. \A q, r \in sent' : q.n = r.n => q = r
      BY <2>1, <3>1, <3>2
    <3>4. \A q \in sent' : q.n <= Cardinality(sent') /\ q.unit <= units
      BY <2>1, <3>1, <3>2
    <3> QED BY <1>8, <2>1, <3>3, <3>4 DEF send_http_request_reply
  <2>5. ReplayInv' /\ StepInv'
    BY <1>8, <2>1 DEF send_http_request_reply, PinRequest, Document, Requests, PinKeys
  <2>6. AnswerInv'
    <3>1. \A a \in answers : a.n # n
      BY <2>1 DEF Requests
    <3> QED BY <1>8, <2>1, <3>1 DEF send_http_request_reply
  <2>7. SettledInv'
    <3>1. ~unsettled' => ~unsettled /\ task = "get"
      BY <1>8, Zenon DEF send_http_request_reply, Document
    <3> QED BY <1>8, <2>1, <3>1 DEF send_http_request_reply, PinRequest, Document
  <2> QED BY <2>2, <2>3, <2>4, <2>5, <2>6, <2>7
<1>9. CASE handle_pin
  <2>1. BoolOK'
    BY <1>9, Zenon DEF handle_pin, decrypt_reply
  <2>2. (DeviceOK /\ WorldOK)'
    BY <1>9 DEF handle_pin, decrypt_reply, PinKeys, Blobs
  <2>3. (RequestInv /\ ReplayInv)'
    BY <1>9 DEF handle_pin, decrypt_reply, Requests, PinKeys, Blobs
  <2>4. (StepInv /\ AnswerInv)'
    BY <1>9 DEF handle_pin, decrypt_reply, PinRequest, Document
  <2>5. SettledInv'
    BY <1>9 DEF handle_pin, decrypt_reply, Blobs
  <2> QED BY <2>1, <2>2, <2>3, <2>4, <2>5
<1>10. CASE get_pinserver_aeskey
  <2>1. BoolOK'
    BY <1>10, Zenon DEF get_pinserver_aeskey
  <2>2. (DeviceOK /\ WorldOK)'
    BY <1>10 DEF get_pinserver_aeskey, PinKeys, Blobs
  <2>3. (RequestInv /\ ReplayInv)'
    BY <1>10 DEF get_pinserver_aeskey, Requests, PinKeys, Blobs
  <2>4. (StepInv /\ AnswerInv)'
    BY <1>10 DEF get_pinserver_aeskey, PinRequest, Document
  <2>5. SettledInv'
    BY <1>10 DEF get_pinserver_aeskey, Blobs
  <2> QED BY <2>1, <2>2, <2>3, <2>4, <2>5
<1>11. CASE keychain_load
  <2>1. BoolOK'
    BY <1>11, Zenon DEF keychain_load, Opens, Wiped
  <2>2. (DeviceOK /\ WorldOK)'
    BY <1>11 DEF keychain_load, Opens, Wiped
  <2>3. (RequestInv /\ ReplayInv)'
    BY <1>11 DEF keychain_load, Opens, Wiped, Requests, PinKeys, Blobs
  <2>4. (StepInv /\ AnswerInv)'
    BY <1>11 DEF keychain_load, Opens, Wiped, PinRequest, Document
  <2>5. SettledInv'
    BY <1>11 DEF keychain_load, Opens, Wiped, Blobs
  <2> QED BY <2>1, <2>2, <2>3, <2>4, <2>5
<1>12. CASE OfferChange
  <2>1. BoolOK'
    BY <1>12, Zenon DEF OfferChange
  <2>2. (DeviceOK /\ WorldOK)'
    BY <1>12 DEF OfferChange, PinKeys, Blobs
  <2>3. (RequestInv /\ ReplayInv)'
    BY <1>12 DEF OfferChange, Requests, PinKeys, Blobs
  <2>4. (StepInv /\ AnswerInv)'
    BY <1>12 DEF OfferChange, PinRequest, Document
  <2>5. SettledInv'
    BY <1>12 DEF OfferChange, Blobs
  <2> QED BY <2>1, <2>2, <2>3, <2>4, <2>5
<1>13. CASE set_pin_save_keys
  <2>1. BoolOK'
    BY <1>13, Zenon DEF set_pin_save_keys, Wiped
  <2>2. /\ fUnit \in 1..MaxUnits /\ Oracle \in Oracles
        /\ server[Oracle][fUnit] =
             [pin |-> aeskey.pin, key |-> aeskey.key, counter |-> pinkeys.counter]
        /\ \A q \in sent : q.unit = fUnit => q.counter <= pinkeys.counter
    BY <1>13, SealIsKept DEF set_pin_save_keys
  <2>3. aeskey \in AesKeys /\ pinkeys \in PinKeys
    BY <1>13 DEF set_pin_save_keys
  <2>4. (DeviceOK /\ WorldOK)'
    BY <1>13, <2>2, <2>3 DEF set_pin_save_keys, Wiped, Seal, Blobs
  <2>5. (RequestInv /\ ReplayInv)'
    BY <1>13 DEF set_pin_save_keys, Wiped, Seal
  <2>6. (StepInv /\ AnswerInv)'
    BY <1>13 DEF set_pin_save_keys, Wiped, Seal
  <2>7. SettledInv'
    <3>1. CASE fBlob' = Seal
      <4>1. /\ fBlob'.oracle = Oracle /\ fBlob'.unit = fUnit /\ fBlob'.aes = aeskey
            /\ UNCHANGED <<fUnit, fPubkey, server, sent>>
        BY <1>13, <3>1 DEF set_pin_save_keys, Seal
      <4>2. server[Oracle][fUnit] \in Accounts
        BY <2>2, <2>3 DEF Accounts, PinKeys
      <4> QED BY <2>2, <4>1, <4>2
    <3>2. CASE UNCHANGED <<fBlob, unsettled>>
      BY <1>13, <3>2 DEF set_pin_save_keys
    <3> QED BY <1>13, <3>1, <3>2 DEF set_pin_save_keys
  <2> QED BY <2>1, <2>4, <2>5, <2>6, <2>7
<1>14. CASE ChangePin
  <2>1. BoolOK'
    BY <1>14, Zenon DEF ChangePin, Wiped
  <2>2. /\ fUnit \in 1..MaxUnits /\ Oracle \in Oracles
        /\ server[Oracle][fUnit] =
             [pin |-> aeskey.pin, key |-> aeskey.key, counter |-> pinkeys.counter]
        /\ \A q \in sent : q.unit = fUnit => q.counter <= pinkeys.counter
    BY <1>14, SealIsKept DEF ChangePin
  <2>3. aeskey \in AesKeys /\ pinkeys \in PinKeys
    BY <1>14 DEF ChangePin
  <2>4. (DeviceOK /\ WorldOK)'
    BY <1>14, <2>2, <2>3 DEF ChangePin, Wiped, Seal, Blobs
  <2>5. (RequestInv /\ ReplayInv)'
    BY <1>14 DEF ChangePin, Wiped, Seal
  <2>6. (StepInv /\ AnswerInv)'
    BY <1>14 DEF ChangePin, Wiped, Seal
  <2>7. SettledInv'
    <3>1. CASE fBlob' = Seal
      <4>1. /\ fBlob'.oracle = Oracle /\ fBlob'.unit = fUnit /\ fBlob'.aes = aeskey
            /\ UNCHANGED <<fUnit, fPubkey, server, sent>>
        BY <1>14, <3>1 DEF ChangePin, Seal
      <4>2. server[Oracle][fUnit] \in Accounts
        BY <2>2, <2>3 DEF Accounts, PinKeys
      <4> QED BY <2>2, <4>1, <4>2
    <3>2. CASE UNCHANGED <<fBlob, unsettled>>
      BY <1>14, <3>2 DEF ChangePin
    <3> QED BY <1>14, <3>1, <3>2 DEF ChangePin
  <2> QED BY <2>1, <2>4, <2>5, <2>6, <2>7
<1>15. CASE ReplyOk
  <2>1. BoolOK'
    BY <1>15, Zenon DEF ReplyOk, Wiped
  <2>2. (DeviceOK /\ WorldOK)'
    BY <1>15 DEF ReplyOk, Wiped, PinKeys, Blobs
  <2>3. (RequestInv /\ ReplayInv)'
    BY <1>15 DEF ReplyOk, Wiped, Requests, PinKeys, Blobs
  <2>4. (StepInv /\ AnswerInv)'
    BY <1>15 DEF ReplyOk, Wiped, PinRequest, Document
  <2>5. SettledInv'
    BY <1>15 DEF ReplyOk, Wiped, Blobs
  <2> QED BY <2>1, <2>2, <2>3, <2>4, <2>5
<1>16. CASE Serve
  <2>1. UNCHANGED <<flash, keys, change_pin_requested, pc, task, pin, pinkeys, aeskey, sent,
                    units, unsettled>>
    BY <1>16 DEF Serve
  <2>2. PICK r \in sent : /\ ~ReplayRefused(r)
                          /\ answers' = answers \cup {[n |-> r.n, key |-> KeyFor(r)]}
                          /\ server' = [server EXCEPT ![r.oracle][r.unit] = Kept(r)]
    BY <1>16 DEF Serve
  <2>3. /\ r.oracle \in Oracles /\ r.unit \in 1..MaxUnits /\ r.n \in 1..MaxRequests
        /\ r.pin \in Pins /\ r.counter \in 0..UINT32_MAX
        /\ Known(r) \in Accounts \cup {None}
    BY DEF Requests, Known
  <2>4. Kept(r) \in Accounts \cup {None} /\ KeyFor(r) \in Keys
    BY <2>3 DEF Kept, KeyFor, Accounts
  <2>5. \A o \in Oracles, u \in 1..MaxUnits :
          server'[o][u] = IF o = r.oracle /\ u = r.unit THEN Kept(r) ELSE server[o][u]
    BY <2>2, <2>3
  <2>6. BoolOK'
    BY <2>1
  <2>7. DeviceOK' /\ RequestInv' /\ ReplayInv' /\ StepInv'
    BY <2>1 DEF PinRequest, Document
  <2>8. WorldOK'
    BY <2>1, <2>2, <2>3, <2>4
  <2>9. AnswerInv'
    <3>1. \A a \in answers' : \E q \in sent :
            q.n = a.n /\ (q.document = "set_pin" => a.key = q.n)
      BY <2>2 DEF KeyFor
    <3>2. ASSUME Asked, task # "get", \E a \in answers' : a.n = pinkeys.n
          PROVE  server'[Oracle][fUnit] =
                   [pin |-> pin, key |-> pinkeys.n, counter |-> pinkeys.counter]
      <4>1. PinRequest(pinkeys.n) \in sent /\ fUnit \in 1..MaxUnits
        BY <3>2
      <4>2. CASE r.n = pinkeys.n
        <5>1. r = PinRequest(pinkeys.n)
          BY <4>1, <4>2 DEF PinRequest
        <5> QED BY <2>3, <2>5, <3>2, <5>1 DEF PinRequest, Document, Kept
      <4>3. CASE r.n # pinkeys.n
        <5>1. \E a \in answers : a.n = pinkeys.n
          BY <2>2, <3>2, <4>3
        <5>2. server[Oracle][fUnit] =
                [pin |-> pin, key |-> pinkeys.n, counter |-> pinkeys.counter]
          BY <3>2, <5>1
        <5>3. pinkeys \in PinKeys /\ server[Oracle][fUnit] \in Accounts
          BY <3>2, <5>2 DEF PinKeys, Accounts
        <5>4. ~(r.oracle = Oracle /\ r.unit = fUnit)
          <6>1. r.unit = fUnit => r.counter < pinkeys.counter
            BY <3>2, <4>3
          <6> QED BY <2>2, <2>3, <5>2, <5>3, <6>1 DEF ReplayRefused, Known, PinKeys
        <5> QED BY <2>5, <4>1, <5>2, <5>4
      <4> QED BY <4>2, <4>3
    <3> QED BY <2>1, <2>2, <3>1, <3>2
  <2>10. SettledInv'
    <3> SUFFICES ASSUME fBlob # None, fUnit = fBlob.unit, ~unsettled
                 PROVE  LET known == server'[fBlob.oracle][fBlob.unit] IN
                        /\ known # None
                        /\ known.key = fBlob.aes.key /\ known.pin = fBlob.aes.pin
                        /\ \A q \in sent : q.document = "set_pin" /\ q.unit = fUnit
                                             => q.counter <= known.counter
      BY <2>1
    <3>1. fBlob.oracle \in Oracles /\ fBlob.unit \in 1..MaxUnits
      BY DEF Blobs
    <3>2. CASE r.oracle = fBlob.oracle /\ r.unit = fBlob.unit
      <4>1. r.document # "set_pin"
        BY <2>2, <2>3, <3>2 DEF ReplayRefused, Known, Accounts, Requests
      <4>2. /\ Known(r) \in Accounts /\ Known(r).counter < r.counter
            /\ Known(r) = server[fBlob.oracle][fBlob.unit]
        BY <2>2, <2>3, <3>2 DEF ReplayRefused, Known, Accounts
      <4>3. server'[fBlob.oracle][fBlob.unit] = [Known(r) EXCEPT !.counter = r.counter]
        BY <2>5, <3>1, <3>2, <4>1, <4>2 DEF Kept
      <4>4. \A q \in sent : q.counter \in Nat
        BY DEF Requests
      <4>5. [Known(r) EXCEPT !.counter = r.counter] \in Accounts
        BY <2>3, <4>2 DEF Accounts
      <4>6. /\ server'[fBlob.oracle][fBlob.unit].key = Known(r).key
            /\ server'[fBlob.oracle][fBlob.unit].pin = Known(r).pin
            /\ server'[fBlob.oracle][fBlob.unit].counter = r.counter
        BY <4>2, <4>3 DEF Accounts
      <4>7. /\ Known(r).key = fBlob.aes.key /\ Known(r).pin = fBlob.aes.pin
            /\ \A q \in sent : q.document = "set_pin" /\ q.unit = fUnit
                                 => q.counter <= Known(r).counter
        BY <4>2
      <4>8. \A q \in sent : q.document = "set_pin" /\ q.unit = fUnit => q.counter <= r.counter
        <5>1. Known(r).counter \in Nat /\ r.counter \in Nat /\ Known(r).counter < r.counter
          BY <2>3, <4>2, <4>4, SMTT(30) DEF Accounts
        <5> TAKE q \in sent
        <5>2. q.counter \in Nat
          BY <4>4
        <5>3. q.document = "set_pin" /\ q.unit = fUnit => q.counter <= Known(r).counter
          BY <4>7
        <5> QED BY <5>1, <5>2, <5>3, SMTT(30)
      <4> QED BY <4>3, <4>5, <4>6, <4>7, <4>8
    <3>3. CASE ~(r.oracle = fBlob.oracle /\ r.unit = fBlob.unit)
      BY <2>5, <3>1, <3>3
    <3> QED BY <3>2, <3>3
  <2> QED BY <2>6, <2>7, <2>8, <2>9, <2>10
<1>17. CASE handle_change_pin
  <2>1. BoolOK'
    BY <1>17, Zenon DEF handle_change_pin
  <2>2. (DeviceOK /\ WorldOK)'
    BY <1>17 DEF handle_change_pin, PinKeys, Blobs
  <2>3. (RequestInv /\ ReplayInv)'
    BY <1>17 DEF handle_change_pin, Requests, PinKeys, Blobs
  <2>4. (StepInv /\ AnswerInv)'
    BY <1>17 DEF handle_change_pin, PinRequest, Document
  <2>5. SettledInv'
    BY <1>17 DEF handle_change_pin, Blobs
  <2> QED BY <2>1, <2>2, <2>3, <2>4, <2>5
<1>18. CASE update_pinserver
  <2>1. BoolOK'
    BY <1>18, Zenon DEF
      update_pinserver, PubkeyAllowed, storage_set_pinserver_details,
      storage_erase_pinserver_details
  <2>2. (DeviceOK /\ WorldOK)'
    BY <1>18 DEF
      update_pinserver, PubkeyAllowed, storage_set_pinserver_details,
      storage_erase_pinserver_details, PinKeys, Blobs
  <2>3. (RequestInv /\ ReplayInv)'
    BY <1>18 DEF
      update_pinserver, PubkeyAllowed, storage_set_pinserver_details,
      storage_erase_pinserver_details, Requests, PinKeys, Blobs
  <2>4. (StepInv /\ AnswerInv)'
    BY <1>18 DEF
      update_pinserver, PubkeyAllowed, storage_set_pinserver_details,
      storage_erase_pinserver_details, PinRequest, Document
  <2>5. SettledInv'
    BY <1>18 DEF
      update_pinserver, PubkeyAllowed, storage_set_pinserver_details,
      storage_erase_pinserver_details, Blobs
  <2> QED BY <2>1, <2>2, <2>3, <2>4, <2>5
<1>19. CASE reset_pinserver
  <2>1. BoolOK'
    BY <1>19, Zenon DEF reset_pinserver, storage_erase_pinserver_details
  <2>2. (DeviceOK /\ WorldOK)'
    BY <1>19 DEF reset_pinserver, storage_erase_pinserver_details, PinKeys, Blobs
  <2>3. (RequestInv /\ ReplayInv)'
    BY <1>19 DEF reset_pinserver, storage_erase_pinserver_details, Requests, PinKeys, Blobs
  <2>4. (StepInv /\ AnswerInv)'
    BY <1>19 DEF reset_pinserver, storage_erase_pinserver_details, PinRequest, Document
  <2>5. SettledInv'
    BY <1>19 DEF reset_pinserver, storage_erase_pinserver_details, Blobs
  <2> QED BY <2>1, <2>2, <2>3, <2>4, <2>5
<1>20. CASE process_logout_request
  <2>1. BoolOK'
    BY <1>20, Zenon DEF process_logout_request
  <2>2. (DeviceOK /\ WorldOK)'
    BY <1>20 DEF process_logout_request, PinKeys, Blobs
  <2>3. (RequestInv /\ ReplayInv)'
    BY <1>20 DEF process_logout_request, Requests, PinKeys, Blobs
  <2>4. (StepInv /\ AnswerInv)'
    BY <1>20 DEF process_logout_request, PinRequest, Document
  <2>5. SettledInv'
    BY <1>20 DEF process_logout_request, Blobs
  <2> QED BY <2>1, <2>2, <2>3, <2>4, <2>5
<1>21. CASE storage_erase
  <2>1. BoolOK'
    BY <1>21, Zenon DEF storage_erase, Boot, Wiped
  <2>2. (DeviceOK /\ WorldOK)'
    BY <1>21 DEF storage_erase, Boot, Wiped, PinKeys, Blobs
  <2>3. (RequestInv /\ ReplayInv)'
    BY <1>21 DEF storage_erase, Boot, Wiped, Requests, PinKeys, Blobs
  <2>4. (StepInv /\ AnswerInv)'
    BY <1>21 DEF storage_erase, Boot, Wiped, PinRequest, Document
  <2>5. SettledInv'
    BY <1>21 DEF storage_erase, Boot, Wiped, Blobs
  <2> QED BY <2>1, <2>2, <2>3, <2>4, <2>5
<1>22. CASE Reboot
  <2>1. BoolOK'
    BY <1>22, Zenon DEF Reboot, Boot, Wiped
  <2>2. (DeviceOK /\ WorldOK)'
    BY <1>22 DEF Reboot, Boot, Wiped, PinKeys, Blobs
  <2>3. (RequestInv /\ ReplayInv)'
    BY <1>22 DEF Reboot, Boot, Wiped, Requests, PinKeys, Blobs
  <2>4. (StepInv /\ AnswerInv)'
    BY <1>22 DEF Reboot, Boot, Wiped, PinRequest, Document
  <2>5. SettledInv'
    BY <1>22 DEF Reboot, Boot, Wiped, Blobs
  <2> QED BY <2>1, <2>2, <2>3, <2>4, <2>5
<1> QED BY <1>1, <1>2, <1>3, <1>4, <1>5, <1>6, <1>7, <1>8, <1>9, <1>10, <1>11, <1>12, <1>13, <1>14, <1>15, <1>16, <1>17, <1>18, <1>19, <1>20, <1>21, <1>22
    DEF Next

LEMMA PinInductive == PinInv /\ [Next]_vars => PinInv'
<1> SUFFICES ASSUME PinInv, UNCHANGED vars PROVE PinInv'
  BY PinStep
<1> USE DEF vars, flash, world, PinInv, TypeInv
<1>1. TypeInv'
  BY DEF BoolOK, DeviceOK, WorldOK
<1>2. (RequestInv /\ ReplayInv /\ StepInv /\ AnswerInv /\ SettledInv)'
  BY DEF RequestInv, ReplayInv, StepInv, AnswerInv, SettledInv, Interacting, Asked, PinRequest,
         Document, Oracle
<1> QED BY <1>1, <1>2

THEOREM PinCorrect == Spec => []PinInv
BY InitPin, PinInductive, PTL DEF Spec

(* Every variable keeps its type; in particular the attempts left do not go below zero. *)
THEOREM PinTypeCorrect == Spec => []TypeOK
<1>1. PinInv => TypeOK
  BY DEF PinInv, TypeInv, BoolOK, DeviceOK, WorldOK, TypeOK
<1> QED BY <1>1, PinCorrect, PTL

(* The PIN server gives the key that opens the saved wallet for the PIN it was sealed for, *)
(* whatever the host loses, delays, repeats or invents (pinserver_interaction). *)
THEOREM OracleAlwaysOpens == Spec => []OracleOpensWallet
<1>1. PinInv => OracleOpensWallet
  <2> SUFFICES ASSUME PinInv, fBlob # None, fUnit = fBlob.unit, ~unsettled
               PROVE  LET known == server[fBlob.oracle][fBlob.unit] IN
                      [key |-> known.key, pin |-> known.pin] = fBlob.aes
    BY DEF PinInv, SettledInv, OracleOpensWallet
  <2>1. fBlob.aes \in AesKeys
    BY DEF PinInv, TypeInv, DeviceOK, Blobs
  <2> QED BY <2>1 DEF PinInv, SettledInv, AesKeys
<1> QED BY <1>1, PinCorrect, PTL

(* The replay counters of a unit key increase with every request, over retries, failed *)
(* commits, restarts, resets and changes of the server (storage_get_replay_counter). *)
THEOREM CountersIncrease == Spec => ReplayCounterIncreases
<1>1. PinInv /\ [Next]_vars => [NewCountersAreLarger]_vars
  <2> SUFFICES ASSUME PinInv, Next PROVE NewCountersAreLarger
    OBVIOUS
  <2>1. CASE send_http_request_reply
    BY <2>1 DEF send_http_request_reply, NewCountersAreLarger, PinInv, ReplayInv, PinRequest
  <2>2. CASE UNCHANGED sent
    BY <2>2 DEF NewCountersAreLarger
  <2> QED BY <2>1, <2>2 DEF Next, world, AuthLocked, AuthUnsaved, get_pin_get_aeskey,
      set_pin_get_aeskey, Abandon, generate_ephemeral_pinkeys, pin_get_unit_privatekey,
      handle_pin, get_pinserver_aeskey, keychain_load, OfferChange, set_pin_save_keys,
      ChangePin, ReplyOk, Serve, handle_change_pin, update_pinserver, reset_pinserver,
      process_logout_request, storage_erase, Reboot
<1> QED BY <1>1, PinCorrect, PTL DEF Spec, ReplayCounterIncreases

(* A wallet is unlocked only with an answer to the request in progress (decrypt_reply). *)
THEOREM UnlocksAreAnswered == Spec => UnlockAsksServer
<1>1. PinInv /\ [Next]_vars => [UnlockIsAnswered]_vars
  <2> SUFFICES ASSUME PinInv, Next, keys # "loaded", keys' = "loaded"
               PROVE  pc \in {"load", "save"}
    BY DEF UnlockIsAnswered, PinInv, AnswerInv
  <2> QED BY DEF Next, Boot, AuthLocked, AuthUnsaved, get_pin_get_aeskey,
      set_pin_get_aeskey, Abandon, generate_ephemeral_pinkeys, pin_get_unit_privatekey,
      send_http_request_reply, handle_pin, get_pinserver_aeskey, keychain_load, OfferChange,
      set_pin_save_keys, ChangePin, ReplyOk, Serve, handle_change_pin, update_pinserver,
      reset_pinserver, process_logout_request, storage_erase, Reboot
<1> QED BY <1>1, PinCorrect, PTL DEF Spec, UnlockAsksServer


=============================================================================

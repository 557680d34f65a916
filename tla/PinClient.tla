----------------------------- MODULE PinClient -----------------------------
(***************************************************************************)
(* Authentication with a PIN: auth_user.c, pinclient.c, update_pinserver.c *)
(* and the fields of the flash they use.                                   *)
(*                                                                         *)
(* The AES key that seals the wallet is made from the PIN and from a key   *)
(* that the PIN server ("Oracle") keeps.  The device reaches the server    *)
(* through the host: it answers auth_user with a request for the server,   *)
(* and the host sends the server's answer in a `pin` message.  The host    *)
(* may lose, delay, repeat or invent anything; power may fail at any step. *)
(*                                                                         *)
(* Cryptography is abstract: a request can be read only by the server it   *)
(* is for, an answer only with the ephemeral key of its request, and a key *)
(* is the number of the set_pin request that created it (0: no such key).  *)
(* The keychain's own steps are in module Keychain; each call is one step. *)
(***************************************************************************)
EXTENDS Naturals, FiniteSets

CONSTANTS
  Pins,         \* the PINs the user may enter
  Oracles,      \* PIN servers, by public key
  Default,      \* the server whose key is in the firmware
  UINT32_MAX,   \* the last value of the replay counter
  MaxUnits,     \* bound on the unit keys created
  MaxRequests,  \* bound on the requests sent
  None

ASSUME OracleAssumption == Default \in Oracles
ASSUME BoundAssumption == UINT32_MAX \in Nat /\ MaxUnits \in Nat \ {0} /\ MaxRequests \in Nat

VARIABLES
  fReplay,   \* the replay counter in flash
  fUnit,     \* the unit's private key in flash, 0 if there is none
  fPubkey,   \* the server's public key in flash, None for the default
  fBlob,     \* the encrypted wallet in flash, or None
  fCounter,  \* PIN attempts left
  keys,      \* the keys in memory: "none", "unsaved" or "loaded"
  change_pin_requested,
  pc,        \* where the main task is
  task,      \* what the PIN is entered for: "get", "set" or "change"
  pin,       \* the PIN entered
  pinkeys,   \* the request in progress, or None
  aeskey,    \* the final key of the last interaction, or None
  sent,      \* the requests ever sent
  answers,   \* the answers the servers ever gave
  server,    \* what each server keeps of each unit
  units,     \* history: the unit keys ever created
  unsettled  \* history: a set_pin was sent, and no wallet sealed with a key of a set_pin since

flash == <<fReplay, fUnit, fPubkey, fBlob, fCounter>>
world == <<sent, answers, server>>
vars == <<flash, keys, change_pin_requested, pc, task, pin, pinkeys, aeskey,
          world, units, unsettled>>

Keys == 0..MaxRequests
AesKeys == [key : Keys, pin : Pins]
Requests == [n : 1..MaxRequests, document : {"get_pin", "set_pin"}, counter : 0..UINT32_MAX,
             oracle : Oracles, unit : 1..MaxUnits, pin : Pins]

Blobs == [aes : AesKeys, unit : 1..MaxUnits, oracle : Oracles]
PinKeys == [counter : 0..UINT32_MAX, n : 0..MaxRequests]
Accounts == [pin : Pins, key : Keys, counter : 0..UINT32_MAX]

\* None is none of the values it stands for the absence of.
ASSUME NoneAssumption ==
  /\ None \notin Oracles /\ None \notin Pins /\ None \notin AesKeys
  /\ None \notin Blobs /\ None \notin PinKeys /\ None \notin Accounts

TypeOK ==
  /\ fReplay \in 0..UINT32_MAX /\ fUnit \in 0..MaxUnits
  /\ fPubkey \in Oracles \cup {None}
  /\ fBlob \in Blobs \cup {None}
  /\ fCounter \in 0..3
  /\ keys \in {"none", "unsaved", "loaded"} /\ change_pin_requested \in BOOLEAN
  /\ pc \in {"idle", "enter", "handshake", "unit", "send", "handle_pin", "retry", "reject",
             "load", "change", "save", "ok", "restart"}
  /\ task \in {"get", "set", "change"}
  /\ pin \in Pins \cup {None}
  /\ pinkeys \in PinKeys \cup {None}
  /\ aeskey \in AesKeys \cup {None}
  /\ sent \subseteq Requests
  /\ answers \subseteq [n : 1..MaxRequests, key : Keys]
  /\ server \in [Oracles -> [1..MaxUnits -> Accounts \cup {None}]]
  /\ units \in 0..MaxUnits /\ unsettled \in BOOLEAN

Init ==
  /\ fReplay = 0 /\ fUnit = 0 /\ fPubkey = None /\ fBlob = None /\ fCounter = 0
  /\ keys = "none" /\ change_pin_requested = FALSE
  /\ pc = "idle" /\ task = "get"
  /\ pin = None /\ pinkeys = None /\ aeskey = None
  /\ sent = {} /\ answers = {}
  /\ server = [o \in Oracles |-> [u \in 1..MaxUnits |-> None]]
  /\ units = 0 /\ unsettled = FALSE

\* The server the device talks to.
Oracle == IF fPubkey = None THEN Default ELSE fPubkey

keychain_has_pin == fBlob # None

\* SENSITIVE_POP: what a call has on its stack is wiped when it returns.
Wiped == pin' = None /\ pinkeys' = None /\ aeskey' = None

-----------------------------------------------------------------------------
(* auth_user_process *)

\* The wallet is open for this connection already: nothing to do but reply.
\* Otherwise a wallet opened by another connection is closed and the PIN asked for.
AuthLocked ==
  /\ pc = "idle" /\ keychain_has_pin
  /\ \/ keys = "loaded" /\ UNCHANGED <<keys, pc, task>>
     \/ keys' = "none" /\ pc' = "enter" /\ task' = "get"
  /\ UNCHANGED <<flash, change_pin_requested, pin, pinkeys, aeskey, world, units, unsettled>>

\* Without a wallet the user is asked for a mnemonic, and may give none.
AuthUnsaved ==
  /\ pc = "idle" /\ ~keychain_has_pin
  /\ \/ keys' = "unsaved" /\ pc' = "enter" /\ task' = "set"
     \/ keys = "none" /\ UNCHANGED <<keys, pc, task>>
  /\ UNCHANGED <<flash, change_pin_requested, pin, pinkeys, aeskey, world, units, unsettled>>

\* The user enters the PIN, or gives up.
get_pin_get_aeskey ==
  /\ pc = "enter" /\ task = "get"
  /\ \/ \E p \in Pins : pin' = p /\ pc' = "handshake"
     \/ pc' = "reject" /\ UNCHANGED pin
  /\ UNCHANGED <<flash, keys, change_pin_requested, task, pinkeys, aeskey, world,
                 units, unsettled>>

\* The user enters a new PIN twice until both are the same, or gives up.
set_pin_get_aeskey ==
  /\ pc = "enter" /\ task # "get"
  /\ \/ \E first, second \in Pins : first = second /\ pin' = first /\ pc' = "handshake"
     \/ pc' = "reject" /\ UNCHANGED pin
  /\ UNCHANGED <<flash, keys, change_pin_requested, task, pinkeys, aeskey, world,
                 units, unsettled>>

\* The interaction has failed: an error reply, unless the host cancelled it itself.
\* A change of PIN that fails does not undo the login, which is answered as well.
Abandon ==
  /\ pc = "reject"
  /\ pc' = IF task = "change" THEN "ok" ELSE "idle"
  /\ Wiped
  /\ UNCHANGED <<flash, keys, change_pin_requested, task, world, units, unsettled>>

-----------------------------------------------------------------------------
(* pinserver_interaction *)

Mutant_counter_not_committed(ok) ==
  /\ fReplay < UINT32_MAX
  /\ fReplay' \in {fReplay, fReplay + 1}
  /\ pinkeys' = [counter |-> fReplay, n |-> 0]

\* A new ephemeral key, and the next value of the replay counter.  The counter in flash is
\* incremented before the value is used; a commit that fails may or may not have
\* changed it, and ends the interaction.  The last value is never given out.
storage_get_replay_counter(ok) ==
  /\ fReplay < UINT32_MAX
  /\ fReplay' \in (IF ok THEN {fReplay + 1} ELSE {fReplay, fReplay + 1})
  /\ pinkeys' = IF ok THEN [counter |-> fReplay, n |-> 0] ELSE None

generate_ephemeral_pinkeys ==
  /\ pc = "handshake"
  /\ \/ \E ok \in BOOLEAN :
          /\ storage_get_replay_counter(ok)
          /\ pc' = IF ok THEN "unit" ELSE "reject"
     \/ /\ fReplay = UINT32_MAX            \* JADE_ASSERT(j < UINT32_MAX)
        /\ pc' = "restart"
        /\ UNCHANGED <<fReplay, pinkeys>>
  /\ UNCHANGED <<fUnit, fPubkey, fBlob, fCounter, keys, change_pin_requested, task,
                 pin, aeskey, world, units, unsettled>>

\* The unit's private key, by which the server knows the device, is created on demand.
pin_get_unit_privatekey ==
  /\ pc = "unit"
  /\ \/ fUnit # 0 /\ pc' = "send" /\ UNCHANGED <<fUnit, units>>
     \/ /\ fUnit = 0 /\ units < MaxUnits
        /\ units' = units + 1
        /\ \/ fUnit' = units + 1 /\ pc' = "send"
           \/ fUnit' \in {0, units + 1} /\ pc' = "reject"
  /\ UNCHANGED <<fReplay, fPubkey, fBlob, fCounter, keys, change_pin_requested, task,
                 pin, pinkeys, aeskey, world, unsettled>>

Document == IF task = "get" THEN "get_pin" ELSE "set_pin"

\* The request: signed with the unit key, and encrypted for the server with the ephemeral
\* key and the counter.
PinRequest(n) ==
  [n |-> n, document |-> Document, counter |-> pinkeys.counter, oracle |-> Oracle,
   unit |-> fUnit, pin |-> pin]

\* The reply to the current message is an http request for the server.
send_http_request_reply ==
  /\ pc = "send" /\ Cardinality(sent) < MaxRequests
  /\ LET n == Cardinality(sent) + 1 IN
     /\ sent' = sent \cup {PinRequest(n)}
     /\ pinkeys' = [pinkeys EXCEPT !.n = n]
  /\ unsettled' = (unsettled \/ Document = "set_pin")
  /\ pc' = "handle_pin"
  /\ UNCHANGED <<flash, keys, change_pin_requested, task, pin, aeskey, answers,
                 server, units>>

Mutant_any_answer_decrypts(a) == TRUE

\* Only an answer to this request can be decrypted with this ephemeral key.
decrypt_reply(a) == a.n = pinkeys.n

\* The next message.  `pin` without parameters is a failure of the network, which may be
\* tried again; `cancel` and anything that is not an answer to this request end the
\* interaction.  If the connection is lost the error reply has no addressee and an
\* assertion fails.
handle_pin ==
  /\ pc = "handle_pin"
  /\ \/ \E a \in answers :
          /\ decrypt_reply(a)
          /\ aeskey' = [key |-> a.key, pin |-> pin]
          /\ pc' = IF task = "get" THEN "load" ELSE "save"
     \/ /\ pc' \in {"retry", "reject", "restart"}
        /\ UNCHANGED aeskey
  /\ UNCHANGED <<flash, keys, change_pin_requested, task, pin, pinkeys, world, units, unsettled>>

\* The user decides whether to try again; a new request is made.
get_pinserver_aeskey ==
  /\ pc = "retry"
  /\ pc' \in {"handshake", "reject"}
  /\ UNCHANGED <<flash, keys, change_pin_requested, task, pin, pinkeys, aeskey,
                 world, units, unsettled>>

-----------------------------------------------------------------------------
(* get_pin_load_keys and set_pin_save_keys *)

Opens(aes) == fBlob.aes = aes

\* The wallet is decrypted.  A wrong key costs an attempt, the last one the wallet; the
\* wallet-erase PIN erases it and shuts down.  A passphrase may fail to give a wallet.
keychain_load ==
  /\ pc = "load"
  /\ \/ /\ Opens(aeskey)
        /\ fCounter' = 3 /\ UNCHANGED fBlob
        /\ \/ keys' = "loaded" /\ pc' = "change" /\ UNCHANGED <<pin, pinkeys, aeskey>>
           \/ keys' = "none" /\ pc' = "idle" /\ Wiped
     \/ /\ ~Opens(aeskey)
        /\ fCounter' = fCounter - 1
        /\ fBlob' = IF fCounter = 1 THEN None ELSE fBlob
        /\ pc' = "idle" /\ Wiped /\ UNCHANGED keys
     \/ /\ ~Opens(aeskey)
        /\ fBlob' = None /\ fCounter' = 0
        /\ pc' = "restart" /\ Wiped /\ UNCHANGED keys
  /\ UNCHANGED <<fReplay, fUnit, fPubkey, change_pin_requested, task, world, units, unsettled>>

\* The user may have asked for a new PIN, and confirms or not.
OfferChange ==
  /\ pc = "change"
  /\ \/ change_pin_requested /\ pc' = "enter" /\ task' = "change"
     \/ pc' = "ok" /\ UNCHANGED task
  /\ UNCHANGED <<flash, keys, change_pin_requested, pin, pinkeys, aeskey, world,
                 units, unsettled>>

Seal == [aes |-> aeskey, unit |-> fUnit, oracle |-> Oracle]

\* A new wallet is sealed with the server's new key (keychain_store).  If that fails it stays
\* unsaved, and the request is refused.
set_pin_save_keys ==
  /\ pc = "save" /\ task = "set"
  /\ \/ /\ fBlob' = Seal /\ fCounter' = 3
        /\ keys' = "loaded" /\ unsettled' = FALSE
        /\ pc' = "ok"
     \/ /\ pc' = "idle"
        /\ UNCHANGED <<fBlob, fCounter, keys, unsettled>>
  /\ Wiped
  /\ UNCHANGED <<fReplay, fUnit, fPubkey, change_pin_requested, task, world, units>>

\* The saved wallet is sealed again with the new key (keychain_reencrypt).  If that fails it
\* stays as it was, although the server has the new PIN.
ChangePin ==
  /\ pc = "save" /\ task = "change"
  /\ \/ fBlob' = Seal /\ fCounter' = 3 /\ unsettled' = FALSE
     \/ UNCHANGED <<fBlob, fCounter, unsettled>>
  /\ pc' = "ok"
  /\ Wiped
  /\ UNCHANGED <<fReplay, fUnit, fPubkey, keys, change_pin_requested, task, world, units>>

\* The login has succeeded.
ReplyOk ==
  /\ pc = "ok"
  /\ change_pin_requested' = FALSE
  /\ pc' = "idle" /\ Wiped
  /\ UNCHANGED <<flash, keys, task, world, units, unsettled>>

-----------------------------------------------------------------------------
(* The PIN server.  External: modelled from how pinclient.c and the tests use it. *)

Known(r) == server[r.oracle][r.unit]

\* Counters of a unit must increase with every request.
ReplayRefused(r) == Known(r) # None /\ r.counter <= Known(r).counter

\* set_pin creates a key; get_pin with the right PIN returns it, and otherwise a key that
\* opens nothing.
KeyFor(r) ==
  IF r.document = "set_pin" THEN r.n
  ELSE IF Known(r) # None /\ Known(r).pin = r.pin THEN Known(r).key ELSE 0

\* What the server then keeps of the unit.
Kept(r) ==
  IF r.document = "set_pin" THEN [pin |-> r.pin, key |-> r.n, counter |-> r.counter]
  ELSE IF Known(r) = None THEN None ELSE [Known(r) EXCEPT !.counter = r.counter]

Serve ==
  \E r \in sent :
    /\ ~ReplayRefused(r)
    /\ r.document = "get_pin" /\ Known(r) = None => [n |-> r.n, key |-> 0] \notin answers
    /\ answers' = answers \cup {[n |-> r.n, key |-> KeyFor(r)]}
    /\ server' = [server EXCEPT ![r.oracle][r.unit] = Kept(r)]
    /\ UNCHANGED <<flash, keys, change_pin_requested, pc, task, pin, pinkeys, aeskey,
                   sent, units, unsettled>>

-----------------------------------------------------------------------------
(* Menus and other requests *)

\* The menu of a locked device; or, from an open one, a login over QR codes is started.
handle_change_pin ==
  /\ pc = "idle" /\ keychain_has_pin
  /\ \/ change_pin_requested' \in BOOLEAN /\ UNCHANGED keys
     \/ keys = "loaded" /\ keys' = "none" /\ change_pin_requested' = TRUE
  /\ UNCHANGED <<flash, pc, task, pin, pinkeys, aeskey, world, units, unsettled>>

Mutant_pubkey_not_checked(key) == TRUE

\* While there is a wallet the key of the server must in effect stay the same.
PubkeyAllowed(key) ==
  keychain_has_pin => (IF key = None THEN Default ELSE key) = Oracle

\* New addresses, with a key or (None) without.  In either case, and in a reset, the unit's
\* private key is erased, to be created again when it is used.
storage_set_pinserver_details(key) ==
  /\ fPubkey' = IF key = None THEN fPubkey ELSE key
  /\ fUnit' = 0

storage_erase_pinserver_details ==
  fPubkey' = None /\ fUnit' = 0

\* What the user confirms is stored.
update_pinserver ==
  /\ pc = "idle"
  /\ \/ storage_set_pinserver_details(None)
     \/ \E key \in Oracles : PubkeyAllowed(key) /\ storage_set_pinserver_details(key)
     \/ PubkeyAllowed(None) /\ storage_erase_pinserver_details
  /\ UNCHANGED <<fReplay, fBlob, fCounter, keys, change_pin_requested, pc, task, pin,
                 pinkeys, aeskey, world, units, unsettled>>

\* The menu of a device without a wallet.
reset_pinserver ==
  /\ pc = "idle" /\ ~keychain_has_pin
  /\ storage_erase_pinserver_details
  /\ UNCHANGED <<fReplay, fBlob, fCounter, keys, change_pin_requested, pc, task, pin,
                 pinkeys, aeskey, world, units, unsettled>>

process_logout_request ==
  /\ pc = "idle"
  /\ keys' = "none"
  /\ UNCHANGED <<flash, change_pin_requested, pc, task, pin, pinkeys, aeskey, world,
                 units, unsettled>>

\* Volatile state after a restart.
Boot ==
  /\ keys' = "none" /\ change_pin_requested' = FALSE
  /\ pc' = "idle" /\ task' = "get" /\ Wiped

\* nvs_flash_erase: everything in flash goes.
storage_erase ==
  /\ pc = "idle"
  /\ fReplay' = 0 /\ fUnit' = 0 /\ fPubkey' = None /\ fBlob' = None /\ fCounter' = 0
  /\ Boot
  /\ UNCHANGED <<world, units, unsettled>>

\* A failed assertion, the idle timer or a loss of power.
Reboot ==
  /\ Boot
  /\ UNCHANGED <<flash, world, units, unsettled>>

Next ==
  \/ AuthLocked \/ AuthUnsaved \/ get_pin_get_aeskey \/ set_pin_get_aeskey \/ Abandon
  \/ generate_ephemeral_pinkeys \/ pin_get_unit_privatekey \/ send_http_request_reply
  \/ handle_pin \/ get_pinserver_aeskey
  \/ keychain_load \/ OfferChange \/ set_pin_save_keys \/ ChangePin \/ ReplyOk
  \/ Serve
  \/ handle_change_pin \/ update_pinserver \/ reset_pinserver \/ process_logout_request
  \/ storage_erase \/ Reboot

Spec == Init /\ [][Next]_vars

-----------------------------------------------------------------------------
(* Properties *)

\* Steps that ReplayCounterIncreases and UnlockAsksServer allow.
NewCountersAreLarger ==
  \A r \in sent' \ sent, q \in sent : q.unit = r.unit => q.counter < r.counter

UnlockIsAnswered ==
  keys # "loaded" /\ keys' = "loaded" =>
    \E a \in answers : a.n = pinkeys.n /\ a.key = aeskey.key

\* Every request carries a larger replay counter than all earlier ones of the same unit key,
\* through retries, failed commits, restarts, resets and changes of the server
\* (storage_get_replay_counter): otherwise the server takes a new request for a
\* replay, and a recorded request can be used again.
ReplayCounterIncreases == [][NewCountersAreLarger]_vars

\* A saved wallet belongs to the server the device talks to; and while its unit key is
\* there, the PIN last set is the one the wallet was sealed for and the server
\* gives the key that opens it - except between a set_pin and the next sealing.
\* Late, repeated and retried requests and answers cannot break it
\* (pinserver_interaction, get_pin_load_keys, update_pinserver).
OracleOpensWallet ==
  fBlob # None =>
    /\ fBlob.oracle = Oracle
    /\ fUnit = fBlob.unit /\ ~unsettled =>
         LET known == server[fBlob.oracle][fBlob.unit] IN
         /\ known # None
         /\ [key |-> known.key, pin |-> known.pin] = fBlob.aes

\* The wallet in flash is opened only with an answer that the server gave to the request in
\* progress: no recorded answer opens it, and an attempt at the PIN always costs
\* a request to the server (decrypt_reply).
UnlockAsksServer == [][UnlockIsAnswered]_vars

============================================================================

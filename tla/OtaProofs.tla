----------------------------- MODULE OtaProofs -----------------------------
(***************************************************************************)
(* Proofs about Ota, for any connections, kinds of update, sizes of header *)
(* and firmware, and any number of messages.                               *)
(***************************************************************************)
EXTENDS Ota, FiniteSetTheorems, TLAPS

(* TypeOK, in two parts: the context, and the rest. *)
CtxOK ==
  /\ joctx \in Contexts \cup {None}
  /\ (joctx = None) = (pc \in {"idle", "restart", "aborted"})

RestOK ==
  /\ pc \in {"idle", "receive", "feed", "bspatch", "finalize", "complete",
             "set_boot", "reply", "error", "restart", "aborted"}
  /\ current \in 0..MaxMessages
  /\ last_message_source \in Sources \cup {None}
  /\ partition \in Data
  /\ boot \in {"running", "update"}
  /\ taken \in Seq(Messages) /\ Len(taken) <= MaxMessages
  /\ replies \in Seq([id : 1..MaxMessages, to : Sources, ok : BOOLEAN])

\* While no error has happened the partition holds what the context counts, and its data is
\* as sound as what was received; the hash follows the one or the other.
ImageInv ==
  joctx # None =>
    /\ Success => joctx.fwwritten = partition.n
    /\ joctx.hash_type = "FILEDATA" => joctx.hashed = joctx.received
    /\ Success /\ joctx.hash_type = "FULLFWDATA" => joctx.hashed = partition
    /\ Success /\ Sound => partition.ok
    /\ joctx.received.n <= joctx.compressedsize
    /\ pc \notin {"feed", "error"} => joctx.packet = Nothing
    /\ pc = "feed" => joctx.packet.n <= joctx.compressedsize - joctx.received.n
    /\ joctx.kind = "ota" => joctx.fwwritten <= MaxFirmware + 1
    /\ joctx.kind = "ota_delta" => joctx.fwwritten <= joctx.read
    /\ partition.n <= MaxFirmware + 2
    /\ joctx.kind = "ota_delta" => partition.n <= joctx.read

\* What is known in each step: where there may be an error, and what was confirmed.
StepInv ==
  /\ pc \in {"feed", "complete", "set_boot", "reply"} => Success
  /\ joctx # None /\ joctx.kind = "ota" /\ pc # "error" => Success
  /\ joctx # None /\ joctx.kind = "ota" => pc # "bspatch"
  /\ pc = "error" => ~Success
  /\ pc \in {"complete", "set_boot"} => joctx.confirmed
  /\ pc = "set_boot" => partition = [n |-> joctx.firmwaresize, ok |-> TRUE]
  /\ pc = "reply" => boot = "update"

\* Messages are answered in the order in which they come.
InOrder == \A i \in 1..Len(replies) : replies[i].id = i
AllAnswered == Len(replies) = Len(taken)
OneInHand == Len(taken) = Len(replies) + 1

\* All were answered, and the request of a delta update a second time.
RequestAgain ==
  /\ Len(replies) = Len(taken) + 1 /\ Len(taken) >= 1
  /\ taken[1].method = "ota_delta"
  /\ \A i \in 1..Len(taken) : replies[i].id = i
  /\ replies[Len(replies)].id = 1

\* Which message is in hand, and by what it will be answered.
ReplyInv ==
  /\ ~InOrder => pc = "idle" /\ RequestAgain
  /\ InOrder => Len(replies) <= Len(taken)
  /\ pc = "idle" /\ InOrder => AllAnswered
  /\ joctx # None => Len(taken) >= 1 /\ taken[1].method = joctx.kind
  /\ pc \in {"receive", "bspatch", "finalize", "complete"} =>
       joctx.id = 0 /\ AllAnswered /\ current = 1
  /\ pc = "feed" =>
       joctx.id = Len(taken) /\ OneInHand /\ current = 1 /\ taken[Len(taken)].method = "ota_data"
  /\ pc \in {"set_boot", "reply"} => joctx.id = 0 /\ current = Len(taken) /\ OneInHand
  /\ pc = "error" =>
       \/ joctx.id = Len(taken) /\ OneInHand
       \/ joctx.id = 0 /\ current = Len(taken) /\ OneInHand
       \/ joctx.id = 0 /\ current = 1 /\ AllAnswered /\ joctx.kind = "ota_delta"
       \/ joctx.id = 0 /\ current = 0

OtaInv == CtxOK /\ RestOK /\ ImageInv /\ StepInv /\ ReplyInv

(* The fields that a change of the status leaves alone. *)
SameFields(d, c) ==
  /\ d.kind = c.kind /\ d.hash_type = c.hash_type /\ d.source = c.source
  /\ d.firmwaresize = c.firmwaresize /\ d.compressedsize = c.compressedsize
  /\ d.uncompressedsize = c.uncompressedsize
  /\ d.received = c.received /\ d.read = c.read /\ d.fwwritten = c.fwwritten
  /\ d.hashed = c.hashed /\ d.confirmed = c.confirmed

(* What it means to be a context, field by field. *)
Typed(c) ==
  /\ c # None
  /\ c.kind \in Kinds /\ c.kind \in {"ota", "ota_delta"} /\ c.source \in Sources
  /\ c.hash_type \in {"FILEDATA", "FULLFWDATA"}
  /\ c.id \in 0..MaxMessages /\ c.status \in Statuses
  /\ c.packet \in Data /\ c.received \in Data /\ c.hashed \in Data
  /\ c.packet.n \in Nat /\ c.received.n \in Nat /\ c.hashed.n \in Nat
  /\ c.received.n <= MaxFirmware + 2 /\ c.hashed.n <= MaxFirmware + 2
  /\ c.packet.ok \in BOOLEAN /\ c.received.ok \in BOOLEAN
  /\ c.firmwaresize \in Nat /\ c.compressedsize \in Nat /\ c.uncompressedsize \in Nat
  /\ c.compressedsize <= MaxFirmware + 2
  /\ c.read \in Nat /\ c.read <= MaxFirmware + 2 /\ c.fwwritten \in Nat
  /\ c.confirmed \in BOOLEAN

LEMMA ContextFields ==
  ASSUME NEW c \in Contexts
  PROVE  Typed(c)
BY KindAssumption, NoneAssumption, SizeAssumption DEF Typed, Contexts, Data, Sizes

LEMMA StatusSet ==
  ASSUME NEW c \in Contexts, NEW s \in Statuses
  PROVE  LET d == [c EXCEPT !.status = s] IN
         /\ d \in Contexts /\ d.status = s
         /\ d.id = c.id /\ d.packet = c.packet /\ SameFields(d, c)
BY DEF Contexts, SameFields

LEMMA PacketSet ==
  ASSUME NEW c \in Contexts, NEW k \in 0..MaxMessages, NEW p \in Data
  PROVE  LET d == [c EXCEPT !.id = k, !.packet = p] IN
         /\ d \in Contexts /\ d.id = k /\ d.packet = p /\ d.status = c.status
         /\ SameFields(d, c)
BY DEF Contexts, SameFields

LEMMA ReadSet ==
  ASSUME NEW c \in Contexts, NEW n \in Nat, c.read + n <= MaxFirmware + 2
  PROVE  LET d == [c EXCEPT !.read = @ + n] IN
         /\ d \in Contexts /\ d.read = c.read + n
         /\ d.id = c.id /\ d.packet = c.packet /\ d.status = c.status
         /\ d.kind = c.kind /\ d.hash_type = c.hash_type /\ d.compressedsize = c.compressedsize
         /\ d.received = c.received /\ d.fwwritten = c.fwwritten /\ d.hashed = c.hashed
         /\ d.firmwaresize = c.firmwaresize /\ d.confirmed = c.confirmed
<1>1. c.read + n \in Sizes
  BY SizeAssumption DEF Contexts, Sizes
<1> QED BY <1>1 DEF Contexts

LEMMA PlusType ==
  ASSUME NEW d \in Data, NEW n \in Nat, NEW ok \in BOOLEAN, d.n + n <= MaxFirmware + 2
  PROVE  /\ Plus(d, n, ok) \in Data
         /\ Plus(d, n, ok).n = d.n + n
         /\ Plus(d, n, ok).ok = (d.ok /\ ok)
<1>1. d.n + n \in Sizes
  BY SizeAssumption DEF Data, Sizes
<1>2. (d.ok /\ ok) \in BOOLEAN
  OBVIOUS
<1>3. [n |-> d.n + n, ok |-> d.ok /\ ok] \in Data
  BY <1>1, <1>2 DEF Data
<1>4. Plus(d, n, ok).n = d.n + n
  BY DEF Plus
<1>5. Plus(d, n, ok).ok = (d.ok /\ ok)
  BY DEF Plus
<1> QED BY <1>3, <1>4, <1>5 DEF Plus

(* What a writer makes of the context, if it succeeds. *)
LEMMA WrittenType ==
  ASSUME NEW c \in Contexts, NEW n \in Nat, NEW ok \in BOOLEAN,
         c.fwwritten + n <= MaxFirmware + 2,
         c.hash_type = "FULLFWDATA" => c.hashed.n + n <= MaxFirmware + 2
  PROVE  LET d == Written(Confirmed(c, n), n, ok) IN
         /\ d \in Contexts
         /\ d.fwwritten = c.fwwritten + n
         /\ d.hashed = IF c.hash_type = "FULLFWDATA" THEN Plus(c.hashed, n, ok) ELSE c.hashed
         /\ d.id = c.id /\ d.packet = c.packet /\ d.status = c.status
         /\ d.kind = c.kind /\ d.hash_type = c.hash_type /\ d.compressedsize = c.compressedsize
         /\ d.received = c.received /\ d.read = c.read /\ d.firmwaresize = c.firmwaresize
<1> DEFINE b == Confirmed(c, n)
<1>1. (c.confirmed \/ NeedsValidation(n)) \in BOOLEAN
  BY DEF Contexts, NeedsValidation
<1>2. /\ b \in Contexts /\ b.fwwritten = c.fwwritten /\ b.hashed = c.hashed
      /\ b.id = c.id /\ b.packet = c.packet /\ b.status = c.status
      /\ b.kind = c.kind /\ b.hash_type = c.hash_type /\ b.compressedsize = c.compressedsize
      /\ b.received = c.received /\ b.read = c.read /\ b.firmwaresize = c.firmwaresize
  BY <1>1 DEF Confirmed, Contexts
<1> HIDE DEF b
<1>3. (IF b.hash_type = "FULLFWDATA" THEN Plus(b.hashed, n, ok) ELSE b.hashed) \in Data
  BY <1>2, PlusType DEF Contexts
<1>4. b.fwwritten + n \in Sizes
  BY <1>2, SizeAssumption DEF Contexts, Sizes
<1>5. LET d == Written(b, n, ok) IN
      /\ d \in Contexts /\ d.fwwritten = b.fwwritten + n
      /\ d.hashed = IF b.hash_type = "FULLFWDATA" THEN Plus(b.hashed, n, ok) ELSE b.hashed
      /\ d.id = b.id /\ d.packet = b.packet /\ d.status = b.status
      /\ d.kind = b.kind /\ d.hash_type = b.hash_type /\ d.compressedsize = b.compressedsize
      /\ d.received = b.received /\ d.read = b.read /\ d.firmwaresize = b.firmwaresize
  BY <1>2, <1>3, <1>4 DEF Written, Contexts
<1> QED BY <1>2, <1>5 DEF b

(* A message is taken. *)
LEMMA Takes ==
  ASSUME RestOK, NEW method \in Methods, NEW source \in Sources, Take(method, source)
  PROVE  /\ taken' \in Seq(Messages) /\ Len(taken') = Len(taken) + 1
         /\ Len(taken') \in 1..MaxMessages
         /\ \A i \in 1..Len(taken) : taken'[i] = taken[i]
         /\ taken'[Len(taken')].method = method /\ taken'[Len(taken')].source = source
BY SizeAssumption DEF RestOK, Take, Messages

(* A message is answered. *)
LEMMA Answers ==
  ASSUME RestOK, NEW id \in 1..MaxMessages, NEW to \in Sources, NEW ok \in BOOLEAN,
         Reply(id, to, ok)
  PROVE  /\ replies' \in Seq([id : 1..MaxMessages, to : Sources, ok : BOOLEAN])
         /\ Len(replies) \in Nat /\ Len(replies') = Len(replies) + 1
         /\ \A i \in 1..Len(replies) : replies'[i] = replies[i]
         /\ replies'[Len(replies')].id = id
         /\ InOrder /\ id = Len(replies') => InOrder'
<1> DEFINE r == [id |-> id, to |-> to, ok |-> ok]
<1>1. r \in [id : 1..MaxMessages, to : Sources, ok : BOOLEAN]
  OBVIOUS
<1>2. replies' = Append(replies, r)
  BY DEF Reply
<1>3. r.id = id
  OBVIOUS
<1> HIDE DEF r
<1>4. /\ replies' \in Seq([id : 1..MaxMessages, to : Sources, ok : BOOLEAN])
      /\ Len(replies) \in Nat /\ Len(replies') = Len(replies) + 1
      /\ \A i \in 1..Len(replies) : replies'[i] = replies[i]
      /\ replies'[Len(replies')] = r
  BY <1>1, <1>2 DEF RestOK
<1> QED BY <1>3, <1>4 DEF InOrder


(* A step that changes only the status of the context, which stays an error if it was one. *)
LEMMA StatusStep ==
  ASSUME OtaInv, joctx # None, NEW s \in Statuses, joctx' = [joctx EXCEPT !.status = s],
         s = "SUCCESS" => Success, partition' = partition,
         pc' = "feed" => pc = "feed", pc' \notin {"feed", "error"} => joctx.packet = Nothing
  PROVE  /\ joctx' \in Contexts /\ joctx' # None /\ joctx'.status = s
         /\ joctx'.id = joctx.id /\ SameFields(joctx', joctx) /\ ImageInv'
<1>1. joctx \in Contexts
  BY DEF OtaInv, CtxOK
<1>2. /\ joctx' \in Contexts /\ joctx'.status = s /\ joctx'.id = joctx.id
      /\ joctx'.packet = joctx.packet /\ SameFields(joctx', joctx)
  BY <1>1, StatusSet
<1>3. joctx' # None
  BY <1>2, NoneAssumption
<1>4. ImageInv'
  BY <1>1, <1>2, <1>3 DEF OtaInv, ImageInv, SameFields, Success, Sound
<1> QED BY <1>2, <1>3, <1>4

(* A piece of firmware is written; the context records it unless validation failed. *)
LEMMA WriteStep ==
  ASSUME OtaInv, joctx # None, pc \in {"feed", "bspatch"}, Success,
         NEW n \in 1..MaxFirmware, NEW c \in {joctx, Written(Confirmed(joctx, n), n, Sound)},
         joctx.kind = "ota" => joctx.fwwritten + n <= MaxFirmware + 1,
         joctx.kind = "ota_delta" => joctx.read > joctx.fwwritten + n,
         partition' = Plus(partition, n, Sound), pc' \in {pc, "error"},
         \/ joctx' = c /\ c = Written(Confirmed(joctx, n), n, Sound)
         \/ \E s \in Statuses : s # "SUCCESS" /\ joctx' = [c EXCEPT !.status = s]
  PROVE  /\ joctx' \in Contexts /\ joctx' # None /\ partition' \in Data
         /\ joctx'.id = joctx.id /\ joctx'.kind = joctx.kind
         /\ joctx' = c \/ joctx'.status # "SUCCESS"
         /\ c.status = "SUCCESS"
         /\ ImageInv'
<1> DEFINE w == Written(Confirmed(joctx, n), n, Sound)
<1>1. joctx \in Contexts /\ Typed(joctx)
  BY ContextFields DEF OtaInv, CtxOK
<1>2. /\ partition \in Data /\ partition.n = joctx.fwwritten
      /\ joctx.hash_type = "FULLFWDATA" => joctx.hashed = partition
      /\ joctx.hash_type = "FILEDATA" => joctx.hashed = joctx.received
      /\ Sound => partition.ok
      /\ joctx.received.n <= joctx.compressedsize
      /\ joctx.kind = "ota_delta" => joctx.fwwritten <= joctx.read
  BY DEF OtaInv, ImageInv, RestOK
<1>3. /\ n \in Nat /\ joctx.fwwritten + n <= MaxFirmware + 2 /\ Sound \in BOOLEAN
      /\ joctx.fwwritten \in Nat
  BY <1>1, SizeAssumption DEF Typed, Sound
<1>4. /\ partition' \in Data /\ partition'.n = partition.n + n
      /\ partition'.ok = (partition.ok /\ Sound)
  BY <1>2, <1>3, PlusType
<1>5. /\ w \in Contexts
      /\ w.fwwritten = joctx.fwwritten + n
      /\ w.hashed = IF joctx.hash_type = "FULLFWDATA" THEN Plus(joctx.hashed, n, Sound)
                    ELSE joctx.hashed
      /\ w.id = joctx.id /\ w.packet = joctx.packet /\ w.status = joctx.status
      /\ w.kind = joctx.kind /\ w.hash_type = joctx.hash_type
      /\ w.compressedsize = joctx.compressedsize
      /\ w.received = joctx.received /\ w.read = joctx.read
      /\ w.firmwaresize = joctx.firmwaresize
  BY <1>1, <1>2, <1>3, WrittenType
<1> HIDE DEF w
<1>6. /\ joctx' \in Contexts /\ SameFields(joctx', c)
      /\ joctx'.id = c.id /\ joctx'.packet = c.packet
      /\ joctx' = w \/ joctx'.status # "SUCCESS"
      /\ joctx' = c \/ joctx'.status # "SUCCESS"
  <2>1. c \in Contexts
    BY <1>1, <1>5 DEF w
  <2>2. CASE joctx' = c /\ c = w
    BY <2>1, <2>2 DEF SameFields
  <2>3. CASE \E s \in Statuses : s # "SUCCESS" /\ joctx' = [c EXCEPT !.status = s]
    <3>1. PICK s \in Statuses : s # "SUCCESS" /\ joctx' = [c EXCEPT !.status = s]
      BY <2>3
    <3> QED BY <2>1, <3>1, StatusSet
  <2> QED BY <2>2, <2>3 DEF w
<1>7. joctx' # None
  BY <1>6, NoneAssumption
<1>8. c = joctx \/ c = w
  BY DEF w
<1>9. /\ joctx'.id = joctx.id /\ joctx'.kind = joctx.kind /\ joctx'.packet = joctx.packet
      /\ joctx'.hash_type = joctx.hash_type /\ joctx'.received = joctx.received
      /\ joctx'.compressedsize = joctx.compressedsize /\ joctx'.read = joctx.read
      /\ joctx'.fwwritten \in {joctx.fwwritten, joctx.fwwritten + n}
      /\ joctx.hash_type = "FILEDATA" => joctx'.hashed = joctx.hashed
      /\ c.status = "SUCCESS"
  BY <1>5, <1>6, <1>8 DEF SameFields, Success
<1>10. joctx'.status = "SUCCESS" =>
         /\ joctx'.fwwritten = joctx.fwwritten + n
         /\ joctx.hash_type = "FULLFWDATA" => joctx'.hashed = partition'
  BY <1>2, <1>5, <1>6
<1>11. Sound' = Sound
  BY <1>9 DEF Sound
<1>12. joctx.kind \in {"ota", "ota_delta"} /\ joctx.read \in Nat /\ joctx.read <= MaxFirmware + 2
  BY <1>1 DEF Typed
<1>13. /\ joctx'.status = "SUCCESS" => joctx'.fwwritten = partition'.n
       /\ joctx'.status = "SUCCESS" /\ Sound' => partition'.ok
       /\ partition'.n <= MaxFirmware + 2
       /\ joctx.kind = "ota_delta" => partition'.n <= joctx.read /\ joctx'.fwwritten <= joctx.read
       /\ joctx.kind = "ota" => joctx'.fwwritten <= MaxFirmware + 1
  BY <1>2, <1>3, <1>4, <1>9, <1>10, <1>11, <1>12, SizeAssumption
<1>14. ImageInv'
  BY <1>2, <1>7, <1>9, <1>10, <1>13 DEF ImageInv, Success, OtaInv
<1> QED BY <1>4, <1>6, <1>7, <1>9, <1>14

(* Every step preserves the invariant. *)
LEMMA OtaStep == OtaInv /\ Next => OtaInv'
<1> SUFFICES ASSUME OtaInv, Next PROVE OtaInv'
  OBVIOUS
<1> USE SizeAssumption, NoneAssumption, KindAssumption
    DEF OtaInv, CtxOK, RestOK, StepInv, ReplyInv, Success
<1>0. joctx # None => Typed(joctx)
  BY ContextFields
<1>a. \A k \in 1..Len(taken) : taken[k].source \in Sources
  <2>1. \A k \in 1..Len(taken) : taken[k] \in Messages
    OBVIOUS
  <2> QED BY <2>1 DEF Messages
<1>1. CASE UnexpectedMethod
  <2>1. PICK method \in {"ota_data", "ota_complete"}, source \in Sources :
          /\ Dispatch(method, source, FALSE)
          /\ UNCHANGED <<pc, joctx, current, partition, boot>>
    BY <1>1 DEF UnexpectedMethod
  <2>2. CtxOK' /\ RestOK'
    BY <2>1 DEF Dispatch, Messages, Methods
  <2>3. ImageInv' /\ StepInv' /\ ReplyInv'
    BY <2>1 DEF Dispatch, ImageInv, InOrder, AllAnswered
  <2> QED BY <2>2, <2>3
<1>2. CASE ota_init
  <2>1. PICK p \in Parameters, source \in Sources :
          /\ Dispatch(p.kind, source, TRUE) \/ Dispatch(p.kind, source, FALSE)
          /\ UNCHANGED boot
          /\ \/ /\ Dispatch(p.kind, source, TRUE)
                /\ joctx' =
                     [kind |-> p.kind, hash_type |-> p.hash_type, source |-> source,
                      id |-> 0, status |-> "SUCCESS", packet |-> Nothing,
                      firmwaresize |-> p.fwsize, compressedsize |-> p.cmpsize,
                      uncompressedsize |-> IF p.kind = "ota" THEN p.fwsize ELSE p.patchsize,
                      received |-> Nothing, read |-> 0, fwwritten |-> 0, hashed |-> Nothing,
                      confirmed |-> FALSE]
                /\ current' = 1
                /\ partition' = Nothing
                /\ pc' = IF p.kind = "ota" THEN "receive" ELSE "bspatch"
             \/ UNCHANGED <<pc, joctx, current, partition>>
    BY <1>2 DEF ota_init
  <2>2. PICK ok \in BOOLEAN : Dispatch(p.kind, source, ok)
    BY <2>1
  <2>3. /\ pc = "idle" /\ joctx = None /\ last_message_source' = source
        /\ p.kind \in Kinds /\ p.kind \in {"ota", "ota_delta"}
    BY <2>2 DEF Dispatch, Parameters
  <2>4. /\ taken' \in Seq(Messages) /\ Len(taken') = 1 /\ taken'[1].method = p.kind
    BY <2>2, <2>3 DEF Dispatch, Messages, Methods
  <2>5. /\ replies' \in Seq([id : 1..MaxMessages, to : Sources, ok : BOOLEAN])
        /\ Len(replies') = 1 /\ replies'[1].id = 1
    BY <2>2 DEF Dispatch
  <2>6. CASE UNCHANGED <<pc, joctx, current, partition>>
    <3>1. CtxOK' /\ RestOK'
      BY <2>1, <2>3, <2>4, <2>5, <2>6
    <3>2. ImageInv' /\ StepInv' /\ ReplyInv'
      BY <2>3, <2>4, <2>5, <2>6 DEF ImageInv, InOrder, AllAnswered
    <3> QED BY <3>1, <3>2
  <2>7. CASE ~UNCHANGED <<pc, joctx, current, partition>>
    <3>1. /\ joctx' =
               [kind |-> p.kind, hash_type |-> p.hash_type, source |-> source,
                id |-> 0, status |-> "SUCCESS", packet |-> Nothing,
                firmwaresize |-> p.fwsize, compressedsize |-> p.cmpsize,
                uncompressedsize |-> IF p.kind = "ota" THEN p.fwsize ELSE p.patchsize,
                received |-> Nothing, read |-> 0, fwwritten |-> 0, hashed |-> Nothing,
                confirmed |-> FALSE]
          /\ current' = 1 /\ partition' = Nothing
          /\ pc' = IF p.kind = "ota" THEN "receive" ELSE "bspatch"
      BY <2>1, <2>7
    <3>2. Nothing \in Data /\ Nothing.n = 0 /\ Nothing.ok = TRUE
      BY DEF Nothing, Data, Sizes
    <3>3. joctx' \in Contexts
      BY <2>3, <3>1, <3>2 DEF Contexts, Parameters, Statuses, Sizes
    <3>4. /\ joctx' # None /\ joctx'.kind = p.kind /\ joctx'.id = 0 /\ joctx'.status = "SUCCESS"
          /\ joctx'.packet = Nothing /\ joctx'.received = Nothing /\ joctx'.hashed = Nothing
          /\ joctx'.read = 0 /\ joctx'.fwwritten = 0
          /\ joctx'.compressedsize \in Nat
      <4>1. /\ joctx'.kind = p.kind /\ joctx'.id = 0 /\ joctx'.status = "SUCCESS"
            /\ joctx'.packet = Nothing /\ joctx'.received = Nothing /\ joctx'.hashed = Nothing
            /\ joctx'.read = 0 /\ joctx'.fwwritten = 0
        BY <3>1
      <4>2. joctx'.compressedsize \in Nat /\ joctx' # None
        BY <3>3, ContextFields DEF Typed
      <4> QED BY <4>1, <4>2
    <3>5. CtxOK' /\ RestOK'
      BY <2>1, <2>3, <2>4, <2>5, <3>1, <3>2, <3>3, <3>4
    <3>6. ImageInv'
      BY <2>3, <3>1, <3>2, <3>4 DEF ImageInv, Sound
    <3>7. StepInv' /\ ReplyInv'
      BY <2>3, <2>4, <2>5, <3>1, <3>4 DEF InOrder, AllAnswered
    <3> QED BY <3>5, <3>6, <3>7
  <2> QED BY <2>6, <2>7
<1>3. CASE handle_in_bin_data
  <2>1. PICK method \in {"ota_data", "ota_complete", "other"}, source \in Sources,
             n \in 0..MaxFirmware, ok \in BOOLEAN :
          LET id == Len(taken')
              c == [joctx EXCEPT !.id = id, !.packet = [n |-> n, ok |-> ok]]
              bad == n = 0 \/ method # "ota_data" \/ source # joctx.source
                       \/ n > joctx.compressedsize - joctx.received.n
          IN
          /\ pc = "receive"
          /\ n = 0 => ok
          /\ Take(method, source)
          /\ IF ~Success THEN Fail(c, joctx.status)
             ELSE IF bad THEN Fail(c, "BADDATA")
             ELSE joctx' = c /\ pc' = "feed"
          /\ UNCHANGED <<current, last_message_source, partition, boot, replies>>
    BY <1>3 DEF handle_in_bin_data
  <2> DEFINE p == [n |-> n, ok |-> ok]
             c == [joctx EXCEPT !.id = Len(taken'), !.packet = p]
  <2>2. method \in Methods /\ p \in Data /\ p.n = n /\ p.ok = ok /\ joctx \in Contexts
    BY <2>1 DEF Methods, Data, Sizes
  <2> HIDE DEF p
  <2>a. /\ pc = "receive" /\ Take(method, source)
        /\ UNCHANGED <<current, last_message_source, partition, boot, replies>>
    BY <2>1
  <2>3. /\ taken' \in Seq(Messages) /\ Len(taken') = Len(taken) + 1
        /\ Len(taken') \in 1..MaxMessages
        /\ \A i \in 1..Len(taken) : taken'[i] = taken[i]
        /\ taken'[Len(taken')].method = method
    BY <2>a, <2>2, Takes
  <2>4. /\ c \in Contexts /\ c.id = Len(taken') /\ c.packet = p /\ c.status = joctx.status
        /\ SameFields(c, joctx)
    <3>1. Len(taken') \in 0..MaxMessages
      BY <2>3
    <3> QED BY <2>2, <3>1, PacketSet
  <2>b. IF ~Success THEN Fail(c, joctx.status)
        ELSE IF n = 0 \/ method # "ota_data" \/ source # joctx.source
                  \/ n > joctx.compressedsize - joctx.received.n
        THEN Fail(c, "BADDATA")
        ELSE joctx' = c /\ pc' = "feed"
    BY <2>1, Zenon DEF p
  <2> HIDE DEF c
  <2>5. \/ /\ \E s \in Statuses : s # "SUCCESS" /\ joctx' = [c EXCEPT !.status = s]
           /\ pc' = "error"
        \/ /\ joctx' = c /\ pc' = "feed" /\ Success /\ method = "ota_data"
           /\ n <= joctx.compressedsize - joctx.received.n
    <3>1. joctx.status \in Statuses /\ "BADDATA" \in Statuses
      BY <1>0, <2>2 DEF Typed, Statuses
    <3>2. CASE ~Success
      BY <2>b, <3>1, <3>2, Zenon DEF Fail
    <3>3. CASE Success /\ pc' = "error"
      BY <2>b, <3>1, <3>3, Zenon DEF Fail
    <3>4. CASE Success /\ pc' # "error"
      <4>1. /\ joctx' = c /\ pc' = "feed" /\ method = "ota_data"
            /\ ~(n > joctx.compressedsize - joctx.received.n)
        BY <2>b, <3>4, Zenon DEF Fail
      <4>2. n <= joctx.compressedsize - joctx.received.n
        BY <1>0, <2>2, <4>1 DEF Typed
      <4> QED BY <3>4, <4>1, <4>2, Zenon
    <3> QED BY <3>2, <3>3, <3>4
  <2>6. /\ joctx' \in Contexts /\ joctx' # None /\ joctx'.id = Len(taken')
        /\ joctx'.packet = p /\ SameFields(joctx', joctx)
        /\ \/ joctx'.status # "SUCCESS" /\ pc' = "error"
           \/ /\ pc' = "feed" /\ joctx'.status = "SUCCESS" /\ Success /\ method = "ota_data"
              /\ n <= joctx.compressedsize - joctx.received.n
    <3>1. CASE joctx' = c /\ pc' = "feed"
      BY <2>4, <2>5, <3>1
    <3>2. CASE pc' = "error"
      <4>1. PICK s \in Statuses : s # "SUCCESS" /\ joctx' = [c EXCEPT !.status = s]
        BY <2>5, <3>2
      <4>2. /\ joctx' \in Contexts /\ joctx'.status = s /\ joctx'.id = c.id
            /\ joctx'.packet = c.packet /\ SameFields(joctx', c)
        BY <2>4, <4>1, StatusSet
      <4> QED BY <2>4, <3>2, <4>1, <4>2 DEF SameFields
    <3> QED BY <2>5, <3>1, <3>2
  <2>7. CtxOK' /\ RestOK'
    BY <2>a, <2>3, <2>6
  <2>8. ImageInv'
    BY <1>0, <2>a, <2>2, <2>6 DEF ImageInv, Sound, SameFields, Nothing, Typed
  <2>9. StepInv'
    BY <2>a, <2>6
  <2>10. ReplyInv'
    BY <2>a, <2>3, <2>6 DEF InOrder, AllAnswered, OneInHand, RequestAgain, SameFields
  <2> QED BY <2>7, <2>8, <2>9, <2>10
<1>4. CASE LostAwaitingData
  <2>1. CtxOK' /\ RestOK' /\ StepInv' /\ ReplyInv'
    BY <1>4 DEF LostAwaitingData, InOrder, AllAnswered, OneInHand, RequestAgain
  <2>2. ImageInv'
    BY <1>4 DEF LostAwaitingData, ImageInv, Sound
  <2> QED BY <2>1, <2>2
<1>5. CASE PacketDone
  <2> DEFINE received == Plus(joctx.received, joctx.packet.n, joctx.packet.ok)
             hashed == IF joctx.hash_type = "FILEDATA"
                       THEN Plus(joctx.hashed, joctx.packet.n, joctx.packet.ok) ELSE joctx.hashed
  <2>1. /\ pc = "feed" /\ Reply(joctx.id, joctx.source, TRUE)
        /\ joctx' = [joctx EXCEPT !.id = 0, !.packet = Nothing, !.received = received,
                                  !.hashed = hashed]
        /\ pc' = IF joctx.kind = "ota_delta" THEN "bspatch"
                 ELSE IF received.n < joctx.compressedsize THEN "receive" ELSE "finalize"
        /\ UNCHANGED <<current, last_message_source, partition, boot, taken>>
    BY <1>5 DEF PacketDone
  <2>2. joctx \in Contexts /\ Typed(joctx)
    BY <1>0, <2>1
  <2>3. /\ joctx.packet.n <= joctx.compressedsize - joctx.received.n
        /\ joctx.hash_type = "FILEDATA" => joctx.hashed = joctx.received
    BY <2>1, <2>2 DEF ImageInv, Typed
  <2>4. /\ received \in Data /\ received.n = joctx.received.n + joctx.packet.n
        /\ received.ok = (joctx.received.ok /\ joctx.packet.ok)
    <3>a. /\ joctx.received.n \in Nat /\ joctx.packet.n \in Nat
          /\ joctx.compressedsize \in Nat /\ joctx.compressedsize <= MaxFirmware + 2
      BY <2>2, Zenon DEF Typed
    <3>1. joctx.received.n + joctx.packet.n <= MaxFirmware + 2
      <4> HIDE DEF OtaInv, CtxOK, RestOK, StepInv, ReplyInv, Success
      <4> QED BY <2>3, <3>a, SMTT(30)
    <3>2. joctx.received \in Data /\ joctx.packet.n \in Nat /\ joctx.packet.ok \in BOOLEAN
      BY <2>2, Zenon DEF Typed
    <3> QED BY <3>1, <3>2, PlusType
  <2>5. hashed \in Data /\ hashed = IF joctx.hash_type = "FILEDATA" THEN received ELSE joctx.hashed
    BY <2>2, <2>3, <2>4 DEF Typed
  <2> HIDE DEF received, hashed
  <2>6. /\ joctx' \in Contexts /\ joctx'.id = 0 /\ joctx'.packet = Nothing
        /\ joctx'.received = received /\ joctx'.hashed = hashed
        /\ joctx'.status = joctx.status /\ joctx'.kind = joctx.kind
        /\ joctx'.hash_type = joctx.hash_type
        /\ joctx'.compressedsize = joctx.compressedsize /\ joctx'.read = joctx.read
        /\ joctx'.fwwritten = joctx.fwwritten
    <3>1. joctx' = [joctx EXCEPT !.id = 0, !.packet = Nothing, !.received = received,
                                 !.hashed = hashed]
      BY <2>1
    <3>2. joctx \in Contexts /\ received \in Data /\ hashed \in Data
      BY <2>2, <2>4, <2>5
    <3>3. Nothing \in Data /\ 0 \in 0..MaxMessages
      BY DEF Nothing, Data, Sizes
    <3> DEFINE b == [joctx EXCEPT !.id = 0, !.packet = Nothing]
    <3>4. /\ b \in Contexts /\ b.id = 0 /\ b.packet = Nothing /\ b.status = joctx.status
          /\ SameFields(b, joctx)
      BY <3>2, <3>3, PacketSet
    <3>5. joctx' = [b EXCEPT !.received = received, !.hashed = hashed]
      BY <3>1
    <3> HIDE DEF b
    <3>6. /\ joctx' \in Contexts /\ joctx'.id = b.id /\ joctx'.packet = b.packet
          /\ joctx'.received = received /\ joctx'.hashed = hashed
          /\ joctx'.status = b.status /\ joctx'.kind = b.kind /\ joctx'.hash_type = b.hash_type
          /\ joctx'.compressedsize = b.compressedsize /\ joctx'.read = b.read
          /\ joctx'.fwwritten = b.fwwritten
      BY <3>2, <3>4, <3>5 DEF Contexts
    <3> QED BY <3>4, <3>6 DEF SameFields
  <2>7. joctx' # None
    BY <2>6
  <2>8. joctx.id = Len(taken) /\ OneInHand /\ InOrder /\ joctx.id \in 1..MaxMessages
    <3>1. joctx.id = Len(taken) /\ OneInHand /\ InOrder /\ joctx.id \in 0..MaxMessages
      BY <2>1, <2>2, Zenon DEF Typed
    <3>2. Len(replies) \in Nat
      BY SMTT(30)
    <3> HIDE DEF OtaInv, CtxOK, RestOK, StepInv, ReplyInv, Success
    <3> QED BY <3>1, <3>2, SMTT(30) DEF OneInHand
  <2>9. /\ replies' \in Seq([id : 1..MaxMessages, to : Sources, ok : BOOLEAN])
        /\ Len(replies') = Len(replies) + 1 /\ Len(replies) \in Nat
        /\ joctx.id = Len(replies') => InOrder'
    <3>1. joctx.source \in Sources
      BY <2>2 DEF Typed
    <3>2. Reply(joctx.id, joctx.source, TRUE)
      BY <2>1
    <3> QED BY <2>8, <3>1, <3>2, Answers
  <2>10. pc' \in {"bspatch", "receive", "finalize"} /\ (pc' = "bspatch" => joctx.kind = "ota_delta")
    BY <2>1
  <2>11. UNCHANGED <<current, last_message_source, partition, boot, taken>> /\ pc = "feed"
    BY <2>1
  <2>12. CtxOK' /\ RestOK'
    BY <2>6, <2>7, <2>9, <2>10, <2>11
  <2>13. ImageInv'
    <3>1. Sound' => Sound
      BY <2>4, <2>6 DEF Sound
    <3>2. received.n \in Nat /\ received.n <= joctx.compressedsize
      <4>1. /\ joctx.received.n \in Nat /\ joctx.packet.n \in Nat
            /\ joctx.compressedsize \in Nat
        BY <2>2, Zenon DEF Typed
      <4> HIDE DEF OtaInv, CtxOK, RestOK, StepInv, ReplyInv, Success
      <4> QED BY <2>3, <2>4, <4>1, SMTT(30)
    <3>3. pc' \notin {"feed", "error"}
      BY <2>10
    <3> QED BY <2>5, <2>6, <2>7, <2>11, <3>1, <3>2, <3>3 DEF ImageInv
  <2>14. StepInv'
    BY <2>6, <2>7, <2>10, <2>11
  <2>15. ReplyInv'
    BY <2>6, <2>7, <2>8, <2>9, <2>10, <2>11 DEF AllAnswered, OneInHand
  <2> QED BY <2>12, <2>13, <2>14, <2>15
<1>6. CASE PacketCorrupt
  <2>1. /\ pc = "feed" /\ pc' = "error" /\ "DECOMPRESS" \in Statuses
        /\ joctx' = [joctx EXCEPT !.status = "DECOMPRESS"]
        /\ UNCHANGED <<current, last_message_source, partition, boot, taken, replies>>
    BY <1>6 DEF PacketCorrupt, Fail, Statuses
  <2>2. /\ joctx' \in Contexts /\ joctx' # None /\ joctx'.status = "DECOMPRESS"
        /\ joctx'.id = joctx.id /\ SameFields(joctx', joctx) /\ ImageInv'
    BY <2>1, StatusStep
  <2>3. pc = "feed" /\ pc' = "error"
        /\ UNCHANGED <<current, last_message_source, partition, boot, taken, replies>>
    BY <2>1
  <2>4. CtxOK' /\ RestOK' /\ StepInv' /\ ReplyInv'
    BY <2>2, <2>3 DEF SameFields, InOrder, AllAnswered, OneInHand, RequestAgain
  <2> QED BY <2>2, <2>4
<1>7. ASSUME NEW n \in 1..MaxFirmware, uncompressed_stream_writer(n) PROVE OtaInv'
  <2> DEFINE c == Written(Confirmed(joctx, n), n, Sound)
  <2>1. /\ pc = "feed" /\ joctx.kind = "ota" /\ joctx.fwwritten + n <= MaxFirmware + 1
        /\ UNCHANGED <<current, last_message_source, boot, taken, replies>>
    BY <1>7 DEF uncompressed_stream_writer
  <2>2. \/ /\ \E s \in Statuses : s # "SUCCESS" /\ joctx' = [joctx EXCEPT !.status = s]
           /\ partition' = partition /\ pc' = "error"
        \/ /\ partition' = Plus(partition, n, Sound)
           /\ \/ /\ pc' = "error"
                 /\ \E s \in Statuses : s # "SUCCESS" /\ joctx' = [c EXCEPT !.status = s]
              \/ pc' = pc /\ joctx' = c
    BY <1>7, Zenon DEF uncompressed_stream_writer, Fail, Verdicts, Statuses
  <2> HIDE DEF c
  <2>3. CASE partition' = partition /\ pc' = "error"
             /\ \E s \in Statuses : s # "SUCCESS" /\ joctx' = [joctx EXCEPT !.status = s]
    <3>1. PICK s \in Statuses : s # "SUCCESS" /\ joctx' = [joctx EXCEPT !.status = s]
      BY <2>3
    <3>2. /\ joctx' \in Contexts /\ joctx' # None /\ joctx'.status = s
          /\ joctx'.id = joctx.id /\ SameFields(joctx', joctx) /\ ImageInv'
      BY <2>1, <2>3, <3>1, StatusStep
    <3>3. joctx'.status # "SUCCESS" /\ pc' = "error" /\ partition' = partition
      BY <2>3, <3>1, <3>2
    <3>4. CtxOK' /\ RestOK' /\ StepInv' /\ ReplyInv'
      BY <2>1, <3>2, <3>3 DEF SameFields, InOrder, AllAnswered, OneInHand, RequestAgain
    <3> QED BY <3>2, <3>4
  <2>4. CASE /\ partition' = Plus(partition, n, Sound) /\ pc' \in {pc, "error"}
             /\ \/ /\ pc' = "error"
                   /\ \E s \in Statuses : s # "SUCCESS" /\ joctx' = [c EXCEPT !.status = s]
                \/ pc' = pc /\ joctx' = c
    <3>1. /\ joctx' \in Contexts /\ joctx' # None /\ partition' \in Data
          /\ joctx'.id = joctx.id /\ joctx'.kind = joctx.kind
          /\ joctx' = c \/ joctx'.status # "SUCCESS"
          /\ c.status = "SUCCESS"
          /\ ImageInv'
      BY <2>1, <2>4, WriteStep DEF c
    <3>2. \/ pc' = "error" /\ joctx'.status # "SUCCESS"
          \/ pc' = pc /\ joctx' = c
      <4>1. CASE \E s \in Statuses : s # "SUCCESS" /\ joctx' = [c EXCEPT !.status = s]
        <5>1. PICK s \in Statuses : s # "SUCCESS" /\ joctx' = [c EXCEPT !.status = s]
          BY <4>1
        <5>2. ~(joctx' = c)
          <6>1. SUFFICES ASSUME joctx' = c PROVE FALSE
            OBVIOUS
          <6>2. c \in Contexts /\ c = [c EXCEPT !.status = s]
            BY <3>1, <5>1, <6>1
          <6>3. [c EXCEPT !.status = s].status = s
            BY <6>2, StatusSet
          <6> QED BY <3>1, <5>1, <6>2, <6>3
        <5>3. pc' = "error"
          BY <2>4, <5>2, Zenon
        <5>4. joctx'.status # "SUCCESS"
          BY <3>1, <5>2, Zenon
        <5> QED BY <5>3, <5>4
      <4> QED BY <2>4, <4>1
    <3>3. CtxOK' /\ RestOK' /\ StepInv' /\ ReplyInv'
      BY <2>1, <3>1, <3>2 DEF InOrder, AllAnswered, OneInHand, RequestAgain
    <3> QED BY <3>1, <3>3
  <2> QED BY <2>2, <2>3, <2>4
<1>8. ASSUME NEW n \in 1..MaxFirmware, patch_stream_reader(n) PROVE OtaInv'
  <2>1. /\ pc = "bspatch" /\ joctx.read + n <= MaxFirmware + 2 /\ joctx \in Contexts /\ n \in Nat
        /\ UNCHANGED <<current, last_message_source, boot, taken, replies, partition>>
    BY <1>8 DEF patch_stream_reader, Cache
  <2>2. CASE pc' = "receive" /\ joctx' = joctx
    <3>1. CtxOK' /\ RestOK' /\ StepInv' /\ ReplyInv'
      BY <2>1, <2>2 DEF InOrder, AllAnswered, OneInHand, RequestAgain
    <3>2. ImageInv'
      BY <2>1, <2>2 DEF ImageInv, Sound
    <3> QED BY <3>1, <3>2
  <2>3. CASE pc' = pc /\ joctx' = [joctx EXCEPT !.status = "DECOMPRESS"]
    <3>1. "DECOMPRESS" \in Statuses /\ joctx.packet = Nothing
      BY <2>1 DEF Statuses, ImageInv
    <3>2. /\ joctx' \in Contexts /\ joctx' # None /\ joctx'.status = "DECOMPRESS"
          /\ joctx'.id = joctx.id /\ SameFields(joctx', joctx) /\ ImageInv'
      BY <2>1, <2>3, <3>1, StatusStep
    <3>3. pc' = pc
      BY <2>3
    <3>4. CtxOK' /\ RestOK' /\ StepInv' /\ ReplyInv'
      BY <2>1, <3>2, <3>3 DEF SameFields, InOrder, AllAnswered, OneInHand, RequestAgain
    <3> QED BY <3>2, <3>4
  <2>4. CASE pc' = pc /\ joctx' = [joctx EXCEPT !.read = @ + n]
    <3>1. /\ joctx' \in Contexts /\ joctx'.read = joctx.read + n
          /\ joctx'.id = joctx.id /\ joctx'.packet = joctx.packet /\ joctx'.status = joctx.status
          /\ joctx'.kind = joctx.kind /\ joctx'.hash_type = joctx.hash_type
          /\ joctx'.compressedsize = joctx.compressedsize
          /\ joctx'.received = joctx.received /\ joctx'.fwwritten = joctx.fwwritten
          /\ joctx'.hashed = joctx.hashed /\ joctx'.firmwaresize = joctx.firmwaresize
          /\ joctx'.confirmed = joctx.confirmed
      BY <2>1, <2>4, ReadSet
    <3>2. pc' = pc /\ joctx' # None
      BY <2>4, <3>1
    <3>3. CtxOK' /\ RestOK' /\ StepInv' /\ ReplyInv'
      BY <2>1, <3>1, <3>2 DEF InOrder, AllAnswered, OneInHand, RequestAgain
    <3>4. ImageInv'
      <4>1. joctx.read \in Nat /\ joctx.fwwritten \in Nat /\ partition.n \in Nat
        BY <1>0, <2>1 DEF Typed, Data, Sizes
      <4> QED BY <2>1, <3>1, <3>2, <4>1 DEF ImageInv, Sound
    <3> QED BY <3>3, <3>4
  <2> QED BY <1>8, <2>2, <2>3, <2>4 DEF patch_stream_reader, Cache
<1>9. ASSUME NEW n \in 1..MaxFirmware, ota_stream_writer(n) PROVE OtaInv'
  <2> DEFINE c == Written(Confirmed(joctx, n), n, Sound)
  <2>1. /\ pc = "bspatch" /\ Success /\ joctx.read > joctx.fwwritten + n /\ pc' = pc
        /\ joctx \in Contexts
        /\ UNCHANGED <<current, last_message_source, boot, taken, replies>>
    BY <1>9 DEF ota_stream_writer, Cache
  <2>2. \/ /\ joctx' = [joctx EXCEPT !.status = "PATCH"] /\ partition' = partition
        \/ /\ partition' = Plus(partition, n, Sound)
           /\ \/ \E s \in Statuses : s # "SUCCESS" /\ joctx' = [joctx EXCEPT !.status = s]
              \/ \E s \in Statuses : s # "SUCCESS" /\ joctx' = [c EXCEPT !.status = s]
              \/ joctx' = c
    BY <1>9, Zenon DEF ota_stream_writer, Cache, Verdicts, Statuses
  <2>3. joctx.kind = "ota_delta"
    BY <1>0, <2>1 DEF Typed
  <2> HIDE DEF c
  <2>4. CASE joctx' = [joctx EXCEPT !.status = "PATCH"] /\ partition' = partition
    <3>1. "PATCH" \in Statuses /\ joctx.packet = Nothing
      BY <2>1 DEF Statuses, ImageInv
    <3>2. /\ joctx' \in Contexts /\ joctx' # None /\ joctx'.status = "PATCH"
          /\ joctx'.id = joctx.id /\ SameFields(joctx', joctx) /\ ImageInv'
      BY <2>1, <2>4, <3>1, StatusStep
    <3>3. partition' = partition
      BY <2>4
    <3>4. CtxOK' /\ RestOK' /\ StepInv' /\ ReplyInv'
      BY <2>1, <2>3, <3>2, <3>3 DEF SameFields, InOrder, AllAnswered, OneInHand, RequestAgain
    <3> QED BY <3>2, <3>4
  <2>5. CASE /\ partition' = Plus(partition, n, Sound)
             /\ \/ \E s \in Statuses : s # "SUCCESS" /\ joctx' = [joctx EXCEPT !.status = s]
                \/ \E s \in Statuses : s # "SUCCESS" /\ joctx' = [c EXCEPT !.status = s]
                \/ joctx' = c
    <3>1. /\ joctx' \in Contexts /\ joctx' # None /\ partition' \in Data
          /\ joctx'.id = joctx.id /\ joctx'.kind = joctx.kind /\ ImageInv'
      <4>1. CASE \E s \in Statuses : s # "SUCCESS" /\ joctx' = [joctx EXCEPT !.status = s]
        BY <2>1, <2>3, <2>5, <4>1, WriteStep
      <4>2. CASE \/ \E s \in Statuses : s # "SUCCESS" /\ joctx' = [c EXCEPT !.status = s]
                 \/ joctx' = c
        BY <2>1, <2>3, <2>5, <4>2, WriteStep DEF c
      <4> QED BY <2>5, <4>1, <4>2
    <3>2. CtxOK' /\ RestOK' /\ StepInv' /\ ReplyInv'
      BY <2>1, <2>3, <3>1 DEF InOrder, AllAnswered, OneInHand, RequestAgain
    <3> QED BY <3>1, <3>2
  <2> QED BY <2>2, <2>4, <2>5
<1>10. CASE base_firmware_stream_reader
  <2>1. /\ pc = "bspatch" /\ pc' = pc /\ joctx' = [joctx EXCEPT !.status = "PATCH"]
        /\ "PATCH" \in Statuses /\ joctx.packet = Nothing /\ joctx \in Contexts
        /\ UNCHANGED <<current, last_message_source, boot, taken, replies, partition>>
    BY <1>10 DEF base_firmware_stream_reader, Cache, Statuses, ImageInv
  <2>2. /\ joctx' \in Contexts /\ joctx' # None /\ joctx'.status = "PATCH"
        /\ joctx'.id = joctx.id /\ SameFields(joctx', joctx) /\ ImageInv'
    BY <2>1, StatusStep
  <2>3. /\ pc = "bspatch" /\ pc' = pc
        /\ UNCHANGED <<current, last_message_source, boot, taken, replies, partition>>
    BY <2>1
  <2>4. CtxOK' /\ RestOK' /\ StepInv' /\ ReplyInv'
    BY <2>2, <2>3 DEF SameFields, InOrder, AllAnswered, OneInHand, RequestAgain
  <2> QED BY <2>2, <2>4
<1>11. CASE bspatchReturns
  <2>1. /\ pc = "bspatch" /\ pc' = "finalize" /\ joctx \in Contexts
        /\ UNCHANGED <<current, last_message_source, boot, taken, replies, partition>>
    BY <1>11 DEF bspatchReturns
  <2>2. CASE joctx' = joctx
    <3>1. CtxOK' /\ RestOK' /\ StepInv' /\ ReplyInv'
      BY <2>1, <2>2 DEF InOrder, AllAnswered, OneInHand, RequestAgain
    <3>2. ImageInv'
      BY <2>1, <2>2 DEF ImageInv, Sound
    <3> QED BY <3>1, <3>2
  <2>3. CASE joctx' = [joctx EXCEPT !.status = "PATCH"]
    <3>1. "PATCH" \in Statuses /\ joctx.packet = Nothing
      BY <2>1 DEF Statuses, ImageInv
    <3>2. /\ joctx' \in Contexts /\ joctx' # None /\ joctx'.status = "PATCH"
          /\ joctx'.id = joctx.id /\ SameFields(joctx', joctx) /\ ImageInv'
      BY <2>1, <2>3, <3>1, StatusStep
    <3>3. CtxOK' /\ RestOK' /\ StepInv' /\ ReplyInv'
      BY <2>1, <3>2 DEF SameFields, InOrder, AllAnswered, OneInHand, RequestAgain
    <3> QED BY <3>2, <3>3
  <2> QED BY <1>11, <2>2, <2>3 DEF bspatchReturns
<1>12. CASE ota_finalize
  <2>1. /\ pc = "finalize" /\ joctx \in Contexts /\ pc' \in {"error", "aborted", "complete"}
        /\ pc' = "error" => ~Success /\ joctx' = joctx
        /\ pc' = "aborted" => joctx' = None
        /\ pc' = "complete" => Success /\ joctx.confirmed /\ joctx' = joctx
        /\ UNCHANGED <<current, last_message_source, partition, boot, taken, replies>>
    BY <1>12 DEF ota_finalize
  <2>2. CtxOK' /\ RestOK' /\ StepInv'
    BY <2>1
  <2>3. ImageInv'
    BY <2>1 DEF ImageInv, Sound
  <2>4. joctx.kind \in {"ota", "ota_delta"}
    BY <1>0, <2>1 DEF Typed
  <2>5. ReplyInv'
    BY <2>1, <2>4 DEF InOrder, AllAnswered, OneInHand, RequestAgain
  <2> QED BY <2>2, <2>3, <2>5
<1>13. CASE Complete
  <2>1. PICK method \in {"ota_data", "ota_complete", "other"}, source \in Sources :
          LET status == FinalStatus(joctx, method) IN
          /\ pc = "complete"
          /\ Take(method, source)
          /\ current' = Len(taken')
          /\ last_message_source' = source
          /\ \/ status # "SUCCESS" /\ Fail(joctx, status)
             \/ status = "SUCCESS" /\ Fail(joctx, "FINISH")
             \/ status = "SUCCESS" /\ pc' = "set_boot" /\ UNCHANGED joctx
          /\ UNCHANGED <<partition, boot, replies>>
    BY <1>13 DEF Complete
  <2>2. /\ pc = "complete" /\ Take(method, source) /\ method \in Methods /\ joctx \in Contexts
        /\ current' = Len(taken') /\ last_message_source' = source
        /\ UNCHANGED <<partition, boot, replies>>
    BY <2>1 DEF Methods
  <2>3. /\ taken' \in Seq(Messages) /\ Len(taken') = Len(taken) + 1
        /\ Len(taken') \in 1..MaxMessages
        /\ \A i \in 1..Len(taken) : taken'[i] = taken[i]
    BY <2>2, Takes
  <2>4. \/ /\ pc' = "error"
           /\ \E s \in Statuses : s # "SUCCESS" /\ joctx' = [joctx EXCEPT !.status = s]
        \/ FinalStatus(joctx, method) = "SUCCESS" /\ pc' = "set_boot" /\ joctx' = joctx
    <3>1. FinalStatus(joctx, method) \in Statuses /\ "FINISH" \in Statuses
      BY DEF FinalStatus, Statuses
    <3> QED BY <2>1, <3>1, Zenon DEF Fail
  <2>5. CASE /\ pc' = "error"
             /\ \E s \in Statuses : s # "SUCCESS" /\ joctx' = [joctx EXCEPT !.status = s]
    <3>1. PICK s \in Statuses : s # "SUCCESS" /\ joctx' = [joctx EXCEPT !.status = s]
      BY <2>5
    <3>2. /\ joctx' \in Contexts /\ joctx' # None /\ joctx'.status = s
          /\ joctx'.id = joctx.id /\ SameFields(joctx', joctx) /\ ImageInv'
      BY <2>2, <2>5, <3>1, StatusStep
    <3>3. pc' = "error" /\ joctx'.status # "SUCCESS"
      BY <2>5, <3>1, <3>2
    <3>4. CtxOK' /\ RestOK' /\ StepInv'
      BY <2>2, <2>3, <3>2, <3>3
    <3>5. ReplyInv'
      BY <2>2, <2>3, <3>2, <3>3 DEF SameFields, InOrder, AllAnswered, OneInHand, RequestAgain
    <3> QED BY <3>2, <3>4, <3>5
  <2>6. CASE FinalStatus(joctx, method) = "SUCCESS" /\ pc' = "set_boot" /\ joctx' = joctx
    <3>1. CtxOK' /\ RestOK'
      BY <2>2, <2>3, <2>6
    <3>2. ImageInv'
      BY <2>2, <2>6 DEF ImageInv, Sound
    <3>3. StepInv'
      <4>1. joctx.fwwritten = joctx.firmwaresize /\ joctx.hashed = ExpectedHash(joctx)
        BY <2>6 DEF FinalStatus
      <4>2. joctx.hashed.ok = TRUE
        BY <4>1 DEF ExpectedHash
      <4>3. partition.n = joctx.firmwaresize /\ joctx.packet = Nothing /\ joctx.confirmed
        BY <2>2, <4>1 DEF ImageInv
      <4>4. joctx.hash_type = "FULLFWDATA" \/ joctx.hash_type = "FILEDATA"
        BY <1>0, <2>2 DEF Typed
      <4>5. partition.ok = TRUE
        <5>1. joctx.hash_type = "FULLFWDATA" => partition.ok = TRUE
          BY <2>2, <4>2 DEF ImageInv
        <5>2. joctx.hash_type = "FILEDATA" => Sound
          BY <2>2, <4>2, <4>3 DEF ImageInv, Sound, Nothing
        <5>3. Sound => partition.ok = TRUE
          BY <2>2 DEF ImageInv, Data
        <5> QED BY <4>4, <5>1, <5>2, <5>3
      <4>6. partition = [n |-> joctx.firmwaresize, ok |-> TRUE]
        BY <4>3, <4>5 DEF Data
      <4> QED BY <2>2, <2>6, <4>3, <4>6
    <3>4. ReplyInv'
      BY <2>2, <2>3, <2>6 DEF InOrder, AllAnswered, OneInHand, RequestAgain
    <3> QED BY <3>1, <3>2, <3>3, <3>4
  <2> QED BY <2>4, <2>5, <2>6
<1>14. CASE LostAwaitingComplete
  <2>1. /\ pc = "complete" /\ pc' = "error" /\ joctx' = [joctx EXCEPT !.status = "PROTOCOL"]
        /\ "PROTOCOL" \in Statuses /\ joctx \in Contexts /\ last_message_source' = None
        /\ current' = 0 /\ UNCHANGED <<partition, boot, taken, replies>>
    BY <1>14 DEF LostAwaitingComplete, Fail, Statuses
  <2>2. /\ joctx' \in Contexts /\ joctx' # None /\ joctx'.status = "PROTOCOL"
        /\ joctx'.id = joctx.id /\ SameFields(joctx', joctx) /\ ImageInv'
    BY <2>1, StatusStep
  <2>3. /\ pc = "complete" /\ pc' = "error" /\ last_message_source' = None
        /\ current' = 0 /\ UNCHANGED <<partition, boot, taken, replies>>
    BY <2>1
  <2>4. CtxOK' /\ RestOK' /\ StepInv' /\ ReplyInv'
    BY <2>2, <2>3 DEF SameFields, InOrder, AllAnswered, OneInHand, RequestAgain
  <2> QED BY <2>2, <2>4
<1>15. CASE SetBootPartition
  <2>1. /\ pc = "set_boot" /\ joctx \in Contexts
        /\ UNCHANGED <<current, last_message_source, partition, taken, replies>>
    BY <1>15 DEF SetBootPartition
  <2>2. CASE boot' = "update" /\ pc' = "reply" /\ joctx' = joctx
    <3>1. CtxOK' /\ RestOK' /\ StepInv' /\ ReplyInv'
      BY <2>1, <2>2 DEF InOrder, AllAnswered, OneInHand, RequestAgain
    <3>2. ImageInv'
      BY <2>1, <2>2 DEF ImageInv, Sound
    <3> QED BY <3>1, <3>2
  <2>3. CASE joctx' = [joctx EXCEPT !.status = "SETPARTITION"] /\ pc' = "error" /\ boot' = boot
    <3>1. "SETPARTITION" \in Statuses
      BY DEF Statuses
    <3>2. /\ joctx' \in Contexts /\ joctx' # None /\ joctx'.status = "SETPARTITION"
          /\ joctx'.id = joctx.id /\ SameFields(joctx', joctx) /\ ImageInv'
      BY <2>1, <2>3, <3>1, StatusStep
    <3>3. pc' = "error" /\ boot' = boot
      BY <2>3
    <3>4. CtxOK' /\ RestOK' /\ StepInv' /\ ReplyInv'
      BY <2>1, <3>2, <3>3 DEF SameFields, InOrder, AllAnswered, OneInHand, RequestAgain
    <3> QED BY <3>2, <3>4
  <2> QED BY <1>15, <2>2, <2>3 DEF SetBootPartition, Fail
<1>16. CASE ReplyAndRestart
  <2>1. /\ pc = "reply" /\ Reply(current, taken[current].source, TRUE)
        /\ pc' = "restart" /\ joctx' = None /\ current' = 0
        /\ UNCHANGED <<last_message_source, partition, boot, taken>>
    BY <1>16 DEF ReplyAndRestart
  <2>2. current \in 1..MaxMessages /\ taken[current].source \in Sources /\ InOrder
    BY <1>a, <2>1 DEF OneInHand
  <2>3. /\ replies' \in Seq([id : 1..MaxMessages, to : Sources, ok : BOOLEAN])
        /\ Len(replies') = Len(replies) + 1 /\ Len(replies) \in Nat
        /\ current = Len(replies') => InOrder'
    BY <2>1, <2>2, Answers
  <2>4. CtxOK' /\ RestOK' /\ StepInv' /\ ImageInv'
    BY <2>1, <2>3 DEF ImageInv
  <2>5. ReplyInv'
    BY <2>1, <2>2, <2>3 DEF OneInHand, AllAnswered
  <2> QED BY <2>4, <2>5
<1>17. CASE SendError
  <2>1. /\ pc = "error" /\ joctx' = None /\ current' = 0 /\ joctx \in Contexts
        /\ UNCHANGED <<last_message_source, partition, boot, taken>>
    BY <1>17 DEF SendError
  <2>2. joctx.id \in 0..MaxMessages /\ joctx.source \in Sources /\ InOrder
    BY <1>0, <2>1 DEF Typed
  <2>3. CASE pc' = "aborted" /\ replies' = replies
    <3>1. CtxOK' /\ RestOK' /\ StepInv' /\ ImageInv'
      BY <2>1, <2>3 DEF ImageInv
    <3>2. ReplyInv'
      BY <2>1, <2>2, <2>3 DEF InOrder
    <3> QED BY <3>1, <3>2
  <2>4. CASE pc' = "idle" /\ \E k \in 1..MaxMessages, to \in Sources :
               /\ Reply(k, to, FALSE)
               /\ \/ k = Len(taken) /\ OneInHand
                  \/ k = 1 /\ AllAnswered /\ joctx.kind = "ota_delta"
    <3>1. PICK k \in 1..MaxMessages, to \in Sources :
               /\ Reply(k, to, FALSE)
               /\ \/ k = Len(taken) /\ OneInHand
                  \/ k = 1 /\ AllAnswered /\ joctx.kind = "ota_delta"
      BY <2>4
    <3>2. /\ replies' \in Seq([id : 1..MaxMessages, to : Sources, ok : BOOLEAN])
          /\ Len(replies') = Len(replies) + 1 /\ Len(replies) \in Nat
          /\ \A i \in 1..Len(replies) : replies'[i] = replies[i]
          /\ replies'[Len(replies')].id = k
          /\ k = Len(replies') => InOrder'
      BY <2>2, <3>1, Answers
    <3>3. CtxOK' /\ RestOK' /\ StepInv' /\ ImageInv'
      BY <2>1, <2>4, <3>2 DEF ImageInv
    <3>4. CASE k = Len(taken) /\ OneInHand
      BY <2>1, <2>4, <3>2, <3>3, <3>4 DEF OneInHand, AllAnswered
    <3>5. CASE k = 1 /\ AllAnswered /\ joctx.kind = "ota_delta"
      <4>1. RequestAgain' /\ Len(taken) >= 1
        BY <2>1, <2>2, <3>2, <3>5 DEF RequestAgain, AllAnswered, InOrder
      <4>2. ~InOrder'
        BY <2>1, <3>2, <3>5, <4>1 DEF InOrder, AllAnswered
      <4>3. ReplyInv'
        BY <2>1, <2>4, <4>1, <4>2
      <4> QED BY <3>3, <4>3
    <3> QED BY <3>1, <3>4, <3>5
  <2>6. CASE joctx.id # 0
    <3>1. Reply(joctx.id, joctx.source, FALSE) /\ pc' = "idle"
      BY <1>17, <2>6 DEF SendError
    <3>2. joctx.id = Len(taken) /\ OneInHand /\ joctx.id \in 1..MaxMessages
      BY <2>1, <2>2, <2>6
    <3> QED BY <2>2, <2>4, <3>1, <3>2
  <2>7. CASE joctx.id = 0 /\ current # 0
    <3>1. Reply(current, taken[current].source, FALSE) /\ pc' = "idle"
      BY <1>17, <2>7 DEF SendError
    <3>2. /\ current \in 1..MaxMessages /\ taken[current].source \in Sources
          /\ \/ current = Len(taken) /\ OneInHand
             \/ current = 1 /\ AllAnswered /\ joctx.kind = "ota_delta"
      BY <1>a, <2>1, <2>7 DEF OneInHand
    <3> QED BY <2>4, <3>1, <3>2
  <2>8. CASE joctx.id = 0 /\ current = 0
    BY <1>17, <2>3, <2>8 DEF SendError
  <2> QED BY <2>6, <2>7, <2>8
<1>18. CASE Restart
  <2>1. CtxOK' /\ RestOK' /\ ImageInv' /\ StepInv' /\ ReplyInv'
    BY <1>18 DEF Restart, ImageInv, InOrder, AllAnswered
  <2> QED BY <2>1
<1> QED BY <1>1, <1>2, <1>3, <1>4, <1>5, <1>6, <1>7, <1>8, <1>9, <1>10, <1>11, <1>12, <1>13,
           <1>14, <1>15, <1>16, <1>17, <1>18
    DEF Next, Writes

LEMMA OtaInductive == OtaInv /\ [Next]_vars => OtaInv'
<1> SUFFICES ASSUME OtaInv, UNCHANGED vars PROVE OtaInv'
  BY OtaStep
<1>1. CtxOK' /\ RestOK' /\ StepInv' /\ ReplyInv'
  BY DEF vars, OtaInv, CtxOK, RestOK, StepInv, ReplyInv, Success, InOrder, AllAnswered,
         OneInHand, RequestAgain
<1>2. ImageInv'
  BY DEF vars, OtaInv, ImageInv, Success, Sound
<1> QED BY <1>1, <1>2 DEF OtaInv

LEMMA InitOta == Init => OtaInv
<1> SUFFICES ASSUME Init PROVE OtaInv
  OBVIOUS
<1>1. CtxOK /\ StepInv /\ ImageInv /\ ReplyInv
  BY DEF Init, CtxOK, StepInv, ImageInv, ReplyInv, InOrder, AllAnswered
<1>2. RestOK
  BY SizeAssumption DEF Init, RestOK, Nothing, Data, Sizes
<1> QED BY <1>1, <1>2 DEF OtaInv

(* The inductive invariant of the update holds in every state. *)
THEOREM OtaCorrect == Spec => []OtaInv
BY InitOta, OtaInductive, PTL DEF Spec

(* Every variable keeps its type; no count of data exceeds its bound. *)
THEOREM OtaTypeCorrect == Spec => []TypeOK
<1>1. OtaInv => TypeOK
  BY DEF OtaInv, CtxOK, RestOK, TypeOK
<1> QED BY <1>1, OtaCorrect, PTL

(* Facts about small sets. *)
LEMMA OneElement ==
  ASSUME NEW a, NEW S, S \subseteq {a}
  PROVE  Cardinality(S) \in {0, 1} /\ (a \in S => Cardinality(S) = 1)
<1>1. S = {} \/ S = {a}
  OBVIOUS
<1>2. Cardinality({}) = 0
  BY FS_EmptySet
<1>3. Cardinality({a}) = 1
  BY FS_Singleton, Zenon
<1>4. CASE S = {}
  BY <1>2, <1>4
<1>5. CASE S = {a}
  BY <1>3, <1>5
<1> QED BY <1>1, <1>4, <1>5

LEMMA TwoElements ==
  ASSUME NEW a, NEW b
  PROVE  Cardinality({a, b}) \in {1, 2}
<1>1. IsFiniteSet({a}) /\ Cardinality({a}) = 1
  BY FS_Singleton, Zenon
<1>2. Cardinality({a} \cup {b}) = IF b \in {a} THEN Cardinality({a}) ELSE Cardinality({a}) + 1
  BY <1>1, FS_AddElement, Zenon
<1>3. {a, b} = {a} \cup {b}
  BY Zenon
<1> HIDE DEF Cardinality
<1>4. Cardinality({a, b}) = IF b \in {a} THEN Cardinality({a}) ELSE Cardinality({a}) + 1
  BY <1>2, <1>3, Zenon
<1>5. Cardinality({a, b}) = 1 \/ Cardinality({a, b}) = 1 + 1
  BY <1>1, <1>4, Zenon
<1> QED BY <1>5

(* Every message is answered, and once; only the request of a delta update may be answered
   twice (ota_util.c: handle_in_bin_data, ota_send_ok, ota_finalize). *)
THEOREM OneReplyToEach == Spec => []OneReplyEach
<1>1. OtaInv => OneReplyEach
  <2> SUFFICES ASSUME OtaInv, NEW id \in DOMAIN taken
               PROVE  LET n == Cardinality({i \in DOMAIN replies : replies[i].id = id}) IN
                      /\ n <= IF taken[id].method = "ota_delta" THEN 2 ELSE 1
                      /\ pc = "idle" => n >= 1
    BY DEF OneReplyEach
  <2> DEFINE S == {i \in DOMAIN replies : replies[i].id = id}
  <2>1. /\ id \in 1..Len(taken) /\ DOMAIN replies = 1..Len(replies)
        /\ Len(replies) \in Nat /\ Len(taken) \in Nat
    BY DEF OtaInv, RestOK
  <2>2. CASE InOrder
    <3>1. S \subseteq {id}
      BY <2>1, <2>2 DEF InOrder
    <3>2. pc = "idle" => id \in S
      BY <2>1, <2>2 DEF OtaInv, ReplyInv, AllAnswered, InOrder
    <3> HIDE DEF S
    <3>3. Cardinality(S) \in {0, 1} /\ (pc = "idle" => Cardinality(S) = 1)
      BY <3>1, <3>2, OneElement, Zenon
    <3> QED BY <3>3 DEF S
  <2>3. CASE ~InOrder
    <3>1. RequestAgain
      BY <2>3 DEF OtaInv, ReplyInv
    <3>2. CASE id = 1
      <4>1. S = {1, Len(replies)} /\ taken[id].method = "ota_delta"
        BY <2>1, <3>1, <3>2 DEF RequestAgain
      <4> HIDE DEF S
      <4>2. Cardinality(S) \in {1, 2}
        BY <4>1, TwoElements, Zenon
      <4> QED BY <4>1, <4>2 DEF S
    <3>3. CASE id # 1
      <4>1. S \subseteq {id} /\ id \in S
        BY <2>1, <3>1, <3>3 DEF RequestAgain
      <4> HIDE DEF S
      <4>2. Cardinality(S) = 1
        BY <4>1, OneElement, Zenon
      <4> QED BY <4>2 DEF S
    <3> QED BY <3>2, <3>3
  <2> QED BY <2>2, <2>3
<1> QED BY <1>1, OtaCorrect, PTL

(* The reply that a step adds. *)
LEMMA OneNewReply ==
  ASSUME RestOK, NEW id, NEW to, NEW ok, Reply(id, to, ok), NEW i \in NewReplies
  PROVE  replies'[i].id = id /\ replies'[i].ok = ok
<1>1. i = Len(replies) + 1
  BY DEF RestOK, Reply, NewReplies
<1>2. replies'[i] = [id |-> id, to |-> to, ok |-> ok]
  BY <1>1 DEF RestOK, Reply
<1> QED BY <1>2

(* What each step does to the boot partition, the errors and the replies. *)
LEMMA AllowedSteps == OtaInv /\ Next => BootsConfirmedImage /\ KeepsError
<1> SUFFICES ASSUME OtaInv, Next PROVE BootsConfirmedImage /\ KeepsError
  OBVIOUS
<1> USE DEF OtaInv, CtxOK, Success
<1>a. ASSUME UNCHANGED replies, boot' = boot, joctx # None /\ ~Success => joctx' = None \/ ~Success'
      PROVE  BootsConfirmedImage /\ KeepsError
  BY <1>a DEF BootsConfirmedImage, KeepsError, NewReplies
<1>b. ASSUME NEW method \in Methods, NEW source, NEW ok \in BOOLEAN, Dispatch(method, source, ok),
             boot' = boot, ok => method # "ota_complete"
      PROVE  BootsConfirmedImage /\ KeepsError
  <2>1. joctx = None
    BY <1>b DEF Dispatch
  <2>2. ASSUME NEW i \in NewReplies
        PROVE  ~(replies'[i].ok /\ taken'[replies'[i].id].method = "ota_complete")
    <3>1. i = 1 /\ replies'[i] = [id |-> 1, to |-> source, ok |-> ok]
      BY <1>b, <2>2 DEF Dispatch, NewReplies
    <3>2. taken'[1].method = method
      BY <1>b DEF Dispatch
    <3> QED BY <1>b, <3>1, <3>2
  <2> QED BY <1>b, <2>1, <2>2 DEF BootsConfirmedImage, KeepsError
<1>1. CASE UnexpectedMethod
  BY <1>1, <1>b DEF UnexpectedMethod, Methods
<1>2. CASE ota_init
  <2>1. PICK p \in Parameters, source \in Sources, ok \in BOOLEAN :
          Dispatch(p.kind, source, ok) /\ boot' = boot
    BY <1>2, Zenon DEF ota_init
  <2>2. p.kind \in Methods /\ p.kind # "ota_complete"
    BY KindAssumption DEF Parameters, Methods
  <2> QED BY <1>b, <2>1, <2>2
<1>3. CASE handle_in_bin_data
  <2>1. /\ pc = "receive" /\ joctx \in Contexts
        /\ UNCHANGED <<current, last_message_source, partition, boot, replies>>
    BY <1>3 DEF handle_in_bin_data
  <2>2. ASSUME ~Success PROVE ~Success'
    <3>1. PICK k, p :
            joctx' = [[joctx EXCEPT !.id = k, !.packet = p] EXCEPT !.status = joctx.status]
      BY <1>3, <2>2, Zenon DEF handle_in_bin_data, Fail
    <3>2. joctx'.status = joctx.status
      BY <2>1, <3>1 DEF Contexts
    <3> QED BY <2>2, <3>2
  <2> QED BY <1>a, <2>1, <2>2
<1>4. CASE LostAwaitingData
  BY <1>4, <1>a DEF LostAwaitingData
<1>5. CASE PacketDone
  <2>1. /\ pc = "feed" /\ Reply(joctx.id, joctx.source, TRUE) /\ UNCHANGED <<boot, taken>>
    BY <1>5 DEF PacketDone
  <2>2. Success /\ taken[joctx.id].method = "ota_data" /\ RestOK
    BY <2>1 DEF StepInv, ReplyInv
  <2>3. \A i \in NewReplies : replies'[i].id = joctx.id
    BY <2>1, <2>2, OneNewReply
  <2> QED BY <2>1, <2>2, <2>3 DEF BootsConfirmedImage, KeepsError
<1>6. CASE PacketCorrupt
  BY <1>6, <1>a DEF PacketCorrupt, StepInv
<1>7. ASSUME NEW n \in 1..MaxFirmware, uncompressed_stream_writer(n)
      PROVE  BootsConfirmedImage /\ KeepsError
  <2>1. pc = "feed" /\ UNCHANGED <<boot, replies>>
    BY <1>7 DEF uncompressed_stream_writer
  <2> QED BY <1>a, <2>1 DEF StepInv
<1>8. ASSUME NEW n \in 1..MaxFirmware, patch_stream_reader(n)
      PROVE  BootsConfirmedImage /\ KeepsError
  <2>1. pc = "bspatch" /\ joctx \in Contexts /\ UNCHANGED <<boot, replies>>
    BY <1>8 DEF patch_stream_reader
  <2>2. ~Success => ~Success'
    BY <1>8, <2>1 DEF patch_stream_reader, Cache, Contexts
  <2> QED BY <1>a, <2>1, <2>2
<1>9. ASSUME NEW n \in 1..MaxFirmware, ota_stream_writer(n)
      PROVE  BootsConfirmedImage /\ KeepsError
  <2>1. Success /\ UNCHANGED <<boot, replies>>
    BY <1>9 DEF ota_stream_writer
  <2> QED BY <1>a, <2>1
<1>10. CASE base_firmware_stream_reader
  <2>1. Success /\ UNCHANGED <<boot, replies>>
    BY <1>10 DEF base_firmware_stream_reader
  <2> QED BY <1>a, <2>1
<1>11. CASE bspatchReturns
  <2>1. pc = "bspatch" /\ joctx \in Contexts /\ UNCHANGED <<boot, replies>>
    BY <1>11 DEF bspatchReturns
  <2>2. ~Success => ~Success'
    BY <1>11, <2>1 DEF bspatchReturns, Contexts
  <2> QED BY <1>a, <2>1, <2>2
<1>12. CASE ota_finalize
  BY <1>12, <1>a DEF ota_finalize
<1>13. CASE Complete
  <2>1. pc = "complete" /\ UNCHANGED <<boot, replies>>
    BY <1>13 DEF Complete
  <2> QED BY <1>a, <2>1 DEF StepInv
<1>14. CASE LostAwaitingComplete
  <2>1. pc = "complete" /\ UNCHANGED <<boot, replies>>
    BY <1>14 DEF LostAwaitingComplete
  <2> QED BY <1>a, <2>1 DEF StepInv
<1>15. CASE SetBootPartition
  <2>1. pc = "set_boot" /\ UNCHANGED replies
    BY <1>15 DEF SetBootPartition
  <2> QED BY <2>1 DEF StepInv, BootsConfirmedImage, KeepsError, NewReplies
<1>16. CASE ReplyAndRestart
  <2>1. pc = "reply" /\ UNCHANGED boot
    BY <1>16 DEF ReplyAndRestart
  <2> QED BY <2>1 DEF StepInv, BootsConfirmedImage, KeepsError
<1>17. CASE SendError
  <2>1. /\ joctx' = None /\ UNCHANGED boot /\ RestOK
        /\ UNCHANGED replies \/ \E k, to : Reply(k, to, FALSE)
    BY <1>17, Zenon DEF SendError
  <2>2. \A i \in NewReplies : replies'[i].ok = FALSE
    <3>1. CASE UNCHANGED replies
      BY <3>1 DEF NewReplies
    <3>2. CASE \E k, to : Reply(k, to, FALSE)
      BY <2>1, <3>2, OneNewReply
    <3> QED BY <2>1, <3>1, <3>2
  <2> QED BY <2>1, <2>2 DEF BootsConfirmedImage, KeepsError
<1>18. CASE Restart
  BY <1>18 DEF Restart, BootsConfirmedImage, KeepsError, NewReplies
<1> QED BY <1>1, <1>2, <1>3, <1>4, <1>5, <1>6, <1>7, <1>8, <1>9, <1>10, <1>11, <1>12, <1>13,
           <1>14, <1>15, <1>16, <1>17, <1>18
    DEF Next, Writes

(* The boot partition changes only to an image that the user confirmed and that is exactly
   the firmware announced, and ota_complete succeeds only then (ota_util.c: ota_finalize). *)
THEOREM ConfirmedImagesBoot == Spec => OnlyConfirmedImagesBoot
<1>1. OtaInv /\ [Next]_vars => [BootsConfirmedImage]_vars
  BY AllowedSteps
<1> QED BY <1>1, OtaCorrect, PTL DEF Spec, OnlyConfirmedImagesBoot

(* An error kept by the callbacks of ota_delta.c is never lost, and no later packet is
   acknowledged. *)
THEOREM ErrorsStick == Spec => ErrorSticks
<1>1. OtaInv /\ [Next]_vars => [KeepsError]_vars
  BY AllowedSteps
<1> QED BY <1>1, OtaCorrect, PTL DEF Spec, ErrorSticks

=============================================================================

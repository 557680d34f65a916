-------------------------------- MODULE Ota --------------------------------
(***************************************************************************)
(* Firmware updates: ota.c, ota_delta.c and ota_util.c, as run by the main *)
(* task on behalf of the dashboard.                                        *)
(*                                                                         *)
(* Data is abstract: a size counts units of data, and data is either the   *)
(* data its sender announced or not.  The decompressor and bspatch are     *)
(* libraries: they call the code back with pieces of any size, in any      *)
(* number, and may fail at any call.  Messages come from any connection in *)
(* any order; a message that is awaited may also never come, because       *)
(* the connection is lost or the power fails.                              *)
(***************************************************************************)
EXTENDS Naturals, Sequences, FiniteSets

CONSTANTS
  Sources,                  \* connections over which messages arrive
  Kinds,                    \* subset of {"ota", "ota_delta"}
  CUSTOM_HEADER_MIN_WRITE,  \* size of the image header
  MaxFirmware,              \* bound on the sizes announced
  MaxMessages,              \* bound on the messages of an update
  None

ASSUME KindAssumption == Kinds \subseteq {"ota", "ota_delta"}
ASSUME SizeAssumption ==
  CUSTOM_HEADER_MIN_WRITE \in Nat \ {0} /\ MaxFirmware \in Nat /\ MaxMessages \in Nat \ {0}

VARIABLES
  pc,        \* where the main task is
  joctx,     \* jade_ota_ctx_t
  current,   \* the current message of the process, or None
  last_message_source,
  partition, \* what has been written to the update partition
  boot,      \* the partition to boot
  taken,     \* history: the messages taken since the dashboard last took one;
             \* an id is an index
  replies    \* history: the replies sent to them

vars == <<pc, joctx, current, last_message_source, partition, boot, taken, replies>>

Methods == Kinds \cup {"ota_data", "ota_complete", "other"}
Statuses == {"SUCCESS", "INIT", "DECOMPRESS", "FINISH", "SETPARTITION", "BADDATA",
             "INVALIDFW", "USERDECLINED", "BADHASH", "PATCH", "PROTOCOL"}
Sizes == 0..(MaxFirmware + 2)

\* An amount of data, and whether it is what was announced.
Data == [n : Sizes, ok : BOOLEAN]
Nothing == [n |-> 0, ok |-> TRUE]
Plus(d, n, ok) == [n |-> d.n + n, ok |-> d.ok /\ ok]

\* id = 0 stands for the empty id.
Contexts ==
  [kind : Kinds, hash_type : {"FILEDATA", "FULLFWDATA"}, source : Sources,
   id : 0..MaxMessages, status : Statuses, packet : Data,
   firmwaresize : Sizes, compressedsize : Sizes, uncompressedsize : Sizes,
   received : Data, read : Sizes, fwwritten : Sizes, hashed : Data,
   confirmed : BOOLEAN]

Messages == [method : Methods, source : Sources]

\* None is none of the values it stands for the absence of.
ASSUME NoneAssumption == None \notin Sources /\ None \notin Contexts

TypeOK ==
  /\ pc \in {"idle", "receive", "feed", "bspatch", "finalize", "complete",
             "set_boot", "reply", "error", "restart", "aborted"}
  /\ joctx \in Contexts \cup {None}
  /\ (joctx = None) = (pc \in {"idle", "restart", "aborted"})
  /\ current \in 0..MaxMessages
  /\ last_message_source \in Sources \cup {None}
  /\ partition \in Data
  /\ boot \in {"running", "update"}
  /\ taken \in Seq(Messages) /\ Len(taken) <= MaxMessages
  /\ replies \in Seq([id : 1..MaxMessages, to : Sources, ok : BOOLEAN])

Init ==
  /\ pc = "idle"
  /\ joctx = None
  /\ current = 0
  /\ last_message_source = None
  /\ partition = Nothing
  /\ boot = "running"
  /\ taken = <<>> /\ replies = <<>>

Success == joctx.status = "SUCCESS"

-----------------------------------------------------------------------------
(* Messages *)

\* The next message of the queue.
Take(method, source) ==
  /\ Len(taken) < MaxMessages
  /\ taken' = Append(taken, [method |-> method, source |-> source])

Reply(id, to, ok) ==
  replies' = Append(replies, [id |-> id, to |-> to, ok |-> ok])

\* The dashboard takes a message, and answers it.
Dispatch(method, source, ok) ==
  /\ pc = "idle"
  /\ taken' = <<[method |-> method, source |-> source]>>
  /\ last_message_source' = source
  /\ replies' = <<[id |-> 1, to |-> source, ok |-> ok]>>

\* The dashboard refuses what belongs to an update that is over.
UnexpectedMethod ==
  \E method \in {"ota_data", "ota_complete"}, source \in Sources :
    /\ Dispatch(method, source, FALSE)
    /\ UNCHANGED <<pc, joctx, current, partition, boot>>

-----------------------------------------------------------------------------
(* Starting *)

Parameters == [kind : Kinds, hash_type : {"FILEDATA", "FULLFWDATA"},
               fwsize : 1..MaxFirmware, cmpsize : 1..MaxFirmware,
               patchsize : 1..(MaxFirmware + 1)]

ValidSizes(p) ==
  /\ p.fwsize > p.cmpsize
  /\ p.kind = "ota_delta" => p.patchsize > p.cmpsize

\* The first bytes of the partition are erased by esp_ota_begin.  The request is
\* refused if it may not update the firmware, or if the partition is not available.
ota_init ==
  \E p \in Parameters, source \in Sources :
    /\ p.kind = "ota" => p.patchsize = 1
    /\ \/ /\ ValidSizes(p)
          /\ Dispatch(p.kind, source, TRUE)
          /\ joctx' =
               [kind |-> p.kind, hash_type |-> p.hash_type, source |-> source,
                id |-> 0, status |-> "SUCCESS", packet |-> Nothing,
                firmwaresize |-> p.fwsize, compressedsize |-> p.cmpsize,
                uncompressedsize |-> IF p.kind = "ota" THEN p.fwsize ELSE p.patchsize,
                received |-> Nothing, read |-> 0, fwwritten |-> 0, hashed |-> Nothing,
                confirmed |-> FALSE]
          /\ current' = 1
          /\ partition' = Nothing
          /\ pc' = IF p.kind = "ota" THEN "receive" ELSE "bspatch"
       \/ /\ Dispatch(p.kind, source, FALSE)
          /\ UNCHANGED <<pc, joctx, current, partition>>
    /\ UNCHANGED boot

-----------------------------------------------------------------------------
(* Receiving *)

\* The update ends with an error.
Fail(c, status) == joctx' = [c EXCEPT !.status = status] /\ pc' = "error"

\* Mutant: an error that happened since the last message is forgotten.
Mutant_handle_in_bin_data ==
  \E method \in {"ota_data", "ota_complete", "other"}, source \in Sources,
     n \in 0..MaxFirmware, ok \in BOOLEAN :
    LET id == Len(taken')
        c == [joctx EXCEPT !.id = id, !.packet = [n |-> n, ok |-> ok],
                           !.status = "SUCCESS"]
        bad == n = 0 \/ method # "ota_data" \/ source # joctx.source
                 \/ n > joctx.compressedsize - joctx.received.n
    IN
    /\ pc = "receive"
    /\ n = 0 => ok
    /\ Take(method, source)
    /\ IF bad THEN Fail(c, "BADDATA")
       ELSE joctx' = c /\ pc' = "feed"
    /\ UNCHANGED <<current, last_message_source, partition, boot, replies>>

\* Any message is taken for the next packet.  An error that happened when there
\* was no message to answer is returned for this one.
handle_in_bin_data ==
  \E method \in {"ota_data", "ota_complete", "other"}, source \in Sources,
     n \in 0..MaxFirmware, ok \in BOOLEAN :
    LET id == Len(taken')
        c == [joctx EXCEPT !.id = id, !.packet = [n |-> n, ok |-> ok]]
        bad == n = 0 \/ method # "ota_data" \/ source # joctx.source
                 \/ n > joctx.compressedsize - joctx.received.n
    IN
    /\ pc = "receive"
    /\ n = 0 => ok
    /\ Take(method, source)
    /\ IF ~Success THEN Fail(c, joctx.status)
       ELSE IF bad THEN Fail(c, "BADDATA")
       ELSE joctx' = c /\ pc' = "feed"
    /\ UNCHANGED <<current, last_message_source, partition, boot, replies>>

\* The connection is lost: the wait for a packet returns once without one.
\* The full update waits again; the decompressor of the delta update asks again.
LostAwaitingData ==
  /\ pc = "receive" /\ last_message_source # None
  /\ last_message_source' = None
  /\ UNCHANGED <<pc, joctx, current, partition, boot, taken, replies>>

\* Mutant: the id of a packet that was acknowledged is kept.
Mutant_PacketDone ==
  LET c == joctx
      received == Plus(c.received, c.packet.n, c.packet.ok)
  IN
  /\ pc = "feed"
  /\ Reply(c.id, c.source, TRUE)
  /\ joctx' = [c EXCEPT !.received = received, !.hashed = received]
  /\ pc' = IF received.n < c.compressedsize THEN "receive" ELSE "finalize"
  /\ UNCHANGED <<current, last_message_source, partition, boot, taken>>

\* The decompressor has taken the packet: it is hashed and acknowledged.
PacketDone ==
  LET c == joctx
      file == c.hash_type = "FILEDATA"
      received == Plus(c.received, c.packet.n, c.packet.ok)
  IN
  /\ pc = "feed"
  /\ Reply(c.id, c.source, TRUE)
  /\ joctx' = [c EXCEPT !.id = 0, !.packet = Nothing, !.received = received,
                        !.hashed = IF file THEN Plus(@, c.packet.n, c.packet.ok) ELSE @]
  /\ pc' = IF c.kind = "ota_delta" THEN "bspatch"
           ELSE IF received.n < c.compressedsize THEN "receive" ELSE "finalize"
  /\ UNCHANGED <<current, last_message_source, partition, boot, taken>>

PacketCorrupt ==
  /\ pc = "feed"
  /\ Fail(joctx, "DECOMPRESS")
  /\ UNCHANGED <<current, last_message_source, partition, boot, taken, replies>>

-----------------------------------------------------------------------------
(* Writing the firmware *)

\* ota_user_validate: the status it leaves.
Verdicts == {"SUCCESS", "INVALIDFW", "USERDECLINED"}

NeedsValidation(n) == ~joctx.confirmed /\ n >= CUSTOM_HEADER_MIN_WRITE

Written(c, n, ok) ==
  [c EXCEPT !.fwwritten = @ + n,
            !.hashed = IF c.hash_type = "FULLFWDATA" THEN Plus(@, n, ok) ELSE @]

Confirmed(c, n) == [c EXCEPT !.confirmed = @ \/ NeedsValidation(n)]

\* The firmware written so far is long enough to have been validated.
SkippedValidation(c) == c.fwwritten > CUSTOM_HEADER_MIN_WRITE /\ ~c.confirmed

\* What comes out of the decompressor is as announced if what went in is.
Sound == joctx.received.ok /\ joctx.packet.ok

\* ota.c: the decompressor has n units to write.
uncompressed_stream_writer(n) ==
  LET c == Written(Confirmed(joctx, n), n, Sound)
  IN
  /\ pc = "feed" /\ joctx.kind = "ota"
  /\ joctx.fwwritten + n <= MaxFirmware + 1
  /\ \/ \E verdict \in Verdicts \ {"SUCCESS"} :
          NeedsValidation(n) /\ Fail(joctx, verdict) /\ UNCHANGED partition
     \/ Fail(joctx, "DECOMPRESS") /\ UNCHANGED partition   \* esp_ota_write fails
     \/ /\ partition' = Plus(partition, n, Sound)
        /\ IF SkippedValidation(c) THEN Fail(c, "DECOMPRESS") ELSE joctx' = c /\ UNCHANGED pc
  /\ UNCHANGED <<current, last_message_source, boot, taken, replies>>

\* ota_delta.c: bspatch reads patch data, for which a packet may be needed, reads
\* the running firmware, and writes.  There is no message to answer, so an error
\* is kept for the next one, and until then nothing is read or written.
Cache(status) == joctx' = [joctx EXCEPT !.status = status] /\ UNCHANGED <<pc, partition>>

patch_stream_reader(n) ==
  /\ pc = "bspatch"
  /\ joctx.read + n <= MaxFirmware + 2
  /\ \/ pc' = "receive" /\ UNCHANGED <<joctx, partition>>
     \/ Cache("DECOMPRESS")
     \/ joctx' = [joctx EXCEPT !.read = @ + n] /\ UNCHANGED <<pc, partition>>
  /\ UNCHANGED <<current, last_message_source, boot, taken, replies>>

base_firmware_stream_reader ==
  /\ pc = "bspatch"
  /\ Success /\ Cache("PATCH")
  /\ UNCHANGED <<current, last_message_source, boot, taken, replies>>

\* bspatch has read more than it writes: the patch holds its own control data.
ota_stream_writer(n) ==
  LET c == Written(Confirmed(joctx, n), n, Sound)
  IN
  /\ pc = "bspatch" /\ Success /\ joctx.read > joctx.fwwritten + n
  /\ \/ Cache("PATCH")                                      \* esp_ota_write fails
     \/ /\ partition' = Plus(partition, n, Sound)
        /\ UNCHANGED pc
        /\ \/ \E verdict \in Verdicts \ {"SUCCESS"} :
                NeedsValidation(n) /\ joctx' = [joctx EXCEPT !.status = verdict]
           \/ joctx' = IF SkippedValidation(c) THEN [c EXCEPT !.status = "PATCH"] ELSE c
  /\ UNCHANGED <<current, last_message_source, boot, taken, replies>>

bspatchReturns ==
  /\ pc = "bspatch"
  /\ pc' = "finalize"
  /\ joctx' \in {joctx, [joctx EXCEPT !.status = "PATCH"]}
  /\ UNCHANGED <<current, last_message_source, partition, boot, taken, replies>>

-----------------------------------------------------------------------------
(* Finishing *)

\* ota_finalize asserts that the user has confirmed.
ota_finalize ==
  /\ pc = "finalize"
  /\ IF ~Success THEN pc' = "error" /\ UNCHANGED joctx
     ELSE IF ~joctx.confirmed THEN pc' = "aborted" /\ joctx' = None
     ELSE pc' = "complete" /\ UNCHANGED joctx
  /\ UNCHANGED <<current, last_message_source, partition, boot, taken, replies>>

\* The size of the patch read, or for a full update of the firmware written.
Uncompressed(c) == IF c.kind = "ota" THEN c.fwwritten ELSE c.read

ExpectedHash(c) ==
  [n |-> IF c.hash_type = "FILEDATA" THEN c.compressedsize ELSE c.firmwaresize, ok |-> TRUE]

\* Mutant: the size of the firmware written is not checked.
Mutant_FinalStatus(c, method) ==
  IF method # "ota_complete" THEN "PROTOCOL"
  ELSE IF c.received.n # c.compressedsize \/ Uncompressed(c) # c.uncompressedsize
  THEN "INIT"
  ELSE IF c.hashed # ExpectedHash(c) THEN "BADHASH"
  ELSE "SUCCESS"

\* The checks once a message has arrived that should be ota_complete.
FinalStatus(c, method) ==
  IF method # "ota_complete" THEN "PROTOCOL"
  ELSE IF c.fwwritten # c.firmwaresize THEN "DECOMPRESS"
  ELSE IF c.received.n # c.compressedsize \/ Uncompressed(c) # c.uncompressedsize
  THEN "INIT"
  ELSE IF c.hashed # ExpectedHash(c) THEN "BADHASH"
  ELSE "SUCCESS"

\* esp_ota_end, the last of the checks, looks at the image written.
Complete ==
  \E method \in {"ota_data", "ota_complete", "other"}, source \in Sources :
    LET status == FinalStatus(joctx, method) IN
    /\ pc = "complete"
    /\ Take(method, source)
    /\ current' = Len(taken')
    /\ last_message_source' = source
    /\ \/ status # "SUCCESS" /\ Fail(joctx, status)
       \/ status = "SUCCESS" /\ Fail(joctx, "FINISH")
       \/ status = "SUCCESS" /\ pc' = "set_boot" /\ UNCHANGED joctx
    /\ UNCHANGED <<partition, boot, replies>>

\* The wait for ota_complete returns without a message.
LostAwaitingComplete ==
  /\ pc = "complete" /\ last_message_source # None
  /\ last_message_source' = None
  /\ current' = 0
  /\ Fail(joctx, "PROTOCOL")
  /\ UNCHANGED <<partition, boot, taken, replies>>

SetBootPartition ==
  /\ pc = "set_boot"
  /\ \/ boot' = "update" /\ pc' = "reply" /\ UNCHANGED joctx
     \/ Fail(joctx, "SETPARTITION") /\ UNCHANGED boot
  /\ UNCHANGED <<current, last_message_source, partition, taken, replies>>

ReplyAndRestart ==
  /\ pc = "reply"
  /\ Reply(current, taken[current].source, TRUE)
  /\ pc' = "restart"
  /\ joctx' = None
  /\ current' = 0
  /\ UNCHANGED <<last_message_source, partition, boot, taken>>

\* The error answers the packet in hand, or else the current message; there is no
\* queue of replies for a message that never came, which is an assertion failure.
\* The process then ends, and frees the context.
SendError ==
  /\ pc = "error"
  /\ \/ joctx.id # 0 /\ Reply(joctx.id, joctx.source, FALSE) /\ pc' = "idle"
     \/ /\ joctx.id = 0 /\ current # 0
        /\ Reply(current, taken[current].source, FALSE)
        /\ pc' = "idle"
     \/ joctx.id = 0 /\ current = 0 /\ pc' = "aborted" /\ UNCHANGED replies
  /\ joctx' = None
  /\ current' = 0
  /\ UNCHANGED <<last_message_source, partition, boot, taken>>

\* The device is restarted, by the update, by a failed assertion or by a loss of
\* power, and boots what it is told to.
Restart ==
  /\ boot = "running"
  /\ pc' = "idle"
  /\ joctx' = None
  /\ current' = 0
  /\ last_message_source' = None
  /\ taken' = <<>> /\ replies' = <<>>
  /\ UNCHANGED <<partition, boot>>

Writes ==
  \E n \in 1..MaxFirmware :
    uncompressed_stream_writer(n) \/ patch_stream_reader(n) \/ ota_stream_writer(n)

Next ==
  \/ UnexpectedMethod \/ ota_init
  \/ handle_in_bin_data \/ LostAwaitingData \/ PacketDone \/ PacketCorrupt
  \/ Writes \/ base_firmware_stream_reader \/ bspatchReturns
  \/ ota_finalize \/ Complete \/ LostAwaitingComplete
  \/ SetBootPartition \/ ReplyAndRestart \/ SendError \/ Restart

Spec == Init /\ [][Next]_vars

-----------------------------------------------------------------------------
(* Properties *)

\* Steps that OnlyConfirmedImagesBoot and ErrorSticks allow.
NewReplies == DOMAIN replies' \ DOMAIN replies

BootsConfirmedImage ==
  /\ boot' # boot => joctx.confirmed /\ partition = [n |-> joctx.firmwaresize, ok |-> TRUE]
  /\ \A i \in NewReplies :
       replies'[i].ok /\ taken'[replies'[i].id].method = "ota_complete" => boot = "update"

KeepsError ==
  joctx # None /\ ~Success =>
    /\ joctx' # None => ~Success'
    /\ \A i \in NewReplies : ~replies'[i].ok

\* The boot partition changes only when the user has confirmed this update, and
\* the partition holds exactly the firmware announced: whatever connection the
\* packets came over, whatever failed on the way, and whichever hash is used.  And
\* ota_complete is answered with success only when it has (docs/index.rst, ota_complete
\* reply).
OnlyConfirmedImagesBoot == [][BootsConfirmedImage]_vars

\* An error of the delta update that had to be kept, because there was no message
\* to answer, is never lost: no later packet is acknowledged.
ErrorSticks == [][KeepsError]_vars

\* Every message is answered, the one that was in hand when something failed
\* included, and it is answered once; only the request of a delta update may be
\* answered twice, by an error after its last packet (ota_util.c:296).
OneReplyEach ==
  \A id \in DOMAIN taken :
    LET n == Cardinality({i \in DOMAIN replies : replies[i].id = id}) IN
    /\ n <= IF taken[id].method = "ota_delta" THEN 2 ELSE 1
    /\ pc = "idle" => n >= 1

=============================================================================

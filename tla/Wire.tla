-------------------------------- MODULE Wire --------------------------------
(***************************************************************************)
(* How the bytes that arrive over USB serial or BLE become messages        *)
(* (wire.c), as called by the serial reader task (serial.c) and by the BLE *)
(* host task (ble.c).                                                      *)
(*                                                                         *)
(* Bytes are abstract: CBOR is a prefix code, so the byte at the start of  *)
(* an item fixes how many bytes the item takes and whether it is a valid   *)
(* request.  Any byte may follow any other, so a stream may start in the   *)
(* middle of a message, as it does after part of one has been rejected.    *)
(*                                                                         *)
(* One step is one round of the loop of handle_data_impl: a round may wait *)
(* for room in the queue of the main task or in the queue of replies.      *)
(***************************************************************************)
EXTENDS Naturals, Sequences

CONSTANTS
  Bytes,               \* abstract bytes, see ByteAssumption
  MAX_INPUT_MSG_SIZE,  \* size of the receive buffer
  MaxItemSize,         \* largest item the queue of the main task can hold
  TIMEOUT_TICKS,       \* age at which bytes in the buffer are stale
  TickModulus,         \* ticks are counted modulo this (2^32 in the code)
  InCapacity,          \* messages the queue of the main task holds
  OutCapacity,         \* messages the queue of replies holds
  MaxPacket,           \* bound on the bytes received at once
  MaxUptime,           \* bound on the ticks since boot
  MaxStream            \* bound on the bytes received since the last discard

Transports == {"serial", "ble"}
Kinds == {"request", "immediate", "malformed", "junk"}

ASSUME ByteAssumption == Bytes \subseteq [kind : Kinds, len : Nat \ {0}]
\* The ring buffer is twice the largest message plus 32 bytes, and holds items of
\* just under half its size, with the byte for the source (jade_process_init).
ASSUME SizeAssumption ==
  /\ MAX_INPUT_MSG_SIZE \in Nat \ {0}
  /\ MaxItemSize \in Nat /\ MaxItemSize >= MAX_INPUT_MSG_SIZE + 1
  /\ MaxPacket \in Nat /\ MaxPacket <= MAX_INPUT_MSG_SIZE
ASSUME TickAssumption ==
  /\ TickModulus \in Nat \ {0} /\ TIMEOUT_TICKS \in Nat /\ MaxUptime \in Nat
ASSUME CapacityAssumption == InCapacity \in Nat \ {0} /\ OutCapacity \in Nat \ {0}

VARIABLES
  transport,  \* the link this buffer belongs to
  buf,        \* the bytes of data_in up to *read_ptr
  new,        \* the bytes received and not yet appended to them
  held,       \* BLE: the packet kept while the buffer is cleared for it
  force,      \* force_reject_if_no_msg
  reject,     \* reject_if_no_msg
  pc,         \* where the reader is
  last_processing_time,
  time_now,   \* the clock as read by handle_data
  uptime,     \* ticks since boot
  shared_in,  \* messages queued for the main task
  out,        \* replies queued for the writer task
  stream,     \* history: bytes received since bytes were last discarded
  handled     \* history: messages found in them

bufVars == <<transport, buf, new, held, force, reject>>
timeVars == <<last_processing_time, time_now, uptime>>
queueVars == <<shared_in, out>>
histVars == <<stream, handled>>
vars == <<bufVars, pc, timeVars, queueVars, histVars>>

Ticks == 0..(TickModulus - 1)

TypeOK ==
  /\ transport \in Transports
  /\ buf \in Seq(Bytes) /\ Len(buf) <= MAX_INPUT_MSG_SIZE
  /\ new \in Seq(Bytes) /\ held \in Seq(Bytes)
  /\ force \in BOOLEAN /\ reject \in BOOLEAN
  /\ pc \in {"receive", "handle_data", "stale", "parse", "aborted"}
  /\ last_processing_time \in Ticks /\ time_now \in Ticks
  /\ uptime \in 0..MaxUptime
  /\ shared_in \in Seq(Bytes) /\ Len(shared_in) <= InCapacity
  /\ out \in Seq({"reply", "reject"}) /\ Len(out) <= OutCapacity
  /\ stream \in Seq(Bytes) /\ handled \in Seq(Bytes)

Init ==
  /\ transport \in Transports
  /\ buf = <<>> /\ new = <<>> /\ held = <<>>
  /\ force = FALSE /\ reject = FALSE
  /\ pc = "receive"
  /\ last_processing_time = 0 /\ time_now = 0 /\ uptime = 0
  /\ shared_in = <<>> /\ out = <<>>
  /\ stream = <<>> /\ handled = <<>>

-----------------------------------------------------------------------------
(* The environment of the reader *)

xTaskGetTickCount == uptime % TickModulus

Tick ==
  /\ uptime < MaxUptime
  /\ uptime' = uptime + 1
  /\ UNCHANGED <<bufVars, pc, last_processing_time, time_now, queueVars, histVars>>

\* The main task takes a message, the writer task sends a reply.
MainTakes ==
  /\ shared_in # <<>>
  /\ shared_in' = Tail(shared_in)
  /\ UNCHANGED <<bufVars, pc, timeVars, out, histVars>>

WriterSends ==
  /\ out # <<>>
  /\ out' = Tail(out)
  /\ UNCHANGED <<bufVars, pc, timeVars, shared_in, histVars>>

-----------------------------------------------------------------------------
(* Receiving bytes *)

Packets == UNION {[1..n -> Bytes] : n \in 1..MaxPacket}

Room == Len(stream) < MaxStream

\* serial_reader: at most as many bytes as there is room for.
SerialReceive(bytes) ==
  /\ transport = "serial"
  /\ pc = "receive"
  /\ Len(bytes) <= MAX_INPUT_MSG_SIZE - Len(buf)
  /\ new' = bytes
  /\ stream' = stream \o bytes
  /\ pc' = "handle_data"
  /\ UNCHANGED <<buf, held, force, reject, timeVars, queueVars, handled>>

\* Mutant: a packet that exactly fills the buffer is not forced.
Mutant_gatt_chr_event(bytes) ==
  LET overrun == Len(buf) + Len(bytes) > MAX_INPUT_MSG_SIZE + 1 IN
  /\ transport = "ble"
  /\ pc = "receive"
  /\ force' = overrun
  /\ new' = IF overrun THEN <<>> ELSE bytes
  /\ held' = IF overrun THEN bytes ELSE <<>>
  /\ stream' = stream \o bytes
  /\ pc' = "handle_data"
  /\ UNCHANGED <<buf, reject, timeVars, queueVars, handled>>

\* A packet that does not fit first forces out what is in the buffer.
gatt_chr_event(bytes) ==
  LET overrun == Len(buf) + Len(bytes) >= MAX_INPUT_MSG_SIZE IN
  /\ transport = "ble"
  /\ pc = "receive"
  /\ force' = overrun
  /\ new' = IF overrun THEN <<>> ELSE bytes
  /\ held' = IF overrun THEN bytes ELSE <<>>
  /\ stream' = stream \o bytes
  /\ pc' = "handle_data"
  /\ UNCHANGED <<buf, reject, timeVars, queueVars, handled>>

\* BLE_GAP_EVENT_DISCONNECT, handled by the same task.
Disconnect ==
  /\ transport = "ble"
  /\ pc = "receive"
  /\ buf' = <<>>
  /\ stream' = <<>> /\ handled' = <<>>
  /\ UNCHANGED <<new, held, force, reject, pc, timeVars, queueVars>>

-----------------------------------------------------------------------------
(* handle_data *)

\* Mutant: a full buffer does not have to yield a message.
Mutant_Parse(rest) ==
  /\ buf' = rest \o new
  /\ new' = <<>>
  /\ reject' = force
  /\ pc' = "parse"

\* Append the new bytes to 'rest' and parse.
Parse(rest) ==
  /\ buf' = rest \o new
  /\ new' = <<>>
  /\ reject' = (force \/ Len(rest \o new) = MAX_INPUT_MSG_SIZE)
  /\ pc' = "parse"

\* The assertion that time has not gone back fails when the tick count wraps;
\* the sum of two tick counts wraps too.
handle_data ==
  LET now == xTaskGetTickCount
      stale == buf # <<>> /\ now > (last_processing_time + TIMEOUT_TICKS) % TickModulus
  IN
  /\ pc = "handle_data"
  /\ time_now' = now
  /\ IF now < last_processing_time
     THEN pc' = "aborted" /\ UNCHANGED <<buf, new, reject>>
     ELSE IF stale
     THEN pc' = "stale" /\ reject' = TRUE /\ UNCHANGED <<buf, new>>
     ELSE Parse(buf)
  /\ UNCHANGED <<held, force, last_processing_time, uptime, queueVars, histVars>>

\* The length of the message at the start of s, or 0 if there is none.
msg_len(s) ==
  IF s # <<>> /\ Head(s).kind # "junk" /\ Head(s).len <= Len(s) THEN Head(s).len ELSE 0

\* Mutant: stale bytes are dropped with the new ones behind them.
Mutant_Return(rest) ==
  \/ /\ pc = "stale"
     /\ buf' = rest /\ new' = <<>> /\ reject' = FALSE /\ pc' = "parse"
     /\ UNCHANGED <<held, force, last_processing_time>>
  \/ /\ pc = "parse"
     /\ pc' = IF force THEN "handle_data" ELSE "receive"
     /\ buf' = rest
     /\ new' = held /\ held' = <<>> /\ force' = FALSE
     /\ last_processing_time' = time_now
     /\ UNCHANGED reject

\* handle_data_impl returns with 'rest' in the buffer.  handle_data asserts that
\* stale bytes are gone, and gatt_chr_event that its forced call emptied the
\* buffer; the packet it held follows in a second call.
Return(rest) ==
  IF rest # <<>> /\ (pc = "stale" \/ force)
  THEN pc' = "aborted" /\ buf' = rest
       /\ UNCHANGED <<new, held, force, reject, last_processing_time>>
  ELSE \/ pc = "stale" /\ Parse(rest) /\ UNCHANGED <<held, force, last_processing_time>>
       \/ /\ pc = "parse"
          /\ pc' = IF force THEN "handle_data" ELSE "receive"
          /\ buf' = rest
          /\ new' = held /\ held' = <<>> /\ force' = FALSE
          /\ last_processing_time' = time_now
          /\ UNCHANGED reject

Reply(kind) == Len(out) < OutCapacity /\ out' = Append(out, kind)

\* Mutant: incomplete bytes are kept even when they should be rejected.
Mutant_AwaitMoreData ==
  /\ pc \in {"stale", "parse"}
  /\ msg_len(buf) = 0
  /\ Return(buf)
  /\ UNCHANGED <<time_now, uptime, queueVars, histVars>>

\* The three ways through the loop of handle_data_impl: no message, and more
\* data may be awaited; no message, and everything is rejected; a message.
AwaitMoreData ==
  /\ pc \in {"stale", "parse"}
  /\ msg_len(buf) = 0 /\ ~reject
  /\ Return(buf)
  /\ UNCHANGED <<time_now, uptime, queueVars, histVars>>

RejectBuffer ==
  /\ pc \in {"stale", "parse"}
  /\ msg_len(buf) = 0 /\ reject
  /\ Reply("reject")
  /\ Return(<<>>)
  /\ stream' = new \o held /\ handled' = <<>>
  /\ UNCHANGED <<time_now, uptime, shared_in>>

\* Mutant: a message is handled and left in the buffer.
Mutant_HandleMessageForever ==
  /\ pc = "parse"
  /\ msg_len(buf) > 0
  /\ Len(out) < OutCapacity
  /\ reject' = FALSE
  /\ UNCHANGED <<buf, new, held, force, pc, timeVars, queueVars, histVars>>

HandleMessage ==
  LET n == msg_len(buf)
      first == Head(buf)
      rest == SubSeq(buf, n + 1, Len(buf))
      refused == first.kind = "malformed" \/ (first.kind = "request" /\ n + 1 > MaxItemSize)
  IN
  /\ pc \in {"stale", "parse"}
  /\ n > 0
  /\ \/ refused /\ Reply("reject") /\ UNCHANGED shared_in
     \/ first.kind = "immediate" /\ Reply("reply") /\ UNCHANGED shared_in
     \/ /\ first.kind = "request" /\ ~refused
        /\ Len(shared_in) < InCapacity
        /\ shared_in' = Append(shared_in, first)
        /\ UNCHANGED out
  /\ handled' = Append(handled, first)
  /\ IF rest = <<>> THEN Return(rest)
     ELSE /\ buf' = rest
          /\ reject' = FALSE
          /\ UNCHANGED <<new, held, force, pc, last_processing_time>>
  /\ UNCHANGED <<time_now, uptime, stream>>

Reader ==
  /\ handle_data \/ AwaitMoreData \/ RejectBuffer \/ HandleMessage
  /\ UNCHANGED transport

Receive ==
  /\ \/ \E bytes \in Packets : SerialReceive(bytes) \/ gatt_chr_event(bytes)
     \/ Disconnect
  /\ UNCHANGED transport

Next == Reader \/ (Room /\ Receive) \/ Tick \/ MainTakes \/ WriterSends

\* The reader task is scheduled.
Fairness == WF_vars(Reader)

Spec == Init /\ [][Next]_vars /\ Fairness

-----------------------------------------------------------------------------
(* Properties *)

\* None of the assertions of handle_data and gatt_chr_event fails: that time has
\* not gone back (wire.c:183), that stale bytes are gone (wire.c:192) and that
\* a forced call leaves an empty buffer (ble.c:106).
NoAbort == pc # "aborted"

\* When the reader waits for data the buffer has room, so a full buffer of
\* unusable bytes cannot block the link for ever (serial.c:85).
RoomToReceive == pc = "receive" => Len(buf) < MAX_INPUT_MSG_SIZE

\* The messages in a stream of bytes, by their first bytes, and what is left.
Messages(s) ==
  LET from[i \in 1..(Len(s) + 1)] ==
        LET n == msg_len(SubSeq(s, i, Len(s))) IN
        IF n = 0 THEN <<>> ELSE <<s[i]>> \o from[i + n]
  IN from[1]

\* Whatever way the stream is cut into chunks, and whatever has to wait, the
\* messages handled are those of the stream since bytes were last discarded.
ChunkingIrrelevant ==
  pc \in {"receive", "parse"} /\ held = <<>>
    => handled \o Messages(buf) = Messages(stream)

\* handle_data returns, unless it waits for the main task or the writer task to
\* make room: the loop always ends.
HandleDataReturns ==
  pc = "handle_data" ~>
    \/ pc \in {"receive", "aborted"}
    \/ Len(shared_in) = InCapacity \/ Len(out) = OutCapacity

=============================================================================

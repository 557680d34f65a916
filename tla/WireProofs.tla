----------------------------- MODULE WireProofs -----------------------------
(***************************************************************************)
(* Proofs about Wire, for every size of the buffer, the queues and the     *)
(* packets, and every set of bytes: as long as the tick count has not      *)
(* wrapped, no assertion of the receive path fails and the buffer never    *)
(* fills up for good.  Then, about MessagePump, for every capacity of the  *)
(* queues: the tasks that run the receive path are started and stopped in  *)
(* pairs, and requests are answered in order, as Channel promises.  And    *)
(* about Wire again: how the bytes are cut into chunks does not matter.    *)
(***************************************************************************)
EXTENDS Wire, MessagePump, SequenceTheorems, WellFoundedInduction, TLAPS

(* What handle_data leaves in the buffer never starts with a message, and   *)
(* an attempt that must leave the buffer empty is told to reject.           *)
Residue ==
  /\ pc \in {"receive", "handle_data", "stale"} => msg_len(buf) = 0
  /\ pc = "parse" /\ force => msg_len(buf) = 0
  /\ pc = "stale" \/ (pc = "parse" /\ force) => reject = TRUE
  /\ pc = "receive" => force = FALSE /\ held = <<>>
  /\ pc = "parse" => new = <<>>
  /\ force = TRUE => new = <<>>

(* There is room for the new bytes, and a full buffer is not kept. *)
Sizes ==
  /\ Len(held) <= MAX_INPUT_MSG_SIZE
  /\ pc = "receive" => Len(buf) < MAX_INPUT_MSG_SIZE /\ new = <<>>
  /\ pc \in {"handle_data", "stale"} => Len(buf) + Len(new) <= MAX_INPUT_MSG_SIZE
  /\ pc = "parse" =>
       Len(buf) <= MAX_INPUT_MSG_SIZE /\ (reject = FALSE => Len(buf) < MAX_INPUT_MSG_SIZE)
  /\ force = TRUE \/ held = <<>>

BoolOK == force \in BOOLEAN /\ reject \in BOOLEAN

SeqOK ==
  /\ buf \in Seq(Bytes) /\ new \in Seq(Bytes) /\ held \in Seq(Bytes)
  /\ pc \in {"receive", "handle_data", "stale", "parse"}

(* The clock has not wrapped, and time has not gone back. *)
Clock ==
  /\ uptime \in 0..MaxUptime
  /\ time_now \in 0..uptime /\ last_processing_time \in 0..uptime

QueueOK ==
  /\ shared_in \in Seq(Bytes) /\ Len(shared_in) <= InCapacity
  /\ out \in Seq({"reply", "reject"}) /\ Len(out) <= OutCapacity
  /\ stream \in Seq(Bytes) /\ handled \in Seq(Bytes)

WireInv == BoolOK /\ SeqOK /\ Residue /\ Sizes /\ Clock /\ QueueOK

LEMMA EmptyHasNoMessage == msg_len(<<>>) = 0
BY DEF msg_len

(* A message takes at least one byte, and no more than the buffer holds. *)
LEMMA MessageLength ==
  ASSUME NEW s \in Seq(Bytes)
  PROVE  /\ msg_len(s) \in 0..Len(s)
         /\ msg_len(s) > 0 => s # <<>> /\ Head(s) \in Bytes
BY ByteAssumption DEF msg_len

LEMMA RestOfBuffer ==
  ASSUME NEW s \in Seq(Bytes), msg_len(s) > 0
  PROVE  LET rest == SubSeq(s, msg_len(s) + 1, Len(s)) IN
         rest \in Seq(Bytes) /\ Len(rest) < Len(s)
BY MessageLength

LEMMA AppendEmpty ==
  ASSUME NEW s \in Seq(Bytes)
  PROVE  s \o <<>> = s /\ <<>> \o s = s
OBVIOUS

LEMMA PacketsAreBytes ==
  ASSUME NEW p \in Packets
  PROVE  p \in Seq(Bytes) /\ Len(p) <= MAX_INPUT_MSG_SIZE /\ p # <<>>
BY SizeAssumption DEF Packets

LEMMA InitWire == Init => WireInv
<1> SUFFICES ASSUME Init PROVE WireInv
  OBVIOUS
<1> USE DEF Init
<1>1. BoolOK
  BY Zenon DEF BoolOK
<1>2. SeqOK
  BY DEF SeqOK
<1>3. Residue
  BY EmptyHasNoMessage DEF Residue
<1>4. Sizes
  BY SizeAssumption DEF Sizes
<1>5. Clock /\ QueueOK
  BY TickAssumption, CapacityAssumption DEF Clock, QueueOK
<1> QED BY <1>1, <1>2, <1>3, <1>4, <1>5 DEF WireInv

(* The tick count is the uptime until it wraps. *)
LEMMA TickCount ==
  ASSUME MaxUptime < TickModulus, uptime \in 0..MaxUptime
  PROVE  xTaskGetTickCount = uptime
BY TickAssumption DEF xTaskGetTickCount

LEMMA EnvironmentStep ==
  ASSUME WireInv, Tick \/ MainTakes \/ WriterSends
  PROVE  WireInv'
<1> USE DEF WireInv, bufVars, timeVars, queueVars, histVars
<1>1. CASE Tick
  <2>1. BoolOK' /\ SeqOK' /\ QueueOK'
    BY <1>1 DEF Tick, BoolOK, SeqOK, QueueOK
  <2>2. Residue' /\ Sizes'
    BY <1>1 DEF Tick, Residue, Sizes, msg_len
  <2>3. Clock'
    BY <1>1, TickAssumption DEF Tick, Clock
  <2> QED BY <2>1, <2>2, <2>3
<1>2. CASE MainTakes
  <2>1. BoolOK' /\ SeqOK' /\ Clock'
    BY <1>2 DEF MainTakes, BoolOK, SeqOK, Clock
  <2>2. Residue' /\ Sizes'
    BY <1>2 DEF MainTakes, Residue, Sizes, msg_len
  <2>3. QueueOK'
    BY <1>2, CapacityAssumption DEF MainTakes, QueueOK
  <2> QED BY <2>1, <2>2, <2>3
<1>3. CASE WriterSends
  <2>1. BoolOK' /\ SeqOK' /\ Clock'
    BY <1>3 DEF WriterSends, BoolOK, SeqOK, Clock
  <2>2. Residue' /\ Sizes'
    BY <1>3 DEF WriterSends, Residue, Sizes, msg_len
  <2>3. QueueOK'
    BY <1>3, CapacityAssumption DEF WriterSends, QueueOK
  <2> QED BY <2>1, <2>2, <2>3
<1> QED BY <1>1, <1>2, <1>3

LEMMA ReceiveStep ==
  ASSUME WireInv, Receive
  PROVE  WireInv'
<1> USE DEF WireInv, bufVars, timeVars, queueVars, histVars
<1>1. ASSUME NEW bytes \in Packets, SerialReceive(bytes)
      PROVE  WireInv'
  <2>1. bytes \in Seq(Bytes)
    BY PacketsAreBytes
  <2>2. BoolOK' /\ SeqOK' /\ Clock' /\ QueueOK'
    BY <1>1, <2>1 DEF SerialReceive, BoolOK, SeqOK, Clock, QueueOK
  <2>3. Residue'
    BY <1>1 DEF SerialReceive, Residue, msg_len
  <2>4. Sizes'
    BY <1>1, <2>1, SizeAssumption DEF SerialReceive, Residue, Sizes, SeqOK
  <2> QED BY <2>2, <2>3, <2>4
<1>2. ASSUME NEW bytes \in Packets, gatt_chr_event(bytes)
      PROVE  WireInv'
  <2>1. bytes \in Seq(Bytes) /\ Len(bytes) <= MAX_INPUT_MSG_SIZE
    BY PacketsAreBytes
  <2>2. CASE Len(buf) + Len(bytes) >= MAX_INPUT_MSG_SIZE
    <3>1. /\ force' = TRUE /\ reject' = reject
          /\ new' = <<>> /\ held' = bytes /\ buf' = buf /\ pc' = "handle_data"
          /\ stream' = stream \o bytes
          /\ UNCHANGED <<timeVars, queueVars, handled>> /\ pc = "receive"
      BY <1>2, <2>2 DEF gatt_chr_event
    <3>2. BoolOK'
      BY <3>1, Zenon DEF BoolOK
    <3>3. SeqOK' /\ Clock' /\ QueueOK'
      BY <3>1, <2>1 DEF SeqOK, Clock, QueueOK
    <3>4. Residue'
      BY <3>1 DEF Residue, msg_len
    <3>5. Sizes'
      BY <3>1, <2>1, SizeAssumption DEF Sizes, SeqOK
    <3> QED BY <3>2, <3>3, <3>4, <3>5
  <2>3. CASE ~(Len(buf) + Len(bytes) >= MAX_INPUT_MSG_SIZE)
    <3>1. /\ force' = FALSE /\ reject' = reject
          /\ new' = bytes /\ held' = <<>> /\ buf' = buf /\ pc' = "handle_data"
          /\ stream' = stream \o bytes
          /\ UNCHANGED <<timeVars, queueVars, handled>> /\ pc = "receive"
      <4>1. (Len(buf) + Len(bytes) >= MAX_INPUT_MSG_SIZE) = FALSE
        BY <2>1, <2>3, SizeAssumption DEF SeqOK
      <4> QED BY <1>2, <4>1, Zenon DEF gatt_chr_event
    <3>2. BoolOK'
      BY <3>1, Zenon DEF BoolOK
    <3>3. SeqOK' /\ Clock' /\ QueueOK'
      BY <3>1, <2>1 DEF SeqOK, Clock, QueueOK
    <3>4. Residue'
      BY <3>1 DEF Residue, msg_len
    <3>5. Sizes'
      BY <3>1, <2>1, <2>3, SizeAssumption DEF Sizes, SeqOK
    <3> QED BY <3>2, <3>3, <3>4, <3>5
  <2> QED BY <2>2, <2>3
<1>3. CASE Disconnect
  <2>1. BoolOK' /\ SeqOK' /\ Clock' /\ QueueOK'
    BY <1>3 DEF Disconnect, BoolOK, SeqOK, Clock, QueueOK
  <2>2. Residue'
    BY <1>3, EmptyHasNoMessage DEF Disconnect, Residue
  <2>3. Sizes'
    BY <1>3, SizeAssumption DEF Disconnect, Sizes
  <2> QED BY <2>1, <2>2, <2>3
<1> QED BY <1>1, <1>2, <1>3 DEF Receive

(* What the reader does to the buffer keeps its invariant. *)
BufferInv == BoolOK /\ SeqOK /\ Residue /\ Sizes

LEMMA ParseStep ==
  ASSUME WireInv, pc \in {"handle_data", "stale"}, UNCHANGED <<held, force>>,
         NEW rest \in Seq(Bytes), msg_len(rest) = 0, Parse(rest),
         Len(rest) + Len(new) <= MAX_INPUT_MSG_SIZE
  PROVE  BufferInv'
<1> USE DEF WireInv
<1>1. /\ buf' = rest \o new /\ new' = <<>> /\ pc' = "parse"
      /\ buf' \in Seq(Bytes) /\ Len(buf') = Len(rest) + Len(new)
  BY DEF Parse, SeqOK
<1>2. BoolOK'
  BY Zenon DEF Parse, BoolOK
<1>3. SeqOK'
  BY <1>1 DEF SeqOK
<1>4. force = TRUE => msg_len(buf') = 0
  BY <1>1, AppendEmpty DEF Residue
<1>5. force = TRUE => reject' = TRUE
  BY Zenon DEF Parse
<1>6. Residue'
  BY <1>1, <1>4, <1>5 DEF Residue, msg_len
<1>7. reject' = FALSE => Len(buf') # MAX_INPUT_MSG_SIZE
  BY <1>1, Zenon DEF Parse
<1>8. Sizes'
  BY <1>1, <1>7, SizeAssumption DEF Sizes
<1> QED BY <1>2, <1>3, <1>6, <1>8 DEF BufferInv

LEMMA ReturnStep ==
  ASSUME WireInv, pc = "parse",
         NEW rest \in Seq(Bytes), msg_len(rest) = 0, Return(rest),
         Len(rest) < MAX_INPUT_MSG_SIZE, force = TRUE => rest = <<>>
  PROVE  BufferInv' /\ last_processing_time' = time_now
<1> USE DEF WireInv
<1>1. /\ buf' = rest /\ new' = held /\ held' = <<>>
      /\ last_processing_time' = time_now
  BY DEF Return
<1>2. force' = FALSE /\ reject' = reject
  BY Zenon DEF Return
<1>3. pc' = "receive" \/ pc' = "handle_data"
  BY DEF Return
<1>4. pc' = "receive" => force = FALSE
  BY Zenon DEF Return, BoolOK
<1>5. BoolOK'
  BY <1>2, Zenon DEF BoolOK
<1>6. SeqOK'
  BY <1>1, <1>3 DEF SeqOK
<1>7. Residue'
  BY <1>1, <1>2, <1>3 DEF Residue, msg_len
<1>8. pc' = "receive" => new' = <<>>
  BY <1>1, <1>4 DEF Sizes
<1>9. pc' = "handle_data" => Len(buf') + Len(new') <= MAX_INPUT_MSG_SIZE
  <2>1. CASE force = TRUE
    BY <2>1, <1>1, SizeAssumption DEF Sizes, SeqOK
  <2>2. CASE force = FALSE
    BY <2>2, <1>1, SizeAssumption DEF Sizes, SeqOK
  <2> QED BY <2>1, <2>2 DEF BoolOK
<1>10. Sizes'
  BY <1>1, <1>3, <1>8, <1>9, SizeAssumption DEF Sizes, SeqOK
<1> QED BY <1>1, <1>5, <1>6, <1>7, <1>10 DEF BufferInv

(* The hypothesis says that the tick count has not wrapped. *)
LEMMA ReaderStep ==
  ASSUME MaxUptime < TickModulus, WireInv, Reader
  PROVE  WireInv'
<1> USE DEF WireInv
<1>1. CASE handle_data
  <2>1. xTaskGetTickCount = uptime
    BY TickCount DEF Clock
  <2>2. Clock' /\ QueueOK'
    BY <1>1, <2>1 DEF handle_data, Clock, QueueOK, queueVars, histVars
  <2>3. ~(xTaskGetTickCount < last_processing_time)
    BY <2>1, TickAssumption DEF Clock
  <2>4. pc = "handle_data" /\ held' = held /\ force' = force
    BY <1>1, Zenon DEF handle_data
  <2>5. \/ pc' = "stale" /\ reject' = TRUE /\ buf' = buf /\ new' = new
        \/ Parse(buf)
    BY <1>1, <2>3, Zenon DEF handle_data
  <2>6. CASE pc' = "stale" /\ reject' = TRUE /\ buf' = buf /\ new' = new
    <3>1. BoolOK'
      BY <2>4, <2>6, Zenon DEF BoolOK
    <3>2. SeqOK'
      BY <2>4, <2>6 DEF SeqOK
    <3>3. Residue' /\ Sizes'
      BY <2>4, <2>6 DEF Residue, Sizes, msg_len
    <3> QED BY <2>2, <3>1, <3>2, <3>3
  <2>7. CASE Parse(buf)
    BY <2>2, <2>4, <2>7, ParseStep DEF SeqOK, Residue, Sizes, BufferInv
  <2> QED BY <2>5, <2>6, <2>7
<1>2. CASE AwaitMoreData
  <2>1. reject = FALSE /\ msg_len(buf) = 0 /\ Return(buf)
    BY <1>2, Zenon DEF AwaitMoreData, BoolOK
  <2>2. pc = "parse" /\ force = FALSE
    <3>1. pc = "parse"
      BY <1>2, <2>1 DEF AwaitMoreData, Residue
    <3>2. force # TRUE
      BY <3>1, <2>1 DEF Residue
    <3> QED BY <3>1, <3>2, Zenon DEF BoolOK
  <2>3. Len(buf) < MAX_INPUT_MSG_SIZE
    BY <2>1, <2>2 DEF Sizes
  <2>4. BufferInv' /\ last_processing_time' = time_now
    BY <2>1, <2>2, <2>3, ReturnStep DEF SeqOK
  <2>5. Clock' /\ QueueOK'
    BY <1>2, <2>4 DEF AwaitMoreData, Clock, QueueOK, queueVars, histVars
  <2> QED BY <2>4, <2>5 DEF BufferInv
<1>3. CASE RejectBuffer
  <2>1. <<>> \in Seq(Bytes) /\ Len(<<>>) = 0 /\ msg_len(<<>>) = 0
    BY EmptyHasNoMessage
  <2>2. Return(<<>>)
    BY <1>3 DEF RejectBuffer
  <2>3. QueueOK'
    BY <1>3, CapacityAssumption DEF RejectBuffer, Reply, QueueOK, SeqOK
  <2>4. CASE pc = "stale"
    <3>1. Parse(<<>>) /\ UNCHANGED <<held, force, last_processing_time>>
      BY <2>2, <2>4 DEF Return
    <3>2. Len(<<>>) + Len(new) <= MAX_INPUT_MSG_SIZE
      BY <2>1, <2>4, SizeAssumption DEF Sizes, SeqOK
    <3>3. BufferInv'
      BY <2>1, <2>4, <3>1, <3>2, ParseStep
    <3>4. Clock'
      BY <1>3, <3>1 DEF RejectBuffer, Clock
    <3> QED BY <2>3, <3>3, <3>4 DEF BufferInv
  <2>5. CASE pc = "parse"
    <3>1. BufferInv' /\ last_processing_time' = time_now
      <4>1. Len(<<>>) < MAX_INPUT_MSG_SIZE
        BY <2>1, SizeAssumption
      <4> QED BY <2>1, <2>2, <2>5, <4>1, ReturnStep, Zenon
    <3>2. Clock'
      BY <1>3, <3>1 DEF RejectBuffer, Clock
    <3> QED BY <2>3, <3>1, <3>2 DEF BufferInv
  <2> QED BY <1>3, <2>4, <2>5 DEF RejectBuffer
<1>4. CASE HandleMessage
  <2> DEFINE rest == SubSeq(buf, msg_len(buf) + 1, Len(buf))
  <2>1. pc = "parse" /\ msg_len(buf) > 0
    BY <1>4 DEF HandleMessage, Residue
  <2>2. force = FALSE
    <3>1. msg_len(buf) # 0
      BY <2>1
    <3> QED BY <2>1, <3>1, Zenon DEF Residue, BoolOK
  <2>3. rest \in Seq(Bytes) /\ Len(rest) < Len(buf)
    BY <2>1, RestOfBuffer DEF SeqOK
  <2>4. Head(buf) \in Bytes
    BY <2>1, MessageLength DEF SeqOK
  <2>5. QueueOK'
    <3>1. stream' = stream /\ handled' = Append(handled, Head(buf))
      BY <1>4 DEF HandleMessage
    <3>2. \/ Reply("reject") /\ UNCHANGED shared_in
          \/ Reply("reply") /\ UNCHANGED shared_in
          \/ Len(shared_in) < InCapacity /\ UNCHANGED out
             /\ shared_in' = Append(shared_in, Head(buf))
      BY <1>4, Zenon DEF HandleMessage
    <3>3. stream' \in Seq(Bytes) /\ handled' \in Seq(Bytes)
      BY <2>4, <3>1 DEF QueueOK
    <3>4. CASE \E kind \in {"reply", "reject"} : Reply(kind) /\ UNCHANGED shared_in
      <4>1. PICK kind \in {"reply", "reject"} : Reply(kind) /\ UNCHANGED shared_in
        BY <3>4
      <4>2. out' \in Seq({"reply", "reject"}) /\ Len(out') <= OutCapacity
        <5> DEFINE K == {"reply", "reject"}
        <5>1. out \in Seq(K) /\ kind \in K /\ out' = Append(out, kind)
          BY <4>1 DEF Reply, QueueOK
        <5>2. Len(out) < OutCapacity
          BY <4>1 DEF Reply
        <5> HIDE DEF K
        <5>3. out' \in Seq(K) /\ Len(out') = Len(out) + 1
          BY <5>1
        <5> QED BY <5>1, <5>2, <5>3, CapacityAssumption DEF K
      <4> QED BY <3>3, <4>1, <4>2 DEF QueueOK
    <3>5. CASE /\ Len(shared_in) < InCapacity /\ UNCHANGED out
               /\ shared_in' = Append(shared_in, Head(buf))
      BY <2>4, <3>3, <3>5, CapacityAssumption DEF QueueOK
    <3> QED BY <3>2, <3>4, <3>5
  <2>6. Len(buf) <= MAX_INPUT_MSG_SIZE
    BY <2>1 DEF Sizes
  <2>7. CASE rest = <<>>
    <3>1. Return(rest)
      BY <1>4, <2>7 DEF HandleMessage
    <3>2. BufferInv' /\ last_processing_time' = time_now
      <4>1. Len(rest) < MAX_INPUT_MSG_SIZE
        BY <2>3, <2>6, SizeAssumption DEF SeqOK
      <4>2. msg_len(rest) = 0
        BY <2>7, EmptyHasNoMessage
      <4> HIDE DEF rest
      <4> QED BY <2>1, <2>3, <2>7, <3>1, <4>1, <4>2, ReturnStep
    <3>3. Clock'
      BY <1>4, <3>2 DEF HandleMessage, Clock
    <3> QED BY <2>5, <3>2, <3>3 DEF BufferInv
  <2>8. CASE rest # <<>>
    <3>1. /\ buf' = rest /\ new' = new /\ held' = held /\ pc' = pc
          /\ last_processing_time' = last_processing_time
      BY <1>4, <2>8 DEF HandleMessage
    <3>2. reject' = FALSE /\ force' = force
      BY <1>4, <2>8, Zenon DEF HandleMessage
    <3> HIDE DEF rest
    <3>3. BoolOK'
      BY <3>2, Zenon DEF BoolOK
    <3>4. SeqOK'
      BY <3>1, <2>3 DEF SeqOK
    <3>5. Residue'
      BY <2>1, <2>2, <3>1, <3>2 DEF Residue
    <3>6. Sizes'
      BY <2>1, <2>3, <2>6, <3>1, <3>2, SizeAssumption DEF Sizes, SeqOK
    <3>7. Clock'
      BY <1>4, <3>1 DEF HandleMessage, Clock
    <3> QED BY <2>5, <3>3, <3>4, <3>5, <3>6, <3>7
  <2> QED BY <2>7, <2>8
<1> QED BY <1>1, <1>2, <1>3, <1>4 DEF Reader

LEMMA WireStep ==
  ASSUME MaxUptime < TickModulus, WireInv, [Next]_vars
  PROVE  WireInv'
<1>1. CASE UNCHANGED vars
  BY <1>1 DEF WireInv, BoolOK, SeqOK, Residue, Sizes, Clock, QueueOK, msg_len,
     vars, bufVars, timeVars, queueVars, histVars
<1> QED BY <1>1, ReaderStep, ReceiveStep, EnvironmentStep DEF Next

(* Until the 32-bit tick count wraps, no step of the reader, of the          *)
(* environment or of the other tasks breaks the invariant.                   *)
THEOREM WireCorrect ==
  ASSUME MaxUptime < TickModulus
  PROVE  Spec => []WireInv
BY InitWire, WireStep, PTL DEF Spec

(* The assertions of handle_data (wire.c:183, 192) and of gatt_chr_event     *)
(* (ble.c:106) never fail before the tick count wraps, for any stream of     *)
(* bytes, cut in any way, at any speed of the main and writer tasks.         *)
THEOREM NoAssertionFails ==
  ASSUME MaxUptime < TickModulus
  PROVE  Spec => []NoAbort
<1>1. WireInv => NoAbort
  BY DEF WireInv, SeqOK, NoAbort
<1> QED BY <1>1, WireCorrect, PTL

(* The reader never waits for bytes with a full buffer (serial.c:85), which  *)
(* would be for ever, whatever bytes arrive.                                 *)
THEOREM BufferNeverFull ==
  ASSUME MaxUptime < TickModulus
  PROVE  Spec => []RoomToReceive
<1>1. WireInv => RoomToReceive
  BY DEF WireInv, Sizes, RoomToReceive
<1> QED BY <1>1, WireCorrect, PTL

(* A buffer belongs to one link for ever. *)
LEMMA TransportKept == Spec => [](transport \in Transports)
<1>1. Init => transport \in Transports
  BY DEF Init
<1>2. transport \in Transports /\ [Next]_vars => (transport \in Transports)'
  BY DEF Next, Reader, Receive, Tick, MainTakes, WriterSends, vars, bufVars
<1> QED BY <1>1, <1>2, PTL DEF Spec

(* The type invariant: among others, nothing is written past the end of the  *)
(* receive buffer or of the queues.                                          *)
THEOREM WireTypeCorrect ==
  ASSUME MaxUptime < TickModulus
  PROVE  Spec => []TypeOK
<1>1. WireInv /\ transport \in Transports => TypeOK
  <2> SUFFICES ASSUME WireInv, transport \in Transports PROVE TypeOK
    OBVIOUS
  <2> USE DEF WireInv
  <2>1. force \in BOOLEAN /\ reject \in BOOLEAN
    BY DEF BoolOK
  <2>2. /\ buf \in Seq(Bytes) /\ new \in Seq(Bytes) /\ held \in Seq(Bytes)
        /\ pc \in {"receive", "handle_data", "stale", "parse", "aborted"}
    BY DEF SeqOK
  <2>3. Len(buf) <= MAX_INPUT_MSG_SIZE
    BY SizeAssumption DEF SeqOK, Sizes
  <2>4. /\ last_processing_time \in Ticks /\ time_now \in Ticks
        /\ uptime \in 0..MaxUptime
    BY TickAssumption DEF Clock, Ticks
  <2> QED BY <2>1, <2>2, <2>3, <2>4, Zenon DEF TypeOK, QueueOK
<1> QED BY <1>1, WireCorrect, TransportKept, PTL

-----------------------------------------------------------------------------
(* The tasks that run the receive path: MessagePump, of which every link has a reader and a
   writer. *)

\* The links, their reader and writer tasks.
PumpTypes ==
  /\ enabled \in [Links -> BOOLEAN]
  /\ reader \in [Links -> {"off", "reading", "pushing", "replying", "done"}]
  /\ writer \in [Links -> {"off", "writing", "done"}]

\* The main task, in serial_stop or ble_stop, waits for a task of the link to end.
Stopping(link) == main_pc \in {"stop_reader", "stop_writer"} /\ stopping = link

\* A link that is enabled has both its tasks at work, and is not being stopped; one that is
\* disabled has none, except while it is being stopped, its reader first.  Serial is disabled
\* while the storage is in use, by the main task or by the worker of an update, which both
\* start it again.
PumpInv ==
  /\ PumpTypes
  /\ \A link \in Links :
       /\ enabled[link] => /\ reader[link] \notin {"off", "done"} /\ writer[link] \notin {"off", "done"}
                           /\ ~Stopping(link)
       /\ ~enabled[link] /\ ~Stopping(link) => reader[link] = "off" /\ writer[link] = "off"
       /\ main_pc = "stop_writer" /\ stopping = link => reader[link] = "off"
  /\ main_pc \in {"stop_reader", "stop_writer"} => stopping \in Links
  /\ main_pc = "storage" \/ usb_worker => ~enabled["serial"]
  /\ usb_worker => ~Stopping("serial")

\* Starting a link that is not being stopped gives it both its tasks, if it has none, and
\* leaves the other one alone.
LEMMA StartLink ==
  ASSUME PumpInv, NEW link \in Links, Start(link), ~Stopping(link)
  PROVE  /\ PumpTypes'
         /\ enabled'[link] /\ reader'[link] \notin {"off", "done"} /\ writer'[link] \notin {"off", "done"}
         /\ \A other \in Links : other # link =>
              /\ enabled'[other] = enabled[other] /\ reader'[other] = reader[other]
              /\ writer'[other] = writer[other]
<1>1. CASE enabled[link]
  <2>1. UNCHANGED <<enabled, reader, writer>>
    BY <1>1 DEF Start
  <2> QED BY <1>1, <2>1 DEF PumpInv, PumpTypes
<1>2. CASE ~enabled[link]
  <2>1. /\ enabled' = [enabled EXCEPT ![link] = TRUE]
        /\ reader' = [reader EXCEPT ![link] = "reading"]
        /\ writer' = [writer EXCEPT ![link] = "writing"]
    BY <1>2 DEF Start
  <2> QED BY <2>1 DEF PumpInv, PumpTypes
<1> QED BY <1>1, <1>2

\* Every step of the readers, the writers, the main task and the events of the radio and the
\* cable keeps the invariant.
LEMMA PumpStep ==
  ASSUME PumpInv, [PumpNext]_pump_vars PROVE PumpInv'
<1> USE DEF Links, linkVars, taskVars, mainVars
<1>1. ASSUME NEW link \in Links, ReceiveRequest(link)
      PROVE  PumpInv'
  BY <1>1, SMTT(20) DEF ReceiveRequest, PumpInv, PumpTypes, Stopping
<1>2. ASSUME NEW link \in Links, push_in_message(link)
      PROVE  PumpInv'
  BY <1>2, SMTT(20) DEF push_in_message, PumpInv, PumpTypes, Stopping
<1>3. ASSUME NEW link \in Links, handleImmediateMessage(link)
      PROVE  PumpInv'
  BY <1>3, SMTT(20) DEF handleImmediateMessage, PumpInv, PumpTypes, Stopping
<1>4. ASSUME NEW link \in Links, ReaderExits(link)
      PROVE  PumpInv'
  BY <1>4, SMTT(20) DEF ReaderExits, PumpInv, PumpTypes, Stopping
<1>5. ASSUME NEW link \in Links, WriteReply(link)
      PROVE  PumpInv'
  BY <1>5, SMTT(20) DEF WriteReply, PumpInv, PumpTypes, Stopping
<1>6. ASSUME NEW link \in Links, WriterExits(link)
      PROVE  PumpInv'
  BY <1>6, SMTT(20) DEF WriterExits, PumpInv, PumpTypes, Stopping
<1>7. ASSUME NEW link \in Links, Stop(link)
      PROVE  PumpInv'
  BY <1>7, SMTT(20) DEF Stop, PumpInv, PumpTypes, Stopping
<1>8. CASE AwaitRequest
  BY <1>8, SMTT(20) DEF
     AwaitRequest, get_in_message, PumpInv, PumpTypes, Stopping
<1>9. CASE LostConnection
  BY <1>9, SMTT(20) DEF LostConnection, PumpInv, PumpTypes, Stopping
<1>10. CASE StopReader
  BY <1>10, SMTT(20) DEF StopReader, PumpInv, PumpTypes, Stopping
<1>11. CASE StopWriter
  BY <1>11, SMTT(20) DEF StopWriter, PumpInv, PumpTypes, Stopping
<1>12. CASE TakeRequest
  BY <1>12, SMTT(20) DEF
     TakeRequest, get_in_message, PumpInv, PumpTypes, Stopping
<1>13. CASE ReplyToRequest
  BY <1>13, SMTT(20) DEF ReplyToRequest, PumpInv, PumpTypes, Stopping
<1>14. CASE StartBle
  <2>1. /\ Start("ble") /\ UNCHANGED <<main_pc, stopping, usb_worker>> /\ main_pc = "dashboard"
        /\ ~enabled["ble"]
    BY <1>14 DEF StartBle
  <2> QED BY <2>1, StartLink DEF PumpInv, Stopping
<1>15. CASE Restart
  BY <1>15, SMTT(20) DEF Restart, OnAtBoot, PumpInv, PumpTypes, Stopping
<1>16. CASE handle_usbstorage_action
  <2>1. main_pc = "storage" /\ main_pc' = "dashboard" /\ stopping' = stopping
    BY <1>16 DEF handle_usbstorage_action
  <2>2. CASE Start("serial") /\ usb_worker' = usb_worker
    <3>1. ~usb_worker
      BY <1>16 DEF handle_usbstorage_action, MayStartStorage
    <3> QED BY <2>1, <2>2, <3>1, StartLink DEF PumpInv, Stopping
  <2>3. CASE UNCHANGED <<enabled, reader, writer>>
    BY <2>1, <2>3 DEF PumpInv, PumpTypes, Stopping
  <2> QED BY <1>16, <2>2, <2>3 DEF handle_usbstorage_action
<1>17. CASE usbmode_ota_worker
  <2>1. /\ Start("serial") /\ UNCHANGED <<main_pc, stopping>> /\ main_pc # "storage"
        /\ usb_worker /\ ~usb_worker'
    BY <1>17 DEF usbmode_ota_worker
  <2> QED BY <2>1, StartLink DEF PumpInv, Stopping
<1>18. CASE UsbPower
  BY <1>18, SMTT(20) DEF UsbPower, PumpInv, PumpTypes, Stopping
<1>19. CASE ble_gap_event
  BY <1>19, SMTT(20) DEF ble_gap_event, PumpInv, PumpTypes, Stopping
<1>20. CASE UNCHANGED pump_vars
  BY <1>20 DEF pump_vars, PumpInv, PumpTypes, Stopping
<1> QED
  BY <1>1, <1>2, <1>3, <1>4, <1>5, <1>6, <1>7, <1>8, <1>9, <1>10, <1>11, <1>12, <1>13,
     <1>14, <1>15, <1>16, <1>17, <1>18, <1>19, <1>20
  DEF PumpNext, ReaderTask, WriterTask, MainTask

(* No reader or writer task is ever started twice or left behind, for any number of messages
   and any capacity of the queues, whoever starts and stops the links (serial.c, ble.c). *)
THEOREM TasksArePaired == PumpSpec => []TasksPaired
<1>1. PumpInit => PumpInv
  BY DEF PumpInit, OnAtBoot, Links, PumpInv, PumpTypes, Stopping
<1>2. PumpInv /\ [PumpNext]_pump_vars => PumpInv'
  BY PumpStep
<1>3. PumpInv => TasksPaired
  BY DEF PumpInv, TasksPaired, Stopping
<1> QED BY <1>1, <1>2, <1>3, PTL DEF PumpSpec

-----------------------------------------------------------------------------
(* Sequences of sequences: what FlattenSeq makes of them *)

\* Every set of numbers has a least one.
LEMMA Least ==
  ASSUME NEW T, T \subseteq Nat, T # {}
  PROVE  \E x \in T : \A y \in T : x <= y
<1> DEFINE R == {ss \in Nat \X Nat : ss[1] < ss[2]}
<1>1. R = OpToRel(<, Nat)
  BY DEF OpToRel
<1>2. IsWellFoundedOn(R, Nat)
  BY NatLessThanWellFounded, <1>1
<1>3. \E x \in T : \A y \in T : ~(<<y, x>> \in R)
  <2> HIDE DEF R
  <2> QED BY <1>2, WFMin
<1>4. ASSUME NEW x \in Nat, NEW y \in Nat, y < x
      PROVE  <<y, x>> \in R
  <2>1. <<y, x>> \in Nat \X Nat /\ <<y, x>>[1] = y /\ <<y, x>>[2] = x
    OBVIOUS
  <2> QED BY <1>4, <2>1, Zenon
<1>5. \E x \in T : \A y \in T : ~(y < x)
  <2> HIDE DEF R
  <2> QED BY <1>3, <1>4, Zenon
<1> QED BY <1>5, SMT

\* Induction over 0..N, for sets: the provers cannot instantiate it for operators.
LEMMA Induction ==
  ASSUME NEW T, NEW N \in Nat, 0 \in T, \A n \in 1..N : n - 1 \in T => n \in T
  PROVE  \A n \in 0..N : n \in T
<1> DEFINE U == {n \in 0..N : n \notin T}
<1> SUFFICES ASSUME U # {} PROVE FALSE
  OBVIOUS
<1>1. U \subseteq Nat
  OBVIOUS
<1>2. PICK x \in U : \A y \in U : x <= y
  <2> HIDE DEF U
  <2> QED BY <1>1, Least
<1>3. x \in 1..N /\ x - 1 \in 0..N /\ ~(x <= x - 1)
  OBVIOUS
<1>4. x - 1 \in T
  BY <1>2, <1>3
<1> QED BY <1>3, <1>4

\* The equation of FlattenSeq, for a function f over the first n of them.
IsFlat(f, seqs, n) ==
  f = [i \in 1..n |-> IF i = 1 THEN seqs[i] ELSE f[i - 1] \o seqs[i]]

\* Two sequences one after the other are a sequence.
LEMMA ConcatSeq ==
  ASSUME NEW S, NEW a \in Seq(S), NEW b \in Seq(S)
  PROVE  a \o b \in Seq(S)
  OBVIOUS

\* The sequences appended one by one.
Flattens(f, seqs, N, S) ==
  /\ f \in [1..N -> Seq(S)]
  /\ f[1] = seqs[1]
  /\ \A i \in 2..N : f[i] = f[i - 1] \o seqs[i]
  /\ FlattenSeq(seqs) = f[N]

\* FlattenSeq appends the sequences one by one.
LEMMA FlattenDef ==
  ASSUME NEW S, NEW seqs \in Seq(Seq(S)), NEW N \in Nat, N = Len(seqs), N >= 1
  PROVE  \E f : Flattens(f, seqs, N, S)
<1> DEFINE T == {k \in 0..N : k = 0 \/ \E g \in [1..k -> Seq(S)] : IsFlat(g, seqs, k)}
<1>0. N \in Nat /\ N >= 1 /\ \A i \in 1..N : seqs[i] \in Seq(S)
  BY LenProperties, ElementOfSeq
<1>1. 0 \in T
  BY <1>0
<1>2. ASSUME NEW k \in 1..N, k - 1 \in T PROVE k \in T
  <2>1. CASE k = 1
    <3> DEFINE h == [i \in 1..1 |-> seqs[i]]
    <3>1. h \in [1..1 -> Seq(S)]
      BY <1>0
    <3>2. h = [i \in 1..1 |-> IF i = 1 THEN seqs[i] ELSE h[i - 1] \o seqs[i]]
      OBVIOUS
    <3>3. IsFlat(h, seqs, 1)
      BY <3>2 DEF IsFlat
    <3> HIDE DEF h
    <3> QED BY <1>0, <2>1, <3>1, <3>3
  <2>2. CASE k # 1
    <3>1. PICK g \in [1..(k - 1) -> Seq(S)] : IsFlat(g, seqs, k - 1)
      BY <1>2, <2>2
    <3>2. k - 1 \in 1..(k - 1) /\ k \in 1..N /\ g[k - 1] \in Seq(S) /\ seqs[k] \in Seq(S)
      BY <1>0, <2>2
    <3> DEFINE c == g[k - 1] \o seqs[k]
               h == [i \in 1..k |-> IF i = k THEN c ELSE g[i]]
    <3>3. c \in Seq(S)
      BY <3>2, ConcatSeq, Zenon
    <3> HIDE DEF c
    <3>4. h \in [1..k -> Seq(S)]
      BY <3>3, <3>1
    <3>5. ASSUME NEW i \in 1..k
          PROVE  h[i] = IF i = 1 THEN seqs[i] ELSE h[i - 1] \o seqs[i]
      <4>1. CASE i = k
        <5>1. h[k] = c /\ h[k - 1] = g[k - 1]
          BY <2>2
        <5>2. h[k] = h[k - 1] \o seqs[k]
          BY <5>1, Zenon DEF c
        <5> QED BY <2>2, <4>1, <5>2
      <4>2. CASE i # k
        <5>1. i \in 1..(k - 1) /\ h[i] = g[i] /\ (i # 1 => i - 1 \in 1..k /\ h[i - 1] = g[i - 1])
          BY <4>2
        <5>2. g[i] = IF i = 1 THEN seqs[i] ELSE g[i - 1] \o seqs[i]
          BY <3>1, <5>1 DEF IsFlat
        <5> QED BY <5>1, <5>2
      <4> QED BY <4>1, <4>2
    <3>6. IsFlat(h, seqs, k)
      BY <3>5 DEF IsFlat
    <3> HIDE DEF h
    <3>7. \E f \in [1..k -> Seq(S)] : IsFlat(f, seqs, k)
      BY <3>4, <3>6, Zenon
    <3> QED BY <1>0, <3>7
  <2> QED BY <2>1, <2>2
<1>3. N \in T
  <2> HIDE DEF T
  <2>1. \A k \in 0..N : k \in T
    BY <1>0, <1>1, <1>2, Induction
  <2> QED BY <1>0, <2>1
<1>4. PICK g \in [1..N -> Seq(S)] : IsFlat(g, seqs, N)
  BY <1>0, <1>3
<1> DEFINE c == CHOOSE f : f = [i \in 1..N |-> IF i = 1 THEN seqs[i] ELSE f[i - 1] \o seqs[i]]
<1>5. FlattenSeq(seqs) = c[N]
  <2>1. Len(seqs) # 0
    OBVIOUS
  <2> QED BY <2>1, Zenon DEF FlattenSeq
<1>6. c = [i \in 1..N |-> IF i = 1 THEN seqs[i] ELSE c[i - 1] \o seqs[i]]
  BY <1>4, Zenon DEF IsFlat
<1> HIDE DEF c
<1> DEFINE V == {k \in 0..N : k = 0 \/ c[k] \in Seq(S)}
<1>7. 0 \in V
  BY <1>0
<1>8. ASSUME NEW k \in 1..N, k - 1 \in V PROVE k \in V
  <2>1. CASE k = 1
    BY <1>0, <1>6, <2>1
  <2>2. CASE k # 1
    <3>1. c[k] = c[k - 1] \o seqs[k]
      BY <1>6, <2>2
    <3>2. c[k - 1] \in Seq(S) /\ seqs[k] \in Seq(S)
      BY <1>0, <1>8, <2>2
    <3>3. c[k] \in Seq(S)
      BY <3>1, <3>2, ConcatSeq, Zenon
    <3> QED BY <1>0, <3>3
  <2> QED BY <2>1, <2>2
<1>9. \A k \in 0..N : k \in V
  <2> HIDE DEF V
  <2> QED BY <1>0, <1>7, <1>8, Induction
<1>10. c \in [1..N -> Seq(S)]
  <2>1. \A k \in 1..N : c[k] \in Seq(S)
    BY <1>9
  <2> QED BY <1>6, <2>1
<1>11. c[1] = seqs[1]
  BY <1>0, <1>6
<1>12. ASSUME NEW i \in 2..N PROVE c[i] = c[i - 1] \o seqs[i]
  <2>1. i \in 1..N /\ i # 1
    BY <1>0
  <2> QED BY <1>6, <2>1
<1> QED BY <1>5, <1>10, <1>11, <1>12, Zenon DEF Flattens

\* The result is a sequence, empty for none.
LEMMA FlattenIsSeq ==
  ASSUME NEW S, NEW seqs \in Seq(Seq(S))
  PROVE  FlattenSeq(seqs) \in Seq(S) /\ (seqs = <<>> => FlattenSeq(seqs) = <<>>)
<1>1. CASE seqs = <<>>
  <2>1. FlattenSeq(seqs) = <<>>
    BY <1>1 DEF FlattenSeq
  <2> QED BY <2>1, EmptySeq
<1>2. CASE seqs # <<>>
  <2>1. Len(seqs) \in Nat /\ Len(seqs) >= 1 /\ Len(seqs) \in 1..Len(seqs)
    BY <1>2
  <2>2. PICK f : Flattens(f, seqs, Len(seqs), S)
    BY <2>1, FlattenDef, Zenon
  <2> QED BY <1>2, <2>1, <2>2, Zenon DEF Flattens
<1> QED BY <1>1, <1>2

\* A sequence is appended.
LEMMA FlattenAppend ==
  ASSUME NEW S, NEW seqs \in Seq(Seq(S)), NEW x \in Seq(S)
  PROVE  FlattenSeq(Append(seqs, x)) = FlattenSeq(seqs) \o x
<1> DEFINE n == Len(seqs)
           all == Append(seqs, x)
<1>1. /\ n \in Nat /\ all \in Seq(Seq(S)) /\ Len(all) = n + 1 /\ all[n + 1] = x
      /\ \A i \in 1..n : all[i] = seqs[i]
  BY AppendProperties, LenProperties
<1>0. n = 0 => seqs = <<>>
  OBVIOUS
<1>00. n = Len(seqs)
  OBVIOUS
<1> HIDE DEF all, n
<1>2. PICK g \in [1..(n + 1) -> Seq(S)] :
           /\ g[1] = all[1]
           /\ \A i \in 2..(n + 1) : g[i] = g[i - 1] \o all[i]
           /\ FlattenSeq(all) = g[n + 1]
  <2>1. n + 1 \in Nat /\ n + 1 >= 1 /\ n + 1 = Len(all)
    BY <1>1
  <2>2. \E g : Flattens(g, all, n + 1, S)
    BY <1>1, <2>1, FlattenDef, Zenon
  <2> QED BY <2>2, Zenon DEF Flattens
<1>3. CASE n = 0
  <2>1. FlattenSeq(seqs) = <<>>
    BY <1>0, <1>3, FlattenIsSeq
  <2>2. FlattenSeq(all) = x
    BY <1>1, <1>2, <1>3
  <2> QED BY <2>1, <2>2, ConcatEmptySeq DEF all
<1>4. CASE n # 0
  <2>1. PICK f \in [1..n -> Seq(S)] :
           /\ f[1] = seqs[1]
           /\ \A i \in 2..n : f[i] = f[i - 1] \o seqs[i]
           /\ FlattenSeq(seqs) = f[n]
    <3>1. n >= 1
      BY <1>1, <1>4
    <3>2. \E f : Flattens(f, seqs, n, S)
      BY <1>00, <1>1, <3>1, FlattenDef, Zenon
    <3> QED BY <3>2, Zenon DEF Flattens
  <2> DEFINE T == {k \in 0..n : k = 0 \/ g[k] = f[k]}
  <2>2. 0 \in T
    BY <1>1
  <2>3. ASSUME NEW k \in 1..n, k - 1 \in T PROVE k \in T
    <3>1. CASE k = 1
      BY <1>1, <1>2, <2>1, <3>1
    <3>2. CASE k # 1
      <4>0. /\ k \in 2..n /\ k \in 2..(n + 1) /\ k \in 0..n /\ k \in 1..n
            /\ k - 1 # 0
        BY <1>1, <3>2
      <4>2. all[k] = seqs[k]
        BY <1>1, <4>0
      <4>3. g[k - 1] = f[k - 1]
        BY <2>3, <4>0, Zenon
      <4>1. k \in 2..n /\ k \in 2..(n + 1) /\ k \in 0..n /\ all[k] = seqs[k] /\ g[k - 1] = f[k - 1]
        BY <4>0, <4>2, <4>3
      <4> QED BY <1>2, <2>1, <4>1
    <3> QED BY <3>1, <3>2
  <2>4. g[n] = f[n]
    <3>1. \A k \in 0..n : k \in T
      <4> HIDE DEF T
      <4> QED BY <1>1, <2>2, <2>3, Induction
    <3>2. n \in 0..n /\ n # 0
      BY <1>1, <1>4
    <3> QED BY <3>1, <3>2, Zenon
  <2>5. g[n + 1] = g[n] \o x
    <3>1. n + 1 \in 2..(n + 1) /\ (n + 1) - 1 = n
      BY <1>1, <1>4
    <3> QED BY <1>1, <1>2, <3>1
  <2> QED BY <1>2, <2>1, <2>4, <2>5 DEF all
<1> QED BY <1>3, <1>4

\* Which of three sequences are joined first does not matter.
Grouped(a, b, c) == (a \o b) \o c = a \o (b \o c)

LEMMA GroupedSeqs ==
  ASSUME NEW S, NEW a \in Seq(S), NEW b \in Seq(S), NEW c \in Seq(S)
  PROVE  Grouped(a, b, c)
BY DEF Grouped

\* The first of the sequences comes first.
LEMMA FlattenTail ==
  ASSUME NEW S, NEW seqs \in Seq(Seq(S)), seqs # <<>>
  PROVE  FlattenSeq(seqs) = Head(seqs) \o FlattenSeq(Tail(seqs))
<1> DEFINE n == Len(seqs)
           rest == Tail(seqs)
           first == seqs[1]
<1>1. /\ n \in Nat /\ n >= 1 /\ rest \in Seq(Seq(S)) /\ Len(rest) = n - 1 /\ Head(seqs) = first
      /\ \A i \in 1..(n - 1) : rest[i] = seqs[i + 1]
      /\ \A i \in 1..n : seqs[i] \in Seq(S)
  BY HeadTailProperties, LenProperties, ElementOfSeq
<1>0. n = Len(seqs) /\ first = seqs[1]
  OBVIOUS
<1>00. first \in Seq(S)
  BY <1>1
<1> HIDE DEF rest, n, first
<1>2. PICK f \in [1..n -> Seq(S)] :
           /\ f[1] = first
           /\ \A i \in 2..n : f[i] = f[i - 1] \o seqs[i]
           /\ FlattenSeq(seqs) = f[n]
  <2>1. \E f : Flattens(f, seqs, n, S)
    BY <1>0, <1>1, FlattenDef, Zenon
  <2> QED BY <1>0, <2>1, Zenon DEF Flattens
<1>3. CASE n = 1
  <2>1. rest = <<>>
    BY <1>1, <1>3, EmptySeq
  <2>2. FlattenSeq(rest) = <<>>
    BY <1>1, <2>1, FlattenIsSeq
  <2>3. first \in Seq(S) /\ FlattenSeq(seqs) = first
    BY <1>1, <1>2, <1>3
  <2> QED BY <1>1, <2>2, <2>3, ConcatEmptySeq DEF rest
<1>4. CASE n # 1
  <2>1. n - 1 \in Nat /\ n - 1 >= 1
    BY <1>1, <1>4
  <2>2. PICK g \in [1..(n - 1) -> Seq(S)] :
           /\ g[1] = rest[1]
           /\ \A i \in 2..(n - 1) : g[i] = g[i - 1] \o rest[i]
           /\ FlattenSeq(rest) = g[n - 1]
    <3>1. n - 1 = Len(rest)
      BY <1>1
    <3>2. \E g : Flattens(g, rest, n - 1, S)
      BY <1>1, <2>1, <3>1, FlattenDef, Zenon
    <3> QED BY <3>2, Zenon DEF Flattens
  <2> DEFINE p == [k \in 1..(n - 1) |-> first \o g[k]]
             T == {k \in 0..(n - 1) : k = 0 \/ f[k + 1] = p[k]}
  <2>9. \A k \in 1..(n - 1) : p[k] = first \o g[k]
    BY Zenon
  <2> HIDE DEF p
  <2>3. 0 \in T
    BY <2>1
  <2>4. ASSUME NEW k \in 1..(n - 1), k - 1 \in T PROVE k \in T
    <3>0. k \in 0..(n - 1) /\ k + 1 \in 2..n /\ (k + 1) - 1 = k /\ rest[k] = seqs[k + 1]
      BY <1>1
    <3>1. CASE k = 1
      <4>1. f[k + 1] = f[k] \o seqs[k + 1]
        BY <1>2, <3>0
      <4>2. f[k + 1] = first \o g[k]
        BY <1>2, <2>2, <3>0, <3>1, <4>1, Zenon
      <4> QED BY <2>9, <3>0, <4>2
    <3>2. CASE k # 1
      <4>1. f[k + 1] = f[k] \o rest[k]
        BY <1>2, <3>0
      <4>3. k \in 2..(n - 1) /\ k - 1 \in 1..(n - 1) /\ k \in 1..n
        BY <1>1, <3>2
      <4>7. (k - 1) + 1 = k /\ f[k] = p[k - 1]
        BY <2>4, <3>2
      <4>2. f[k] = first \o g[k - 1]
        BY <2>9, <4>3, <4>7, Zenon
      <4>4. g[k] = g[k - 1] \o rest[k]
        BY <2>2, <4>3
      <4>5. g[k - 1] \in Seq(S) /\ rest[k] \in Seq(S) /\ first \in Seq(S)
        <5>1. rest[k] = seqs[k + 1] /\ k + 1 \in 1..n
          BY <1>1, <3>0
        <5> QED BY <1>00, <1>1, <4>3, <5>1, Zenon
      <4>6. (first \o g[k - 1]) \o rest[k] = first \o (g[k - 1] \o rest[k])
        <5> DEFINE x == g[k - 1]
                   y == rest[k]
        <5> HIDE DEF x, y
        <5>1. first \in Seq(S) /\ x \in Seq(S) /\ y \in Seq(S)
          BY <4>5 DEF x, y
        <5>2. Grouped(first, x, y)
          BY <5>1, GroupedSeqs, Zenon
        <5> QED BY <5>2 DEF x, y, Grouped
      <4>8. f[k + 1] = first \o g[k]
        BY <4>1, <4>2, <4>4, <4>6, Zenon
      <4> QED BY <2>9, <3>0, <4>8
    <3> QED BY <3>1, <3>2
  <2>5. f[n] = first \o g[n - 1]
    <3>1. \A k \in 0..(n - 1) : k \in T
      <4> HIDE DEF T
      <4> QED BY <2>1, <2>3, <2>4, Induction
    <3>2. n - 1 \in T /\ (n - 1) + 1 = n
      <4> HIDE DEF T
      <4>1. n - 1 \in 0..(n - 1) /\ (n - 1) + 1 = n
        BY <1>1, <2>1
      <4> QED BY <3>1, <4>1
    <3>3. f[n] = p[n - 1] /\ n - 1 \in 1..(n - 1)
      BY <2>1, <3>2
    <3> QED BY <2>9, <3>3, Zenon
  <2> QED BY <1>1, <1>2, <2>2, <2>5, Zenon DEF rest
<1> QED BY <1>3, <1>4

-----------------------------------------------------------------------------
(* The requests not yet answered: MessagePump implements Channel *)

\* The ids of the requests of a link, one by one.
LEMMA AskedFacts ==
  ASSUME NEW link, NEW q \in Seq(Requests)
  PROVE  /\ AskedIds(q, link) \in Seq(Ids)
         /\ q = <<>> => AskedIds(q, link) = <<>>
         /\ \A m \in Requests :
              AskedIds(Append(q, m), link)
                = AskedIds(q, link) \o (IF m.source = link THEN <<m.id>> ELSE <<>>)
         /\ q # <<>> =>
              AskedIds(q, link)
                = (IF Head(q).source = link THEN <<Head(q).id>> ELSE <<>>) \o AskedIds(Tail(q), link)
<1> DEFINE A(m) == IF m.source = link THEN <<m.id>> ELSE <<>>
           F(s) == [i \in DOMAIN s |-> A(s[i])]
<1>1. \A m \in Requests : A(m) \in Seq(Ids)
  BY DEF Requests
<1>2. \A s : AskedIds(s, link) = FlattenSeq(F(s))
  BY Zenon DEF AskedIds
<1> HIDE DEF A
<1>3. \A s \in Seq(Requests) : F(s) \in Seq(Seq(Ids))
  <2> SUFFICES ASSUME NEW s \in Seq(Requests) PROVE F(s) \in Seq(Seq(Ids))
    OBVIOUS
  <2>1. Len(s) \in Nat /\ DOMAIN s = 1..Len(s) /\ \A i \in 1..Len(s) : s[i] \in Requests
    BY LenProperties, ElementOfSeq
  <2>2. \A i \in 1..Len(s) : A(s[i]) \in Seq(Ids)
    BY <1>1, <2>1, Zenon
  <2>3. [i \in 1..Len(s) |-> A(s[i])] \in Seq(Seq(Ids))
    <3> DEFINE D == Seq(Ids)
               l == Len(s)
    <3>1. l \in Nat /\ \A i \in 1..l : A(s[i]) \in D
      BY <2>1, <2>2
    <3> HIDE DEF D, l
    <3>2. [i \in 1..l |-> A(s[i])] \in Seq(D)
      BY <3>1
    <3> QED BY <3>2 DEF D, l
  <2> QED BY <2>1, <2>3, Zenon
<1>4. AskedIds(q, link) \in Seq(Ids)
  <2>1. F(q) \in Seq(Seq(Ids))
    BY <1>3, Zenon
  <2>2. AskedIds(q, link) = FlattenSeq(F(q))
    BY <1>2, Zenon
  <2> HIDE DEF F
  <2>3. FlattenSeq(F(q)) \in Seq(Ids)
    BY <2>1, FlattenIsSeq, Zenon
  <2> QED BY <2>2, <2>3
<1>5. ASSUME q = <<>> PROVE AskedIds(q, link) = <<>>
  <2>1. F(q) = <<>> /\ F(q) \in Seq(Seq(Ids))
    BY <1>3, <1>5
  <2> QED BY <1>2, <2>1, FlattenIsSeq
<1>6. ASSUME NEW m \in Requests PROVE AskedIds(Append(q, m), link) = AskedIds(q, link) \o A(m)
  <2>1. F(Append(q, m)) = Append(F(q), A(m))
    OBVIOUS
  <2>2. F(q) \in Seq(Seq(Ids)) /\ A(m) \in Seq(Ids)
    BY <1>1, <1>3, Zenon
  <2> HIDE DEF F
  <2>3. FlattenSeq(Append(F(q), A(m))) = FlattenSeq(F(q)) \o A(m)
    BY <2>2, FlattenAppend, Zenon
  <2> QED BY <1>2, <2>1, <2>3, Zenon
<1>7. ASSUME q # <<>> PROVE AskedIds(q, link) = A(Head(q)) \o AskedIds(Tail(q), link)
  <2>1. F(q) # <<>> /\ Head(F(q)) = A(Head(q)) /\ Tail(F(q)) = F(Tail(q))
    BY <1>7
  <2>2. F(q) \in Seq(Seq(Ids))
    BY <1>3, Zenon
  <2> HIDE DEF F
  <2>3. FlattenSeq(F(q)) = Head(F(q)) \o FlattenSeq(Tail(F(q)))
    BY <2>1, <2>2, FlattenTail, Zenon
  <2> QED BY <1>2, <2>1, <2>3, Zenon
<1> QED BY <1>4, <1>5, <1>6, <1>7, Zenon DEF A

\* The ids answered, one by one.
LEMMA AnsweredFacts ==
  ASSUME NEW q \in Seq(Ids \cup {None})
  PROVE  /\ AnsweredIds(q) \in Seq(Ids)
         /\ q = <<>> => AnsweredIds(q) = <<>>
         /\ \A id \in Ids \cup {None} :
              AnsweredIds(Append(q, id)) = AnsweredIds(q) \o (IF id # None THEN <<id>> ELSE <<>>)
         /\ q # <<>> =>
              AnsweredIds(q)
                = (IF Head(q) # None THEN <<Head(q)>> ELSE <<>>) \o AnsweredIds(Tail(q))
<1> DEFINE A(id) == IF id # None THEN <<id>> ELSE <<>>
           F(s) == [i \in DOMAIN s |-> A(s[i])]
           I == Ids \cup {None}
<1>1. \A id \in I : A(id) \in Seq(Ids)
  OBVIOUS
<1>2. \A s : AnsweredIds(s) = FlattenSeq(F(s))
  BY Zenon DEF AnsweredIds
<1> HIDE DEF A, I
<1>3. \A s \in Seq(I) : F(s) \in Seq(Seq(Ids))
  <2> SUFFICES ASSUME NEW s \in Seq(I) PROVE F(s) \in Seq(Seq(Ids))
    OBVIOUS
  <2>1. Len(s) \in Nat /\ DOMAIN s = 1..Len(s) /\ \A i \in 1..Len(s) : s[i] \in I
    BY LenProperties, ElementOfSeq
  <2>2. \A i \in 1..Len(s) : A(s[i]) \in Seq(Ids)
    BY <1>1, <2>1, Zenon
  <2>3. [i \in 1..Len(s) |-> A(s[i])] \in Seq(Seq(Ids))
    <3> DEFINE D == Seq(Ids)
               l == Len(s)
    <3>1. l \in Nat /\ \A i \in 1..l : A(s[i]) \in D
      BY <2>1, <2>2
    <3> HIDE DEF D, l
    <3>2. [i \in 1..l |-> A(s[i])] \in Seq(D)
      BY <3>1
    <3> QED BY <3>2 DEF D, l
  <2> QED BY <2>1, <2>3, Zenon
<1>0. q \in Seq(I)
  BY DEF I
<1>4. AnsweredIds(q) \in Seq(Ids)
  <2>1. F(q) \in Seq(Seq(Ids))
    BY <1>0, <1>3, Zenon
  <2> QED BY <1>2, <2>1, FlattenIsSeq, Zenon
<1>5. ASSUME q = <<>> PROVE AnsweredIds(q) = <<>>
  <2>1. F(q) = <<>> /\ F(q) \in Seq(Seq(Ids))
    BY <1>0, <1>3, <1>5
  <2> QED BY <1>2, <2>1, FlattenIsSeq
<1>6. ASSUME NEW id \in I PROVE AnsweredIds(Append(q, id)) = AnsweredIds(q) \o A(id)
  <2>1. F(Append(q, id)) = Append(F(q), A(id))
    BY <1>0
  <2>2. F(q) \in Seq(Seq(Ids)) /\ A(id) \in Seq(Ids)
    BY <1>0, <1>1, <1>3, Zenon
  <2> HIDE DEF F
  <2>3. FlattenSeq(Append(F(q), A(id))) = FlattenSeq(F(q)) \o A(id)
    BY <2>2, FlattenAppend, Zenon
  <2> QED BY <1>2, <2>1, <2>3, Zenon
<1>7. ASSUME q # <<>> PROVE AnsweredIds(q) = A(Head(q)) \o AnsweredIds(Tail(q))
  <2>1. F(q) # <<>> /\ Head(F(q)) = A(Head(q)) /\ Tail(F(q)) = F(Tail(q))
    BY <1>0, <1>7
  <2>2. F(q) \in Seq(Seq(Ids))
    BY <1>0, <1>3, Zenon
  <2> HIDE DEF F
  <2>3. FlattenSeq(F(q)) = Head(F(q)) \o FlattenSeq(Tail(F(q)))
    BY <2>1, <2>2, FlattenTail, Zenon
  <2> QED BY <1>2, <2>1, <2>3, Zenon
<1> QED BY <1>4, <1>5, <1>6, <1>7, Zenon DEF A, I

\* The request in work and the queues hold requests of the links; the main task has a request
\* exactly while it processes one, and a reader that is pushing holds one.
QueuesInv ==
  /\ answers \in [Links -> Seq(Ids \cup {None})]
  /\ requests \in Seq(Requests)
  /\ current \in Requests \cup {None}
  /\ current # None <=> main_pc = "process"
  /\ holding \in [Links -> Ids \cup {None}]
  /\ \A link \in Links : reader[link] = "pushing" => holding[link] \in Ids

\* The parts of Pending.
Held(link) == IF reader[link] = "pushing" THEN <<holding[link]>> ELSE <<>>

LEMMA PendingParts ==
  ASSUME QueuesInv, NEW link \in Links
  PROVE  /\ Pending(link)
              = (AnsweredIds(answers[link]) \o AskedIds(Taken \o requests, link)) \o Held(link)
         /\ answers[link] \in Seq(Ids \cup {None})
         /\ Taken \o requests \in Seq(Requests)
         /\ AnsweredIds(answers[link]) \in Seq(Ids)
         /\ AskedIds(Taken \o requests, link) \in Seq(Ids)
         /\ Held(link) \in Seq(Ids)
<1>1. answers[link] \in Seq(Ids \cup {None})
  BY DEF QueuesInv
<1>2. Taken \o requests \in Seq(Requests)
  BY DEF QueuesInv, Taken
<1>3. AnsweredIds(answers[link]) \in Seq(Ids)
  BY <1>1, AnsweredFacts, Zenon
<1>4. AskedIds(Taken \o requests, link) \in Seq(Ids)
  BY <1>2, AskedFacts, Zenon
<1>5. Held(link) \in Seq(Ids)
  BY DEF QueuesInv, Held
<1>6. Pending(link)
        = (AnsweredIds(answers[link]) \o AskedIds(Taken \o requests, link)) \o Held(link)
  BY DEF Pending, Held
<1> QED BY <1>1, <1>2, <1>3, <1>4, <1>5, <1>6

\* A step that moves no request of a link.
LEMMA PendingKept ==
  ASSUME NEW link \in Links, answers'[link] = answers[link],
         AskedIds(Taken \o requests, link)' = AskedIds(Taken \o requests, link),
         Held(link)' = Held(link)
  PROVE  Pending(link)' = Pending(link)
<1>1. Pending(link) = AnsweredIds(answers[link]) \o AskedIds(Taken \o requests, link) \o Held(link)
  BY Zenon DEF Pending, Held
<1>2. Pending(link)' =
        AnsweredIds(answers'[link]) \o AskedIds(Taken \o requests, link)' \o Held(link)'
  BY Zenon DEF Pending, Held
<1> QED BY <1>1, <1>2, Zenon

\* The queue of a link is moved on: what was answered or lost is the oldest request.
LEMMA OldestAnswered ==
  ASSUME QueuesInv, NEW link \in Links, answers[link] # <<>>,
         answers'[link] = Tail(answers[link]),
         AskedIds(Taken \o requests, link)' = AskedIds(Taken \o requests, link),
         Held(link)' = Held(link)
  PROVE  \/ Pending(link)' = Pending(link)
         \/ Pending(link) # <<>> /\ Pending(link)' = Tail(Pending(link))
<1> DEFINE q == answers[link]
           x == AnsweredIds(Tail(q))
           y == AskedIds(Taken \o requests, link)
           z == Held(link)
           h == Head(q)
<1>1. q \in Seq(Ids \cup {None}) /\ y \in Seq(Ids) /\ z \in Seq(Ids)
  BY PendingParts
<1>2. Pending(link) = (AnsweredIds(q) \o y) \o z
  BY PendingParts
<1>3. AnsweredIds(q) = (IF h # None THEN <<h>> ELSE <<>>) \o x
  BY <1>1, AnsweredFacts, Zenon
<1>4. x \in Seq(Ids)
  <2>1. Tail(q) \in Seq(Ids \cup {None})
    BY <1>1
  <2> QED BY <2>1, AnsweredFacts, Zenon
<1>5. Pending(link)' = (x \o y) \o z
  BY Zenon DEF Pending, Held
<1>6. h \in Ids \cup {None}
  BY <1>1
<1> HIDE DEF q, x, y, z, h
<1>7. CASE h = None
  <2>1. AnsweredIds(q) = x
    BY <1>3, <1>4, <1>7
  <2> QED BY <1>2, <1>5, <2>1
<1>8. CASE h # None
  <2>1. ((<<h>> \o x) \o y) \o z # <<>> /\ Tail(((<<h>> \o x) \o y) \o z) = (x \o y) \o z
    BY <1>1, <1>4, <1>6, <1>8
  <2>2. AnsweredIds(q) = <<h>> \o x
    BY <1>3, <1>8
  <2> QED BY <1>2, <1>5, <2>1, <2>2, Zenon
<1> QED BY <1>7, <1>8

\* A request pushed behind the others.
LEMMA AppendLast ==
  ASSUME NEW S, NEW a \in Seq(S), NEW b \in Seq(S), NEW m \in S
  PROVE  a \o Append(b, m) = Append(a \o b, m)
OBVIOUS

\* The reader passes its request on.
LEMMA PushKeepsPending ==
  ASSUME QueuesInv, NEW link \in Links, reader[link] = "pushing",
         answers'[link] = answers[link], Taken' = Taken,
         requests' = Append(requests, [id |-> holding[link], source |-> link]),
         Held(link)' = <<>>
  PROVE  Pending(link)' = Pending(link)
<1> DEFINE q == Taken \o requests
           m == [id |-> holding[link], source |-> link]
           x == AnsweredIds(answers[link])
           y == AskedIds(q, link)
           h == holding[link]
<1>1. q \in Seq(Requests) /\ x \in Seq(Ids) /\ y \in Seq(Ids) /\ h \in Ids
  BY PendingParts DEF QueuesInv
<1>2. m \in Requests /\ m.source = link /\ m.id = h
  BY <1>1 DEF Requests
<1>3. (Taken \o requests)' = Append(q, m)
  <2>1. Taken \in Seq(Requests) /\ requests \in Seq(Requests)
    BY DEF QueuesInv, Taken
  <2>2. Taken \o Append(requests, m) = Append(Taken \o requests, m)
    <3> DEFINE a == Taken
               b == requests
               D == Requests
    <3>1. a \in Seq(D) /\ b \in Seq(D) /\ m \in D
      BY <1>2, <2>1
    <3> HIDE DEF a, b, D, m
    <3>2. a \o Append(b, m) = Append(a \o b, m)
      BY <3>1, AppendLast
    <3> QED BY <3>2 DEF a, b
  <2> QED BY <2>2, Zenon
<1>4. AskedIds(Append(q, m), link) = y \o <<h>>
  <2> HIDE DEF q, m
  <2>1. AskedIds(Append(q, m), link) = y \o (IF m.source = link THEN <<m.id>> ELSE <<>>)
    BY <1>1, <1>2, AskedFacts, Zenon
  <2> QED BY <1>2, <2>1, Zenon
<1>5. Pending(link)' = (x \o AskedIds(Append(q, m), link)) \o <<>>
  BY <1>3, Zenon DEF Pending, Held
<1>6. Pending(link) = (x \o y) \o <<h>>
  BY PendingParts, Zenon DEF Held
<1> HIDE DEF q, m, x, y, h
<1>7. (x \o (y \o <<h>>)) \o <<>> = (x \o y) \o <<h>>
  BY <1>1
<1> QED BY <1>4, <1>5, <1>6, <1>7, Zenon

\* A request of another link is passed on, or a new one comes.
LEMMA OtherPushed ==
  ASSUME QueuesInv, NEW link \in Links, NEW m \in Requests, m.source # link,
         Taken' = Taken, requests' = Append(requests, m)
  PROVE  AskedIds(Taken \o requests, link)' = AskedIds(Taken \o requests, link)
<1> DEFINE q == Taken \o requests
           y == AskedIds(q, link)
<1>1. q \in Seq(Requests) /\ y \in Seq(Ids)
  BY PendingParts
<1>2. (Taken \o requests)' = Append(q, m)
  <2>1. Taken \in Seq(Requests) /\ requests \in Seq(Requests)
    BY DEF QueuesInv, Taken
  <2>2. Taken \o Append(requests, m) = Append(Taken \o requests, m)
    <3> DEFINE a == Taken
               b == requests
               D == Requests
    <3>1. a \in Seq(D) /\ b \in Seq(D) /\ m \in D
      BY <1>1, <2>1
    <3> HIDE DEF a, b, D
    <3>2. a \o Append(b, m) = Append(a \o b, m)
      BY <3>1, AppendLast
    <3> QED BY <3>2 DEF a, b
  <2> QED BY <2>2, Zenon
<1>3. AskedIds(Append(q, m), link) = y \o <<>>
  <2> HIDE DEF q
  <2> QED BY <1>1, AskedFacts, Zenon
<1>4. AskedIds(Taken \o requests, link)' = AskedIds(Append(q, m), link)
  BY <1>2, Zenon
<1> HIDE DEF y
<1>5. y \o <<>> = y
  BY <1>1
<1> QED BY <1>3, <1>4, <1>5, Zenon DEF y

\* The main task takes the oldest request.
LEMMA TakeKeepsOrder ==
  ASSUME QueuesInv, current = None, requests # <<>>, requests' = Tail(requests),
         current' = Head(requests)
  PROVE  (Taken \o requests)' = Taken \o requests
<1>1. current' \in Requests /\ current' # None
  BY IdAssumption DEF QueuesInv
<1>2. Taken' = <<Head(requests)>> /\ Taken = <<>>
  BY <1>1, Zenon DEF Taken
<1>3. <<Head(requests)>> \o Tail(requests) = <<>> \o requests
  BY DEF QueuesInv
<1> QED BY <1>2, <1>3, Zenon

\* The main task has answered.
LEMMA ReplyKeepsPending ==
  ASSUME QueuesInv, NEW link \in Links, current # None, requests' = requests, current' = None,
         current.source = link => answers'[link] = Append(answers[link], current.id),
         current.source # link => answers'[link] = answers[link],
         Held(link)' = Held(link)
  PROVE  Pending(link)' = Pending(link)
<1> DEFINE q == Taken \o requests
           x == AnsweredIds(answers[link])
           y == AskedIds(requests, link)
           z == Held(link)
           h == current.id
<1>1. /\ q \in Seq(Requests) /\ x \in Seq(Ids) /\ z \in Seq(Ids)
      /\ answers[link] \in Seq(Ids \cup {None}) /\ current \in Requests
      /\ requests \in Seq(Requests)
  BY PendingParts DEF QueuesInv
<1>2. h \in Ids /\ h # None
  BY <1>1, IdAssumption DEF Requests
<1>3. q # <<>> /\ Head(q) = current /\ Tail(q) = requests
  BY <1>1 DEF Taken
<1>4. AskedIds(q, link) = (IF current.source = link THEN <<h>> ELSE <<>>) \o y
  <2> HIDE DEF q
  <2> QED BY <1>1, <1>3, AskedFacts, Zenon
<1>5. y \in Seq(Ids)
  BY <1>1, AskedFacts, Zenon
<1>6. (Taken \o requests)' = requests
  BY <1>1 DEF Taken
<1>7. Pending(link)' = (AnsweredIds(answers'[link]) \o y) \o z
  BY <1>6, Zenon DEF Pending, Held
<1>8. Pending(link) = (x \o AskedIds(q, link)) \o z
  BY PendingParts
<1>9. current.source = link => AnsweredIds(answers'[link]) = x \o <<h>>
  BY <1>1, <1>2, AnsweredFacts, Zenon
<1> HIDE DEF q, x, y, z, h
<1>10. CASE current.source = link
  <2>1. ((x \o <<h>>) \o y) \o z = (x \o (<<h>> \o y)) \o z
    BY <1>1, <1>2, <1>5
  <2> QED BY <1>4, <1>7, <1>8, <1>9, <1>10, <2>1, Zenon
<1>11. CASE current.source # link
  <2>1. <<>> \o y = y
    BY <1>5
  <2> QED BY <1>4, <1>7, <1>8, <1>11, <2>1, Zenon DEF x
<1> QED BY <1>10, <1>11

\* A request arrives.
LEMMA ReceiveAsks ==
  ASSUME QueuesInv, NEW link \in Links, NEW id \in Ids, reader[link] # "pushing",
         UNCHANGED <<answers, requests, current>>, Held(link)' = <<id>>
  PROVE  Pending(link)' = Append(Pending(link), id)
<1> DEFINE x == AnsweredIds(answers[link])
           y == AskedIds(Taken \o requests, link)
<1>1. x \in Seq(Ids) /\ y \in Seq(Ids)
  BY PendingParts
<1>2. Pending(link) = (x \o y) \o <<>>
  BY PendingParts, Zenon DEF Held
<1>3. Pending(link)' = (x \o y) \o <<id>>
  BY Zenon DEF Pending, Held, Taken
<1> HIDE DEF x, y
<1>4. (x \o y) \o <<id>> = Append((x \o y) \o <<>>, id)
  BY <1>1
<1> QED BY <1>2, <1>3, <1>4, Zenon

\* Initially no request is in the queues.
LEMMA QueuesInit == PumpInit => QueuesInv
BY DEF PumpInit, QueuesInv, Unset, Links, Requests

\* Taking a request.
LEMMA TakeStep ==
  ASSUME QueuesInv, current = None, get_in_message
  PROVE  /\ QueuesInv'
         /\ \A link \in Links : Pending(link)' = Pending(link)
<1>1. /\ requests # <<>> /\ requests' = Tail(requests) /\ current' = Head(requests)
      /\ main_pc' = "process" /\ UNCHANGED <<answers, reader, holding>>
  BY DEF get_in_message, taskVars
<1>2. QueuesInv'
  BY <1>1, IdAssumption DEF QueuesInv
<1>3. (Taken \o requests)' = Taken \o requests
  BY <1>1, TakeKeepsOrder
<1>4. ASSUME NEW link \in Links PROVE Pending(link)' = Pending(link)
  <2>1. AskedIds(Taken \o requests, link)' = AskedIds(Taken \o requests, link)
    BY <1>3, Zenon
  <2>2. Held(link)' = Held(link)
    BY <1>1, Zenon DEF Held
  <2> QED BY <1>1, <2>1, <2>2, PendingKept, Zenon
<1> QED BY <1>2, <1>4

\* A step that leaves the queues alone and every reader that is pushing with its request.
QueuesKept ==
  /\ UNCHANGED <<answers, requests, current>>
  /\ main_pc' = "process" <=> main_pc = "process"
  /\ holding' = holding
  /\ \A link \in Links : reader'[link] = "pushing" <=> reader[link] = "pushing"

LEMMA QueuesKeptStep ==
  ASSUME QueuesInv, QueuesKept
  PROVE  /\ QueuesInv'
         /\ \A link \in Links : Pending(link)' = Pending(link)
<1>1. QueuesInv'
  BY DEF QueuesInv, QueuesKept
<1>2. ASSUME NEW link \in Links PROVE Pending(link)' = Pending(link)
  <2>1. Held(link)' = Held(link)
    BY Zenon DEF Held, QueuesKept
  <2>2. answers'[link] = answers[link]
    BY DEF QueuesKept
  <2>3. AskedIds(Taken \o requests, link)' = AskedIds(Taken \o requests, link)
    BY Zenon DEF QueuesKept, Taken
  <2> QED BY <2>1, <2>2, <2>3, PendingKept, Zenon
<1> QED BY <1>1, <1>2

\* Starting a link starts no push.
LEMMA StartKeepsPushes ==
  ASSUME PumpInv, NEW link \in Links, Start(link), ~Stopping(link)
  PROVE  \A other \in Links : reader'[other] = "pushing" <=> reader[other] = "pushing"
<1>1. CASE enabled[link]
  BY <1>1 DEF Start
<1>2. CASE ~enabled[link]
  <2>1. reader[link] = "off" /\ reader' = [reader EXCEPT ![link] = "reading"]
    BY <1>2 DEF Start, PumpInv
  <2> QED BY <2>1 DEF PumpInv, PumpTypes
<1> QED BY <1>1, <1>2

\* What a step does to the requests not yet answered.
AllKept == \A link \in Links : Pending(link)' = Pending(link)
OthersKept(link) == \A other \in Links : other # link => Pending(other)' = Pending(other)
ChannelStep ==
  \/ AllKept
  \/ \E link \in Links :
       /\ OthersKept(link)
       /\ \/ \E id \in Ids : Pending(link)' = Append(Pending(link), id)
          \/ Pending(link) # <<>> /\ Pending(link)' = Tail(Pending(link))
  \/ \A link \in Links : Pending(link)' = <<>>

\* One queue of answers is moved on.
LEMMA AnswerStep ==
  ASSUME QueuesInv, NEW link \in Links, answers[link] # <<>>,
         answers' = [answers EXCEPT ![link] = Tail(@)],
         UNCHANGED <<requests, current, main_pc, reader, holding>>
  PROVE  QueuesInv' /\ ChannelStep
<1>1. QueuesInv'
  BY DEF QueuesInv
<1>2. ASSUME NEW l \in Links
      PROVE  /\ AskedIds(Taken \o requests, l)' = AskedIds(Taken \o requests, l)
             /\ Held(l)' = Held(l)
  BY Zenon DEF Taken, Held
<1>3. /\ answers'[link] = Tail(answers[link])
      /\ \A l \in Links : l # link => answers'[l] = answers[l]
  BY DEF QueuesInv
<1>4. OthersKept(link)
  BY <1>2, <1>3, PendingKept, Zenon DEF OthersKept
<1>5. \/ Pending(link)' = Pending(link)
      \/ Pending(link) # <<>> /\ Pending(link)' = Tail(Pending(link))
  BY <1>2, <1>3, OldestAnswered, Zenon
<1> QED BY <1>1, <1>4, <1>5, Zenon DEF ChannelStep, OthersKept, AllKept

\* A full queue is not empty.
LEMMA FullIsNotEmpty ==
  ASSUME NEW link \in Links, DiscardOldest(link)
  PROVE  answers[link] # <<>> /\ answers' = [answers EXCEPT ![link] = Tail(@)]
BY QueueAssumption DEF DiscardOldest

\* An empty queue has no ids.
LEMMA NoIds == AnsweredIds(<<>>) = <<>> /\ \A link \in Links : AskedIds(<<>>, link) = <<>>
<1>1. <<>> \in Seq(Ids \cup {None}) /\ <<>> \in Seq(Requests)
  OBVIOUS
<1> QED BY <1>1, AnsweredFacts, AskedFacts, Zenon

\* A request arrives: the reader holds it, or answers it itself.
LEMMA RequestArrives ==
  ASSUME QueuesInv, PumpInv, NEW link \in Links, ReceiveRequest(link)
  PROVE  QueuesInv' /\ ChannelStep
<1>0. reader[link] = "reading" /\ UNCHANGED <<answers, requests, current, main_pc>>
  BY DEF ReceiveRequest, mainVars
<1>1. CASE reader' = [reader EXCEPT ![link] = "replying"] /\ UNCHANGED holding
  <2>1. QueuesKept
    BY <1>0, <1>1 DEF QueuesKept, PumpInv, PumpTypes
  <2> QED BY <2>1, QueuesKeptStep, Zenon DEF ChannelStep, AllKept
<1>2. ASSUME NEW id \in Ids, reader' = [reader EXCEPT ![link] = "pushing"],
             holding' = [holding EXCEPT ![link] = id]
      PROVE  QueuesInv' /\ ChannelStep
  <2>1. QueuesInv'
    BY <1>0, <1>2 DEF QueuesInv, PumpInv, PumpTypes
  <2>2. /\ reader'[link] = "pushing" /\ holding'[link] = id
        /\ \A other \in Links : other # link => reader'[other] = reader[other]
        /\ \A other \in Links : other # link => holding'[other] = holding[other]
    BY <1>2 DEF QueuesInv, PumpInv, PumpTypes
  <2>3. Held(link)' = <<id>>
    BY <2>2, Zenon DEF Held
  <2>4. reader[link] # "pushing"
    BY <1>0
  <2>5. Pending(link)' = Append(Pending(link), id)
    BY <1>0, <2>3, <2>4, ReceiveAsks
  <2>6. ASSUME NEW other \in Links, other # link PROVE Pending(other)' = Pending(other)
    <3>1. Held(other)' = Held(other)
      BY <2>2, <2>6, Zenon DEF Held
    <3>2. AskedIds(Taken \o requests, other)' = AskedIds(Taken \o requests, other)
      BY <1>0, Zenon DEF Taken
    <3>3. answers'[other] = answers[other]
      BY <1>0
    <3> QED BY <3>1, <3>2, <3>3, PendingKept, Zenon
  <2> QED BY <2>1, <2>5, <2>6, Zenon DEF ChannelStep, OthersKept
<1> QED BY <1>1, <1>2 DEF ReceiveRequest

\* The reader passes its request on to the main task.
LEMMA PushStep ==
  ASSUME QueuesInv, PumpInv, NEW link \in Links, push_in_message(link)
  PROVE  QueuesInv' /\ AllKept
<1> DEFINE m == [id |-> holding[link], source |-> link]
<1>1. /\ reader[link] = "pushing" /\ requests' = Append(requests, m)
      /\ reader' = [reader EXCEPT ![link] = "reading"]
      /\ holding' = [holding EXCEPT ![link] = None]
      /\ UNCHANGED <<answers, current, main_pc>>
  BY DEF push_in_message, mainVars
<1>2. m \in Requests /\ m.source = link
  BY <1>1 DEF QueuesInv, Requests
<1>3. QueuesInv'
  <2> HIDE DEF m
  <2> QED BY <1>1, <1>2 DEF QueuesInv, PumpInv, PumpTypes
<1>4. /\ reader'[link] = "reading"
      /\ \A other \in Links : other # link =>
           reader'[other] = reader[other] /\ holding'[other] = holding[other]
  BY <1>1 DEF QueuesInv, PumpInv, PumpTypes
<1>5. Taken' = Taken /\ \A other \in Links : answers'[other] = answers[other]
  BY <1>1, Zenon DEF Taken
<1>6. Pending(link)' = Pending(link)
  <2>1. Held(link)' = <<>>
    BY <1>4 DEF Held
  <2> QED BY <1>1, <1>5, <2>1, PushKeepsPending
<1>7. ASSUME NEW other \in Links, other # link PROVE Pending(other)' = Pending(other)
  <2>1. Held(other)' = Held(other)
    BY <1>4, <1>7, Zenon DEF Held
  <2>2. AskedIds(Taken \o requests, other)' = AskedIds(Taken \o requests, other)
    <3> HIDE DEF m
    <3>1. m.source # other
      BY <1>2, <1>7
    <3> QED BY <1>1, <1>2, <1>5, <3>1, OtherPushed, Zenon
  <2> QED BY <1>5, <2>1, <2>2, PendingKept, Zenon
<1> QED BY <1>3, <1>6, <1>7, Zenon DEF AllKept

\* The reader answers for itself: no request of the host is concerned, except that the oldest
\* answer may have to make room.
LEMMA ImmediateStep ==
  ASSUME QueuesInv, PumpInv, NEW link \in Links, handleImmediateMessage(link)
  PROVE  QueuesInv' /\ ChannelStep
<1>0. reader[link] = "replying" /\ UNCHANGED <<holding, requests, current, main_pc>>
  BY DEF handleImmediateMessage, mainVars
<1>1. CASE PushOut(link, None) /\ reader' = [reader EXCEPT ![link] = "reading"]
  <2>1. /\ answers'[link] = Append(answers[link], None)
        /\ \A other \in Links : other # link => answers'[other] = answers[other]
        /\ \A other \in Links : reader'[other] = "pushing" <=> reader[other] = "pushing"
    BY <1>0, <1>1 DEF PushOut, QueuesInv, PumpInv, PumpTypes
  <2>2. QueuesInv'
    BY <1>0, <1>1, <2>1 DEF PushOut, QueuesInv
  <2>3. ASSUME NEW other \in Links
        PROVE  /\ AskedIds(Taken \o requests, other)' = AskedIds(Taken \o requests, other)
               /\ Held(other)' = Held(other)
    BY <1>0, <2>1, Zenon DEF Taken, Held
  <2>4. Pending(link)' = Pending(link)
    <3> DEFINE q == answers[link]
               x == AnsweredIds(q)
    <3>1. q \in Seq(Ids \cup {None}) /\ x \in Seq(Ids)
      BY PendingParts
    <3>2. AnsweredIds(Append(q, None)) = x \o <<>>
      <4> HIDE DEF q
      <4> QED BY <3>1, AnsweredFacts, Zenon
    <3>3. x \o <<>> = x
      <4> HIDE DEF x
      <4> QED BY <3>1
    <3>4. AnsweredIds(answers[link])' = x
      BY <2>1, <3>2, <3>3, Zenon
    <3>5. /\ Pending(link)' = AnsweredIds(answers[link])' \o AskedIds(Taken \o requests, link)'
                                \o Held(link)'
          /\ Pending(link) = x \o AskedIds(Taken \o requests, link) \o Held(link)
      BY Zenon DEF Pending, Held
    <3> QED BY <2>3, <3>4, <3>5, Zenon
  <2>5. \A other \in Links : other # link => Pending(other)' = Pending(other)
    BY <2>1, <2>3, PendingKept, Zenon
  <2> QED BY <2>2, <2>4, <2>5, Zenon DEF ChannelStep, AllKept
<1>2. CASE DiscardOldest(link) /\ UNCHANGED reader
  BY <1>0, <1>2, FullIsNotEmpty, AnswerStep
<1> QED BY <1>1, <1>2 DEF handleImmediateMessage

\* The main task answers, or makes room for its answer.
LEMMA ReplyStep ==
  ASSUME QueuesInv, ReplyToRequest
  PROVE  QueuesInv' /\ ChannelStep
<1>0. /\ main_pc = "process" /\ current # None /\ current \in Requests
      /\ UNCHANGED <<reader, holding, requests>>
  BY DEF ReplyToRequest, taskVars, QueuesInv
<1>1. current.source \in Links /\ current.id \in Ids
  BY <1>0 DEF Requests
<1>2. CASE /\ PushOut(current.source, current.id)
           /\ current' = None
           /\ main_pc' \in {"dashboard", "await"}
  <2>1. QueuesInv'
    BY <1>0, <1>1, <1>2 DEF PushOut, QueuesInv
  <2>2. ASSUME NEW link \in Links
        PROVE  /\ current.source = link => answers'[link] = Append(answers[link], current.id)
               /\ current.source # link => answers'[link] = answers[link]
    BY <1>1, <1>2 DEF PushOut, QueuesInv
  <2>3. \A link \in Links : Pending(link)' = Pending(link)
    <3> SUFFICES ASSUME NEW link \in Links PROVE Pending(link)' = Pending(link)
      OBVIOUS
    <3>1. Held(link)' = Held(link)
      BY <1>0, Zenon DEF Held
    <3> QED BY <1>0, <1>2, <2>2, <3>1, ReplyKeepsPending
  <2> QED BY <2>1, <2>3, Zenon DEF ChannelStep, AllKept
<1>3. CASE DiscardOldest(current.source) /\ UNCHANGED <<current, main_pc>>
  BY <1>0, <1>1, <1>3, FullIsNotEmpty, AnswerStep
<1> QED BY <1>2, <1>3 DEF ReplyToRequest

\* The device restarts: nothing is left.
LEMMA RestartStep ==
  ASSUME Restart
  PROVE  QueuesInv' /\ ChannelStep
<1>1. PICK on \in OnAtBoot :
        reader' = [link \in Links |-> IF on[link] THEN "reading" ELSE "off"]
  BY Zenon DEF Restart
<1>2. /\ holding' = Unset /\ requests' = <<>> /\ answers' = [link \in Links |-> <<>>]
      /\ main_pc' = "dashboard" /\ current' = None
  BY Zenon DEF Restart
<1>3. \A link \in Links : reader'[link] # "pushing"
  BY <1>1
<1>4. QueuesInv'
  BY <1>2, <1>3 DEF QueuesInv, Unset
<1>5. ASSUME NEW link \in Links PROVE Pending(link)' = <<>>
  <2>1. answers'[link] = <<>> /\ (Taken \o requests)' = <<>>
    BY <1>2 DEF Taken
  <2>2. AnsweredIds(<<>>) = <<>>
    BY NoIds, Zenon
  <2>3. AskedIds(<<>>, link) = <<>>
    BY NoIds, Zenon
  <2>4. Pending(link)' = <<>> \o <<>> \o <<>>
    BY <1>3, <2>1, <2>2, <2>3, Zenon DEF Pending
  <2> QED BY <2>4
<1> QED BY <1>4, <1>5, Zenon DEF ChannelStep

\* Every step keeps the queues well formed, and is a step of the channel or moves no request.
LEMMA PumpChannelStep ==
  ASSUME PumpInv, QueuesInv, [PumpNext]_pump_vars
  PROVE  QueuesInv' /\ ChannelStep
<1>0. QueuesKept => QueuesInv' /\ ChannelStep
  BY QueuesKeptStep, Zenon DEF ChannelStep, AllKept
<1> USE DEF linkVars, taskVars, mainVars
<1>1. ASSUME NEW link \in Links, ReceiveRequest(link)
      PROVE  QueuesInv' /\ ChannelStep
  BY <1>1, RequestArrives
<1>2. ASSUME NEW link \in Links, push_in_message(link)
      PROVE  QueuesInv' /\ ChannelStep
  BY <1>2, PushStep, Zenon DEF ChannelStep
<1>3. ASSUME NEW link \in Links, handleImmediateMessage(link)
      PROVE  QueuesInv' /\ ChannelStep
  BY <1>3, ImmediateStep
<1>4. ASSUME NEW link \in Links, ReaderExits(link)
      PROVE  QueuesKept
  BY <1>4 DEF ReaderExits, QueuesKept, PumpInv, PumpTypes
<1>5. ASSUME NEW link \in Links, WriteReply(link)
      PROVE  QueuesInv' /\ ChannelStep
  BY <1>5, AnswerStep DEF WriteReply
<1>6. ASSUME NEW link \in Links, WriterExits(link)
      PROVE  QueuesKept
  BY <1>6 DEF WriterExits, QueuesKept
<1>7. ASSUME NEW link \in Links, Stop(link)
      PROVE  QueuesKept
  BY <1>7 DEF Stop, QueuesKept
<1>8. CASE AwaitRequest
  <2>1. current = None /\ get_in_message
    BY <1>8 DEF AwaitRequest, QueuesInv
  <2> QED BY <2>1, TakeStep, Zenon DEF ChannelStep, AllKept
<1>9. CASE LostConnection
  <2>1. QueuesKept
    BY <1>9 DEF LostConnection, QueuesKept
  <2> QED BY <1>0, <2>1
<1>10. CASE StopReader
  <2>1. QueuesKept
    BY <1>10 DEF StopReader, QueuesKept, PumpInv, PumpTypes
  <2> QED BY <1>0, <2>1
<1>11. CASE StopWriter
  <2>1. QueuesKept
    BY <1>11 DEF StopWriter, QueuesKept
  <2> QED BY <1>0, <2>1
<1>12. CASE TakeRequest
  <2>1. current = None /\ get_in_message
    BY <1>12 DEF TakeRequest, QueuesInv
  <2> QED BY <2>1, TakeStep, Zenon DEF ChannelStep, AllKept
<1>13. CASE ReplyToRequest
  BY <1>13, ReplyStep
<1>14. CASE StartBle
  <2>1. /\ Start("ble") /\ main_pc = "dashboard"
        /\ UNCHANGED <<answers, requests, current, main_pc, holding>>
    BY <1>14 DEF StartBle
  <2>2. "ble" \in Links /\ ~Stopping("ble")
    BY <2>1 DEF Stopping, Links
  <2>3. QueuesKept
    BY <2>1, <2>2, StartKeepsPushes, Zenon DEF QueuesKept
  <2> QED BY <1>0, <2>3
<1>15. CASE Restart
  BY <1>15, RestartStep
<1>16. CASE handle_usbstorage_action
  <2>1. /\ main_pc = "storage" /\ main_pc' = "dashboard"
        /\ UNCHANGED <<answers, requests, current, holding>>
    BY <1>16 DEF handle_usbstorage_action
  <2>2. "serial" \in Links /\ ~Stopping("serial") /\ main_pc # "process" /\ main_pc' # "process"
    BY <2>1 DEF Stopping, Links
  <2>3. CASE Start("serial")
    BY <1>0, <2>1, <2>2, <2>3, StartKeepsPushes, Zenon DEF QueuesKept
  <2>4. CASE UNCHANGED reader
    BY <1>0, <2>1, <2>2, <2>4, Zenon DEF QueuesKept
  <2> QED BY <1>16, <2>3, <2>4 DEF handle_usbstorage_action
<1>17. CASE usbmode_ota_worker
  <2>1. Start("serial") /\ UNCHANGED <<answers, requests, current, holding, main_pc>> /\ usb_worker
    BY <1>17 DEF usbmode_ota_worker
  <2>2. "serial" \in Links /\ ~Stopping("serial")
    BY <2>1 DEF PumpInv, Links
  <2>3. QueuesKept
    BY <2>1, <2>2, StartKeepsPushes, Zenon DEF QueuesKept
  <2> QED BY <1>0, <2>3
<1>18. CASE UsbPower
  <2>1. QueuesKept
    BY <1>18 DEF UsbPower, QueuesKept
  <2> QED BY <1>0, <2>1
<1>19. CASE ble_gap_event
  <2>1. QueuesKept
    BY <1>19 DEF ble_gap_event, QueuesKept
  <2> QED BY <1>0, <2>1
<1>20. CASE UNCHANGED pump_vars
  <2>1. QueuesKept
    BY <1>20 DEF pump_vars, QueuesKept
  <2> QED BY <1>0, <2>1
<1> QED
  BY <1>0, <1>1, <1>2, <1>3, <1>4, <1>5, <1>6, <1>7, <1>8, <1>9, <1>10, <1>11, <1>12, <1>13,
     <1>14, <1>15, <1>16, <1>17, <1>18, <1>19, <1>20
  DEF PumpNext, ReaderTask, WriterTask, MainTask

(* Over each link the requests are answered in the order in which they were sent, none twice,
   and no answer comes from nowhere, for any capacity of the queues, whoever starts and stops
   the links: the tasks and queues of process.c, serial.c and ble.c implement Channel. *)
THEOREM PumpImplementsChannel == PumpSpec => ImplementsChannel
<1> DEFINE P == [link \in Links |-> Pending(link)]
<1>1. PumpInit => PumpInv /\ QueuesInv
  BY QueuesInit DEF PumpInit, OnAtBoot, Links, PumpInv, PumpTypes, Stopping
<1>2. PumpInv /\ QueuesInv /\ [PumpNext]_pump_vars => (PumpInv /\ QueuesInv)'
  BY PumpStep, PumpChannelStep
<1>3. PumpInit => Ch!ChInit
  <2> SUFFICES ASSUME PumpInit PROVE P = [link \in Links |-> <<>>]
    BY DEF Ch!ChInit
  <2>1. ASSUME NEW link \in Links PROVE Pending(link) = <<>>
    <3>1. answers[link] = <<>> /\ Taken \o requests = <<>> /\ reader[link] # "pushing"
      BY DEF PumpInit, Taken
    <3>2. AnsweredIds(<<>>) = <<>>
      BY NoIds, Zenon
    <3>3. AskedIds(<<>>, link) = <<>>
      BY NoIds, Zenon
    <3>4. Pending(link) = <<>> \o <<>> \o <<>>
      BY <3>1, <3>2, <3>3, Zenon DEF Pending
    <3> QED BY <3>4
  <2> QED BY <2>1, Zenon
<1>4. PumpInv /\ QueuesInv /\ [PumpNext]_pump_vars => [Ch!ChNext]_P
  <2> SUFFICES ASSUME PumpInv, QueuesInv, [PumpNext]_pump_vars
               PROVE  Ch!ChNext \/ P' = P
    OBVIOUS
  <2>1. P' = [link \in Links |-> Pending(link)']
    OBVIOUS
  <2>2. CASE AllKept
    BY <2>1, <2>2, Zenon DEF AllKept
  <2>3. ASSUME NEW link \in Links, OthersKept(link), NEW id \in Ids,
               Pending(link)' = Append(Pending(link), id)
        PROVE  Ch!ChNext
    <3>1. P' = [P EXCEPT ![link] = Append(@, id)]
      BY <2>1, <2>3 DEF OthersKept
    <3>2. Ch!Ask(link, id)
      BY <3>1 DEF Ch!Ask
    <3> QED BY <3>2 DEF Ch!ChNext
  <2>4. ASSUME NEW link \in Links, OthersKept(link), Pending(link) # <<>>,
               Pending(link)' = Tail(Pending(link))
        PROVE  Ch!ChNext
    <3>1. P' = [P EXCEPT ![link] = Tail(@)] /\ P[link] # <<>>
      BY <2>1, <2>4 DEF OthersKept
    <3>2. Ch!AnswerOrLose(link)
      BY <3>1 DEF Ch!AnswerOrLose
    <3> QED BY <3>2 DEF Ch!ChNext
  <2>5. CASE \A link \in Links : Pending(link)' = <<>>
    <3>1. P' = [link \in Links |-> <<>>]
      BY <2>1, <2>5, Zenon
    <3> QED BY <3>1 DEF Ch!ChNext, Ch!Reset
  <2>6. ChannelStep
    BY PumpChannelStep
  <2> QED BY <2>2, <2>3, <2>4, <2>5, <2>6, Zenon DEF ChannelStep
<1>5. PumpSpec => Ch!ChSpec
  BY <1>1, <1>2, <1>3, <1>4, PTL DEF PumpSpec, Ch!ChSpec
<1> QED BY <1>5 DEF ImplementsChannel

-----------------------------------------------------------------------------
(* Wire again: the messages found in the bytes received *)

\* A sequence put together from the front of each item to the next: where the next one
\* starts is in 'size', which is 0 at the end.
Link(f, size, item, i) == IF size[i] = 0 THEN <<>> ELSE <<item[i]>> \o f[i + size[i]]
Chain(f, size, item, N) == \A i \in 1..N : f[i] = Link(f, size, item, i)

\* Every item ends within the N places.
Chainable(size, item, N, S) ==
  /\ N \in Nat \ {0} /\ size \in [1..N -> Nat]
  /\ \A i \in 1..N : size[i] # 0 => i + size[i] \in 1..N /\ item[i] \in S

\* There is such a chain.
LEMMA ChainExists ==
  ASSUME NEW S, NEW N, NEW size, NEW item, Chainable(size, item, N, S)
  PROVE  \E f \in [1..N -> Seq(S)] : Chain(f, size, item, N)
<1> DEFINE T == {d \in 0..N : \E g \in [1..N -> Seq(S)] :
                   \A i \in 1..N : i > N - d => g[i] = Link(g, size, item, i)}
<1>0. /\ N \in Nat /\ N >= 1
      /\ \A i \in 1..N : size[i] \in Nat
      /\ \A i \in 1..N : size[i] # 0 => i + size[i] \in 1..N /\ item[i] \in S
  BY DEF Chainable
<1>1. 0 \in T
  <2>1. [i \in 1..N |-> <<>>] \in [1..N -> Seq(S)]
    OBVIOUS
  <2>2. 0 \in 0..N /\ \A i \in 1..N : ~(i > N - 0)
    BY <1>0
  <2> QED BY <2>1, <2>2, Zenon
<1>2. ASSUME NEW d \in 1..N, d - 1 \in T PROVE d \in T
  <2>1. PICK g \in [1..N -> Seq(S)] :
           \A i \in 1..N : i > N - (d - 1) => g[i] = Link(g, size, item, i)
    BY <1>2, Zenon
  <2> DEFINE k == N - (d - 1)
             c == Link(g, size, item, k)
             h == [g EXCEPT ![k] = c]
  <2>2. k \in 1..N /\ \A i \in 1..N : i > N - d <=> i = k \/ i > k
    BY <1>0
  <2>3. c \in Seq(S)
    <3> HIDE DEF k
    <3>1. CASE size[k] = 0
      BY <3>1 DEF Link
    <3>2. CASE size[k] # 0
      <4>1. k + size[k] \in 1..N /\ item[k] \in S
        BY <1>0, <2>2, <3>2, Zenon
      <4>2. g[k + size[k]] \in Seq(S) /\ <<item[k]>> \in Seq(S)
        BY <4>1
      <4>3. c = <<item[k]>> \o g[k + size[k]]
        BY <3>2, Zenon DEF Link
      <4> QED BY <4>2, <4>3, ConcatSeq, Zenon
    <3> QED BY <3>1, <3>2
  <2> HIDE DEF c, k
  <2>4. h \in [1..N -> Seq(S)] /\ h[k] = c /\ \A i \in 1..N : i # k => h[i] = g[i]
    BY <2>2, <2>3
  <2> HIDE DEF h
  <2>5. ASSUME NEW i \in 1..N, i = k \/ i > k PROVE Link(h, size, item, i) = Link(g, size, item, i)
    <3>1. CASE size[i] = 0
      BY <3>1, Zenon DEF Link
    <3>2. CASE size[i] # 0
      <4>1. i + size[i] \in 1..N /\ size[i] \in Nat
        BY <1>0, <3>2, Zenon
      <4>2. i + size[i] # k
        BY <2>2, <2>5, <3>2, <4>1
      <4>3. h[i + size[i]] = g[i + size[i]]
        BY <2>4, <4>1, <4>2, Zenon
      <4> QED BY <3>2, <4>3, Zenon DEF Link
    <3> QED BY <3>1, <3>2
  <2>6. ASSUME NEW i \in 1..N, i > N - d PROVE h[i] = Link(h, size, item, i)
    <3>1. i = k \/ i > k
      BY <2>2, <2>6, Zenon
    <3>2. Link(h, size, item, i) = Link(g, size, item, i)
      BY <2>5, <3>1, Zenon
    <3>3. CASE i = k
      BY <2>4, <3>2, <3>3, Zenon DEF c
    <3>4. CASE i > k
      <4>1. i # k
        BY <2>2, <3>4
      <4>2. g[i] = Link(g, size, item, i)
        BY <2>1, <3>4, Zenon DEF k
      <4> QED BY <2>4, <3>2, <4>1, <4>2, Zenon
    <3> QED BY <3>1, <3>3, <3>4
  <2>7. d \in 0..N
    BY <1>0
  <2> QED BY <2>4, <2>6, <2>7, Zenon
<1>3. N \in T
  <2> HIDE DEF T
  <2>1. \A d \in 0..N : d \in T
    BY <1>0, <1>1, <1>2, Induction
  <2> QED BY <1>0, <2>1
<1>4. PICK g \in [1..N -> Seq(S)] : \A i \in 1..N : i > N - N => g[i] = Link(g, size, item, i)
  BY <1>3, Zenon
<1>5. \A i \in 1..N : i > N - N
  BY <1>0
<1> QED BY <1>4, <1>5, Zenon DEF Chain

\* There is no other one.
Agree(f, g, N) == \A i \in 1..N : f[i] = g[i]

LEMMA ChainUnique ==
  ASSUME NEW S, NEW N, NEW size, NEW item, Chainable(size, item, N, S),
         NEW f, NEW g, Chain(f, size, item, N), Chain(g, size, item, N)
  PROVE  Agree(f, g, N)
<1> DEFINE T == {d \in 0..N : \A i \in 1..N : i > N - d => f[i] = g[i]}
<1>0. /\ N \in Nat /\ N >= 1
      /\ \A i \in 1..N : size[i] \in Nat
      /\ \A i \in 1..N : size[i] # 0 => i + size[i] \in 1..N
  BY DEF Chainable
<1>1. 0 \in T
  BY <1>0
<1>2. ASSUME NEW d \in 1..N, d - 1 \in T PROVE d \in T
  <2>1. ASSUME NEW i \in 1..N, i > N - d PROVE f[i] = g[i]
    <3>1. f[i] = Link(f, size, item, i) /\ g[i] = Link(g, size, item, i)
      BY Zenon DEF Chain
    <3>2. CASE size[i] = 0
      BY <3>1, <3>2 DEF Link
    <3>3. CASE size[i] # 0
      <4>1. i + size[i] \in 1..N /\ size[i] \in Nat
        BY <1>0, <3>3, Zenon
      <4>2. i + size[i] > N - (d - 1)
        BY <1>0, <2>1, <3>3, <4>1
      <4>3. f[i + size[i]] = g[i + size[i]]
        BY <1>2, <4>1, <4>2, Zenon
      <4> QED BY <3>1, <3>3, <4>3, Zenon DEF Link
    <3> QED BY <3>2, <3>3
  <2>2. d \in 0..N
    BY <1>0
  <2> QED BY <2>1, <2>2, Zenon
<1>3. N \in T
  <2> HIDE DEF T
  <2>1. \A d \in 0..N : d \in T
    BY <1>0, <1>1, <1>2, Induction
  <2> QED BY <1>0, <2>1
<1>4. \A i \in 1..N : i > N - N
  BY <1>0
<1> QED BY <1>3, <1>4, Zenon DEF Agree

\* How long the message at each place of s is.
Lengths(s) == [i \in 1..(Len(s) + 1) |-> msg_len(SubSeq(s, i, Len(s)))]

\* A message ends where s ends or before.
LEMMA SuffixLengths ==
  ASSUME NEW s \in Seq(Bytes)
  PROVE  /\ Len(s) \in Nat /\ Len(s) + 1 \in Nat \ {0}
         /\ \A i \in 1..(Len(s) + 1) :
              /\ SubSeq(s, i, Len(s)) \in Seq(Bytes)
              /\ Len(SubSeq(s, i, Len(s))) = Len(s) + 1 - i
              /\ msg_len(SubSeq(s, i, Len(s))) \in 0..(Len(s) + 1 - i)
<1>1. Len(s) \in Nat /\ Len(s) + 1 \in Nat \ {0}
  OBVIOUS
<1>2. ASSUME NEW i \in 1..(Len(s) + 1)
      PROVE  SubSeq(s, i, Len(s)) \in Seq(Bytes) /\ Len(SubSeq(s, i, Len(s))) = Len(s) + 1 - i
  OBVIOUS
<1>3. ASSUME NEW i \in 1..(Len(s) + 1)
      PROVE  msg_len(SubSeq(s, i, Len(s))) \in 0..(Len(s) + 1 - i)
  <2> DEFINE u == SubSeq(s, i, Len(s))
  <2>1. u \in Seq(Bytes) /\ Len(u) = Len(s) + 1 - i
    BY <1>2
  <2> HIDE DEF u
  <2>2. msg_len(u) \in 0..Len(u)
    BY <2>1, MessageLength, Zenon
  <2> QED BY <2>1, <2>2 DEF u
<1> QED BY <1>1, <1>2, <1>3

\* So the messages of s can be put together one after the other.
LEMMA LengthsChain ==
  ASSUME NEW s \in Seq(Bytes)
  PROVE  Chainable(Lengths(s), s, Len(s) + 1, Bytes)
<1> DEFINE N == Len(s) + 1
           n == Lengths(s)
<1>1. Len(s) \in Nat /\ N \in Nat \ {0}
  BY SuffixLengths
<1>2. ASSUME NEW i \in 1..N PROVE n[i] \in 0..(N - i)
  BY SuffixLengths DEF Lengths
<1>3. n \in [1..N -> Nat]
  <2>1. \A i \in 1..N : n[i] \in Nat
    BY <1>1, <1>2
  <2>2. n = [i \in 1..N |-> n[i]]
    BY DEF Lengths
  <2> HIDE DEF n, N
  <2> QED BY <2>1, <2>2
<1>4. ASSUME NEW i \in 1..N, n[i] # 0 PROVE i + n[i] \in 1..N /\ s[i] \in Bytes
  <2> DEFINE k == n[i]
  <2>1. k \in 0..(N - i) /\ k # 0
    BY <1>2, <1>4
  <2> HIDE DEF k
  <2>2. i + k \in 1..N /\ i \in 1..Len(s)
    BY <1>1, <2>1
  <2> QED BY <2>2, ElementOfSeq DEF k
<1> QED BY <1>1, <1>3, <1>4 DEF Chainable

\* The messages in s are a chain, from its first byte.
LEMMA MessagesDef ==
  ASSUME NEW s \in Seq(Bytes)
  PROVE  \E f \in [1..(Len(s) + 1) -> Seq(Bytes)] :
           Chain(f, Lengths(s), s, Len(s) + 1) /\ Messages(s) = f[1]
<1> DEFINE N == Len(s) + 1
           B(f) == [i \in 1..(Len(s) + 1) |->
                      IF msg_len(SubSeq(s, i, Len(s))) = 0 THEN <<>>
                      ELSE <<s[i]>> \o f[i + msg_len(SubSeq(s, i, Len(s)))]]
           c == CHOOSE f : f = B(f)
<1>0. Chainable(Lengths(s), s, N, Bytes)
  BY LengthsChain
<1>1. PICK g \in [1..N -> Seq(Bytes)] : Chain(g, Lengths(s), s, N)
  <2> HIDE DEF N
  <2> QED BY <1>0, ChainExists, Zenon
<1>2. \A i \in 1..N : Lengths(s)[i] = msg_len(SubSeq(s, i, Len(s)))
  BY DEF Lengths
<1>3. g = B(g)
  <2>1. ASSUME NEW i \in 1..N
        PROVE  g[i] = IF msg_len(SubSeq(s, i, Len(s))) = 0 THEN <<>>
                      ELSE <<s[i]>> \o g[i + msg_len(SubSeq(s, i, Len(s)))]
    BY <1>1, <1>2, Zenon DEF Chain, Link
  <2> QED BY <2>1, Zenon
<1>4. c = B(c)
  BY <1>3, Zenon
<1>5. Messages(s) = c[1]
  BY Zenon DEF Messages
<1>6. Chain(c, Lengths(s), s, N)
  <2> HIDE DEF c
  <2>1. ASSUME NEW i \in 1..N PROVE c[i] = Link(c, Lengths(s), s, i)
    <3>1. c[i] = IF msg_len(SubSeq(s, i, Len(s))) = 0 THEN <<>>
                 ELSE <<s[i]>> \o c[i + msg_len(SubSeq(s, i, Len(s)))]
      BY <1>4, Zenon
    <3> QED BY <1>2, <3>1, Zenon DEF Link
  <2> QED BY <2>1, Zenon DEF Chain
<1> HIDE DEF c
<1>7. c[1] = g[1]
  <2>1. 1 \in 1..N
    BY <1>0 DEF Chainable
  <2> HIDE DEF N
  <2> HIDE DEF B
  <2>3. Chain(g, Lengths(s), s, N)
    BY <1>1
  <2>2. Agree(c, g, N)
    BY <1>0, <1>6, <2>3, ChainUnique, Zenon
  <2> QED BY <2>1, <2>2, Zenon DEF Agree
<1> QED BY <1>1, <1>5, <1>7, Zenon

\* The first message, and those of the rest.
LEMMA MessagesUnfold ==
  ASSUME NEW s \in Seq(Bytes)
  PROVE  /\ Messages(s) \in Seq(Bytes)
         /\ msg_len(s) > 0 =>
              Messages(s) = <<Head(s)>> \o Messages(SubSeq(s, msg_len(s) + 1, Len(s)))
<1> DEFINE L == Len(s)
           k == msg_len(s)
           u == SubSeq(s, k + 1, L)
           size == Lengths(s)
<1>1. PICK f \in [1..(L + 1) -> Seq(Bytes)] : Chain(f, size, s, L + 1) /\ Messages(s) = f[1]
  BY MessagesDef
<1>2. L \in Nat /\ 1 \in 1..(L + 1)
  OBVIOUS
<1>3. Messages(s) \in Seq(Bytes)
  BY <1>1, <1>2
<1>4. ASSUME k > 0 PROVE Messages(s) = <<Head(s)>> \o Messages(u)
  <2>1. k \in 1..L /\ Head(s) = s[1] /\ SubSeq(s, 1, L) = s
    BY <1>4, MessageLength
  <2>2. size[1] = k
    BY <1>2, <2>1 DEF Lengths
  <2>3. Messages(s) = <<Head(s)>> \o f[1 + k]
    <3>1. f[1] = Link(f, size, s, 1)
      BY <1>1, <1>2, Zenon DEF Chain
    <3>2. size[1] # 0
      BY <2>1, <2>2
    <3> HIDE DEF size, k
    <3> QED BY <1>1, <2>1, <2>2, <3>1, <3>2, Zenon DEF Link
  <2>4. /\ u \in Seq(Bytes) /\ Len(u) = L - k /\ L - k \in Nat
        /\ \A j \in 1..(L - k) : u[j] = s[j + k]
        /\ \A j \in 1..(L - k + 1) : SubSeq(u, j, Len(u)) = SubSeq(s, j + k, L)
    <3>1. k \in 1..L
      BY <2>1
    <3> HIDE DEF k
    <3> QED BY <1>2, <3>1
  <2>5. PICK h \in [1..(Len(u) + 1) -> Seq(Bytes)] :
           Chain(h, Lengths(u), u, Len(u) + 1) /\ Messages(u) = h[1]
    <3>1. u \in Seq(Bytes)
      BY <2>4
    <3> HIDE DEF u
    <3> QED BY <3>1, MessagesDef
  <2> DEFINE M == Len(u) + 1
             g == [j \in 1..M |-> f[j + k]]
  <2>6. M = L - k + 1 /\ M \in Nat \ {0} /\ 1 \in 1..M
    BY <1>2, <2>1, <2>4
  <2>7. ASSUME NEW j \in 1..M
        PROVE  /\ Lengths(u)[j] = size[j + k] /\ j + k \in 1..(L + 1)
               /\ Lengths(u)[j] # 0 =>
                    j + Lengths(u)[j] \in 1..M /\ u[j] = s[j + k]
    <3> HIDE DEF u, k
    <3>1. j + k \in 1..(L + 1) /\ j \in 1..(L - k + 1)
      BY <1>2, <2>1, <2>6
    <3>2. Lengths(u)[j] = msg_len(SubSeq(u, j, Len(u)))
      BY DEF Lengths
    <3>3. size[j + k] = msg_len(SubSeq(s, j + k, L))
      BY <3>1 DEF Lengths
    <3>4. SubSeq(u, j, Len(u)) = SubSeq(s, j + k, L)
      BY <2>4, <3>1, Zenon
    <3>5. Lengths(u)[j] \in 0..(M - j)
      BY <2>4, <3>2, SuffixLengths
    <3>6. Lengths(u)[j] # 0 => j + Lengths(u)[j] \in 1..M /\ j \in 1..(L - k)
      <4> DEFINE x == Lengths(u)[j]
      <4>1. x \in 0..(M - j)
        BY <3>5
      <4> HIDE DEF x, M
      <4>2. x # 0 => j + x \in 1..M /\ j \in 1..(L - k)
        BY <1>2, <2>1, <2>6, <4>1
      <4> QED BY <4>2 DEF x
    <3> QED BY <2>4, <3>1, <3>2, <3>3, <3>4, <3>6, Zenon
  <2> HIDE DEF M
  <2>8. Chain(g, Lengths(u), u, M)
    <3> SUFFICES ASSUME NEW j \in 1..M PROVE g[j] = Link(g, Lengths(u), u, j)
      BY Zenon DEF Chain
    <3> DEFINE x == Lengths(u)[j]
    <3>1. /\ x = size[j + k] /\ j + k \in 1..(L + 1)
          /\ x # 0 => j + x \in 1..M /\ u[j] = s[j + k]
      BY <2>7, Zenon
    <3>2. f[j + k] = Link(f, size, s, j + k)
      BY <1>1, <3>1, Zenon DEF Chain
    <3>3. g[j] = f[j + k]
      OBVIOUS
    <3>4. CASE x = 0
      <4>1. Link(f, size, s, j + k) = <<>> /\ Link(g, Lengths(u), u, j) = <<>>
        <5> HIDE DEF size, u, g
        <5> QED BY <3>1, <3>4, Zenon DEF Link
      <4> QED BY <3>2, <3>3, <4>1
    <3>5. CASE x # 0
      <4>1. g[j + x] = f[(j + x) + k]
        BY <3>1, <3>5
      <4>2. x \in Nat /\ k \in Nat
        <5>1. size \in [1..(L + 1) -> Nat]
          BY LengthsChain DEF Chainable
        <5> HIDE DEF size, x, k
        <5>2. x \in Nat
          BY <3>1, <5>1
        <5> QED BY <2>1, <5>2
      <4>3. (j + x) + k = (j + k) + x
        <5> HIDE DEF x, k
        <5> QED BY <2>6, <4>2
      <4>4. Link(f, size, s, j + k) = <<s[j + k]>> \o f[(j + k) + x]
        <5> HIDE DEF size, u, g, k
        <5> QED BY <3>1, <3>5, Zenon DEF Link
      <4>5. Link(g, Lengths(u), u, j) = <<u[j]>> \o g[j + x]
        <5> HIDE DEF u, g
        <5> QED BY <3>5, Zenon DEF Link
      <4> HIDE DEF size, u, g, k, x
      <4> QED BY <3>1, <3>2, <3>3, <3>5, <4>1, <4>3, <4>4, <4>5, Zenon
    <3> QED BY <3>4, <3>5
  <2>9. h[1] = g[1]
    <3>1. Chainable(Lengths(u), u, M, Bytes)
      BY <2>4, LengthsChain DEF M
    <3>2. Chain(h, Lengths(u), u, M)
      BY <2>5 DEF M
    <3> HIDE DEF g, u
    <3>3. Agree(h, g, M)
      BY <2>8, <3>1, <3>2, ChainUnique, Zenon
    <3> QED BY <2>6, <3>3, Zenon DEF Agree
  <2>10. g[1] = f[1 + k]
    BY <2>6
  <2> QED BY <2>3, <2>5, <2>9, <2>10, Zenon
<1> QED BY <1>3, <1>4

\* The bytes of which 'done' are the messages: whatever follows, they are found first.
Consumed(bytes, done) == \A x \in Seq(Bytes) : Messages(bytes \o x) = done \o Messages(x)

\* The stream is what has been handled, then the buffer and what is to follow it.
ChunkInv ==
  \E bytes \in Seq(Bytes) : stream = bytes \o (buf \o (new \o held)) /\ Consumed(bytes, handled)

\* Nothing is consumed of an empty stream.
LEMMA NothingConsumed == Consumed(<<>>, <<>>)
<1>1. ASSUME NEW x \in Seq(Bytes) PROVE Messages(<<>> \o x) = <<>> \o Messages(x)
  <2>1. <<>> \o x = x
    OBVIOUS
  <2>2. Messages(x) \in Seq(Bytes)
    BY MessagesUnfold
  <2>3. <<>> \o Messages(x) = Messages(x)
    BY <2>2
  <2> QED BY <2>1, <2>3, Zenon
<1> QED BY <1>1, Zenon DEF Consumed

\* What follows the first of two sequences is the second.
LEMMA AfterFirst ==
  ASSUME NEW S, NEW a \in Seq(S), NEW x \in Seq(S)
  PROVE  SubSeq(a \o x, Len(a) + 1, Len(a) + Len(x)) = x
OBVIOUS

\* What the message at the front of a buffer is does not depend on what follows the buffer.
LEMMA MessageThenRest ==
  ASSUME NEW s \in Seq(Bytes), msg_len(s) > 0, NEW x \in Seq(Bytes)
  PROVE  LET m == SubSeq(s, 1, msg_len(s)) IN
         m \in Seq(Bytes) /\ Messages(m \o x) = <<Head(s)>> \o Messages(x)
<1> DEFINE k == msg_len(s)
           m == SubSeq(s, 1, k)
           t == m \o x
<1>1. k \in 1..Len(s) /\ s # <<>> /\ Head(s) \in Bytes
  BY MessageLength
<1>2. Head(s).kind # "junk" /\ k = Head(s).len
  BY DEF msg_len
<1>3. m \in Seq(Bytes) /\ Len(m) = k /\ Head(m) = Head(s) /\ m # <<>>
  <2> HIDE DEF k
  <2> QED BY <1>1
<1> HIDE DEF m, k
<1>4. /\ t \in Seq(Bytes) /\ Len(t) = k + Len(x) /\ Head(t) = Head(s) /\ t # <<>>
      /\ SubSeq(t, k + 1, Len(t)) = x
  <2>1. Len(m) \in Nat /\ Len(x) \in Nat
    BY <1>3
  <2>2. SubSeq(m \o x, Len(m) + 1, Len(m) + Len(x)) = x
    BY <1>3, AfterFirst
  <2>3. m \o x \in Seq(Bytes) /\ Len(m \o x) = Len(m) + Len(x)
    BY <1>3
  <2>4. Head(m \o x) = Head(m) /\ m \o x # <<>>
    BY <1>3
  <2> QED BY <1>3, <2>2, <2>3, <2>4
<1>5. k <= Len(t)
  BY <1>1, <1>4
<1> HIDE DEF t
<1>6. msg_len(t) = k
  BY <1>2, <1>4, <1>5, Zenon DEF msg_len
<1>7. msg_len(t) > 0
  BY <1>1, <1>6
<1>8. Messages(t) = <<Head(t)>> \o Messages(SubSeq(t, msg_len(t) + 1, Len(t)))
  BY <1>4, <1>7, MessagesUnfold, Zenon
<1> QED BY <1>3, <1>4, <1>6, <1>8, Zenon DEF t, m, k

\* An element between two sequences may be joined to either.
OneMore(a, e, r) == a \o (<<e>> \o r) = Append(a, e) \o r

LEMMA OneMoreSeq ==
  ASSUME NEW S, NEW a \in Seq(S), NEW e \in S, NEW r \in Seq(S)
  PROVE  OneMore(a, e, r)
<1>1. <<e>> \in Seq(S) /\ Append(a, e) = a \o <<e>>
  OBVIOUS
<1>2. Grouped(a, <<e>>, r)
  BY <1>1, GroupedSeqs, Zenon
<1> QED BY <1>1, <1>2 DEF Grouped, OneMore

\* A message is handled: it is consumed.
LEMMA ConsumeMessage ==
  ASSUME NEW s \in Seq(Bytes), msg_len(s) > 0, NEW bytes \in Seq(Bytes),
         NEW done \in Seq(Bytes), Consumed(bytes, done)
  PROVE  LET m == SubSeq(s, 1, msg_len(s)) IN
         /\ bytes \o m \in Seq(Bytes)
         /\ Consumed(bytes \o m, Append(done, Head(s)))
<1> DEFINE m == SubSeq(s, 1, msg_len(s))
           h == Head(s)
<1>1. m \in Seq(Bytes) /\ \A x \in Seq(Bytes) : Messages(m \o x) = <<h>> \o Messages(x)
  <2>1. <<>> \in Seq(Bytes)
    OBVIOUS
  <2> QED BY <2>1, MessageThenRest, Zenon
<1>2. h \in Bytes
  BY MessageLength
<1> HIDE DEF m, h
<1>3. ASSUME NEW x \in Seq(Bytes)
      PROVE  Messages((bytes \o m) \o x) = Append(done, h) \o Messages(x)
  <2> DEFINE r == Messages(x)
  <2>1. (bytes \o m) \o x = bytes \o (m \o x) /\ m \o x \in Seq(Bytes)
    <3>1. m \in Seq(Bytes)
      BY <1>1
    <3>2. Grouped(bytes, m, x) /\ m \o x \in Seq(Bytes)
      BY <3>1, GroupedSeqs, ConcatSeq, Zenon
    <3> QED BY <3>2 DEF Grouped
  <2>2. Messages(bytes \o (m \o x)) = done \o Messages(m \o x)
    BY <2>1, Zenon DEF Consumed
  <2>3. Messages(m \o x) = <<h>> \o r
    BY <1>1, Zenon
  <2>4. r \in Seq(Bytes)
    BY MessagesUnfold
  <2> HIDE DEF r
  <2>5. done \o (<<h>> \o r) = Append(done, h) \o r
    <3>1. OneMore(done, h, r)
      BY <1>2, <2>4, OneMoreSeq, Zenon
    <3> QED BY <3>1 DEF OneMore
  <2>6. Messages((bytes \o m) \o x) = Messages(bytes \o (m \o x))
    <3> DEFINE a == (bytes \o m) \o x
               b == bytes \o (m \o x)
    <3>1. a = b
      BY <2>1
    <3> HIDE DEF a, b
    <3>2. Messages(a) = Messages(b)
      BY <3>1, Zenon
    <3> QED BY <3>2 DEF a, b
  <2> DEFINE a == Messages((bytes \o m) \o x)
             b == Messages(bytes \o (m \o x))
             c == done \o (<<h>> \o r)
             d == Append(done, h) \o r
  <2>7. a = b /\ b = c /\ c = d
    <3>1. a = b
      BY <2>6
    <3>2. b = c
      BY <2>2, <2>3, Zenon
    <3>3. c = d
      BY <2>5
    <3> QED BY <3>1, <3>2, <3>3
  <2> HIDE DEF a, b, c, d
  <2>8. a = d
    BY <2>7
  <2> QED BY <2>8 DEF a, d, r
<1>4. bytes \o m \in Seq(Bytes)
  BY <1>1
<1>5. Consumed(bytes \o m, Append(done, h))
  BY <1>3 DEF Consumed
<1> QED BY <1>4, <1>5 DEF m, h

\* Bytes arrive, or the peer goes away.
LEMMA ReceiveChunk ==
  ASSUME WireInv, ChunkInv, Receive
  PROVE  ChunkInv'
<1>0. pc = "receive" => new = <<>> /\ held = <<>>
  BY DEF WireInv, Residue, Sizes
<1>1. ASSUME NEW bytes \in Packets, SerialReceive(bytes) \/ gatt_chr_event(bytes)
      PROVE  ChunkInv'
  <2>1. bytes \in Seq(Bytes)
    BY PacketsAreBytes
  <2>2. /\ pc = "receive" /\ stream' = stream \o bytes /\ buf' = buf /\ handled' = handled
        /\ \/ new' = bytes /\ held' = <<>>
           \/ new' = <<>> /\ held' = bytes
    BY <1>0, <1>1, Zenon DEF SerialReceive, gatt_chr_event
  <2>3. new' \o held' = bytes
    BY <2>1, <2>2
  <2>4. PICK c \in Seq(Bytes) : stream = c \o (buf \o (new \o held)) /\ Consumed(c, handled)
    BY Zenon DEF ChunkInv
  <2>5. buf \in Seq(Bytes) /\ new = <<>> /\ held = <<>>
    BY <1>0, <2>2 DEF WireInv, SeqOK
  <2>6. (c \o (buf \o (<<>> \o <<>>))) \o bytes = c \o (buf \o bytes)
    <3> DEFINE b == buf
    <3>1. b \in Seq(Bytes)
      BY <2>5
    <3> HIDE DEF b
    <3>2. b \o (<<>> \o <<>>) = b
      BY <3>1
    <3>3. Grouped(c, b, bytes)
      BY <2>1, <3>1, GroupedSeqs, Zenon
    <3> QED BY <3>2, <3>3 DEF b, Grouped
  <2>7. stream' = c \o (buf' \o (new' \o held'))
    <3>1. stream' = (c \o (buf \o (<<>> \o <<>>))) \o bytes
      BY <2>2, <2>4, <2>5, Zenon
    <3>2. c \o (buf' \o (new' \o held')) = c \o (buf \o bytes)
      BY <2>2, <2>3, Zenon
    <3> DEFINE x == (c \o (buf \o (<<>> \o <<>>))) \o bytes
               y == c \o (buf \o bytes)
               z == c \o (buf' \o (new' \o held'))
    <3>3. stream' = x /\ x = y /\ z = y
      BY <2>6, <3>1, <3>2
    <3> HIDE DEF x, y, z
    <3>4. stream' = z
      BY <3>3
    <3> QED BY <3>4 DEF z
  <2> QED BY <2>2, <2>4, <2>7, Zenon DEF ChunkInv
<1>2. ASSUME Disconnect PROVE ChunkInv'
  <2>1. stream' = <<>> /\ handled' = <<>> /\ buf' = <<>> /\ new' = <<>> /\ held' = <<>>
    BY <1>0, <1>2, Zenon DEF Disconnect
  <2>2. <<>> \in Seq(Bytes) /\ <<>> = <<>> \o (<<>> \o (<<>> \o <<>>))
    OBVIOUS
  <2> QED BY <2>1, <2>2, NothingConsumed, Zenon DEF ChunkInv
<1> QED BY <1>1, <1>2, Zenon DEF Receive

\* A step of the reader that handles no message and discards none: the bytes stay in order.
LEMMA BytesKept ==
  ASSUME ChunkInv, stream' = stream, handled' = handled,
         buf' \o (new' \o held') = buf \o (new \o held)
  PROVE  ChunkInv'
<1>1. PICK c \in Seq(Bytes) : stream = c \o (buf \o (new \o held)) /\ Consumed(c, handled)
  BY Zenon DEF ChunkInv
<1> DEFINE x == buf \o (new \o held)
           y == buf' \o (new' \o held')
<1>2. stream' = c \o x /\ x = y
  BY <1>1, Zenon
<1> HIDE DEF x, y
<1>3. stream' = c \o y
  BY <1>2
<1> QED BY <1>1, <1>3, Zenon DEF ChunkInv, y

\* The reader appends, rejects or handles what it has.
LEMMA ReaderChunk ==
  ASSUME MaxUptime < TickModulus, WireInv, ChunkInv, Reader
  PROVE  ChunkInv'
<1>0. /\ buf \in Seq(Bytes) /\ new \in Seq(Bytes) /\ held \in Seq(Bytes)
      /\ handled \in Seq(Bytes) /\ force \in BOOLEAN /\ reject \in BOOLEAN
  BY DEF WireInv, SeqOK, QueueOK, BoolOK
<1>1. CASE handle_data
  <2>1. xTaskGetTickCount = uptime
    BY TickCount DEF WireInv, Clock
  <2>2. ~(xTaskGetTickCount < last_processing_time)
    BY <2>1, TickAssumption DEF WireInv, Clock
  <2>3. stream' = stream /\ handled' = handled /\ held' = held
    BY <1>1, Zenon DEF handle_data, histVars
  <2>4. \/ buf' = buf /\ new' = new
        \/ buf' = buf \o new /\ new' = <<>>
    BY <1>1, <2>2, Zenon DEF handle_data, Parse
  <2>5. buf' \o (new' \o held') = buf \o (new \o held)
    <3>1. CASE buf' = buf /\ new' = new
      BY <2>3, <3>1, Zenon
    <3>2. CASE buf' = buf \o new /\ new' = <<>>
      <4>1. (buf \o new) \o (<<>> \o held) = buf \o (new \o held)
        <5> DEFINE a == buf
                   b == new
                   c == held
        <5>1. a \in Seq(Bytes) /\ b \in Seq(Bytes) /\ c \in Seq(Bytes)
          BY <1>0
        <5> HIDE DEF a, b, c
        <5>2. (a \o b) \o (<<>> \o c) = a \o (b \o c)
          BY <5>1
        <5> QED BY <5>2 DEF a, b, c
      <4>2. buf' \o (new' \o held') = (buf \o new) \o (<<>> \o held)
        BY <2>3, <3>2, Zenon
      <4> QED BY <4>1, <4>2
    <3> QED BY <2>4, <3>1, <3>2
  <2> QED BY <2>3, <2>5, BytesKept, Zenon
<1>2. CASE AwaitMoreData
  <2>1. reject = FALSE /\ msg_len(buf) = 0 /\ Return(buf) /\ stream' = stream /\ handled' = handled
    BY <1>0, <1>2, Zenon DEF AwaitMoreData, histVars
  <2>2. pc = "parse" /\ force = FALSE
    <3>1. pc = "parse"
      BY <1>2, <2>1 DEF AwaitMoreData, WireInv, Residue
    <3>2. force # TRUE
      BY <3>1, <2>1 DEF WireInv, Residue
    <3> QED BY <1>0, <3>1, <3>2, Zenon
  <2>3. new = <<>> /\ held = <<>>
    BY <2>2 DEF WireInv, Residue, Sizes
  <2>4. buf' = buf /\ new' = <<>> /\ held' = <<>>
    BY <2>1, <2>2, <2>3 DEF Return
  <2>5. buf' \o (new' \o held') = buf \o (new \o held)
    BY <2>3, <2>4, Zenon
  <2> QED BY <2>1, <2>5, BytesKept, Zenon
<1>3. CASE RejectBuffer
  <2>1. stream' = new \o held /\ handled' = <<>> /\ Return(<<>>) /\ pc \in {"stale", "parse"}
    BY <1>3, Zenon DEF RejectBuffer
  <2>2. new' \o held' \in Seq(Bytes) /\ buf' \o (new' \o held') = new \o held
    <3>1. CASE pc = "stale"
      <4>1. buf' = <<>> \o new /\ new' = <<>> /\ held' = held
        BY <2>1, <3>1, Zenon DEF Return, Parse
      <4> QED BY <1>0, <4>1
    <3>2. CASE pc = "parse"
      <4>1. new = <<>> /\ buf' = <<>> /\ new' = held /\ held' = <<>>
        BY <2>1, <3>2 DEF Return, WireInv, Residue
      <4> QED BY <1>0, <4>1
    <3> QED BY <2>1, <3>1, <3>2
  <2>3. <<>> \o (new \o held) = new \o held
    BY <1>0
  <2> DEFINE x == new \o held
             y == buf' \o (new' \o held')
  <2>4. stream' = x /\ y = x /\ <<>> \o x = x
    BY <2>1, <2>2, <2>3
  <2> HIDE DEF x, y
  <2>5. stream' = <<>> \o y /\ <<>> \in Seq(Bytes)
    BY <2>4
  <2>6. Consumed(<<>>, handled')
    BY <2>1, NothingConsumed, Zenon
  <2> QED BY <2>5, <2>6, Zenon DEF ChunkInv, y
<1>4. CASE HandleMessage
  <2> DEFINE k == msg_len(buf)
             m == SubSeq(buf, 1, k)
             rest == SubSeq(buf, k + 1, Len(buf))
  <2>1. pc = "parse" /\ k > 0 /\ new = <<>>
    BY <1>4 DEF HandleMessage, WireInv, Residue
  <2>2. force = FALSE
    <3>1. k # 0
      BY <2>1
    <3> QED BY <1>0, <2>1, <3>1, Zenon DEF WireInv, Residue
  <2>3. held = <<>>
    BY <2>2 DEF WireInv, Sizes
  <2>4. k \in 1..Len(buf)
    BY <1>0, <2>1, MessageLength
  <2>5. rest \in Seq(Bytes) /\ m \in Seq(Bytes) /\ buf = m \o rest
    <3> DEFINE b == buf
               n == k
    <3>1. b \in Seq(Bytes) /\ n \in 1..Len(b)
      BY <1>0, <2>4
    <3> HIDE DEF b, n
    <3>2. /\ SubSeq(b, n + 1, Len(b)) \in Seq(Bytes) /\ SubSeq(b, 1, n) \in Seq(Bytes)
          /\ b = SubSeq(b, 1, n) \o SubSeq(b, n + 1, Len(b))
      BY <3>1
    <3> QED BY <3>2 DEF b, n
  <2>6. stream' = stream /\ handled' = Append(handled, Head(buf))
    BY <1>4, Zenon DEF HandleMessage
  <2>7. buf' = rest /\ new' = <<>> /\ held' = <<>>
    <3>1. CASE rest = <<>>
      <4>1. Return(rest)
        BY <1>4, <3>1, Zenon DEF HandleMessage
      <4> HIDE DEF rest
      <4>2. ~(rest # <<>> /\ (pc = "stale" \/ force))
        BY <3>1
      <4> QED BY <2>1, <2>3, <4>1, <4>2 DEF Return
    <3>2. CASE rest # <<>>
      BY <1>4, <2>1, <2>3, <3>2, Zenon DEF HandleMessage
    <3> QED BY <3>1, <3>2
  <2>8. PICK c \in Seq(Bytes) : stream = c \o (buf \o (new \o held)) /\ Consumed(c, handled)
    BY Zenon DEF ChunkInv
  <2>9. c \o m \in Seq(Bytes) /\ Consumed(c \o m, handled')
    BY <1>0, <2>1, <2>6, <2>8, ConsumeMessage
  <2> HIDE DEF m, rest
  <2>10. (c \o m) \o (rest \o (<<>> \o <<>>)) = c \o ((m \o rest) \o (<<>> \o <<>>))
    <3>1. Grouped(c, m, rest)
      BY <2>5, GroupedSeqs, Zenon
    <3>2. rest \o (<<>> \o <<>>) = rest
      BY <2>5
    <3>3. (m \o rest) \o (<<>> \o <<>>) = m \o rest
      BY <2>5
    <3> QED BY <3>1, <3>2, <3>3 DEF Grouped
  <2> DEFINE x == c \o (buf \o (new \o held))
             y == (c \o m) \o (buf' \o (new' \o held'))
             p == (c \o m) \o (rest \o (<<>> \o <<>>))
             q == c \o ((m \o rest) \o (<<>> \o <<>>))
  <2>11. stream' = x /\ y = p /\ p = q /\ x = q
    <3>1. stream' = x
      BY <2>6, <2>8
    <3>2. y = p
      BY <2>7, Zenon
    <3>3. p = q
      BY <2>10
    <3>4. x = q
      BY <2>1, <2>3, <2>5, Zenon
    <3> QED BY <3>1, <3>2, <3>3, <3>4
  <2> HIDE DEF x, y, p, q
  <2>12. stream' = y
    BY <2>11
  <2> QED BY <2>9, <2>12, Zenon DEF ChunkInv, y
<1> QED BY <1>1, <1>2, <1>3, <1>4 DEF Reader

\* Every step keeps the bytes in order.
LEMMA ChunkStep ==
  ASSUME MaxUptime < TickModulus, WireInv, ChunkInv, [Next]_vars
  PROVE  ChunkInv'
<1>1. CASE Tick \/ MainTakes \/ WriterSends \/ UNCHANGED vars
  <2>1. UNCHANGED <<stream, handled, buf, new, held>>
    BY <1>1 DEF Tick, MainTakes, WriterSends, vars, bufVars, histVars
  <2> QED BY <2>1, BytesKept, Zenon
<1> QED BY <1>1, ReaderChunk, ReceiveChunk DEF Next

(* Whatever way the bytes are cut into chunks, and whatever has to wait for room in a queue,
   the messages that handle_data_impl has found are those of the whole stream since bytes were
   last discarded: for every size of the buffer, the packets and the queues, until the 32-bit
   tick count wraps (wire.c, serial.c, ble.c). *)
THEOREM ChunksDoNotMatter ==
  ASSUME MaxUptime < TickModulus
  PROVE  Spec => []ChunkingIrrelevant
<1>1. Init => ChunkInv
  <2>1. Init => stream = <<>> /\ handled = <<>> /\ buf = <<>> /\ new = <<>> /\ held = <<>>
    BY Zenon DEF Init
  <2>2. <<>> \in Seq(Bytes) /\ <<>> = <<>> \o (<<>> \o (<<>> \o <<>>))
    OBVIOUS
  <2> QED BY <2>1, <2>2, NothingConsumed, Zenon DEF ChunkInv
<1>2. WireInv /\ ChunkInv /\ [Next]_vars => ChunkInv'
  BY ChunkStep
<1>3. WireInv /\ ChunkInv => ChunkingIrrelevant
  <2> SUFFICES ASSUME WireInv, ChunkInv, pc \in {"receive", "parse"}, held = <<>>
               PROVE  handled \o Messages(buf) = Messages(stream)
    BY Zenon DEF ChunkingIrrelevant
  <2>1. buf \in Seq(Bytes) /\ new = <<>>
    BY DEF WireInv, SeqOK, Residue, Sizes
  <2>2. PICK c \in Seq(Bytes) : stream = c \o (buf \o (new \o held)) /\ Consumed(c, handled)
    BY Zenon DEF ChunkInv
  <2>3. buf \o (<<>> \o <<>>) = buf
    BY <2>1
  <2>4. buf \o (new \o held) = buf
    BY <2>1, <2>3
  <2>5. stream = c \o buf
    BY <2>2, <2>4, Zenon
  <2> QED BY <2>1, <2>2, <2>5, Zenon DEF Consumed
<1> QED BY <1>1, <1>2, <1>3, WireCorrect, PTL DEF Spec

=============================================================================

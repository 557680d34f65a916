---------------------------- MODULE MessagePump ----------------------------
(***************************************************************************)
(* The tasks that move messages: for each link a reader, which pushes      *)
(* requests to the main task, and a writer, which sends the replies; the   *)
(* main task, which takes one request at a time, replies, and starts and   *)
(* stops the links (process.c, serial.c, ble.c, dashboard.c, usbmode.c).   *)
(*                                                                         *)
(* How a reader finds messages in the bytes it receives is in Wire.        *)
(***************************************************************************)
EXTENDS Naturals, Sequences, SequencesExt

CONSTANTS
  Ids,              \* ids of requests; one is used again once it is answered
  RequestCapacity,  \* requests that shared_in holds
  AnswerCapacity,   \* replies that serial_out and ble_out hold
  None

Links == {"serial", "ble"}
Requests == [id : Ids, source : Links]

ASSUME IdAssumption == None \notin Ids /\ None \notin Requests
ASSUME QueueAssumption == RequestCapacity \in Nat \ {0} /\ AnswerCapacity \in Nat \ {0}

VARIABLES
  enabled,    \* serial_is_enabled, ble_is_enabled
  connected,  \* usb_is_powered, ble_is_connected
  reader,     \* the task that reads from the link
  holding,    \* the request the reader is pushing
  writer,     \* the task that writes to the link
  handle,     \* whether serial_handle, ble_handle are set
  requests,   \* shared_in: requests for the main task
  answers,    \* serial_out, ble_out: the ids answered; None for an answer by the
              \* reader itself (ping, get_version_info)
  main_pc,    \* where the main task is
  stopping,   \* the link it is stopping
  current,    \* the request it has taken and not yet answered
  last_message_source,
  usb_worker  \* whether an update from USB storage is running

linkVars == <<enabled, connected, handle>>
taskVars == <<reader, holding, writer>>
mainVars == <<main_pc, stopping, current, last_message_source, usb_worker>>
pump_vars == <<linkVars, taskVars, requests, answers, mainVars>>

PumpTypeOK ==
  /\ enabled \in [Links -> BOOLEAN] /\ connected \in [Links -> BOOLEAN]
  /\ handle \in [Links -> BOOLEAN]
  /\ reader \in [Links -> {"off", "reading", "pushing", "replying", "done"}]
  /\ holding \in [Links -> Ids \cup {None}]
  /\ writer \in [Links -> {"off", "writing", "done"}]
  /\ requests \in Seq(Requests) /\ Len(requests) <= RequestCapacity
  /\ answers \in [Links -> Seq(Ids \cup {None})]
  /\ \A link \in Links : Len(answers[link]) <= AnswerCapacity
  /\ main_pc \in {"dashboard", "process", "await", "stop_reader", "stop_writer", "storage"}
  /\ stopping \in Links \cup {None}
  /\ current \in Requests \cup {None}
  /\ last_message_source \in Links \cup {None}
  /\ usb_worker \in BOOLEAN

\* Serial is started at boot, BLE if the user has enabled it.
OnAtBoot == {on \in [Links -> BOOLEAN] : on["serial"]}
Unset == [link \in Links |-> None]

PumpInit ==
  /\ \E on \in OnAtBoot :
       /\ enabled = on /\ handle = on
       /\ reader = [link \in Links |-> IF on[link] THEN "reading" ELSE "off"]
       /\ writer = [link \in Links |-> IF on[link] THEN "writing" ELSE "off"]
  /\ connected = [link \in Links |-> FALSE]
  /\ holding = Unset
  /\ requests = <<>> /\ answers = [link \in Links |-> <<>>]
  /\ main_pc = "dashboard" /\ stopping = None /\ current = None
  /\ last_message_source = None /\ usb_worker = FALSE

\* The ids of the requests of a link, and the ids answered, in the order of a queue.
AskedIds(queue, link) ==
  FlattenSeq([i \in DOMAIN queue |-> IF queue[i].source = link THEN <<queue[i].id>> ELSE <<>>])
AnsweredIds(queue) ==
  FlattenSeq([i \in DOMAIN queue |-> IF queue[i] # None THEN <<queue[i]>> ELSE <<>>])

Taken == IF current # None THEN <<current>> ELSE <<>>

\* The requests of a link that have not been answered, oldest first: in the queue
\* of replies, with the main task, in its queue, with the reader.
Pending(link) ==
  AnsweredIds(answers[link])
    \o AskedIds(Taken \o requests, link)
    \o (IF reader[link] = "pushing" THEN <<holding[link]>> ELSE <<>>)

-----------------------------------------------------------------------------
(* The world: cables and peers *)

UsbPower ==
  /\ connected' = [connected EXCEPT !["serial"] = ~@]
  /\ UNCHANGED <<enabled, handle, taskVars, requests, answers, mainVars>>

\* BLE events are handled by the BLE host task, when it is not busy.
ble_gap_event ==
  /\ reader["ble"] = "reading"
  /\ connected["ble"] \/ enabled["ble"]
  /\ connected' = [connected EXCEPT !["ble"] = ~@]
  /\ UNCHANGED <<enabled, handle, taskVars, requests, answers, mainVars>>

-----------------------------------------------------------------------------
(* Queues *)

\* jade_process_push_out_message: append; while the queue is full, discard its
\* oldest item if there is no writer, else try again.
PushOut(link, id) ==
  /\ Len(answers[link]) < AnswerCapacity
  /\ answers' = [answers EXCEPT ![link] = Append(@, id)]

DiscardOldest(link) ==
  /\ Len(answers[link]) = AnswerCapacity /\ ~handle[link]
  /\ answers' = [answers EXCEPT ![link] = Tail(@)]

\* Mutant: the item taken is not returned to the ring buffer.
Mutant_get_in_message ==
  /\ requests # <<>>
  /\ current' = Head(requests)
  /\ last_message_source' = Head(requests).source
  /\ main_pc' = "process"
  /\ UNCHANGED <<linkVars, taskVars, requests, answers, stopping, usb_worker>>

\* jade_process_get_in_message and process_cbor_msg.
get_in_message ==
  /\ requests # <<>>
  /\ requests' = Tail(requests)
  /\ current' = Head(requests)
  /\ last_message_source' = Head(requests).source
  /\ main_pc' = "process"
  /\ UNCHANGED <<linkVars, taskVars, answers, stopping, usb_worker>>

-----------------------------------------------------------------------------
(* Readers and writers *)

\* A request arrives, and the reader answers it itself or pushes it.  It may have
\* been sent before the cable was drawn, or before the peer had subscribed.
ReceiveRequest(link) ==
  /\ reader[link] = "reading"
  /\ \/ /\ reader' = [reader EXCEPT ![link] = "replying"]
        /\ UNCHANGED holding
     \/ \E id \in Ids :
          /\ id \notin Range(Pending(link))
          /\ reader' = [reader EXCEPT ![link] = "pushing"]
          /\ holding' = [holding EXCEPT ![link] = id]
  /\ UNCHANGED <<linkVars, writer, requests, answers, mainVars>>

push_in_message(link) ==
  /\ reader[link] = "pushing"
  /\ Len(requests) < RequestCapacity
  /\ requests' = Append(requests, [id |-> holding[link], source |-> link])
  /\ reader' = [reader EXCEPT ![link] = "reading"]
  /\ holding' = [holding EXCEPT ![link] = None]
  /\ UNCHANGED <<linkVars, writer, answers, mainVars>>

handleImmediateMessage(link) ==
  /\ reader[link] = "replying"
  /\ \/ PushOut(link, None) /\ reader' = [reader EXCEPT ![link] = "reading"]
     \/ DiscardOldest(link) /\ UNCHANGED reader
  /\ UNCHANGED <<linkVars, holding, writer, requests, mainVars>>

\* The serial reader sees the flag, or nimble_port_stop ends the BLE host task
\* and its connection.
ReaderExits(link) ==
  /\ reader[link] = "reading" /\ ~enabled[link]
  /\ reader' = [reader EXCEPT ![link] = "done"]
  /\ connected' = IF link = "ble" THEN [connected EXCEPT ![link] = FALSE] ELSE connected
  /\ UNCHANGED <<enabled, handle, holding, writer, requests, answers, mainVars>>

\* serial_writer and ble_writer: write until there is nothing to write or a write has
\* failed, then look at the flag.  What cannot be written is dropped, and an item
\* stays in its queue while it is being written.
WriteReply(link) ==
  /\ writer[link] = "writing" /\ answers[link] # <<>>
  /\ answers' = [answers EXCEPT ![link] = Tail(@)]
  /\ UNCHANGED <<linkVars, taskVars, requests, mainVars>>

WriterExits(link) ==
  /\ writer[link] = "writing" /\ ~enabled[link]
  /\ writer' = [writer EXCEPT ![link] = "done"]
  /\ UNCHANGED <<linkVars, reader, holding, requests, answers, mainVars>>

-----------------------------------------------------------------------------
(* The main task *)

\* The dashboard, and the menus opened from it: no message is taken in a menu.
TakeRequest == main_pc = "dashboard" /\ get_in_message

\* A process answers the current message, and ends or asks for another.
ReplyToRequest ==
  /\ main_pc = "process"
  /\ \/ /\ PushOut(current.source, current.id)
        /\ current' = None
        /\ main_pc' \in {"dashboard", "await"}
     \/ DiscardOldest(current.source) /\ UNCHANGED <<current, main_pc>>
  /\ UNCHANGED <<linkVars, taskVars, requests, stopping, last_message_source,
                 usb_worker>>

\* A blocking wait for the next message.
AwaitRequest == main_pc = "await" /\ get_in_message

\* Mutant: only the USB cable is looked at.
Mutant_LostConnection ==
  /\ main_pc = "await" /\ requests = <<>>
  /\ last_message_source = "serial" /\ ~connected["serial"]
  /\ last_message_source' = None
  /\ main_pc' \in {"dashboard", "await"}
  /\ UNCHANGED <<linkVars, taskVars, requests, answers, stopping, current, usb_worker>>

\* The wait is given up if the link of the last message is lost.  Most processes then
\* end; an update waits again.
LostConnection ==
  /\ main_pc = "await" /\ requests = <<>>
  /\ last_message_source # None /\ ~connected[last_message_source]
  /\ last_message_source' = None
  /\ main_pc' \in {"dashboard", "await"}
  /\ UNCHANGED <<linkVars, taskVars, requests, answers, stopping, current, usb_worker>>

\* Mutant: the flag is cleared after the tasks have ended.
Mutant_Stop(link) ==
  /\ main_pc = "dashboard" /\ enabled[link]
  /\ link = "serial" => ~connected["serial"]
  /\ stopping' = link /\ main_pc' = "stop_reader"
  /\ UNCHANGED <<linkVars, taskVars, requests, answers, current, last_message_source, usb_worker>>

\* serial_stop for USB storage, once the cable is out; ble_stop from the dashboard
\* or its menu.  A link that is not enabled is not stopped again.
Stop(link) ==
  /\ main_pc = "dashboard"
  /\ \/ link = "serial" /\ ~connected["serial"]
     \/ link = "ble" /\ enabled["ble"]
  /\ enabled' = [enabled EXCEPT ![link] = FALSE]
  /\ IF enabled[link] THEN stopping' = link /\ main_pc' = "stop_reader"
                      ELSE main_pc' = "storage" /\ UNCHANGED stopping
  /\ UNCHANGED <<connected, handle, taskVars, requests, answers, current,
                 last_message_source, usb_worker>>

\* Mutant: the writer is not waited for, nor deleted.
Mutant_StopReader ==
  /\ main_pc = "stop_reader" /\ reader[stopping] = "done"
  /\ reader' = [reader EXCEPT ![stopping] = "off"]
  /\ main_pc' = "dashboard" /\ stopping' = None
  /\ UNCHANGED <<linkVars, holding, writer, requests, answers, current,
                 last_message_source, usb_worker>>

StopReader ==
  /\ main_pc = "stop_reader" /\ reader[stopping] = "done"
  /\ reader' = [reader EXCEPT ![stopping] = "off"]
  /\ main_pc' = "stop_writer"
  /\ UNCHANGED <<linkVars, holding, writer, requests, answers, stopping, current,
                 last_message_source, usb_worker>>

\* Only ble_stop clears the handle of the writer.
StopWriter ==
  /\ main_pc = "stop_writer" /\ writer[stopping] = "done"
  /\ writer' = [writer EXCEPT ![stopping] = "off"]
  /\ handle' = IF stopping = "ble" THEN [handle EXCEPT !["ble"] = FALSE] ELSE handle
  /\ main_pc' = IF stopping = "ble" THEN "dashboard" ELSE "storage"
  /\ stopping' = None
  /\ UNCHANGED <<enabled, connected, reader, holding, requests, answers, current,
                 last_message_source, usb_worker>>

\* serial_start, ble_start: nothing happens if the link is enabled.
Start(link) ==
  IF enabled[link]
    THEN UNCHANGED <<enabled, handle, reader, writer>>
    ELSE /\ enabled' = [enabled EXCEPT ![link] = TRUE]
         /\ handle' = [handle EXCEPT ![link] = TRUE]
         /\ reader' = [reader EXCEPT ![link] = "reading"]
         /\ writer' = [writer EXCEPT ![link] = "writing"]

StartBle ==
  /\ main_pc = "dashboard" /\ ~enabled["ble"]
  /\ Start("ble")
  /\ UNCHANGED <<connected, holding, requests, answers, mainVars>>

\* usbstorage_start asserts that the cable is out and that USB storage is not in
\* use: an assertion that fails restarts the device.
MayStartStorage == ~connected["serial"] /\ ~usb_worker

Restart ==
  /\ main_pc = "storage" /\ ~MayStartStorage
  /\ \E on \in OnAtBoot :
       /\ enabled' = on /\ handle' = on
       /\ reader' = [link \in Links |-> IF on[link] THEN "reading" ELSE "off"]
       /\ writer' = [link \in Links |-> IF on[link] THEN "writing" ELSE "off"]
  /\ connected' = [connected EXCEPT !["ble"] = FALSE]
  /\ holding' = Unset
  /\ requests' = <<>> /\ answers' = [link \in Links |-> <<>>]
  /\ main_pc' = "dashboard" /\ stopping' = None /\ current' = None
  /\ last_message_source' = None /\ usb_worker' = FALSE

\* The action on USB storage is done, and serial is started again; or USB storage
\* does not start, and it is not; or an update has been started, whose worker task
\* starts serial when it ends.
handle_usbstorage_action ==
  /\ main_pc = "storage" /\ MayStartStorage
  /\ main_pc' = "dashboard"
  /\ \/ Start("serial") /\ UNCHANGED usb_worker
     \/ UNCHANGED <<enabled, handle, reader, writer, usb_worker>>
     \/ usb_worker' = TRUE /\ UNCHANGED <<enabled, handle, reader, writer>>
  /\ UNCHANGED <<connected, holding, requests, answers, stopping, current, last_message_source>>

\* The worker does not end in the moment between a serial_stop that has nothing to
\* stop and the assertions of usbstorage_start.
usbmode_ota_worker ==
  /\ usb_worker /\ main_pc # "storage"
  /\ usb_worker' = FALSE
  /\ Start("serial")
  /\ UNCHANGED <<connected, holding, requests, answers, main_pc, stopping, current,
                 last_message_source>>

-----------------------------------------------------------------------------
ReaderTask(link) == push_in_message(link) \/ handleImmediateMessage(link) \/ ReaderExits(link)

WriterTask(link) == WriteReply(link) \/ WriterExits(link)

\* What the main task does without waiting for the user.
MainTask == AwaitRequest \/ LostConnection \/ StopReader \/ StopWriter

PumpNext ==
  \/ \E link \in Links : ReceiveRequest(link) \/ ReaderTask(link) \/ WriterTask(link) \/ Stop(link)
  \/ MainTask \/ TakeRequest \/ ReplyToRequest
  \/ StartBle \/ Restart \/ handle_usbstorage_action \/ usbmode_ota_worker
  \/ UsbPower \/ ble_gap_event

\* Every task is scheduled while it can run, and a reader that has handled what it
\* received looks at its flag before it receives more (nimble_port_stop queues an
\* event for the BLE host task), hence strong fairness.  write_ble gives up after two
\* seconds, but write_serial tries for as long as the USB driver takes no bytes: a
\* serial writer is sure to come back to its flag only if it has nothing to write.
PumpFairness ==
  /\ WF_pump_vars(MainTask)
  /\ \A link \in Links : WF_pump_vars(ReaderTask(link)) /\ SF_pump_vars(ReaderExits(link))
  /\ WF_pump_vars(WriterTask("ble"))
  /\ WF_pump_vars(answers["serial"] = <<>> /\ WriterExits("serial"))

PumpSpec == PumpInit /\ [][PumpNext]_pump_vars /\ PumpFairness

-----------------------------------------------------------------------------
(* Properties *)

\* The queues, the tasks and the starting and stopping of links do not reorder,
\* repeat or invent answers: the pump implements Channel.
Ch == INSTANCE Channel WITH pending <- [link \in Links |-> Pending(link)]
ImplementsChannel == Ch!ChSpec

\* A process that awaits a message while the link of the last one is lost, and stays
\* lost, is told, unless another message comes.
WaitEnds ==
  \A link \in Links :
    main_pc = "await" /\ last_message_source = link /\ ~connected[link]
      ~> main_pc # "await" \/ last_message_source # link \/ connected[link]

\* The main task is not held up for ever by stopping a link, unless the requests fill
\* their queue or replies of that link wait to be written.
StopReturns ==
  stopping # None ~>
    stopping = None \/ Len(requests) = RequestCapacity \/ answers[stopping] # <<>>

\* A link that has its tasks is left with both or none of them, whoever starts and
\* stops it: no reader or writer is ever started twice or left behind.
TasksPaired ==
  \A link \in Links :
    /\ enabled[link] => reader[link] \notin {"off", "done"} /\ writer[link] \notin {"off", "done"}
    /\ main_pc \notin {"stop_reader", "stop_writer"} /\ ~enabled[link]
         => reader[link] = "off" /\ writer[link] = "off"

=============================================================================

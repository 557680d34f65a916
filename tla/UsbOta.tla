------------------------------- MODULE UsbOta -------------------------------
(***************************************************************************)
(* An update from a USB drive: the worker of usbmode.c reads the file and  *)
(* posts its messages to the main task, and reads the replies from the     *)
(* queue internal_out, one message ahead.  Replies are counted, they are   *)
(* not matched by id.  The main task runs the update (Ota has its detail), *)
(* and refuses what is left of one that is over.  Messages may also come   *)
(* from a host over another connection.                                    *)
(*                                                                         *)
(* A message has the number of its update, 0 for those of the host, and    *)
(* its number in it: 0 is "ota", and the last is "ota_complete".           *)
(***************************************************************************)
EXTENDS Naturals, Sequences

CONSTANTS
  Files,       \* sizes of files in chunks of JADE_OTA_BUF_SIZE
  MaxUpdates,  \* bound on the updates
  MaxForeign   \* bound on the messages of the host

ASSUME FilesAssumption == Files \subseteq Nat \ {0}
ASSUME BoundAssumption == MaxUpdates \in Nat \ {0} /\ MaxForeign \in Nat

VARIABLES
  cbor_msg_in,  \* the messages for the main task
  internal_out, \* the replies over SOURCE_INTERNAL
  main,         \* the main task, and what it still expects of the file
  ota_worker,       \* usbmode_ota_worker
  updates,      \* updates started
  foreign,      \* messages the host has sent
  gave_up,      \* history: whether a worker gave up waiting, since boot
  mixed,        \* history: whether a message of the host was taken for one of an update
  own           \* history: whether every reply taken was to the message it was taken for, since boot

usb_ota_vars == <<cbor_msg_in, internal_out, main, ota_worker, updates, foreign, gave_up, mixed, own>>

Methods == {"ota", "ota_data", "ota_complete"}
Messages == [update : 0..MaxUpdates, n : Nat, method : Methods, size : Nat]
NoWorker == [pc |-> "none", sent |-> 0, waited |-> 0, to_send |-> 0]

UsbOtaTypeOK ==
  /\ cbor_msg_in \in Seq(Messages)
  /\ internal_out \in Seq([update : 0..MaxUpdates, n : Nat, ok : BOOLEAN])
  /\ main \in [pc : {"dashboard", "receive", "complete", "error", "restart"},
               left : Nat, internal : BOOLEAN]
  /\ ota_worker \in [pc : {"none", "loop", "finish", "drain", "stop"}, sent : Nat, waited : Nat, to_send : Nat]
  /\ updates \in 0..MaxUpdates /\ foreign \in 0..MaxForeign
  /\ main.left > 0 => main.pc = "receive"

UsbOtaInit ==
  /\ cbor_msg_in = <<>> /\ internal_out = <<>>
  /\ main = [pc |-> "dashboard", left |-> 0, internal |-> FALSE]
  /\ ota_worker = NoWorker
  /\ updates = 0 /\ foreign = 0 /\ gave_up = FALSE /\ mixed = FALSE /\ own = TRUE

-----------------------------------------------------------------------------
(* The worker *)

PostMessage(update, n, method, size) ==
  cbor_msg_in' = Append(cbor_msg_in, [update |-> update, n |-> n, method |-> method, size |-> size])

\* The user starts an update: initiate_usb_ota, start_usb_ota_task.
start_usb_ota_task ==
  /\ main.pc = "dashboard" /\ ota_worker.pc = "none" /\ updates < MaxUpdates
  /\ updates' = updates + 1
  /\ \E size \in Files :
       /\ PostMessage(updates', 0, "ota", size)
       /\ ota_worker' = [pc |-> "loop", sent |-> 1, waited |-> 0, to_send |-> size]
  /\ UNCHANGED <<internal_out, main, foreign, gave_up, mixed, own>>

\* Before every chunk but the first a reply is waited for.
Sends == ota_worker.pc = "loop" /\ ota_worker.to_send > 0 /\ ota_worker.sent - ota_worker.waited = 1
Waits == ota_worker.pc = "loop" /\ ota_worker.to_send > 0 /\ ota_worker.sent - ota_worker.waited > 1

\* The file may not be readable.
post_ota_data_message ==
  /\ Sends
  /\ \/ /\ PostMessage(updates, ota_worker.sent, "ota_data", 0)
        /\ ota_worker' = [ota_worker EXCEPT !.sent = @ + 1, !.to_send = @ - 1]
     \/ ota_worker' = [ota_worker EXCEPT !.pc = "finish"] /\ UNCHANGED cbor_msg_in
  /\ UNCHANGED <<internal_out, main, updates, foreign, gave_up, mixed, own>>

\* Sent whether or not all was well.
post_ota_complete_message ==
  /\ ota_worker.pc = "finish" \/ (ota_worker.pc = "loop" /\ ota_worker.to_send = 0)
  /\ PostMessage(updates, ota_worker.sent, "ota_complete", 0)
  /\ ota_worker' = [ota_worker EXCEPT !.pc = "drain", !.sent = @ + 1]
  /\ UNCHANGED <<internal_out, main, updates, foreign, gave_up, mixed, own>>

reply == Head(internal_out)

\* handle_ota_reply: the next reply is taken for the one that is awaited.
TakeReply ==
  /\ internal_out # <<>>
  /\ internal_out' = Tail(internal_out)
  /\ own' = (own /\ reply.update = updates /\ reply.n = ota_worker.waited)

\* Mutant: a reply that is an error is not counted.
Mutant_wait_for_ota_replies ==
  \/ /\ Waits /\ TakeReply
     /\ ota_worker' = IF reply.ok THEN [ota_worker EXCEPT !.waited = @ + 1]
                              ELSE [ota_worker EXCEPT !.pc = "finish"]
  \/ /\ ota_worker.pc = "drain" /\ ota_worker.waited < ota_worker.sent /\ TakeReply
     /\ ota_worker' = [ota_worker EXCEPT !.waited = @ + 1]
  \/ /\ ota_worker.pc = "drain" /\ ota_worker.waited = ota_worker.sent
     /\ ota_worker' = [ota_worker EXCEPT !.pc = "stop"]
     /\ UNCHANGED <<internal_out, own>>

\* Wait for one reply, or when all is sent for those that are outstanding.
wait_for_ota_replies ==
  \/ /\ Waits /\ TakeReply
     /\ ota_worker' = [ota_worker EXCEPT !.waited = @ + 1, !.pc = IF reply.ok THEN @ ELSE "finish"]
  \/ /\ ota_worker.pc = "drain" /\ ota_worker.waited < ota_worker.sent /\ TakeReply
     /\ ota_worker' = [ota_worker EXCEPT !.waited = @ + 1]
  \/ /\ ota_worker.pc = "drain" /\ ota_worker.waited = ota_worker.sent
     /\ ota_worker' = [ota_worker EXCEPT !.pc = "stop"]
     /\ UNCHANGED <<internal_out, own>>

AwaitReplies ==
  /\ wait_for_ota_replies
  /\ UNCHANGED <<cbor_msg_in, main, updates, foreign, gave_up, mixed>>

\* The first replies are awaited as long as it takes: the user must confirm.
wait_forever == ota_worker.pc = "loop" /\ ota_worker.sent <= 4

\* Mutant: the replies outstanding at the end are waited for without limit.
Mutant_Timeout ==
  /\ internal_out = <<>>
  /\ Waits /\ ~wait_forever
  /\ ota_worker' = [ota_worker EXCEPT !.pc = "stop"]
  /\ gave_up' = TRUE
  /\ UNCHANGED <<cbor_msg_in, internal_out, main, updates, foreign, mixed, own>>

\* No reply for ten seconds.  No "ota_complete" is sent.
Timeout ==
  /\ internal_out = <<>>
  /\ Waits \/ (ota_worker.pc = "drain" /\ ota_worker.waited < ota_worker.sent)
  /\ ~wait_forever
  /\ ota_worker' = [ota_worker EXCEPT !.pc = "stop"]
  /\ gave_up' = TRUE
  /\ UNCHANGED <<cbor_msg_in, internal_out, main, updates, foreign, mixed, own>>

\* usbstorage_stop, serial_start: see UsbStorage.
WorkerEnds ==
  /\ ota_worker.pc = "stop"
  /\ ota_worker' = NoWorker
  /\ UNCHANGED <<cbor_msg_in, internal_out, main, updates, foreign, gave_up, mixed, own>>

-----------------------------------------------------------------------------
(* The host and the main task *)

HostSends ==
  /\ foreign < MaxForeign
  /\ foreign' = foreign + 1
  /\ \E method \in Methods : PostMessage(0, 0, method, 1)
  /\ UNCHANGED <<internal_out, main, ota_worker, updates, gave_up, mixed, own>>

msg == Head(cbor_msg_in)
FromWorker == msg.update # 0
Take == cbor_msg_in # <<>> /\ cbor_msg_in' = Tail(cbor_msg_in)

\* A reply to the message over a connection, of which only SOURCE_INTERNAL matters here.
Reply(internal, ok) ==
  internal_out' = IF internal
                  THEN Append(internal_out, [update |-> msg.update, n |-> msg.n, ok |-> ok])
                  ELSE internal_out

\* The dashboard: "ota" starts an update of the size announced, or is refused; the others are
\* not expected here.
Dispatch ==
  /\ main.pc = "dashboard" /\ Take
  /\ \/ /\ msg.method = "ota" /\ Reply(FromWorker, TRUE)
        /\ main' = [pc |-> "receive", left |-> msg.size, internal |-> FromWorker]
     \/ Reply(FromWorker, FALSE) /\ UNCHANGED main
  /\ UNCHANGED <<ota_worker, updates, foreign, gave_up, mixed, own>>

MainGoto(pc, left) == main' = [main EXCEPT !.pc = pc, !.left = left]

\* ota_process: a packet is written, once the user has confirmed, or is bad, or the user
\* declines.  The answer goes to the source of the update whatever the source of the message.
handle_in_bin_data ==
  LET expected == FromWorker = main.internal /\ msg.method = "ota_data" IN
  /\ main.pc = "receive" /\ Take
  /\ \/ /\ expected /\ Reply(main.internal, TRUE)
        /\ MainGoto(IF main.left = 1 THEN "complete" ELSE "receive", main.left - 1)
     \/ Reply(main.internal, FALSE) /\ MainGoto("error", 0)
     \/ expected /\ Reply(main.internal, FALSE) /\ MainGoto("dashboard", 0)
  /\ mixed' = (mixed \/ FromWorker # main.internal)
  /\ UNCHANGED <<ota_worker, updates, foreign, gave_up, own>>

\* ota_finalize: the answer goes to the source of the message.
ota_finalize ==
  /\ main.pc = "complete" /\ Take
  /\ \/ msg.method = "ota_complete" /\ Reply(FromWorker, TRUE) /\ MainGoto("restart", 0)
     \/ Reply(FromWorker, FALSE) /\ MainGoto("error", 0)
  /\ UNCHANGED <<ota_worker, updates, foreign, gave_up, mixed, own>>

\* await_error_activity: the main task takes no message until the user has seen the error.
ErrorSeen ==
  /\ main.pc = "error" /\ MainGoto("dashboard", 0)
  /\ UNCHANGED <<cbor_msg_in, internal_out, ota_worker, updates, foreign, gave_up, mixed, own>>

esp_restart ==
  /\ main.pc = "restart" /\ MainGoto("dashboard", 0)
  /\ cbor_msg_in' = <<>> /\ internal_out' = <<>> /\ ota_worker' = NoWorker
  /\ gave_up' = FALSE /\ mixed' = FALSE /\ own' = TRUE
  /\ UNCHANGED <<updates, foreign>>

-----------------------------------------------------------------------------
Worker == post_ota_data_message \/ post_ota_complete_message \/ AwaitReplies \/ Timeout \/ WorkerEnds
MainTask == Dispatch \/ handle_in_bin_data \/ ota_finalize \/ ErrorSeen \/ esp_restart

UsbOtaNext == start_usb_ota_task \/ Worker \/ HostSends \/ MainTask

\* Both tasks are scheduled, and the user answers what is asked.
UsbOtaFairness == WF_usb_ota_vars(Worker) /\ WF_usb_ota_vars(MainTask)

UsbOtaSpec == UsbOtaInit /\ [][UsbOtaNext]_usb_ota_vars /\ UsbOtaFairness

-----------------------------------------------------------------------------
(* Properties *)

\* The reply the worker counts as that to its n-th message is the reply to that message, although
\* ids are not looked at; and nothing of an update is left in the queues when its worker
\* ends ("If the ota failed, the user can try again", usbmode.c:658).  Unless a worker has given
\* up or a host has interfered, since boot.
RepliesAreOwn ==
  ~gave_up /\ ~mixed =>
    /\ own
    /\ ota_worker.pc = "none" =>
         internal_out = <<>> /\ \A i \in DOMAIN cbor_msg_in : cbor_msg_in[i].update = 0

\* The worker ends, so that the storage is stopped and serial comes back; unless updates of
\* a host took its messages, of which the first are waited for without limit.
WorkerEndsEventually == ota_worker.pc # "none" ~> (ota_worker.pc = "none" \/ (mixed /\ wait_forever))

=============================================================================

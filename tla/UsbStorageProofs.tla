-------------------------- MODULE UsbStorageProofs --------------------------
(***************************************************************************)
(* Proofs about UsbStorage, for any number of update tasks and any length  *)
(* of the driver's queue.                                                  *)
(*                                                                         *)
(* Three parts are needed besides the types.  TaskInv says what the        *)
(* storage task has brought up at each of its steps.  UseInv says who may  *)
(* stop the storage: the main task or the one update, and that whoever     *)
(* starts serial has seen the storage task end.  DriveInv says that        *)
(* before the main task asks for it only an error takes the drive down,    *)
(* and ErrorInv that every error goes back to a drive of this session.     *)
(*                                                                         *)
(* Then, about UsbOta: the worker of an update from a USB drive takes the  *)
(* replies to its own messages.                                            *)
(***************************************************************************)
EXTENDS UsbStorage, UsbOta, TLAPS

\* Where the storage task can be.
Steps == {"none", "enable", "host_install", "msc_install", "loop", "cleanup", "unmount",
          "msc_uninstall", "await_worker", "end"}

\* Where the main task is, from the start of the storage until it asks for its end.
Opening == {"starting", "await", "action"}

Idle(u) == update[u] = "none"

Booleans ==
  /\ serial \in BOOLEAN /\ host \in BOOLEAN /\ mounted \in BOOLEAN
  /\ worker_task \in BOOLEAN /\ worker \in BOOLEAN /\ enumerated \in BOOLEAN

\* The port is powered, the driver there, the drive mounted and the worker running only at the
\* steps of the storage task that are between bringing each up and taking it down.
TaskInv ==
  /\ usbstorage_task \in Steps
  /\ host <=> usbstorage_task \notin {"none", "enable", "end"}
  /\ mounted => usbstorage_task \in {"loop", "cleanup", "unmount"}
  /\ clients = "driver" => /\ usbstorage_task \in {"loop", "cleanup", "unmount", "msc_uninstall"}
                           /\ "MSC_INSTALLED" \in usbstorage_state
  /\ worker => /\ worker_task /\ usbstorage_task \notin {"none", "enable", "host_install", "end"}
               /\ "WORKER_SHUTDOWN" \notin usbstorage_state
  /\ usbstorage_task \in {"enable", "host_install"} => "WORKER_SHUTDOWN" \notin usbstorage_state

\* At most one of the main task and the updates is using the storage.  It starts serial only after
\* the storage task has ended, and leaves no storage task behind unless a start failed.
UseInv ==
  ~overtaken =>
    /\ pc # "menu" => \A u \in Updates : Idle(u)
    /\ \A u, v \in Updates : Idle(u) \/ Idle(v) \/ u = v
    /\ serial => usbstorage_task = "none"
    /\ pc \in {"start", "request_stop", "start_serial"} \cup Opening => ~serial
    /\ pc = "start_serial" => usbstorage_task = "none"
    /\ \A u \in Updates : update[u] = "start_serial" => usbstorage_task = "none"
    /\ ~failed_start /\ (\A u \in Updates : Idle(u)) /\ pc \in {"menu", "stop_serial", "start"}
         => usbstorage_task = "none"

\* While the main task opens or uses the drive nobody asks the storage task to stop, so that it
\* only goes to its cleanup with an error.
DriveInv ==
  ~overtaken /\ pc \in Opening =>
    /\ "SHUTDOWN_REQUESTED" \notin usbstorage_state
    /\ usbstorage_task \in {"cleanup", "unmount", "msc_uninstall", "await_worker", "end", "none"}
         => "ERROR" \in usbstorage_state
    /\ "AVAILABLE" \in usbstorage_flags => mounted \/ "ERROR" \in usbstorage_state
    /\ pc = "action" => "AVAILABLE" \in usbstorage_flags

\* An error, or the event that will be one, comes from a drive removed in this session.
ErrorInv ==
  /\ enumerated => port = "drive"
  /\ "ERROR" \in usbstorage_state \cup usbstorage_flags => removed
  /\ usbstorage_task # "none" /\
     (\E i \in DOMAIN usbstorage_msc_queue : usbstorage_msc_queue[i] = "DISCONNECTED")
       => removed

UsbInv == Booleans /\ TypeOK /\ TaskInv /\ UseInv /\ DriveInv /\ ErrorInv

-----------------------------------------------------------------------------
\* Every step of the port, of the tasks and of the driver preserves the invariant.
LEMMA UsbStep ==
  ASSUME UsbInv, Next
  PROVE  UsbInv'
<1> USE DEF UsbInv
<1>1. CASE Plug
  <2>1. Booleans'
    BY <1>1, Zenon DEF Plug, tasks, shared, usb, history, Booleans
  <2>2. TypeOK'
    BY <1>1, <2>1, SMTT(20) DEF Plug, tasks, shared, usb, history, TypeOK, Stopping, Booleans
  <2>3. TaskInv'
    BY <1>1, <2>1, SMTT(20) DEF
      Plug, tasks, shared, usb, history, TypeOK, TaskInv, Steps, Booleans
  <2>4. UseInv'
    BY <1>1, SMTT(20) DEF
      Plug, tasks, shared, usb, history, TypeOK, TaskInv, UseInv, DriveInv, Opening,
      Stopping, Steps, Idle
  <2>5. DriveInv'
    BY <1>1, SMTT(20) DEF
      Plug, tasks, shared, usb, history, TypeOK, TaskInv, UseInv, DriveInv, Opening, Idle,
      Steps
  <2>6. ErrorInv'
    BY <1>1, SMTT(20) DEF Plug, tasks, shared, usb, history, TypeOK, TaskInv, ErrorInv
  <2> QED BY <2>1, <2>2, <2>3, <2>4, <2>5, <2>6
<1>2. CASE DeviceConnected
  <2>1. Booleans'
    BY <1>2, Zenon DEF DeviceConnected, PushEvent, tasks, history, Booleans
  <2>2. TypeOK'
    BY <1>2, <2>1, QueueAssumption, SMTT(20) DEF
      DeviceConnected, PushEvent, tasks, history, TypeOK, TaskInv, Stopping, Booleans
  <2>3. TaskInv'
    BY <1>2, <2>1, SMTT(20) DEF
      DeviceConnected, PushEvent, tasks, history, TypeOK, TaskInv, Steps, Booleans
  <2>4. UseInv'
    BY <1>2, SMTT(20) DEF
      DeviceConnected, PushEvent, tasks, history, TypeOK, TaskInv, UseInv, DriveInv,
      Opening, Stopping, Steps, Idle
  <2>5. DriveInv'
    BY <1>2, SMTT(20) DEF
      DeviceConnected, PushEvent, tasks, history, TypeOK, TaskInv, UseInv, DriveInv,
      Opening, Idle, Steps
  <2>6. ErrorInv'
    BY <1>2, SMTT(20) DEF
      DeviceConnected, PushEvent, tasks, history, TypeOK, TaskInv, ErrorInv
  <2> QED BY <2>1, <2>2, <2>3, <2>4, <2>5, <2>6
<1>3. CASE Unplug
  <2>1. Booleans'
    BY <1>3, Zenon DEF Unplug, PushEvent, tasks, Booleans
  <2>2. TypeOK'
    <3>1. /\ port' = "empty" /\ UNCHANGED <<pc, update, usbstorage_state, usbstorage_flags>>
          /\ UNCHANGED <<clients, host, mounted>> /\ ~enumerated'
          /\ \/ UNCHANGED usbstorage_msc_queue
             \/ PushEvent("DISCONNECTED")
      BY <1>3, Zenon DEF Unplug, history, usb, tasks
    <3>2. /\ usbstorage_msc_queue' \in Seq({"CONNECTED", "DISCONNECTED"})
          /\ Len(usbstorage_msc_queue') <= QueueLength
      BY <3>1, QueueAssumption, SMTT(20) DEF TypeOK, PushEvent
    <3> QED BY <2>1, <3>1, <3>2, SMTT(20) DEF TypeOK, Booleans
  <2>3. TaskInv'
    BY <1>3, <2>1, SMTT(20) DEF Unplug, PushEvent, tasks, TypeOK, TaskInv, Steps, Booleans
  <2>4. UseInv'
    BY <1>3, SMTT(20) DEF
      Unplug, PushEvent, tasks, TypeOK, TaskInv, UseInv, DriveInv, Opening, Stopping, Steps,
      Idle
  <2>5. DriveInv'
    BY <1>3, SMTT(20) DEF
      Unplug, PushEvent, tasks, TypeOK, TaskInv, UseInv, DriveInv, Opening, Idle, Steps
  <2>6. ErrorInv'
    <3>1. /\ ~enumerated'
          /\ UNCHANGED <<usbstorage_task, usbstorage_state, usbstorage_flags>>
          /\ removed \/ port = "drive" => removed'
          /\ enumerated \/ UNCHANGED usbstorage_msc_queue
      BY <1>3, Zenon DEF Unplug, history, usb, tasks
    <3> QED BY <3>1, SMTT(20) DEF ErrorInv
  <2> QED BY <2>1, <2>2, <2>3, <2>4, <2>5, <2>6
<1>4. CASE Choose
  <2>1. Booleans'
    BY <1>4, Zenon DEF Choose, tasks, shared, others, usb, Booleans
  <2>2. TypeOK'
    BY <1>4, <2>1, SMTT(20) DEF Choose, tasks, shared, others, usb, TypeOK, Stopping, Booleans
  <2>3. TaskInv'
    BY <1>4, <2>1, SMTT(20) DEF
      Choose, tasks, shared, others, usb, TypeOK, TaskInv, Steps, Booleans
  <2>4. UseInv'
    <3>1. /\ pc = "menu" /\ pc' = "stop_serial"
          /\ UNCHANGED <<serial, update, usbstorage_task, failed_start>>
          /\ ~overtaken' => ~overtaken /\ \A u \in Updates : Idle(u)
      BY <1>4, Zenon DEF Choose, tasks, Idle
    <3> QED BY <3>1, SMTT(20) DEF UseInv, Idle, Opening
  <2>5. DriveInv'
    BY <1>4, SMTT(20) DEF
      Choose, tasks, shared, others, usb, TypeOK, TaskInv, UseInv, DriveInv, Opening, Idle,
      Steps
  <2>6. ErrorInv'
    BY <1>4, SMTT(20) DEF Choose, tasks, shared, others, usb, TypeOK, TaskInv, ErrorInv
  <2> QED BY <2>1, <2>2, <2>3, <2>4, <2>5, <2>6
<1>5. CASE serial_stop
  <2>1. Booleans'
    BY <1>5, Zenon DEF serial_stop, tasks, shared, history, others, usb, Booleans
  <2>2. TypeOK'
    BY <1>5, <2>1, SMTT(20) DEF
      serial_stop, tasks, shared, history, others, usb, TypeOK, Stopping, Booleans
  <2>3. TaskInv'
    BY <1>5, <2>1, SMTT(20) DEF
      serial_stop, tasks, shared, history, others, usb, TypeOK, TaskInv, Steps, Booleans
  <2>4. UseInv'
    BY <1>5, SMTT(20) DEF
      serial_stop, tasks, shared, history, others, usb, TypeOK, TaskInv, UseInv, DriveInv,
      Opening, Stopping, Steps, Idle
  <2>5. DriveInv'
    BY <1>5, SMTT(20) DEF
      serial_stop, tasks, shared, history, others, usb, TypeOK, TaskInv, UseInv, DriveInv,
      Opening, Idle, Steps
  <2>6. ErrorInv'
    BY <1>5, SMTT(20) DEF
      serial_stop, tasks, shared, history, others, usb, TypeOK, TaskInv, ErrorInv
  <2> QED BY <2>1, <2>2, <2>3, <2>4, <2>5, <2>6
<1>6. CASE usbstorage_start
  <2>1. Booleans'
    BY <1>6, Zenon DEF usbstorage_start, others, usb, Booleans
  <2>2. TypeOK'
    <3>0. \/ usbstorage_state' = usbstorage_state
          \/ usbstorage_state' = {}
      BY <1>6, Zenon DEF usbstorage_start
    <3>1. usbstorage_state' \subseteq
            {"USB_INSTALLED", "MSC_INSTALLED", "WORKER_SHUTDOWN", "SHUTDOWN_REQUESTED", "ERROR"}
      BY <3>0, ZenonT(20) DEF TypeOK
    <3>2. /\ UNCHANGED <<port, update, usbstorage_msc_queue, host, mounted, clients, enumerated>>
          /\ pc' \in {"restart", "starting"}
          /\ usbstorage_flags' \subseteq usbstorage_flags
      BY <1>6, SMTT(20) DEF usbstorage_start, others, usb
    <3> QED BY <2>1, <3>1, <3>2, SMTT(20) DEF TypeOK, Booleans
  <2>3. TaskInv'
    BY <1>6, <2>1, SMTT(20) DEF usbstorage_start, others, usb, TypeOK, TaskInv, Steps, Booleans
  <2>4. UseInv'
    BY <1>6, SMTT(20) DEF
      usbstorage_start, others, usb, TypeOK, TaskInv, UseInv, DriveInv, Opening, Stopping,
      Steps, Idle
  <2>5. DriveInv'
    BY <1>6, SMTT(20) DEF
      usbstorage_start, others, usb, TypeOK, TaskInv, UseInv, DriveInv, Opening, Idle, Steps
  <2>6. ErrorInv'
    <3>1. /\ UNCHANGED <<port, usbstorage_msc_queue, enumerated>>
          /\ \/ UNCHANGED <<usbstorage_task, usbstorage_state, usbstorage_flags, removed>>
             \/ /\ usbstorage_state' = {} /\ usbstorage_flags' = {}
                /\ usbstorage_msc_queue # <<>> => removed'
      BY <1>6, Zenon DEF usbstorage_start, others, usb
    <3>2. (\E i \in DOMAIN usbstorage_msc_queue : usbstorage_msc_queue[i] = "DISCONNECTED")
             => usbstorage_msc_queue # <<>>
      BY SMT
    <3> QED BY <3>1, <3>2, SMTT(20) DEF ErrorInv
  <2> QED BY <2>1, <2>2, <2>3, <2>4, <2>5, <2>6
<1>7. CASE Started
  <2>1. Booleans'
    BY <1>7, Zenon DEF Started, tasks, shared, others, usb, Booleans
  <2>2. TypeOK'
    BY <1>7, <2>1, SMTT(20) DEF Started, tasks, shared, others, usb, TypeOK, Stopping, Booleans
  <2>3. TaskInv'
    BY <1>7, <2>1, SMTT(20) DEF
      Started, tasks, shared, others, usb, TypeOK, TaskInv, Steps, Booleans
  <2>4. UseInv'
    BY <1>7, SMTT(20) DEF
      Started, tasks, shared, others, usb, TypeOK, TaskInv, UseInv, DriveInv, Opening,
      Stopping, Steps, Idle
  <2>5. DriveInv'
    BY <1>7, SMTT(20) DEF
      Started, tasks, shared, others, usb, TypeOK, TaskInv, UseInv, DriveInv, Opening, Idle,
      Steps
  <2>6. ErrorInv'
    BY <1>7, SMTT(20) DEF Started, tasks, shared, others, usb, TypeOK, TaskInv, ErrorInv
  <2> QED BY <2>1, <2>2, <2>3, <2>4, <2>5, <2>6
<1>8. CASE usbstorage_stop
  <2>1. Booleans'
    BY <1>8, Zenon DEF
      usbstorage_stop, RequestStop, tasks, history, others, usb, Booleans
  <2>2. TypeOK'
    BY <1>8, <2>1, SMTT(20) DEF
      usbstorage_stop, RequestStop, tasks, history, others, usb, TypeOK, Stopping, Booleans
  <2>3. TaskInv'
    BY <1>8, <2>1, SMTT(20) DEF
      usbstorage_stop, RequestStop, tasks, history, others, usb, TypeOK, TaskInv, Steps,
      Booleans
  <2>4. UseInv'
    BY <1>8, SMTT(20) DEF
      usbstorage_stop, RequestStop, tasks, history, others, usb, TypeOK, TaskInv, UseInv,
      DriveInv, Opening, Stopping, Steps, Idle
  <2>5. DriveInv'
    BY <1>8, SMTT(20) DEF
      usbstorage_stop, RequestStop, tasks, history, others, usb, TypeOK, TaskInv, UseInv,
      DriveInv, Opening, Idle, Steps
  <2>6. ErrorInv'
    BY <1>8, SMTT(20) DEF
      usbstorage_stop, RequestStop, tasks, history, others, usb, TypeOK, TaskInv, ErrorInv
  <2> QED BY <2>1, <2>2, <2>3, <2>4, <2>5, <2>6
<1>9. CASE serial_start
  <2>1. Booleans'
    BY <1>9, Zenon DEF serial_start, tasks, shared, history, others, usb, Booleans
  <2>2. TypeOK'
    BY <1>9, <2>1, SMTT(20) DEF
      serial_start, tasks, shared, history, others, usb, TypeOK, Stopping, Booleans
  <2>3. TaskInv'
    BY <1>9, <2>1, SMTT(20) DEF
      serial_start, tasks, shared, history, others, usb, TypeOK, TaskInv, Steps, Booleans
  <2>4. UseInv'
    BY <1>9, SMTT(20) DEF
      serial_start, tasks, shared, history, others, usb, TypeOK, TaskInv, UseInv, DriveInv,
      Opening, Stopping, Steps, Idle
  <2>5. DriveInv'
    BY <1>9, SMTT(20) DEF
      serial_start, tasks, shared, history, others, usb, TypeOK, TaskInv, UseInv, DriveInv,
      Opening, Idle, Steps
  <2>6. ErrorInv'
    BY <1>9, SMTT(20) DEF
      serial_start, tasks, shared, history, others, usb, TypeOK, TaskInv, ErrorInv
  <2> QED BY <2>1, <2>2, <2>3, <2>4, <2>5, <2>6
<1>10. CASE AwaitStorage
  <2>1. Booleans'
    BY <1>10, Zenon DEF AwaitStorage, tasks, shared, history, others, usb, Booleans
  <2>2. TypeOK'
    BY <1>10, <2>1, SMTT(20) DEF
      AwaitStorage, tasks, shared, history, others, usb, TypeOK, Stopping, Booleans
  <2>3. TaskInv'
    BY <1>10, <2>1, SMTT(20) DEF
      AwaitStorage, tasks, shared, history, others, usb, TypeOK, TaskInv, Steps, Booleans
  <2>4. UseInv'
    BY <1>10, SMTT(20) DEF
      AwaitStorage, tasks, shared, history, others, usb, TypeOK, TaskInv, UseInv, DriveInv,
      Opening, Stopping, Steps, Idle
  <2>5. DriveInv'
    BY <1>10, SMTT(20) DEF
      AwaitStorage, tasks, shared, history, others, usb, TypeOK, TaskInv, UseInv, DriveInv,
      Opening, Idle, Steps
  <2>6. ErrorInv'
    BY <1>10, SMTT(20) DEF
      AwaitStorage, tasks, shared, history, others, usb, TypeOK, TaskInv, ErrorInv
  <2> QED BY <2>1, <2>2, <2>3, <2>4, <2>5, <2>6
<1>11. CASE RunAction
  <2>1. Booleans'
    BY <1>11, Zenon DEF RunAction, tasks, shared, history, others, usb, Booleans
  <2>2. TypeOK'
    BY <1>11, <2>1, SMTT(20) DEF
      RunAction, tasks, shared, history, others, usb, TypeOK, Stopping, Booleans
  <2>3. TaskInv'
    BY <1>11, <2>1, SMTT(20) DEF
      RunAction, tasks, shared, history, others, usb, TypeOK, TaskInv, Steps, Booleans
  <2>4. UseInv'
    BY <1>11, SMTT(20) DEF
      RunAction, tasks, shared, history, others, usb, TypeOK, TaskInv, UseInv, DriveInv,
      Opening, Stopping, Steps, Idle
  <2>5. DriveInv'
    BY <1>11, SMTT(20) DEF
      RunAction, tasks, shared, history, others, usb, TypeOK, TaskInv, UseInv, DriveInv,
      Opening, Idle, Steps
  <2>6. ErrorInv'
    BY <1>11, SMTT(20) DEF
      RunAction, tasks, shared, history, others, usb, TypeOK, TaskInv, ErrorInv
  <2> QED BY <2>1, <2>2, <2>3, <2>4, <2>5, <2>6
<1>12. ASSUME NEW u \in Updates, UpdateEnds(u)
      PROVE  UsbInv'
  <2>1. Booleans'
    BY <1>12, Zenon DEF UpdateEnds, tasks, shared, history, others, usb, Booleans
  <2>2. TypeOK'
    BY <1>12, <2>1, SMTT(20) DEF
      UpdateEnds, tasks, shared, history, others, usb, TypeOK, Stopping, Booleans
  <2>3. TaskInv'
    BY <1>12, <2>1, SMTT(20) DEF
      UpdateEnds, tasks, shared, history, others, usb, TypeOK, TaskInv, Steps, Booleans
  <2>4. UseInv'
    BY <1>12, SMTT(20) DEF
      UpdateEnds, tasks, shared, history, others, usb, TypeOK, TaskInv, UseInv, DriveInv,
      Opening, Stopping, Steps, Idle
  <2>5. DriveInv'
    BY <1>12, SMTT(20) DEF
      UpdateEnds, tasks, shared, history, others, usb, TypeOK, TaskInv, UseInv, DriveInv,
      Opening, Idle, Steps
  <2>6. ErrorInv'
    BY <1>12, SMTT(20) DEF
      UpdateEnds, tasks, shared, history, others, usb, TypeOK, TaskInv, ErrorInv
  <2> QED BY <2>1, <2>2, <2>3, <2>4, <2>5, <2>6
<1>13. ASSUME NEW u \in Updates, UpdateStops(u)
      PROVE  UsbInv'
  <2>1. Booleans'
    BY <1>13, Zenon DEF UpdateStops, RequestStop, tasks, history, others, usb, Booleans
  <2>2. TypeOK'
    BY <1>13, <2>1, SMTT(20) DEF
      UpdateStops, RequestStop, tasks, history, others, usb, TypeOK, Stopping, Booleans
  <2>3. TaskInv'
    BY <1>13, <2>1, SMTT(20) DEF
      UpdateStops, RequestStop, tasks, history, others, usb, TypeOK, TaskInv, Steps,
      Booleans
  <2>4. UseInv'
    BY <1>13, SMTT(20) DEF
      UpdateStops, RequestStop, tasks, history, others, usb, TypeOK, TaskInv, UseInv,
      DriveInv, Opening, Stopping, Steps, Idle
  <2>5. DriveInv'
    BY <1>13, SMTT(20) DEF
      UpdateStops, RequestStop, tasks, history, others, usb, TypeOK, TaskInv, UseInv,
      DriveInv, Opening, Idle, Steps
  <2>6. ErrorInv'
    BY <1>13, SMTT(20) DEF
      UpdateStops, RequestStop, tasks, history, others, usb, TypeOK, TaskInv, ErrorInv
  <2> QED BY <2>1, <2>2, <2>3, <2>4, <2>5, <2>6
<1>14. ASSUME NEW u \in Updates, UpdateStartsSerial(u)
      PROVE  UsbInv'
  <2>1. Booleans'
    BY <1>14, Zenon DEF UpdateStartsSerial, tasks, shared, history, others, usb, Booleans
  <2>2. TypeOK'
    BY <1>14, <2>1, SMTT(20) DEF
      UpdateStartsSerial, tasks, shared, history, others, usb, TypeOK, Stopping, Booleans
  <2>3. TaskInv'
    BY <1>14, <2>1, SMTT(20) DEF
      UpdateStartsSerial, tasks, shared, history, others, usb, TypeOK, TaskInv, Steps,
      Booleans
  <2>4. UseInv'
    BY <1>14, SMTT(20) DEF
      UpdateStartsSerial, tasks, shared, history, others, usb, TypeOK, TaskInv, UseInv,
      DriveInv, Opening, Stopping, Steps, Idle
  <2>5. DriveInv'
    BY <1>14, SMTT(20) DEF
      UpdateStartsSerial, tasks, shared, history, others, usb, TypeOK, TaskInv, UseInv,
      DriveInv, Opening, Idle, Steps
  <2>6. ErrorInv'
    BY <1>14, SMTT(20) DEF
      UpdateStartsSerial, tasks, shared, history, others, usb, TypeOK, TaskInv, ErrorInv
  <2> QED BY <2>1, <2>2, <2>3, <2>4, <2>5, <2>6
<1>15. CASE Restart
  <2>1. Booleans'
    BY <1>15, Zenon DEF Restart, Booleans
  <2>2. TypeOK'
    <3>1. /\ port' = port /\ pc' = "menu" /\ update' = [u \in Updates |-> "none"]
          /\ usbstorage_state' = {} /\ usbstorage_flags' = {} /\ usbstorage_msc_queue' = <<>>
          /\ ~enumerated' /\ ~mounted'
      BY <1>15, Zenon DEF Restart
    <3>2. /\ usbstorage_msc_queue' \in Seq({"CONNECTED", "DISCONNECTED"})
          /\ Len(usbstorage_msc_queue') <= QueueLength
      BY <3>1, QueueAssumption, SMTT(20)
    <3> QED BY <2>1, <3>1, <3>2, SMTT(20) DEF TypeOK, Booleans
  <2>3. TaskInv'
    BY <1>15, <2>1, SMTT(20) DEF Restart, TypeOK, TaskInv, Steps, Booleans
  <2>4. UseInv'
    BY <1>15, SMTT(20) DEF
      Restart, TypeOK, TaskInv, UseInv, DriveInv, Opening, Stopping, Steps, Idle
  <2>5. DriveInv'
    BY <1>15, SMTT(20) DEF Restart, TypeOK, TaskInv, UseInv, DriveInv, Opening, Idle, Steps
  <2>6. ErrorInv'
    BY <1>15, SMTT(20) DEF Restart, TypeOK, TaskInv, ErrorInv
  <2> QED BY <2>1, <2>2, <2>3, <2>4, <2>5, <2>6
<1>16. CASE enable_usb_host
  <2>1. Booleans'
    BY <1>16, Zenon DEF enable_usb_host, Goto, shared, history, mainState, Booleans
  <2>2. TypeOK'
    BY <1>16, <2>1, SMTT(20) DEF
      enable_usb_host, Goto, shared, history, mainState, TypeOK, Stopping, Booleans
  <2>3. TaskInv'
    BY <1>16, <2>1, SMTT(20) DEF
      enable_usb_host, Goto, shared, history, mainState, TypeOK, TaskInv, Steps, Booleans
  <2>4. UseInv'
    BY <1>16, SMTT(20) DEF
      enable_usb_host, Goto, shared, history, mainState, TypeOK, TaskInv, UseInv, DriveInv,
      Opening, Stopping, Steps, Idle
  <2>5. DriveInv'
    BY <1>16, SMTT(20) DEF
      enable_usb_host, Goto, shared, history, mainState, TypeOK, TaskInv, UseInv, DriveInv,
      Opening, Idle, Steps
  <2>6. ErrorInv'
    BY <1>16, SMTT(20) DEF
      enable_usb_host, Goto, shared, history, mainState, TypeOK, TaskInv, ErrorInv
  <2> QED BY <2>1, <2>2, <2>3, <2>4, <2>5, <2>6
<1>17. CASE usb_host_install
  <2>1. Booleans'
    BY <1>17, Zenon DEF usb_host_install, Goto, Set, usb, mainState, Booleans
  <2>2. TypeOK'
    <3>0. \/ usbstorage_state' = usbstorage_state \cup {"USB_INSTALLED"}
          \/ usbstorage_state' = usbstorage_state \cup {"ERROR"}
      BY <1>17, Zenon DEF usb_host_install, Set
    <3>1. usbstorage_state' \subseteq
            {"USB_INSTALLED", "MSC_INSTALLED", "WORKER_SHUTDOWN", "SHUTDOWN_REQUESTED", "ERROR"}
      BY <3>0, ZenonT(20) DEF TypeOK
    <3>2. /\ UNCHANGED <<port, pc, update, usbstorage_flags, usbstorage_msc_queue, host, mounted>>
          /\ UNCHANGED <<clients, enumerated>>
      BY <1>17, Zenon DEF usb_host_install, mainState, usb
    <3> QED BY <2>1, <3>1, <3>2, SMTT(20) DEF TypeOK, Booleans
  <2>3. TaskInv'
    BY <1>17, <2>1, SMTT(20) DEF
      usb_host_install, Goto, Set, usb, mainState, TypeOK, TaskInv, Steps, Booleans
  <2>4. UseInv'
    BY <1>17, SMTT(20) DEF
      usb_host_install, Goto, Set, usb, mainState, TypeOK, TaskInv, UseInv, DriveInv,
      Opening, Stopping, Steps, Idle
  <2>5. DriveInv'
    BY <1>17, SMTT(20) DEF
      usb_host_install, Goto, Set, usb, mainState, TypeOK, TaskInv, UseInv, DriveInv,
      Opening, Idle, Steps
  <2>6. ErrorInv'
    BY <1>17, SMTT(20) DEF
      usb_host_install, Goto, Set, usb, mainState, TypeOK, TaskInv, ErrorInv
  <2> QED BY <2>1, <2>2, <2>3, <2>4, <2>5, <2>6
<1>18. CASE msc_host_install
  <2>1. Booleans'
    BY <1>18, Zenon DEF msc_host_install, Goto, Set, mainState, Booleans
  <2>2. TypeOK'
    <3>0. \/ usbstorage_state' = usbstorage_state \cup {"MSC_INSTALLED"}
          \/ usbstorage_state' = usbstorage_state \cup {"ERROR"}
      BY <1>18, Zenon DEF msc_host_install, Set
    <3>1. usbstorage_state' \subseteq
            {"USB_INSTALLED", "MSC_INSTALLED", "WORKER_SHUTDOWN", "SHUTDOWN_REQUESTED", "ERROR"}
      BY <3>0, ZenonT(20) DEF TypeOK
    <3>2. /\ UNCHANGED <<port, pc, update, usbstorage_flags, usbstorage_msc_queue, host, mounted>>
          /\ UNCHANGED enumerated /\ usbstorage_task = "msc_install"
      BY <1>18, Zenon DEF msc_host_install, mainState
    <3> QED BY <2>1, <3>1, <3>2, SMTT(20) DEF TypeOK, Booleans, TaskInv
  <2>3. TaskInv'
    BY <1>18, <2>1, SMTT(20) DEF
      msc_host_install, Goto, Set, mainState, TypeOK, TaskInv, Steps, Booleans
  <2>4. UseInv'
    BY <1>18, SMTT(20) DEF
      msc_host_install, Goto, Set, mainState, TypeOK, TaskInv, UseInv, DriveInv, Opening,
      Stopping, Steps, Idle
  <2>5. DriveInv'
    BY <1>18, SMTT(20) DEF
      msc_host_install, Goto, Set, mainState, TypeOK, TaskInv, UseInv, DriveInv, Opening,
      Idle, Steps
  <2>6. ErrorInv'
    BY <1>18, SMTT(20) DEF msc_host_install, Goto, Set, mainState, TypeOK, TaskInv, ErrorInv
  <2> QED BY <2>1, <2>2, <2>3, <2>4, <2>5, <2>6
<1>19. CASE HandleEvent
  <2>1. Booleans'
    BY <1>19, Zenon DEF HandleEvent, Goto, Set, mainState, Booleans
  <2>2. TypeOK'
    <3>1. /\ usbstorage_task = "loop"
          /\ usbstorage_msc_queue # <<>> /\ usbstorage_msc_queue' = Tail(usbstorage_msc_queue)
          /\ UNCHANGED <<port, pc, update, worker_task, worker, host, clients, enumerated>>
          /\ usbstorage_task' \in {"loop", "cleanup"}
      BY <1>19, Zenon DEF HandleEvent, mainState, Goto
    <3>2. /\ usbstorage_flags' \subseteq usbstorage_flags \cup {"AVAILABLE"}
          /\ usbstorage_state \subseteq usbstorage_state'
          /\ usbstorage_state' \subseteq usbstorage_state \cup {"ERROR"}
      BY <1>19, SMTT(20) DEF HandleEvent, Set
    <3>3. /\ usbstorage_msc_queue' \in Seq({"CONNECTED", "DISCONNECTED"})
          /\ Len(usbstorage_msc_queue') <= QueueLength
      BY <3>1, QueueAssumption, SMTT(20) DEF TypeOK
    <3> QED BY <2>1, <3>1, <3>2, <3>3, SMTT(20) DEF TypeOK, Booleans, TaskInv
  <2>3. TaskInv'
    <3>1. /\ usbstorage_task = "loop"
          /\ usbstorage_msc_queue # <<>> /\ usbstorage_msc_queue' = Tail(usbstorage_msc_queue)
          /\ UNCHANGED <<port, pc, update, worker_task, worker, host, clients, enumerated>>
          /\ usbstorage_task' \in {"loop", "cleanup"}
          /\ mounted' = mounted \/ usbstorage_task' = "loop"
      BY <1>19, Zenon DEF HandleEvent, mainState, Goto
    <3>2. /\ usbstorage_flags' \subseteq usbstorage_flags \cup {"AVAILABLE"}
          /\ usbstorage_state \subseteq usbstorage_state'
          /\ usbstorage_state' \subseteq usbstorage_state \cup {"ERROR"}
      BY <1>19, SMTT(20) DEF HandleEvent, Set
    <3> QED BY <2>1, <3>1, <3>2, SMTT(20) DEF TaskInv, Booleans, Steps
  <2>4. UseInv'
    BY <1>19, SMTT(20) DEF
      HandleEvent, Goto, Set, mainState, TypeOK, TaskInv, UseInv, DriveInv, Opening,
      Stopping, Steps, Idle
  <2>5. DriveInv'
    BY <1>19, SMTT(20) DEF
      HandleEvent, Goto, Set, mainState, TypeOK, TaskInv, UseInv, DriveInv, Opening, Idle,
      Steps
  <2>6. ErrorInv'
    BY <1>19, SMTT(20) DEF HandleEvent, Goto, Set, mainState, TypeOK, TaskInv, ErrorInv
  <2> QED BY <2>1, <2>2, <2>3, <2>4, <2>5, <2>6
<1>20. CASE ShutdownRequested
  <2>1. Booleans'
    BY <1>20, Zenon DEF
      ShutdownRequested, Goto, shared, usb, history, mainState, Booleans
  <2>2. TypeOK'
    BY <1>20, <2>1, SMTT(20) DEF
      ShutdownRequested, Goto, shared, usb, history, mainState, TypeOK, Stopping, Booleans
  <2>3. TaskInv'
    BY <1>20, <2>1, SMTT(20) DEF
      ShutdownRequested, Goto, shared, usb, history, mainState, TypeOK, TaskInv, Steps,
      Booleans
  <2>4. UseInv'
    BY <1>20, SMTT(20) DEF
      ShutdownRequested, Goto, shared, usb, history, mainState, TypeOK, TaskInv, UseInv,
      DriveInv, Opening, Stopping, Steps, Idle
  <2>5. DriveInv'
    BY <1>20, SMTT(20) DEF
      ShutdownRequested, Goto, shared, usb, history, mainState, TypeOK, TaskInv, UseInv,
      DriveInv, Opening, Idle, Steps
  <2>6. ErrorInv'
    BY <1>20, SMTT(20) DEF
      ShutdownRequested, Goto, shared, usb, history, mainState, TypeOK, TaskInv, ErrorInv
  <2> QED BY <2>1, <2>2, <2>3, <2>4, <2>5, <2>6
<1>21. CASE PostError
  <2>1. Booleans'
    BY <1>21, Zenon DEF PostError, Goto, usb, history, mainState, Booleans
  <2>2. TypeOK'
    BY <1>21, <2>1, SMTT(20) DEF
      PostError, Goto, usb, history, mainState, TypeOK, Stopping, Booleans
  <2>3. TaskInv'
    BY <1>21, <2>1, SMTT(20) DEF
      PostError, Goto, usb, history, mainState, TypeOK, TaskInv, Steps, Booleans
  <2>4. UseInv'
    BY <1>21, SMTT(20) DEF
      PostError, Goto, usb, history, mainState, TypeOK, TaskInv, UseInv, DriveInv, Opening,
      Stopping, Steps, Idle
  <2>5. DriveInv'
    BY <1>21, SMTT(20) DEF
      PostError, Goto, usb, history, mainState, TypeOK, TaskInv, UseInv, DriveInv, Opening,
      Idle, Steps
  <2>6. ErrorInv'
    BY <1>21, SMTT(20) DEF
      PostError, Goto, usb, history, mainState, TypeOK, TaskInv, ErrorInv
  <2> QED BY <2>1, <2>2, <2>3, <2>4, <2>5, <2>6
<1>22. CASE Unmount
  <2>1. Booleans'
    BY <1>22, Zenon DEF Unmount, Goto, shared, history, mainState, Booleans
  <2>2. TypeOK'
    BY <1>22, <2>1, SMTT(20) DEF
      Unmount, Goto, shared, history, mainState, TypeOK, Stopping, Booleans
  <2>3. TaskInv'
    BY <1>22, <2>1, SMTT(20) DEF
      Unmount, Goto, shared, history, mainState, TypeOK, TaskInv, Steps, Booleans
  <2>4. UseInv'
    BY <1>22, SMTT(20) DEF
      Unmount, Goto, shared, history, mainState, TypeOK, TaskInv, UseInv, DriveInv, Opening,
      Stopping, Steps, Idle
  <2>5. DriveInv'
    BY <1>22, SMTT(20) DEF
      Unmount, Goto, shared, history, mainState, TypeOK, TaskInv, UseInv, DriveInv, Opening,
      Idle, Steps
  <2>6. ErrorInv'
    BY <1>22, SMTT(20) DEF
      Unmount, Goto, shared, history, mainState, TypeOK, TaskInv, ErrorInv
  <2> QED BY <2>1, <2>2, <2>3, <2>4, <2>5, <2>6
<1>23. CASE msc_host_uninstall
  <2>1. Booleans'
    BY <1>23, Zenon DEF msc_host_uninstall, Goto, history, mainState, Booleans
  <2>2. TypeOK'
    <3>0. \/ usbstorage_state' = usbstorage_state
          \/ usbstorage_state' = usbstorage_state \ {"MSC_INSTALLED"}
      BY <1>23, Zenon DEF msc_host_uninstall
    <3>1. usbstorage_state' \subseteq
            {"USB_INSTALLED", "MSC_INSTALLED", "WORKER_SHUTDOWN", "SHUTDOWN_REQUESTED", "ERROR"}
      BY <3>0, ZenonT(20) DEF TypeOK
    <3>2. /\ UNCHANGED <<port, pc, update, usbstorage_flags, usbstorage_msc_queue, host, mounted>>
          /\ enumerated' => enumerated /\ clients' = clients
      BY <1>23, Zenon DEF msc_host_uninstall, mainState
    <3> QED BY <2>1, <3>1, <3>2, SMTT(20) DEF TypeOK, Booleans
  <2>3. TaskInv'
    BY <1>23, <2>1, SMTT(20) DEF
      msc_host_uninstall, Goto, history, mainState, TypeOK, TaskInv, Steps, Booleans
  <2>4. UseInv'
    BY <1>23, SMTT(20) DEF
      msc_host_uninstall, Goto, history, mainState, TypeOK, TaskInv, UseInv, DriveInv,
      Opening, Stopping, Steps, Idle
  <2>5. DriveInv'
    BY <1>23, SMTT(20) DEF
      msc_host_uninstall, Goto, history, mainState, TypeOK, TaskInv, UseInv, DriveInv,
      Opening, Idle, Steps
  <2>6. ErrorInv'
    BY <1>23, SMTT(20) DEF
      msc_host_uninstall, Goto, history, mainState, TypeOK, TaskInv, ErrorInv
  <2> QED BY <2>1, <2>2, <2>3, <2>4, <2>5, <2>6
<1>24. CASE usb_host_uninstall
  <2>1. Booleans'
    BY <1>24, Zenon DEF usb_host_uninstall, Goto, shared, history, mainState, Booleans
  <2>2. TypeOK'
    BY <1>24, <2>1, SMTT(20) DEF
      usb_host_uninstall, Goto, shared, history, mainState, TypeOK, TaskInv, Steps,
      Stopping, Booleans
  <2>3. TaskInv'
    BY <1>24, <2>1, SMTT(20) DEF
      usb_host_uninstall, Goto, shared, history, mainState, TypeOK, TaskInv, Steps, Booleans
  <2>4. UseInv'
    BY <1>24, SMTT(20) DEF
      usb_host_uninstall, Goto, shared, history, mainState, TypeOK, TaskInv, UseInv,
      DriveInv, Opening, Stopping, Steps, Idle
  <2>5. DriveInv'
    BY <1>24, SMTT(20) DEF
      usb_host_uninstall, Goto, shared, history, mainState, TypeOK, TaskInv, UseInv,
      DriveInv, Opening, Idle, Steps
  <2>6. ErrorInv'
    BY <1>24, SMTT(20) DEF
      usb_host_uninstall, Goto, shared, history, mainState, TypeOK, TaskInv, ErrorInv
  <2> QED BY <2>1, <2>2, <2>3, <2>4, <2>5, <2>6
<1>25. CASE TaskEnds
  <2>1. Booleans'
    BY <1>25, Zenon DEF TaskEnds, Goto, shared, usb, history, mainState, Booleans
  <2>2. TypeOK'
    BY <1>25, <2>1, SMTT(20) DEF
      TaskEnds, Goto, shared, usb, history, mainState, TypeOK, Stopping, Booleans
  <2>3. TaskInv'
    BY <1>25, <2>1, SMTT(20) DEF
      TaskEnds, Goto, shared, usb, history, mainState, TypeOK, TaskInv, Steps, Booleans
  <2>4. UseInv'
    BY <1>25, SMTT(20) DEF
      TaskEnds, Goto, shared, usb, history, mainState, TypeOK, TaskInv, UseInv, DriveInv,
      Opening, Stopping, Steps, Idle
  <2>5. DriveInv'
    BY <1>25, SMTT(20) DEF
      TaskEnds, Goto, shared, usb, history, mainState, TypeOK, TaskInv, UseInv, DriveInv,
      Opening, Idle, Steps
  <2>6. ErrorInv'
    BY <1>25, SMTT(20) DEF
      TaskEnds, Goto, shared, usb, history, mainState, TypeOK, TaskInv, ErrorInv
  <2> QED BY <2>1, <2>2, <2>3, <2>4, <2>5, <2>6
<1>26. CASE usbstorage_worker_impl
  <2>1. Booleans'
    BY <1>26, Zenon DEF usbstorage_worker_impl, Set, usb, history, mainState, Booleans
  <2>2. TypeOK'
    BY <1>26, <2>1, SMTT(20) DEF
      usbstorage_worker_impl, Set, usb, history, mainState, TypeOK, Stopping, Booleans
  <2>3. TaskInv'
    BY <1>26, <2>1, SMTT(20) DEF
      usbstorage_worker_impl, Set, usb, history, mainState, TypeOK, TaskInv, Steps, Booleans
  <2>4. UseInv'
    BY <1>26, SMTT(20) DEF
      usbstorage_worker_impl, Set, usb, history, mainState, TypeOK, TaskInv, UseInv,
      DriveInv, Opening, Stopping, Steps, Idle
  <2>5. DriveInv'
    BY <1>26, SMTT(20) DEF
      usbstorage_worker_impl, Set, usb, history, mainState, TypeOK, TaskInv, UseInv,
      DriveInv, Opening, Idle, Steps
  <2>6. ErrorInv'
    BY <1>26, SMTT(20) DEF
      usbstorage_worker_impl, Set, usb, history, mainState, TypeOK, TaskInv, ErrorInv
  <2> QED BY <2>1, <2>2, <2>3, <2>4, <2>5, <2>6
<1> QED
  BY <1>1, <1>2, <1>3, <1>4, <1>5, <1>6, <1>7, <1>8, <1>9, <1>10, <1>11, <1>12, <1>13,
    <1>14, <1>15, <1>16, <1>17, <1>18, <1>19, <1>20, <1>21, <1>22, <1>23, <1>24, <1>25, <1>26
    DEF
    Next, Main, StorageTask

\* A stuttering step changes nothing.
LEMMA UsbInductive == UsbInv /\ [Next]_vars => UsbInv'
<1> SUFFICES ASSUME UsbInv, [Next]_vars PROVE UsbInv'
  OBVIOUS
<1>1. CASE Next
  BY <1>1, UsbStep
<1>2. CASE UNCHANGED vars
  <2> USE <1>2 DEF UsbInv, vars, tasks, shared, usb, history
  <2>1. Booleans' /\ TypeOK'
    BY Zenon DEF Booleans, TypeOK
  <2>2. TaskInv' /\ ErrorInv'
    BY Zenon DEF TaskInv, ErrorInv
  <2>3. UseInv' /\ DriveInv'
    BY Zenon DEF UseInv, DriveInv, Idle
  <2> QED BY <2>1, <2>2, <2>3
<1> QED BY <1>1, <1>2

\* When the device starts the storage is not in use.
LEMMA InitUsb == Init => UsbInv
<1> SUFFICES ASSUME Init PROVE UsbInv
  OBVIOUS
<1>1. Booleans
  BY Zenon DEF Init, Booleans
<1>2. TypeOK
  BY <1>1, QueueAssumption, SMT DEF Init, TypeOK, Booleans
<1>3. TaskInv
  BY <1>1, SMT DEF Init, TaskInv, Steps, Booleans
<1>4. UseInv /\ DriveInv
  BY SMT DEF Init, UseInv, DriveInv, Opening, Idle
<1>5. ErrorInv
  BY SMT DEF Init, ErrorInv
<1> QED BY <1>1, <1>2, <1>3, <1>4, <1>5 DEF UsbInv

\* The inductive invariant of the storage holds in every reachable state, for any number of
\* update tasks and any length of the driver's queue.
THEOREM UsbCorrect == Spec => []UsbInv
  BY InitUsb, UsbInductive, PTL DEF Spec

\* Every variable has its type; above all the queue of the driver's events never holds more than
\* it can, and nothing is mounted on a port without power.
THEOREM UsbTypeCorrect == Spec => []TypeOK
<1>1. UsbInv => TypeOK
  BY DEF UsbInv
<1> QED BY <1>1, UsbCorrect, PTL

\* PortIsShared for any number of update tasks: serial and a drive never use the port at once, an
\* action loses its files only with the drive, and the assertion of usbstorage_start holds,
\* but for the starts that the property excepts.
THEOREM PortStaysShared == Spec => []PortIsShared
<1>1. UsbInv => PortIsShared
  <2> SUFFICES ASSUME UsbInv, ~overtaken
               PROVE  /\ ~(serial /\ host)
                      /\ pc = "action" => mounted \/ "ERROR" \in usbstorage_state
                      /\ pc = "start" /\ ~failed_start
                           => usbstorage_task = "none" /\ ~worker /\ ~host /\ ~mounted
    BY DEF PortIsShared
  <2>1. ~(serial /\ host)
    BY SMT DEF UsbInv, UseInv, TaskInv, Booleans
  <2>2. ASSUME pc = "action" PROVE mounted \/ "ERROR" \in usbstorage_state
    BY <2>2, SMT DEF UsbInv, DriveInv, Opening
  <2>3. ASSUME pc = "start", ~failed_start
        PROVE  usbstorage_task = "none" /\ ~worker /\ ~host /\ ~mounted
    BY <2>3, SMT DEF UsbInv, UseInv, TaskInv, Booleans, Opening
  <2> QED BY <2>1, <2>2, <2>3
<1> QED BY <1>1, UsbCorrect, PTL

\* ErrorIsOfThisSession for any number of update tasks and any queue: an action is told of an
\* error only if its own drive failed or was removed (usbhmsc.c:149).
THEOREM ErrorsAreOfThisSession == Spec => []ErrorIsOfThisSession
<1>1. UsbInv => ErrorIsOfThisSession
  BY SMT DEF UsbInv, ErrorInv, ErrorIsOfThisSession
<1> QED BY <1>1, UsbCorrect, PTL

-----------------------------------------------------------------------------
(* An update from a USB drive: UsbOta. *)

\* What the queues hold, and the worker; 0 is the number of the host's messages.
UsbMessages == [update : Nat, n : Nat, method : Methods, size : Files \cup {0, 1}]
UsbReplies == [update : Nat, n : Nat, ok : BOOLEAN]
\* The record of the worker and its two counts; nothing is needed of the chunks left to send.
IsWorker(w) ==
  /\ w = [pc |-> w.pc, sent |-> w.sent, waited |-> w.waited, to_send |-> w.to_send]
  /\ w.sent \in Nat /\ w.waited \in Nat

\* The types of the queues.
QueueTypes == cbor_msg_in \in Seq(UsbMessages) /\ internal_out \in Seq(UsbReplies)

\* A worker that runs is that of an update, and one that does not has counted nothing.
WorkerTypes ==
  /\ IsWorker(ota_worker)
  /\ updates \in Nat
  /\ ota_worker.pc # "none" => updates > 0
  /\ ota_worker.pc = "none" => ota_worker.sent = 0 /\ ota_worker.waited = 0

\* The messages of a worker in a queue are those of its update numbered from..to - 1, each
\* once and in order; those of the host may be among them.
OwnRun(q, u, from, to) ==
  /\ \A i \in 1..Len(q) : q[i].update # 0 => q[i].update = u /\ q[i].n >= from /\ q[i].n < to
  /\ \A n \in Nat : from <= n /\ n < to => \E i \in 1..Len(q) : q[i].update # 0 /\ q[i].n = n
  /\ \A i, j \in 1..Len(q) : i < j /\ q[i].update # 0 /\ q[j].update # 0 => q[i].n < q[j].n

\* The replies in a queue are to the messages numbered from, from + 1, ...
ReplyRun(s, u, from) ==
  \A i \in 1..Len(s) : s[i].update = u /\ s[i].n = from + i - 1

\* Unless a worker has given up or a host has interfered: every message the worker has sent has
\* had its reply taken, or its reply is next in internal_out, or it is itself next in
\* cbor_msg_in, in this order.
OwnReplies ==
  ~gave_up /\ ~mixed =>
    /\ own
    /\ ota_worker.waited + Len(internal_out) <= ota_worker.sent
    /\ ota_worker.pc = "stop" => ota_worker.waited = ota_worker.sent
    /\ ReplyRun(internal_out, updates, ota_worker.waited)
    /\ OwnRun(cbor_msg_in, updates, ota_worker.waited + Len(internal_out), ota_worker.sent)

\* The inductive invariant.
UpdateInv == QueueTypes /\ WorkerTypes /\ OwnReplies

\* What Append does to a sequence.
LEMMA AppendFacts ==
  ASSUME NEW S, NEW s \in Seq(S), NEW e \in S
  PROVE  /\ Append(s, e) \in Seq(S) /\ Len(Append(s, e)) = Len(s) + 1
         /\ \A i \in 1..Len(s) : Append(s, e)[i] = s[i]
         /\ Append(s, e)[Len(s) + 1] = e
         /\ Len(s) \in Nat
  OBVIOUS

\* What taking the first element does to a sequence.
LEMMA TailFacts ==
  ASSUME NEW S, NEW s \in Seq(S), s # <<>>
  PROVE  /\ Tail(s) \in Seq(S) /\ Len(Tail(s)) = Len(s) - 1
         /\ \A i \in 1..Len(s) - 1 : Tail(s)[i] = s[i + 1]
         /\ Head(s) = s[1] /\ Head(s) \in S
         /\ Len(s) \in Nat \ {0}
  OBVIOUS

\* A message of the worker that is posted is the next of its run; one of the host leaves it.
LEMMA RunPosted ==
  ASSUME NEW S, NEW q \in Seq(S), NEW m \in S, \A x \in S : x.n \in Nat,
         NEW u, NEW from \in Nat, NEW to \in Nat, from <= to,
         OwnRun(q, u, from, to)
  PROVE  /\ m.update = u /\ u # 0 /\ m.n = to => OwnRun(Append(q, m), u, from, to + 1)
         /\ m.update = 0 => OwnRun(Append(q, m), u, from, to)
<1> DEFINE p == Append(q, m)
           L == Len(q)
<1>1. /\ L \in Nat /\ Len(p) = L + 1 /\ p[L + 1] = m
      /\ \A i \in 1..L : p[i] = q[i] /\ q[i].n \in Nat
  BY AppendFacts
<1>2. \A i \in 1..Len(p) : i \in 1..L \/ i = L + 1
  BY <1>1
<1>3. L + 1 \in 1..Len(p) /\ \A i \in 1..L : i \in 1..Len(p) /\ ~(L + 1 < i)
  BY <1>1
<1> HIDE DEF p, L
<1>4. ASSUME m.update = u, u # 0, m.n = to PROVE OwnRun(p, u, from, to + 1)
  <2>1. \A i \in 1..Len(p) : p[i].update # 0 => p[i].update = u /\ p[i].n >= from /\ p[i].n < to + 1
    BY <1>1, <1>2, <1>4 DEF OwnRun, L
  <2>2. ASSUME NEW n \in Nat, from <= n, n < to + 1
        PROVE  \E i \in 1..Len(p) : p[i].update # 0 /\ p[i].n = n
    <3>1. CASE n < to
      <4>1. PICK i \in 1..L : q[i].update # 0 /\ q[i].n = n
        BY <2>2, <3>1 DEF OwnRun, L
      <4> QED BY <1>1, <1>3, <4>1
    <3>2. CASE n = to
      BY <1>1, <1>3, <1>4, <3>2
    <3> QED BY <2>2, <3>1, <3>2
  <2>3. ASSUME NEW i \in 1..Len(p), NEW j \in 1..Len(p), i < j, p[i].update # 0, p[j].update # 0
        PROVE  p[i].n < p[j].n
    <3>1. i \in 1..L
      BY <1>1, <1>2, <2>3
    <3>2. CASE j \in 1..L
      BY <1>1, <2>3, <3>1, <3>2 DEF OwnRun, L
    <3>3. CASE j = L + 1
      <4>1. q[i].n < to
        BY <1>1, <2>3, <3>1 DEF OwnRun, L
      <4> QED BY <1>1, <1>4, <3>1, <3>3, <4>1
    <3> QED BY <1>2, <3>2, <3>3
  <2> QED BY <2>1, <2>2, <2>3 DEF OwnRun
<1>5. ASSUME m.update = 0 PROVE OwnRun(p, u, from, to)
  <2>1. \A i \in 1..Len(p) : p[i].update # 0 => i \in 1..L
    BY <1>1, <1>2, <1>5
  <2>2. \A i \in 1..Len(p) : p[i].update # 0 => p[i].update = u /\ p[i].n >= from /\ p[i].n < to
    BY <1>1, <2>1 DEF OwnRun, L
  <2>3. ASSUME NEW n \in Nat, from <= n, n < to
        PROVE  \E i \in 1..Len(p) : p[i].update # 0 /\ p[i].n = n
    <3>1. PICK i \in 1..L : q[i].update # 0 /\ q[i].n = n
      BY <2>3 DEF OwnRun, L
    <3> QED BY <1>1, <1>3, <3>1
  <2>4. \A i, j \in 1..Len(p) : i < j /\ p[i].update # 0 /\ p[j].update # 0 => p[i].n < p[j].n
    BY <1>1, <2>1 DEF OwnRun, L
  <2> QED BY <2>2, <2>3, <2>4 DEF OwnRun
<1> QED BY <1>4, <1>5 DEF p

\* The first message of the worker in the queue is the first of its run.
LEMMA RunTaken ==
  ASSUME NEW S, NEW q \in Seq(S), q # <<>>, \A x \in S : x.n \in Nat,
         NEW u, NEW from \in Nat, NEW to \in Nat, from <= to,
         OwnRun(q, u, from, to)
  PROVE  /\ Head(q).update # 0 => /\ Head(q).update = u /\ Head(q).n = from /\ from < to
                                  /\ OwnRun(Tail(q), u, from + 1, to)
         /\ Head(q).update = 0 => OwnRun(Tail(q), u, from, to)
<1> DEFINE p == Tail(q)
           L == Len(q)
<1>1. /\ L \in Nat \ {0} /\ Len(p) = L - 1 /\ Head(q) = q[1]
      /\ \A i \in 1..L - 1 : p[i] = q[i + 1]
  BY TailFacts
<1>2. \A i \in 1..L : q[i].n \in Nat
  OBVIOUS
<1>0. /\ \A i \in 1..L : q[i].update # 0 => q[i].update = u /\ q[i].n >= from /\ q[i].n < to
      /\ \A n \in Nat : from <= n /\ n < to => \E i \in 1..L : q[i].update # 0 /\ q[i].n = n
      /\ \A i, j \in 1..L : i < j /\ q[i].update # 0 /\ q[j].update # 0 => q[i].n < q[j].n
  BY DEF OwnRun
<1> HIDE DEF p, L
<1>3. /\ \A i \in 1..Len(p) : i + 1 \in 1..L /\ p[i] = q[i + 1] /\ 1 < i + 1
      /\ \A i \in 1..L : i # 1 => i - 1 \in 1..Len(p) /\ p[i - 1] = q[i]
      /\ 1 \in 1..L
  <2>1. /\ \A i \in 1..Len(p) : i + 1 \in 1..L /\ 1 < i + 1 /\ i \in 1..L - 1
        /\ \A i \in 1..L : i # 1 => i - 1 \in 1..Len(p) /\ i - 1 \in 1..L - 1 /\ (i - 1) + 1 = i
        /\ 1 \in 1..L
    BY <1>1
  <2> QED BY <1>1, <2>1
<1>4. \A i, j \in 1..Len(p) : i < j /\ p[i].update # 0 /\ p[j].update # 0 => p[i].n < p[j].n
  <2> TAKE i, j \in 1..Len(p)
  <2>1. i < j => i + 1 < j + 1
    OBVIOUS
  <2>2. i + 1 \in 1..L /\ p[i] = q[i + 1] /\ j + 1 \in 1..L /\ p[j] = q[j + 1]
    BY <1>3
  <2> DEFINE x == i + 1
             y == j + 1
  <2>3. x \in 1..L /\ p[i] = q[x] /\ y \in 1..L /\ p[j] = q[y] /\ (i < j => x < y)
    BY <2>1, <2>2
  <2> HIDE DEF x, y
  <2> QED BY <1>0, <2>3
<1>5. ASSUME q[1].update = 0 PROVE OwnRun(p, u, from, to)
  <2>1. \A i \in 1..Len(p) : p[i].update # 0 => p[i].update = u /\ p[i].n >= from /\ p[i].n < to
    <3> TAKE i \in 1..Len(p)
    <3> DEFINE x == i + 1
    <3>1. x \in 1..L /\ p[i] = q[x]
      BY <1>3
    <3> HIDE DEF x
    <3> QED BY <1>0, <3>1
  <2>2. ASSUME NEW n \in Nat, from <= n, n < to
        PROVE  \E i \in 1..Len(p) : p[i].update # 0 /\ p[i].n = n
    <3>1. PICK i \in 1..L : q[i].update # 0 /\ q[i].n = n
      BY <1>0, <2>2
    <3> QED BY <1>3, <1>5, <3>1
  <2> QED BY <1>4, <2>1, <2>2 DEF OwnRun
<1>6. ASSUME q[1].update # 0
      PROVE  q[1].update = u /\ q[1].n = from /\ from < to /\ OwnRun(p, u, from + 1, to)
  <2>1. q[1].update = u /\ q[1].n >= from /\ q[1].n < to
    BY <1>0, <1>3, <1>6
  <2>2. from < to
    BY <1>2, <1>3, <2>1
  <2>3. PICK i \in 1..L : q[i].update # 0 /\ q[i].n = from
    BY <1>0, <2>2
  <2>4. i # 1 => q[1].n < q[i].n
    <3>1. i # 1 => 1 < i
      BY <1>1
    <3> QED BY <1>0, <1>3, <1>6, <2>3, <3>1
  <2>5. q[1].n = from
    BY <1>2, <1>3, <2>1, <2>3, <2>4
  <2>6. ASSUME NEW k \in 1..Len(p), p[k].update # 0
        PROVE  p[k].update = u /\ p[k].n >= from + 1 /\ p[k].n < to
    <3>1. k + 1 \in 1..L /\ 1 < k + 1 /\ q[k + 1].update # 0 /\ p[k] = q[k + 1]
      BY <1>3, <2>6
    <3>2. q[k + 1].update = u /\ q[k + 1].n < to /\ q[1].n < q[k + 1].n
      BY <1>0, <1>3, <1>6, <3>1
    <3>3. q[k + 1].n \in Nat
      BY <1>2, <3>1
    <3> QED BY <2>5, <3>1, <3>2, <3>3
  <2>7. ASSUME NEW n \in Nat, from + 1 <= n, n < to
        PROVE  \E k \in 1..Len(p) : p[k].update # 0 /\ p[k].n = n
    <3>1. PICK k \in 1..L : q[k].update # 0 /\ q[k].n = n
      <4>1. from <= n
        BY <2>7
      <4> QED BY <1>0, <2>7, <4>1
    <3>2. k # 1
      BY <2>5, <2>7, <3>1
    <3> QED BY <1>3, <3>1, <3>2
  <2> QED BY <1>4, <2>1, <2>2, <2>5, <2>6, <2>7 DEF OwnRun
<1> QED BY <1>1, <1>5, <1>6 DEF p

\* An empty run is as good for another update, and means that no message of the worker is left.
LEMMA RunStarted ==
  ASSUME NEW S, NEW q \in Seq(S), \A x \in S : x.n \in Nat,
         NEW u, NEW v, NEW n \in Nat, OwnRun(q, u, n, n)
  PROVE  /\ OwnRun(q, v, 0, 0)
         /\ \A i \in 1..Len(q) : q[i].update = 0
<1>1. \A i \in 1..Len(q) : q[i].n \in Nat
  OBVIOUS
<1>2. \A i \in 1..Len(q) : q[i].update = 0
  BY <1>1 DEF OwnRun
<1>3. \A k \in Nat : ~(0 <= k /\ k < 0)
  OBVIOUS
<1> QED BY <1>2, <1>3 DEF OwnRun

\* The reply to the next message is the next reply.
LEMMA ReplyAdded ==
  ASSUME NEW S, NEW s \in Seq(S), NEW r \in S, NEW u, NEW from \in Nat,
         ReplyRun(s, u, from), r.update = u, r.n = from + Len(s)
  PROVE  ReplyRun(Append(s, r), u, from)
<1> DEFINE t == Append(s, r)
<1>1. Len(s) \in Nat /\ Len(t) = Len(s) + 1 /\ t[Len(s) + 1] = r /\ \A i \in 1..Len(s) : t[i] = s[i]
  BY AppendFacts
<1> HIDE DEF t
<1>2. \A i \in 1..Len(t) : t[i].update = u /\ t[i].n = from + i - 1
  <2> TAKE i \in 1..Len(t)
  <2>1. CASE i \in 1..Len(s)
    BY <1>1, <2>1 DEF ReplyRun
  <2>2. CASE i = Len(s) + 1
    <3>1. from + i - 1 = from + Len(s)
      BY <1>1, <2>2
    <3> QED BY <1>1, <2>2, <3>1
  <2> QED BY <1>1, <2>1, <2>2
<1> QED BY <1>2 DEF ReplyRun, t

\* The first reply in the queue is the one that is awaited.
LEMMA ReplyTaken ==
  ASSUME NEW S, NEW s \in Seq(S), s # <<>>, NEW u, NEW from \in Nat, ReplyRun(s, u, from)
  PROVE  /\ Head(s).update = u /\ Head(s).n = from
         /\ ReplyRun(Tail(s), u, from + 1)
<1> DEFINE t == Tail(s)
<1>1. /\ Len(s) \in Nat \ {0} /\ Len(t) = Len(s) - 1 /\ Head(s) = s[1]
      /\ \A i \in 1..Len(s) - 1 : t[i] = s[i + 1]
  BY TailFacts
<1> HIDE DEF t
<1>2. Head(s).update = u /\ Head(s).n = from
  <2>1. 1 \in 1..Len(s) /\ from + 1 - 1 = from
    BY <1>1
  <2> QED BY <1>1, <2>1 DEF ReplyRun
<1>3. \A i \in 1..Len(t) : t[i].update = u /\ t[i].n = from + 1 + i - 1
  <2> TAKE i \in 1..Len(t)
  <2>1. i + 1 \in 1..Len(s) /\ t[i] = s[i + 1] /\ from + (i + 1) - 1 = from + 1 + i - 1
    BY <1>1
  <2> QED BY <2>1 DEF ReplyRun
<1> QED BY <1>2, <1>3 DEF ReplyRun, t

\* The worker posts a message: post_ota_data_message, post_ota_complete_message.
LEMMA WorkerPosts ==
  ASSUME UpdateInv, UNCHANGED <<internal_out, updates, gave_up, mixed, own>>,
         NEW method \in Methods, PostMessage(updates, ota_worker.sent, method, 0),
         ota_worker.pc # "none", IsWorker(ota_worker'), ota_worker'.pc \notin {"none", "stop"},
         ota_worker'.sent = ota_worker.sent + 1, ota_worker'.waited = ota_worker.waited
  PROVE  UpdateInv'
<1> DEFINE m == [update |-> updates, n |-> ota_worker.sent, method |-> method, size |-> 0]
<1>1. /\ updates \in Nat \ {0} /\ ota_worker.sent \in Nat /\ ota_worker.waited \in Nat
      /\ Len(internal_out) \in Nat /\ \A x \in UsbMessages : x.n \in Nat
  BY DEF UpdateInv, WorkerTypes, IsWorker, QueueTypes, UsbMessages
<1>2. m \in UsbMessages /\ m.update = updates /\ m.n = ota_worker.sent
  BY <1>1 DEF UsbMessages
<1>3. cbor_msg_in' = Append(cbor_msg_in, m) /\ cbor_msg_in \in Seq(UsbMessages)
  BY DEF PostMessage, UpdateInv, QueueTypes
<1> HIDE DEF m
<1>4. QueueTypes'
  BY <1>2, <1>3, AppendFacts DEF UpdateInv, QueueTypes
<1>5. WorkerTypes'
  BY <1>1 DEF WorkerTypes
<1>6. OwnReplies'
  <2> SUFFICES ASSUME ~gave_up, ~mixed PROVE OwnReplies'
    BY DEF OwnReplies
  <2> DEFINE from == ota_worker.waited + Len(internal_out)
  <2>1. from \in Nat /\ from <= ota_worker.sent /\ OwnRun(cbor_msg_in, updates, from, ota_worker.sent)
    BY <1>1 DEF UpdateInv, OwnReplies
  <2> HIDE DEF from
  <2>2. OwnRun(cbor_msg_in', updates, from, ota_worker.sent + 1)
    BY <1>1, <1>2, <1>3, <2>1, RunPosted
  <2>3. from <= ota_worker.sent + 1
    BY <1>1, <2>1
  <2> QED BY <2>2, <2>3 DEF UpdateInv, OwnReplies, from
<1> QED BY <1>4, <1>5, <1>6 DEF UpdateInv

\* The worker goes on without a message or a reply, and stops with all replies or none.
LEMMA WorkerGoesOn ==
  ASSUME UpdateInv, UNCHANGED <<cbor_msg_in, internal_out, updates, mixed, own>>,
         IsWorker(ota_worker'), ota_worker.pc # "none", ota_worker'.pc # "none",
         ota_worker'.sent = ota_worker.sent, ota_worker'.waited = ota_worker.waited,
         gave_up => gave_up', ota_worker'.pc = "stop" => gave_up' \/ ota_worker.waited = ota_worker.sent
  PROVE  UpdateInv'
<1>1. QueueTypes' /\ WorkerTypes'
  BY DEF UpdateInv, QueueTypes, WorkerTypes
<1>2. OwnReplies'
  BY DEF UpdateInv, OwnReplies
<1> QED BY <1>1, <1>2 DEF UpdateInv

\* The worker takes a reply: handle_ota_reply.
LEMMA WorkerTakes ==
  ASSUME UpdateInv, UNCHANGED <<cbor_msg_in, updates, gave_up, mixed>>, TakeReply,
         ota_worker.pc # "none", IsWorker(ota_worker'), ota_worker'.pc \notin {"none", "stop"},
         ota_worker'.sent = ota_worker.sent, ota_worker'.waited = ota_worker.waited + 1
  PROVE  UpdateInv'
<1>1. /\ ota_worker.sent \in Nat /\ ota_worker.waited \in Nat /\ updates > 0
      /\ internal_out \in Seq(UsbReplies) /\ internal_out # <<>> /\ internal_out' = Tail(internal_out)
  BY DEF UpdateInv, WorkerTypes, IsWorker, QueueTypes, TakeReply
<1>2. /\ internal_out' \in Seq(UsbReplies) /\ Len(internal_out') = Len(internal_out) - 1
      /\ Len(internal_out) \in Nat \ {0}
  BY <1>1, TailFacts
<1>3. QueueTypes' /\ WorkerTypes'
  BY <1>1, <1>2 DEF UpdateInv, QueueTypes, WorkerTypes
<1>4. OwnReplies'
  <2> SUFFICES ASSUME ~gave_up, ~mixed PROVE OwnReplies'
    BY DEF OwnReplies
  <2>1. /\ own /\ ReplyRun(internal_out, updates, ota_worker.waited)
        /\ ota_worker.waited + Len(internal_out) <= ota_worker.sent
        /\ OwnRun(cbor_msg_in, updates, ota_worker.waited + Len(internal_out), ota_worker.sent)
    BY DEF UpdateInv, OwnReplies
  <2>2. /\ Head(internal_out).update = updates /\ Head(internal_out).n = ota_worker.waited
        /\ ReplyRun(internal_out', updates, ota_worker.waited + 1)
    BY <1>1, <2>1, ReplyTaken
  <2>3. own'
    BY <2>1, <2>2 DEF TakeReply, reply
  <2>4. ota_worker'.waited + Len(internal_out') = ota_worker.waited + Len(internal_out)
    BY <1>1, <1>2
  <2> QED BY <2>1, <2>2, <2>3, <2>4 DEF OwnReplies
<1> QED BY <1>3, <1>4 DEF UpdateInv

\* A message of a host arrives.
LEMMA HostPosts ==
  ASSUME UpdateInv, UNCHANGED <<internal_out, ota_worker, updates, gave_up, mixed, own>>,
         NEW method \in Methods, PostMessage(0, 0, method, 1)
  PROVE  UpdateInv'
<1> DEFINE m == [update |-> 0, n |-> 0, method |-> method, size |-> 1]
<1>1. /\ ota_worker.sent \in Nat /\ ota_worker.waited \in Nat /\ Len(internal_out) \in Nat
      /\ \A x \in UsbMessages : x.n \in Nat
  BY DEF UpdateInv, WorkerTypes, IsWorker, QueueTypes, UsbMessages
<1>2. m \in UsbMessages /\ m.update = 0
  BY DEF UsbMessages
<1>3. cbor_msg_in' = Append(cbor_msg_in, m) /\ cbor_msg_in \in Seq(UsbMessages)
  BY DEF PostMessage, UpdateInv, QueueTypes
<1> HIDE DEF m
<1>4. QueueTypes' /\ WorkerTypes'
  BY <1>2, <1>3, AppendFacts DEF UpdateInv, QueueTypes, WorkerTypes
<1>5. OwnReplies'
  <2> SUFFICES ASSUME ~gave_up, ~mixed PROVE OwnReplies'
    BY DEF OwnReplies
  <2> DEFINE from == ota_worker.waited + Len(internal_out)
  <2>1. from \in Nat /\ from <= ota_worker.sent /\ OwnRun(cbor_msg_in, updates, from, ota_worker.sent)
    BY <1>1 DEF UpdateInv, OwnReplies
  <2> HIDE DEF from
  <2>2. OwnRun(cbor_msg_in', updates, from, ota_worker.sent)
    BY <1>1, <1>2, <1>3, <2>1, RunPosted
  <2> QED BY <2>2 DEF UpdateInv, OwnReplies, from
<1> QED BY <1>4, <1>5 DEF UpdateInv

\* The main task takes a message and answers it, to the worker if it is the worker's: the
\* dashboard, ota_process or ota_finalize.
LEMMA MainAnswers ==
  ASSUME UpdateInv, Take, UNCHANGED <<ota_worker, updates, gave_up, own>>,
         NEW internal, NEW ok \in BOOLEAN, Reply(internal, ok), mixed => mixed',
         ~mixed' => internal = FromWorker
  PROVE  UpdateInv'
<1> DEFINE m == Head(cbor_msg_in)
           r == [update |-> m.update, n |-> m.n, ok |-> ok]
<1>1. /\ ota_worker.sent \in Nat /\ ota_worker.waited \in Nat /\ Len(internal_out) \in Nat
      /\ internal_out \in Seq(UsbReplies) /\ cbor_msg_in \in Seq(UsbMessages)
      /\ cbor_msg_in # <<>> /\ cbor_msg_in' = Tail(cbor_msg_in)
      /\ \A x \in UsbMessages : x.n \in Nat
  BY DEF UpdateInv, WorkerTypes, IsWorker, QueueTypes, UsbMessages, Take
<1>2. cbor_msg_in' \in Seq(UsbMessages) /\ m \in UsbMessages
  BY <1>1, TailFacts
<1>3. r \in UsbReplies
  BY <1>2 DEF UsbMessages, UsbReplies
<1>4. internal_out' = IF internal THEN Append(internal_out, r) ELSE internal_out
  BY Zenon DEF Reply, msg
<1> HIDE DEF m
<1>5. r.update = m.update /\ r.n = m.n
  OBVIOUS
<1> HIDE DEF r
<1>6. QueueTypes'
  BY <1>1, <1>2, <1>3, <1>4, AppendFacts DEF QueueTypes
<1>7. WorkerTypes'
  BY DEF UpdateInv, WorkerTypes
<1>8. OwnReplies'
  <2> SUFFICES ASSUME ~gave_up, ~mixed' PROVE OwnReplies'
    BY DEF OwnReplies
  <2> DEFINE from == ota_worker.waited + Len(internal_out)
  <2>1. /\ from \in Nat /\ from <= ota_worker.sent /\ OwnRun(cbor_msg_in, updates, from, ota_worker.sent)
        /\ own /\ ReplyRun(internal_out, updates, ota_worker.waited)
        /\ ota_worker.pc = "stop" => ota_worker.waited = ota_worker.sent
    BY <1>1 DEF UpdateInv, OwnReplies
  <2>2. internal = (m.update # 0)
    BY Zenon DEF FromWorker, msg, m
  <2>3. CASE m.update # 0
    <3>1. internal_out' = Append(internal_out, r)
      BY <1>4, <2>2, <2>3
    <3>2. from + 1 <= ota_worker.sent /\ m.update = updates /\ m.n = from
          /\ OwnRun(cbor_msg_in', updates, from + 1, ota_worker.sent)
      <4> HIDE DEF from
      <4>1. /\ m.update = updates /\ m.n = from /\ from < ota_worker.sent
            /\ OwnRun(cbor_msg_in', updates, from + 1, ota_worker.sent)
        BY <1>1, <2>1, <2>3, RunTaken DEF m
      <4> QED BY <1>1, <2>1, <4>1
    <3>3. ReplyRun(internal_out', updates, ota_worker.waited)
      BY <1>1, <1>3, <1>5, <2>1, <3>1, <3>2, ReplyAdded
    <3>4. ota_worker.waited + Len(internal_out') = from + 1
      <4>1. Len(internal_out') = Len(internal_out) + 1
        BY <1>1, <1>3, <3>1, AppendFacts
      <4>2. \A i, j \in Nat : i + (j + 1) = i + j + 1
        OBVIOUS
      <4> QED BY <1>1, <4>1, <4>2
    <3> QED BY <2>1, <3>2, <3>3, <3>4 DEF OwnReplies
  <2>4. CASE m.update = 0
    <3>1. internal_out' = internal_out
      BY <1>4, <2>2, <2>4
    <3>2. OwnRun(cbor_msg_in', updates, from, ota_worker.sent)
      <4> HIDE DEF from
      <4> QED BY <1>1, <2>1, <2>4, RunTaken DEF m
    <3> QED BY <2>1, <3>1, <3>2 DEF OwnReplies
  <2> QED BY <2>3, <2>4
<1> QED BY <1>6, <1>7, <1>8 DEF UpdateInv

\* A worker is started when nothing of an earlier update is left in the queues.
LEMMA UpdateStarts ==
  ASSUME UpdateInv, start_usb_ota_task PROVE UpdateInv'
<1>1. /\ ota_worker.pc = "none" /\ updates' = updates + 1
      /\ UNCHANGED <<internal_out, gave_up, mixed, own>>
  BY DEF start_usb_ota_task
<1>2. PICK size \in Files :
        /\ PostMessage(updates', 0, "ota", size)
        /\ ota_worker' = [pc |-> "loop", sent |-> 1, waited |-> 0, to_send |-> size]
  BY DEF start_usb_ota_task
<1> DEFINE m == [update |-> updates', n |-> 0, method |-> "ota", size |-> size]
<1>3. /\ updates \in Nat /\ ota_worker.sent = 0 /\ ota_worker.waited = 0 /\ Len(internal_out) \in Nat
      /\ cbor_msg_in \in Seq(UsbMessages) /\ internal_out \in Seq(UsbReplies)
      /\ \A x \in UsbMessages : x.n \in Nat
  BY <1>1 DEF UpdateInv, WorkerTypes, IsWorker, QueueTypes, UsbMessages
<1>4. m \in UsbMessages /\ m.update = updates' /\ m.n = 0
  BY <1>1, <1>3 DEF UsbMessages, Methods
<1>5. cbor_msg_in' = Append(cbor_msg_in, m)
  BY <1>2 DEF PostMessage
<1> HIDE DEF m
<1>6. QueueTypes'
  BY <1>1, <1>3, <1>4, <1>5, AppendFacts DEF QueueTypes
<1>7. WorkerTypes'
  BY <1>1, <1>2, <1>3 DEF WorkerTypes, IsWorker
<1>8. OwnReplies'
  <2> SUFFICES ASSUME ~gave_up, ~mixed PROVE OwnReplies'
    BY <1>1 DEF OwnReplies
  <2>1. own /\ Len(internal_out) = 0 /\ OwnRun(cbor_msg_in, updates, 0, 0)
    BY <1>3 DEF UpdateInv, OwnReplies
  <2>2. OwnRun(cbor_msg_in, updates', 0, 0)
    BY <1>3, <2>1, RunStarted
  <2>3. OwnRun(cbor_msg_in', updates', 0, 1)
    <3>1. updates' # 0 /\ 0 + 1 = 1
      BY <1>1, <1>3
    <3> QED BY <1>3, <1>4, <1>5, <2>2, <3>1, RunPosted
  <2>4. ota_worker'.pc = "loop" /\ ota_worker'.sent = 1 /\ ota_worker'.waited = 0
    BY <1>2
  <2>5. ReplyRun(internal_out', updates', ota_worker'.waited)
    BY <1>1, <2>1 DEF ReplyRun
  <2> QED BY <1>1, <2>1, <2>3, <2>4, <2>5 DEF OwnReplies
<1> QED BY <1>6, <1>7, <1>8 DEF UpdateInv

\* A worker that has not given up leaves nothing in the queues.
LEMMA WorkerEndsInv ==
  ASSUME UpdateInv, WorkerEnds PROVE UpdateInv'
<1>1. /\ ota_worker.pc = "stop" /\ ota_worker' = NoWorker
      /\ UNCHANGED <<cbor_msg_in, internal_out, updates, gave_up, mixed, own>>
  BY DEF WorkerEnds
<1>2. ota_worker'.pc = "none" /\ ota_worker'.sent = 0 /\ ota_worker'.waited = 0 /\ IsWorker(ota_worker')
  BY <1>1 DEF NoWorker, IsWorker
<1>3. QueueTypes' /\ WorkerTypes'
  BY <1>1, <1>2 DEF UpdateInv, QueueTypes, WorkerTypes
<1>4. /\ ota_worker.sent \in Nat /\ ota_worker.waited \in Nat /\ Len(internal_out) \in Nat
      /\ cbor_msg_in \in Seq(UsbMessages) /\ \A x \in UsbMessages : x.n \in Nat
  BY DEF UpdateInv, WorkerTypes, IsWorker, QueueTypes, UsbMessages
<1>5. OwnReplies'
  <2> SUFFICES ASSUME ~gave_up, ~mixed PROVE OwnReplies'
    BY <1>1 DEF OwnReplies
  <2>1. /\ own /\ ota_worker.waited = ota_worker.sent /\ ota_worker.waited + Len(internal_out) <= ota_worker.sent
        /\ OwnRun(cbor_msg_in, updates, ota_worker.waited + Len(internal_out), ota_worker.sent)
    BY <1>1 DEF UpdateInv, OwnReplies
  <2>2. Len(internal_out) = 0 /\ ota_worker.waited + Len(internal_out) = ota_worker.sent
    BY <1>4, <2>1
  <2>3. OwnRun(cbor_msg_in, updates, 0, 0)
    BY <1>4, <2>1, <2>2, RunStarted
  <2> QED BY <1>1, <1>2, <2>1, <2>2, <2>3 DEF OwnReplies, ReplyRun
<1> QED BY <1>3, <1>5 DEF UpdateInv

\* The fields that an update of the worker's record changes: its step.
LEMMA WorkerPc ==
  ASSUME NEW w, IsWorker(w), NEW c
  PROVE  [w EXCEPT !.pc = c]
         = [pc |-> c, sent |-> w.sent, waited |-> w.waited, to_send |-> w.to_send]
<1> DEFINE v == [pc |-> w.pc, sent |-> w.sent, waited |-> w.waited, to_send |-> w.to_send]
<1>1. w = v
  BY DEF IsWorker
<1>2. [v EXCEPT !.pc = c] = [pc |-> c, sent |-> w.sent, waited |-> w.waited, to_send |-> w.to_send]
  OBVIOUS
<1> HIDE DEF v
<1> QED BY <1>1, <1>2

\* The same for its step and the count of messages.
LEMMA WorkerFinish ==
  ASSUME NEW w, IsWorker(w), NEW c, NEW s
  PROVE  [w EXCEPT !.pc = c, !.sent = s]
         = [pc |-> c, sent |-> s, waited |-> w.waited, to_send |-> w.to_send]
<1> DEFINE v == [pc |-> w.pc, sent |-> w.sent, waited |-> w.waited, to_send |-> w.to_send]
<1>1. w = v
  BY DEF IsWorker
<1>2. [v EXCEPT !.pc = c] = [pc |-> c, sent |-> w.sent, waited |-> w.waited, to_send |-> w.to_send]
  OBVIOUS
<1> DEFINE u == [pc |-> c, sent |-> w.sent, waited |-> w.waited, to_send |-> w.to_send]
<1>3. [v EXCEPT !.pc = c, !.sent = s] = [[v EXCEPT !.pc = c] EXCEPT !.sent = s]
  OBVIOUS
<1>4. [u EXCEPT !.sent = s] = [pc |-> c, sent |-> s, waited |-> w.waited, to_send |-> w.to_send]
  OBVIOUS
<1> HIDE DEF v, u
<1>5. [v EXCEPT !.pc = c] = u
  BY <1>2 DEF u
<1> QED BY <1>1, <1>3, <1>4, <1>5

\* The same for the count of messages and the chunks to send.
LEMMA WorkerSends ==
  ASSUME NEW w, IsWorker(w), NEW s, NEW x
  PROVE  [w EXCEPT !.sent = s, !.to_send = x]
         = [pc |-> w.pc, sent |-> s, waited |-> w.waited, to_send |-> x]
<1> DEFINE v == [pc |-> w.pc, sent |-> w.sent, waited |-> w.waited, to_send |-> w.to_send]
<1>1. w = v
  BY DEF IsWorker
<1>2. [v EXCEPT !.sent = s] = [pc |-> w.pc, sent |-> s, waited |-> w.waited, to_send |-> w.to_send]
  OBVIOUS
<1> DEFINE u == [pc |-> w.pc, sent |-> s, waited |-> w.waited, to_send |-> w.to_send]
<1>3. [v EXCEPT !.sent = s, !.to_send = x] = [[v EXCEPT !.sent = s] EXCEPT !.to_send = x]
  OBVIOUS
<1>4. [u EXCEPT !.to_send = x] = [pc |-> w.pc, sent |-> s, waited |-> w.waited, to_send |-> x]
  OBVIOUS
<1> HIDE DEF v, u
<1>5. [v EXCEPT !.sent = s] = u
  BY <1>2 DEF u
<1> QED BY <1>1, <1>3, <1>4, <1>5

\* The same for the count of replies.
LEMMA WorkerWaited ==
  ASSUME NEW w, IsWorker(w), NEW t
  PROVE  [w EXCEPT !.waited = t]
         = [pc |-> w.pc, sent |-> w.sent, waited |-> t, to_send |-> w.to_send]
<1> DEFINE v == [pc |-> w.pc, sent |-> w.sent, waited |-> w.waited, to_send |-> w.to_send]
<1>1. w = v
  BY DEF IsWorker
<1>2. [v EXCEPT !.waited = t] = [pc |-> w.pc, sent |-> w.sent, waited |-> t, to_send |-> w.to_send]
  OBVIOUS
<1> HIDE DEF v
<1> QED BY <1>1, <1>2

\* The same for the count of replies and its step.
LEMMA WorkerWaits ==
  ASSUME NEW w, IsWorker(w), NEW t, NEW c
  PROVE  [w EXCEPT !.waited = t, !.pc = c]
         = [pc |-> c, sent |-> w.sent, waited |-> t, to_send |-> w.to_send]
<1> DEFINE v == [pc |-> w.pc, sent |-> w.sent, waited |-> w.waited, to_send |-> w.to_send]
<1>1. w = v
  BY DEF IsWorker
<1>2. [v EXCEPT !.waited = t] = [pc |-> w.pc, sent |-> w.sent, waited |-> t, to_send |-> w.to_send]
  OBVIOUS
<1> DEFINE u == [pc |-> w.pc, sent |-> w.sent, waited |-> t, to_send |-> w.to_send]
<1>3. [v EXCEPT !.waited = t, !.pc = c] = [[v EXCEPT !.waited = t] EXCEPT !.pc = c]
  OBVIOUS
<1>4. [u EXCEPT !.pc = c] = [pc |-> c, sent |-> w.sent, waited |-> t, to_send |-> w.to_send]
  OBVIOUS
<1> HIDE DEF v, u
<1>5. [v EXCEPT !.waited = t] = u
  BY <1>2 DEF u
<1> QED BY <1>1, <1>3, <1>4, <1>5

\* The fields of such a record.
LEMMA WorkerShape ==
  ASSUME NEW c, NEW s \in Nat, NEW t \in Nat, NEW x, NEW w,
         w = [pc |-> c, sent |-> s, waited |-> t, to_send |-> x]
  PROVE  IsWorker(w) /\ w.pc = c /\ w.sent = s /\ w.waited = t
BY DEF IsWorker

\* A restart leaves no worker and nothing in the queues.
LEMMA FreshUsb ==
  ASSUME UpdateInv, cbor_msg_in' = <<>>, internal_out' = <<>>, ota_worker' = NoWorker, own',
         updates' = updates
  PROVE  UpdateInv'
<1>1. IsWorker(ota_worker') /\ ota_worker'.pc = "none" /\ ota_worker'.sent = 0 /\ ota_worker'.waited = 0
  BY DEF NoWorker, IsWorker
<1>2. QueueTypes' /\ WorkerTypes'
  BY <1>1 DEF UpdateInv, QueueTypes, WorkerTypes
<1>3. ReplyRun(<<>>, updates, 0) /\ OwnRun(<<>>, updates, 0, 0)
  BY DEF ReplyRun, OwnRun
<1>4. Len(internal_out') = 0 /\ 0 + 0 = 0
  OBVIOUS
<1>5. OwnReplies'
  BY <1>1, <1>3, <1>4 DEF OwnReplies
<1> QED BY <1>2, <1>5 DEF UpdateInv

\* Every step of the worker, the host and the main task keeps the invariant.
LEMMA UpdateStep ==
  ASSUME UpdateInv, [UsbOtaNext]_usb_ota_vars PROVE UpdateInv'
<1>0. /\ IsWorker(ota_worker) /\ ota_worker.sent \in Nat /\ ota_worker.waited \in Nat
      /\ ota_worker.sent + 1 \in Nat /\ ota_worker.waited + 1 \in Nat
  BY DEF UpdateInv, WorkerTypes, IsWorker
<1>1. CASE start_usb_ota_task
  BY <1>1, UpdateStarts
<1>2. CASE post_ota_data_message
  <2>1. UNCHANGED <<internal_out, updates, gave_up, mixed, own>> /\ ota_worker.pc = "loop" /\ ota_worker.to_send > 0
    BY <1>2 DEF post_ota_data_message, Sends
  <2>2. CASE /\ PostMessage(updates, ota_worker.sent, "ota_data", 0)
             /\ ota_worker' = [ota_worker EXCEPT !.sent = ota_worker.sent + 1, !.to_send = ota_worker.to_send - 1]
    <3>1. /\ IsWorker(ota_worker') /\ ota_worker'.pc = "loop" /\ ota_worker'.sent = ota_worker.sent + 1
          /\ ota_worker'.waited = ota_worker.waited
      <4> DEFINE x == ota_worker.to_send - 1
                 s == ota_worker.sent + 1
      <4>0. ota_worker' = [ota_worker EXCEPT !.sent = s, !.to_send = x]
        BY <2>2
      <4>1. s \in Nat
        BY <1>0
      <4> HIDE DEF x, s
      <4>2. ota_worker' = [pc |-> "loop", sent |-> s, waited |-> ota_worker.waited, to_send |-> x]
        <5>1. [ota_worker EXCEPT !.sent = s, !.to_send = x]
              = [pc |-> ota_worker.pc, sent |-> s, waited |-> ota_worker.waited, to_send |-> x]
          BY <1>0, WorkerSends
        <5> QED BY <2>1, <4>0, <5>1
      <4>3. IsWorker(ota_worker') /\ ota_worker'.pc = "loop" /\ ota_worker'.sent = s /\ ota_worker'.waited = ota_worker.waited
        BY <1>0, <4>1, <4>2, WorkerShape
      <4> QED BY <4>3 DEF s
    <3> QED BY <2>1, <2>2, <3>1, WorkerPosts DEF Methods
  <2>3. CASE ota_worker' = [ota_worker EXCEPT !.pc = "finish"] /\ cbor_msg_in' = cbor_msg_in
    <3>1. /\ IsWorker(ota_worker') /\ ota_worker'.pc = "finish" /\ ota_worker'.sent = ota_worker.sent
          /\ ota_worker'.waited = ota_worker.waited
      <4>1. ota_worker' = [pc |-> "finish", sent |-> ota_worker.sent, waited |-> ota_worker.waited, to_send |-> ota_worker.to_send]
        BY <1>0, <2>3, WorkerPc
      <4> QED BY <1>0, <4>1, WorkerShape
    <3> QED BY <2>1, <2>3, <3>1, WorkerGoesOn
  <2> QED BY <1>2, <2>2, <2>3, Zenon DEF post_ota_data_message
<1>3. CASE post_ota_complete_message
  <2>1. /\ UNCHANGED <<internal_out, updates, gave_up, mixed, own>> /\ ota_worker.pc # "none"
        /\ PostMessage(updates, ota_worker.sent, "ota_complete", 0)
    BY <1>3 DEF post_ota_complete_message
  <2>2. ota_worker' = [ota_worker EXCEPT !.pc = "drain", !.sent = ota_worker.sent + 1]
    BY <1>3, Zenon DEF post_ota_complete_message
  <2>3. /\ IsWorker(ota_worker') /\ ota_worker'.pc = "drain" /\ ota_worker'.sent = ota_worker.sent + 1
        /\ ota_worker'.waited = ota_worker.waited
    <3> DEFINE s == ota_worker.sent + 1
    <3>0. ota_worker' = [ota_worker EXCEPT !.pc = "drain", !.sent = s]
      BY <2>2
    <3>1. s \in Nat
      BY <1>0
    <3> HIDE DEF s
    <3>2. ota_worker' = [pc |-> "drain", sent |-> s, waited |-> ota_worker.waited, to_send |-> ota_worker.to_send]
      BY <1>0, <3>0, WorkerFinish
    <3>3. IsWorker(ota_worker') /\ ota_worker'.pc = "drain" /\ ota_worker'.sent = s /\ ota_worker'.waited = ota_worker.waited
      BY <1>0, <3>1, <3>2, WorkerShape
    <3> QED BY <3>3 DEF s
  <2> QED BY <2>1, <2>3, WorkerPosts DEF Methods
<1>4. CASE AwaitReplies
  <2>1. UNCHANGED <<cbor_msg_in, updates, gave_up, mixed>>
    BY <1>4 DEF AwaitReplies
  <2>2. ASSUME ota_worker.pc # "none", TakeReply, NEW c \in {"loop", "finish", "drain"},
               ota_worker' = [pc |-> c, sent |-> ota_worker.sent, waited |-> ota_worker.waited + 1,
                          to_send |-> ota_worker.to_send]
        PROVE  UpdateInv'
    <3>1. IsWorker(ota_worker') /\ ota_worker'.pc = c /\ ota_worker'.sent = ota_worker.sent /\ ota_worker'.waited = ota_worker.waited + 1
      BY <1>0, <2>2, WorkerShape
    <3> QED BY <2>1, <2>2, <3>1, WorkerTakes
  <2>3. CASE /\ ota_worker.pc = "drain" /\ ota_worker.waited = ota_worker.sent
             /\ ota_worker' = [ota_worker EXCEPT !.pc = "stop"] /\ UNCHANGED <<internal_out, own>>
    <3>1. /\ IsWorker(ota_worker') /\ ota_worker'.pc = "stop" /\ ota_worker'.sent = ota_worker.sent
          /\ ota_worker'.waited = ota_worker.waited
      <4>1. ota_worker' = [pc |-> "stop", sent |-> ota_worker.sent, waited |-> ota_worker.waited, to_send |-> ota_worker.to_send]
        BY <1>0, <2>3, WorkerPc
      <4> QED BY <1>0, <4>1, WorkerShape
    <3> QED BY <2>1, <2>3, <3>1, WorkerGoesOn
  <2>4. ASSUME Waits, TakeReply,
               ota_worker' = [ota_worker EXCEPT !.waited = ota_worker.waited + 1,
                                        !.pc = IF reply.ok THEN ota_worker.pc ELSE "finish"]
        PROVE  UpdateInv'
    <3>1. ota_worker.pc = "loop"
      BY <2>4 DEF Waits
    <3> DEFINE c == IF reply.ok THEN ota_worker.pc ELSE "finish"
               t == ota_worker.waited + 1
    <3>2. c \in {"loop", "finish", "drain"} /\ t \in Nat
      BY <1>0, <3>1
    <3>3. ota_worker' = [ota_worker EXCEPT !.waited = t, !.pc = c]
      BY <2>4
    <3> HIDE DEF c, t
    <3>4. ota_worker' = [pc |-> c, sent |-> ota_worker.sent, waited |-> t, to_send |-> ota_worker.to_send]
      BY <1>0, <3>2, <3>3, WorkerWaits
    <3>5. ota_worker' = [pc |-> c, sent |-> ota_worker.sent, waited |-> ota_worker.waited + 1,
                     to_send |-> ota_worker.to_send]
      BY <3>4 DEF t
    <3> QED BY <2>2, <2>4, <3>1, <3>2, <3>5
  <2>5. ASSUME ota_worker.pc = "drain", TakeReply,
               ota_worker' = [ota_worker EXCEPT !.waited = ota_worker.waited + 1]
        PROVE  UpdateInv'
    <3> DEFINE t == ota_worker.waited + 1
    <3>1. ota_worker' = [ota_worker EXCEPT !.waited = t] /\ t \in Nat
      BY <1>0, <2>5
    <3> HIDE DEF t
    <3>2. ota_worker' = [pc |-> "drain", sent |-> ota_worker.sent, waited |-> t, to_send |-> ota_worker.to_send]
      BY <1>0, <2>5, <3>1, WorkerWaited
    <3>3. ota_worker' = [pc |-> "drain", sent |-> ota_worker.sent, waited |-> ota_worker.waited + 1,
                     to_send |-> ota_worker.to_send]
      BY <3>2 DEF t
    <3> QED BY <2>2, <2>5, <3>3
  <2> QED BY <1>4, <2>3, <2>4, <2>5, Zenon DEF AwaitReplies, wait_for_ota_replies
<1>5. CASE Timeout
  <2>1. /\ UNCHANGED <<cbor_msg_in, internal_out, updates, mixed, own>> /\ gave_up'
        /\ ota_worker.pc # "none" /\ ota_worker' = [ota_worker EXCEPT !.pc = "stop"]
    BY <1>5 DEF Timeout, Waits
  <2>2. /\ IsWorker(ota_worker') /\ ota_worker'.pc = "stop" /\ ota_worker'.sent = ota_worker.sent
        /\ ota_worker'.waited = ota_worker.waited
    <3>1. ota_worker' = [pc |-> "stop", sent |-> ota_worker.sent, waited |-> ota_worker.waited, to_send |-> ota_worker.to_send]
      BY <1>0, <2>1, WorkerPc
    <3> QED BY <1>0, <3>1, WorkerShape
  <2> QED BY <2>1, <2>2, WorkerGoesOn
<1>6. CASE WorkerEnds
  BY <1>6, WorkerEndsInv
<1>7. CASE HostSends
  BY <1>7, HostPosts DEF HostSends
<1>8. CASE Dispatch
  <2>1. Take /\ UNCHANGED <<ota_worker, updates, gave_up, mixed, own>>
    BY <1>8 DEF Dispatch
  <2>2. Reply(FromWorker, TRUE) \/ Reply(FromWorker, FALSE)
    BY <1>8, Zenon DEF Dispatch
  <2> QED BY <2>1, <2>2, MainAnswers
<1>9. CASE handle_in_bin_data
  <2>1. Take /\ UNCHANGED <<ota_worker, updates, gave_up, own>>
    BY <1>9 DEF handle_in_bin_data
  <2>2. mixed' = (mixed \/ FromWorker # main.internal)
    BY <1>9, Zenon DEF handle_in_bin_data
  <2>3. (mixed => mixed') /\ (~mixed' => main.internal = FromWorker)
    BY <2>2, Zenon
  <2>4. Reply(main.internal, TRUE) \/ Reply(main.internal, FALSE)
    BY <1>9, Zenon DEF handle_in_bin_data
  <2> QED BY <2>1, <2>3, <2>4, MainAnswers
<1>10. CASE ota_finalize
  <2>1. Take /\ UNCHANGED <<ota_worker, updates, gave_up, mixed, own>>
    BY <1>10 DEF ota_finalize
  <2>2. Reply(FromWorker, TRUE) \/ Reply(FromWorker, FALSE)
    BY <1>10, Zenon DEF ota_finalize
  <2> QED BY <2>1, <2>2, MainAnswers
<1>11. CASE ErrorSeen
  BY <1>11 DEF ErrorSeen, UpdateInv, QueueTypes, WorkerTypes, OwnReplies
<1>12. CASE esp_restart
  <2>1. /\ cbor_msg_in' = <<>> /\ internal_out' = <<>> /\ ota_worker' = NoWorker /\ own'
        /\ updates' = updates
    BY <1>12 DEF esp_restart
  <2> QED BY <2>1, FreshUsb
<1>13. CASE UNCHANGED usb_ota_vars
  BY <1>13 DEF usb_ota_vars, UpdateInv, QueueTypes, WorkerTypes, OwnReplies
<1> QED
  BY <1>1, <1>2, <1>3, <1>4, <1>5, <1>6, <1>7, <1>8, <1>9, <1>10, <1>11, <1>12, <1>13
  DEF UsbOtaNext, Worker, MainTask

(* The reply the worker counts as that to its n-th message is the reply to that message, though
   handle_ota_reply looks at no id, and nothing of an update is left behind when its worker
   ends, for files of any size, any number of updates and of messages of a host; unless a
   worker has given up waiting or a host has interfered, since boot. *)
THEOREM UsbRepliesAreOwn == UsbOtaSpec => []RepliesAreOwn
<1>1. UsbOtaInit => UpdateInv
  <2> SUFFICES ASSUME UsbOtaInit PROVE UpdateInv
    OBVIOUS
  <2>1. /\ cbor_msg_in = <<>> /\ internal_out = <<>> /\ ota_worker = NoWorker /\ own
        /\ updates = 0
    BY DEF UsbOtaInit
  <2>2. IsWorker(ota_worker) /\ ota_worker.pc = "none" /\ ota_worker.sent = 0 /\ ota_worker.waited = 0
    BY <2>1 DEF NoWorker, IsWorker
  <2>3. QueueTypes /\ WorkerTypes
    BY <2>1, <2>2 DEF QueueTypes, WorkerTypes
  <2>4. ReplyRun(<<>>, 0, 0) /\ OwnRun(<<>>, 0, 0, 0)
    BY DEF ReplyRun, OwnRun
  <2>5. Len(internal_out) = 0 /\ 0 + 0 = 0
    BY <2>1
  <2>6. OwnReplies
    BY <2>1, <2>2, <2>4, <2>5 DEF OwnReplies
  <2> QED BY <2>3, <2>6 DEF UpdateInv
<1>2. UpdateInv /\ [UsbOtaNext]_usb_ota_vars => UpdateInv'
  BY UpdateStep
<1>3. UpdateInv => RepliesAreOwn
  <2> SUFFICES ASSUME UpdateInv, ~gave_up, ~mixed
               PROVE  /\ own
                      /\ ota_worker.pc = "none" => /\ internal_out = <<>>
                                               /\ \A i \in DOMAIN cbor_msg_in : cbor_msg_in[i].update = 0
    BY Zenon DEF RepliesAreOwn
  <2>1. own
    BY DEF UpdateInv, OwnReplies
  <2>2. ASSUME ota_worker.pc = "none"
        PROVE  internal_out = <<>> /\ \A i \in DOMAIN cbor_msg_in : cbor_msg_in[i].update = 0
    <3>1. /\ ota_worker.sent = 0 /\ ota_worker.waited = 0 /\ cbor_msg_in \in Seq(UsbMessages)
          /\ internal_out \in Seq(UsbReplies) /\ \A x \in UsbMessages : x.n \in Nat
      BY <2>2 DEF UpdateInv, WorkerTypes, QueueTypes, UsbMessages
    <3>2. Len(internal_out) = 0
      BY <3>1 DEF UpdateInv, OwnReplies
    <3>3. OwnRun(cbor_msg_in, updates, 0, 0)
      BY <3>1, <3>2 DEF UpdateInv, OwnReplies
    <3>4. \A i \in 1..Len(cbor_msg_in) : cbor_msg_in[i].update = 0
      BY <3>1, <3>3, RunStarted
    <3>5. internal_out = <<>> /\ DOMAIN cbor_msg_in = 1..Len(cbor_msg_in)
      BY <3>1, <3>2
    <3> QED BY <3>4, <3>5
  <2> QED BY <2>1, <2>2
<1> QED BY <1>1, <1>2, <1>3, PTL DEF UsbOtaSpec

=============================================================================

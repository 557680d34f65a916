----------------------------- MODULE UsbStorage -----------------------------
(***************************************************************************)
(* usbhmsc.c and the actions on USB storage of usbmode.c: the main task    *)
(* stops serial and starts the storage task, which brings up the USB host, *)
(* a worker for its events and the class driver, mounts the drive that is  *)
(* found, and takes everything down when asked to stop or when the drive   *)
(* is gone.  A firmware update goes on in a task of its own, which stops   *)
(* the storage when it is over.                                            *)
(*                                                                         *)
(* The port takes the cable or a drive.  The USB host library and the      *)
(* class driver are external: their calls may fail.  How serial is stopped *)
(* is in MessagePump, and what an update says to the main task in UsbOta.  *)
(***************************************************************************)
EXTENDS Naturals, Sequences, FiniteSets

CONSTANTS
  QueueLength,  \* of usbstorage_msc_queue
  Updates       \* update tasks that there may be at a time

ASSUME QueueAssumption == QueueLength \in Nat \ {0}

VARIABLES
  port,         \* what is plugged in
  serial,       \* whether serial is running
  pc,           \* the main task
  async_action,
  update,       \* the tasks of updates
  usbstorage_task, \* the storage task, "none" when the handle is NULL
  worker_task,  \* whether its variable of that name is not NULL
  worker,       \* whether the worker runs
  usbstorage_state,
  usbstorage_flags, \* the event group
  usbstorage_msc_queue,
  host,         \* whether the port is powered for a drive
  clients,      \* of the USB host: "none", "driver", or "gone" once there was one
  enumerated,   \* whether the driver has seen the drive
  mounted,      \* whether the drive is mounted
  removed,      \* history: whether a drive was removed, or a call failed, in this session, or an
                \* event of an earlier one was left in the queue
  failed_start, \* history: whether storage did not start, since boot
  overtaken     \* history: whether a session began before the task of an update had ended, since boot

tasks == <<usbstorage_task, worker_task, worker>>
shared == <<usbstorage_state, usbstorage_flags, usbstorage_msc_queue>>
usb == <<host, clients, enumerated, mounted>>
history == <<removed, failed_start, overtaken>>
vars == <<port, serial, pc, async_action, update, tasks, shared, usb, history>>

Stopping == {"request_stop", "start_serial"}

TypeOK ==
  /\ port \in {"empty", "cable", "drive"}
  /\ serial \in BOOLEAN /\ host \in BOOLEAN /\ mounted \in BOOLEAN
  /\ pc \in {"menu", "stop_serial", "start", "starting", "await", "action", "restart"} \cup Stopping
  /\ update \in [Updates -> {"none", "running"} \cup Stopping]
  /\ usbstorage_state \subseteq
       {"USB_INSTALLED", "MSC_INSTALLED", "WORKER_SHUTDOWN", "SHUTDOWN_REQUESTED", "ERROR"}
  /\ usbstorage_flags \subseteq {"AVAILABLE", "ERROR"}
  /\ usbstorage_msc_queue \in Seq({"CONNECTED", "DISCONNECTED"})
  /\ Len(usbstorage_msc_queue) <= QueueLength
  /\ enumerated => clients = "driver"
  /\ mounted => host

Init ==
  /\ port \in {"empty", "cable"}
  /\ serial = TRUE /\ pc = "menu" /\ async_action = FALSE
  /\ update = [u \in Updates |-> "none"]
  /\ usbstorage_task = "none" /\ worker_task = FALSE /\ worker = FALSE
  /\ usbstorage_state = {} /\ usbstorage_flags = {} /\ usbstorage_msc_queue = <<>>
  /\ host = FALSE /\ clients = "none" /\ enumerated = FALSE /\ mounted = FALSE
  /\ removed = FALSE /\ failed_start = FALSE /\ overtaken = FALSE

-----------------------------------------------------------------------------
(* The port *)

PushEvent(event) ==
  /\ Len(usbstorage_msc_queue) < QueueLength
  /\ usbstorage_msc_queue' = Append(usbstorage_msc_queue, event)

Plug ==
  /\ port = "empty" /\ port' \in {"cable", "drive"}
  /\ UNCHANGED <<serial, pc, async_action, update, tasks, shared, usb, history>>

\* msc_event_cb: the driver has found a drive.
DeviceConnected ==
  /\ port = "drive" /\ clients = "driver" /\ ~enumerated
  /\ enumerated' = TRUE
  /\ PushEvent("CONNECTED")
  /\ UNCHANGED <<port, serial, pc, async_action, update, tasks, usbstorage_state,
                 usbstorage_flags, host, clients, mounted, history>>

\* msc_event_cb: a drive that was installed is gone.
Unplug ==
  /\ port # "empty" /\ port' = "empty"
  /\ removed' = (removed \/ port = "drive")
  /\ enumerated' = FALSE
  /\ IF enumerated /\ mounted THEN PushEvent("DISCONNECTED") ELSE UNCHANGED usbstorage_msc_queue
  /\ UNCHANGED <<serial, pc, async_action, update, tasks, usbstorage_state, usbstorage_flags,
                 host, clients, mounted, failed_start, overtaken>>

-----------------------------------------------------------------------------
(* The main task: handle_usbstorage_action, usbstorage_start, usbstorage_stop *)

others == <<port, usb>>

\* The user chooses an action in the menu, and takes the cable out if asked.
Choose ==
  /\ pc = "menu" /\ port # "cable"
  /\ pc' = "stop_serial" /\ async_action' \in BOOLEAN
  /\ overtaken' = (overtaken \/ \E u \in Updates : update[u] # "none")
  /\ UNCHANGED <<others, serial, update, tasks, shared, removed, failed_start>>

serial_stop ==
  /\ pc = "stop_serial"
  /\ serial' = FALSE /\ pc' = "start"
  /\ UNCHANGED <<others, async_action, update, tasks, shared, history>>

\* Mutant: of the flags only the error is cleared.
Mutant_available_not_cleared ==
  /\ pc = "start"
  /\ IF usbstorage_task # "none" \/ port = "cable"
     THEN pc' = "restart" /\ UNCHANGED <<usbstorage_task, usbstorage_state, usbstorage_flags, removed>>
     ELSE /\ usbstorage_task' = "enable" /\ usbstorage_state' = {}
          /\ usbstorage_flags' = usbstorage_flags \ {"ERROR"}
          /\ pc' = "starting"
          /\ removed' = (usbstorage_msc_queue # <<>>)
  /\ UNCHANGED <<others, serial, async_action, update, worker_task, worker, usbstorage_msc_queue,
                 failed_start, overtaken>>

\* Mutant: of the flags only that a drive is available is cleared.
Mutant_error_not_cleared ==
  /\ pc = "start"
  /\ IF usbstorage_task # "none" \/ port = "cable"
     THEN pc' = "restart" /\ UNCHANGED <<usbstorage_task, usbstorage_state, usbstorage_flags, removed>>
     ELSE /\ usbstorage_task' = "enable" /\ usbstorage_state' = {}
          /\ usbstorage_flags' = usbstorage_flags \ {"AVAILABLE"}
          /\ pc' = "starting"
          /\ removed' = (usbstorage_msc_queue # <<>>)
  /\ UNCHANGED <<others, serial, async_action, update, worker_task, worker, usbstorage_msc_queue,
                 failed_start, overtaken>>

\* The storage must not be in use, nor the cable in; else an assertion restarts the device.
usbstorage_start ==
  /\ pc = "start"
  /\ IF usbstorage_task # "none" \/ port = "cable"
     THEN /\ pc' = "restart"
          /\ UNCHANGED <<usbstorage_task, usbstorage_state, usbstorage_flags, removed>>
     ELSE /\ usbstorage_task' = "enable"
          /\ usbstorage_state' = {} /\ usbstorage_flags' = {}
          /\ pc' = "starting"
          /\ removed' = (usbstorage_msc_queue # <<>>)
  /\ UNCHANGED <<others, serial, async_action, update, worker_task, worker, usbstorage_msc_queue,
                 failed_start, overtaken>>

\* usbstorage_start waits until the host is installed or has failed.  When it has failed
\* nothing is stopped, nor serial started.
Started ==
  /\ pc = "starting"
  /\ \/ /\ usbstorage_state \cap {"ERROR", "SHUTDOWN_REQUESTED"} # {}
        /\ pc' = "menu" /\ failed_start' = TRUE
     \/ /\ usbstorage_state \cap {"ERROR", "SHUTDOWN_REQUESTED"} = {}
        /\ "USB_INSTALLED" \in usbstorage_state
        /\ pc' = "await" /\ UNCHANGED failed_start
  /\ UNCHANGED <<others, serial, async_action, update, tasks, shared, removed, overtaken>>

\* Await the drive; the user may go back.  An error is looked at first.
AwaitStorage ==
  /\ pc = "await"
  /\ pc' \in {"request_stop"} \cup {a \in {"action"} : usbstorage_flags = {"AVAILABLE"}}
  /\ UNCHANGED <<others, serial, async_action, update, tasks, shared, history>>

\* The action is done, or an update is started, or the user gives up.
RunAction ==
  /\ pc = "action"
  /\ \/ pc' = "request_stop" /\ UNCHANGED update
     \/ /\ async_action
        /\ \E u \in Updates : /\ update[u] = "none"
                              /\ update' = [update EXCEPT ![u] = "running"]
        /\ pc' = "menu"
  /\ UNCHANGED <<others, serial, async_action, tasks, shared, history>>

\* usbstorage_stop: ask the storage task to stop until it is gone.
RequestStop ==
  usbstorage_state' = IF usbstorage_task = "none" THEN usbstorage_state
                      ELSE usbstorage_state \cup {"SHUTDOWN_REQUESTED"}

usbstorage_stop ==
  /\ pc = "request_stop"
  /\ RequestStop
  /\ pc' = IF usbstorage_task = "none" THEN "start_serial" ELSE pc
  /\ UNCHANGED <<others, serial, async_action, update, tasks, usbstorage_flags,
                 usbstorage_msc_queue, history>>

serial_start ==
  /\ pc = "start_serial"
  /\ serial' = TRUE /\ pc' = "menu"
  /\ UNCHANGED <<others, async_action, update, tasks, shared, history>>

\* usbmode_ota_worker: the update is over, or it has given up.
UpdateEnds(u) ==
  /\ update[u] = "running"
  /\ update' = [update EXCEPT ![u] = "request_stop"]
  /\ UNCHANGED <<others, serial, pc, async_action, tasks, shared, history>>

UpdateStops(u) ==
  /\ update[u] = "request_stop"
  /\ RequestStop
  /\ update' = [update EXCEPT ![u] = IF usbstorage_task = "none" THEN "start_serial" ELSE @]
  /\ UNCHANGED <<others, serial, pc, async_action, tasks, usbstorage_flags,
                 usbstorage_msc_queue, history>>

UpdateStartsSerial(u) ==
  /\ update[u] = "start_serial"
  /\ serial' = TRUE /\ update' = [update EXCEPT ![u] = "none"]
  /\ UNCHANGED <<others, pc, async_action, tasks, shared, history>>

\* An assertion has failed, or the update was good.
Restart ==
  /\ pc = "restart" \/ \E u \in Updates : update[u] = "running"
  /\ serial' = TRUE /\ pc' = "menu" /\ async_action' = FALSE
  /\ update' = [u \in Updates |-> "none"]
  /\ usbstorage_task' = "none" /\ worker_task' = FALSE /\ worker' = FALSE
  /\ usbstorage_state' = {} /\ usbstorage_flags' = {} /\ usbstorage_msc_queue' = <<>>
  /\ host' = FALSE /\ clients' = "none" /\ enumerated' = FALSE /\ mounted' = FALSE
  /\ removed' = FALSE /\ failed_start' = FALSE /\ overtaken' = FALSE
  /\ UNCHANGED port

-----------------------------------------------------------------------------
(* The storage task, usbstorage_impl, and its worker *)

mainState == <<port, serial, pc, async_action, update>>
Goto(step) == usbstorage_task' = step
Set(flag) == usbstorage_state' = usbstorage_state \cup {flag}

enable_usb_host ==
  /\ usbstorage_task = "enable"
  /\ host' = TRUE /\ Goto("host_install")
  /\ UNCHANGED <<mainState, worker_task, worker, shared, clients, enumerated, mounted, history>>

\* The jump to the cleanup passes the initialiser of worker_task.
usb_host_install ==
  /\ usbstorage_task = "host_install"
  /\ \/ Set("USB_INSTALLED") /\ Goto("msc_install") /\ worker_task' = TRUE /\ worker' = TRUE
        /\ UNCHANGED removed
     \/ Set("ERROR") /\ Goto("cleanup") /\ worker_task' \in BOOLEAN /\ removed' = TRUE
        /\ UNCHANGED worker
  /\ UNCHANGED <<mainState, usbstorage_flags, usbstorage_msc_queue, usb, failed_start, overtaken>>

\* The driver may fail before or after it has registered with the host.
msc_host_install ==
  /\ usbstorage_task = "msc_install"
  /\ \/ Set("MSC_INSTALLED") /\ Goto("loop") /\ clients' = "driver" /\ UNCHANGED removed
     \/ Set("ERROR") /\ Goto("cleanup") /\ clients' \in {"none", "gone"} /\ removed' = TRUE
  /\ UNCHANGED <<mainState, worker_task, worker, usbstorage_flags, usbstorage_msc_queue, host,
                 enumerated, mounted, failed_start, overtaken>>

\* An event of the driver.  A drive is installed and mounted; that may fail.
HandleEvent ==
  /\ usbstorage_task = "loop" /\ usbstorage_msc_queue # <<>>
  /\ usbstorage_msc_queue' = Tail(usbstorage_msc_queue)
  /\ \/ /\ Head(usbstorage_msc_queue) = "CONNECTED" /\ enumerated /\ ~mounted
        /\ mounted' = TRUE
        /\ usbstorage_flags' = usbstorage_flags \cup {"AVAILABLE"}
        /\ UNCHANGED <<usbstorage_task, usbstorage_state, removed>>
     \/ /\ Head(usbstorage_msc_queue) = "CONNECTED"
        /\ Set("ERROR") /\ Goto("cleanup") /\ removed' = TRUE
        /\ UNCHANGED <<usbstorage_flags, mounted>>
     \/ /\ Head(usbstorage_msc_queue) = "DISCONNECTED"
        /\ Set("ERROR") /\ Goto("cleanup")
        /\ UNCHANGED <<usbstorage_flags, mounted, removed>>
  /\ UNCHANGED <<mainState, worker_task, worker, host, clients, enumerated, failed_start,
                 overtaken>>

\* The queue has been empty for a while.
ShutdownRequested ==
  /\ usbstorage_task = "loop" /\ usbstorage_msc_queue = <<>>
  /\ "SHUTDOWN_REQUESTED" \in usbstorage_state
  /\ Goto("cleanup")
  /\ UNCHANGED <<mainState, worker_task, worker, shared, usb, history>>

PostError ==
  /\ usbstorage_task = "cleanup"
  /\ usbstorage_flags' = IF "ERROR" \in usbstorage_state THEN usbstorage_flags \cup {"ERROR"}
                                                         ELSE usbstorage_flags
  /\ Goto("unmount")
  /\ UNCHANGED <<mainState, worker_task, worker, usbstorage_state, usbstorage_msc_queue, usb,
                 history>>

Unmount ==
  /\ usbstorage_task = "unmount"
  /\ mounted' = FALSE /\ Goto("msc_uninstall")
  /\ UNCHANGED <<mainState, worker_task, worker, shared, host, clients, enumerated, history>>

\* Mutant: after an error the driver is not uninstalled.
Mutant_driver_kept ==
  /\ usbstorage_task = "msc_uninstall"
  /\ IF "MSC_INSTALLED" \in usbstorage_state /\ "ERROR" \notin usbstorage_state
     THEN /\ usbstorage_state' = usbstorage_state \ {"MSC_INSTALLED"}
          /\ clients' = "gone" /\ enumerated' = FALSE
     ELSE UNCHANGED <<usbstorage_state, clients, enumerated>>
  /\ Goto("await_worker")
  /\ UNCHANGED <<mainState, worker_task, worker, usbstorage_flags, usbstorage_msc_queue, host,
                 mounted, history>>

msc_host_uninstall ==
  /\ usbstorage_task = "msc_uninstall"
  /\ IF "MSC_INSTALLED" \in usbstorage_state
     THEN /\ usbstorage_state' = usbstorage_state \ {"MSC_INSTALLED"}
          /\ clients' = "gone" /\ enumerated' = FALSE
     ELSE UNCHANGED <<usbstorage_state, clients, enumerated>>
  /\ Goto("await_worker")
  /\ UNCHANGED <<mainState, worker_task, worker, usbstorage_flags, usbstorage_msc_queue, host,
                 mounted, history>>

\* Await the worker, uninstall the host, and take the power from the port.
usb_host_uninstall ==
  /\ usbstorage_task = "await_worker"
  /\ worker_task => "WORKER_SHUTDOWN" \in usbstorage_state
  /\ host' = FALSE /\ clients' = "none" /\ Goto("end")
  /\ UNCHANGED <<mainState, worker_task, worker, shared, enumerated, mounted, history>>

\* The handle is cleared last: the storage is free.
TaskEnds ==
  /\ usbstorage_task = "end"
  /\ Goto("none") /\ worker_task' = FALSE
  /\ UNCHANGED <<mainState, worker, shared, usb, history>>

\* usbstorage_worker_impl ends when the last client is gone and all devices are free.
usbstorage_worker_impl ==
  /\ worker /\ clients = "gone"
  /\ Set("WORKER_SHUTDOWN") /\ worker' = FALSE
  /\ UNCHANGED <<mainState, usbstorage_task, worker_task, usbstorage_flags, usbstorage_msc_queue,
                 usb, history>>

-----------------------------------------------------------------------------
StorageTask ==
  \/ enable_usb_host \/ usb_host_install \/ msc_host_install \/ HandleEvent \/ ShutdownRequested
  \/ PostError \/ Unmount \/ msc_host_uninstall \/ usb_host_uninstall \/ TaskEnds

\* What the main task does without waiting for the user.
Main == serial_stop \/ usbstorage_start \/ Started \/ usbstorage_stop \/ serial_start

Next ==
  \/ Plug \/ DeviceConnected \/ Unplug
  \/ Choose \/ Main \/ AwaitStorage \/ RunAction
  \/ \E u \in Updates : UpdateEnds(u) \/ UpdateStops(u) \/ UpdateStartsSerial(u)
  \/ Restart
  \/ StorageTask \/ usbstorage_worker_impl

\* All tasks are scheduled.
Fairness ==
  /\ WF_vars(Main) /\ WF_vars(StorageTask) /\ WF_vars(usbstorage_worker_impl)
  /\ \A u \in Updates : WF_vars(UpdateStops(u)) /\ WF_vars(UpdateStartsSerial(u))

Spec == Init /\ [][Next]_vars /\ Fairness

-----------------------------------------------------------------------------
(* Properties *)

\* The port is not used for serial and for a drive at once.  Nothing but the loss of the drive
\* takes the files away from an action.  When serial is stopped and the storage started,
\* the storage task of the last session is gone and its drive unmounted, so that the
\* assertion of usbstorage_start holds; unless the start before this one failed.
\* All this unless the storage was started while the task of an update had still to stop it.
PortIsShared ==
  ~overtaken =>
    /\ ~(serial /\ host)
    /\ pc = "action" => mounted \/ "ERROR" \in usbstorage_state
    /\ pc = "start" /\ ~failed_start => usbstorage_task = "none" /\ ~worker /\ ~host /\ ~mounted

\* usbstorage_stop returns, and serial is started again, unless the driver failed before it
\* had registered with the host: then no event tells the worker to end.
Stuck == usbstorage_task = "await_worker" /\ worker /\ clients = "none"
StopReturns == pc = "request_stop" ~> (serial \/ Stuck)

\* "Set the error condition even though this may not be an error (e.g. if the caller has
\* finished their processing)" (usbhmsc.c:149): an action that is told of an error was run on a
\* drive that failed or was removed during that action; or an event of an earlier
\* session was in the queue, which usbstorage_start does not empty.
ErrorIsOfThisSession == pc = "await" /\ "ERROR" \in usbstorage_flags => removed

=============================================================================

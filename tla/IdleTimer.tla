----------------------------- MODULE IdleTimer -----------------------------
(***************************************************************************)
(* The idle timer: a task that wakes up at least once a minute, compares   *)
(* the time of the last activity with the time-out, warns the user, and    *)
(* restarts the device or switches it off, which clears the wallet.        *)
(* Meanwhile the other tasks register activity, the user changes the       *)
(* time-out, slow operations raise it for a while, wallets are loaded and  *)
(* cleared, and the cable is plugged in and pulled out.                    *)
(*                                                                         *)
(* Times are true times since boot; the code sees them modulo TickMod, as  *)
(* a TickType_t.  The task has the lowest priority of all, so other tasks  *)
(* run, and the clock moves on, between any two of its steps and when it   *)
(* is to wake up; `held` counts the ticks in which it could not go on.     *)
(***************************************************************************)
EXTENDS Naturals

CONSTANTS
  Timeouts,  \* the values of the setting, in ticks
  NEVER,     \* UINT16_MAX, the setting "off"
  Raised,    \* the minimum that slow operations ask for
  Period,    \* TIMEOUT_SLEEP_PERIOD_SECS
  Warning,   \* KEEP_AWAKE_WARNING_SECS
  UiTimeout, \* UI_SCREEN_IDLE_TIMEOUT_SECS
  TickMod,   \* 2^32, the values of a TickType_t
  MaxTime    \* bound on the time since boot

ASSUME TimeoutAssumption == Timeouts \subseteq {t \in Nat : Period <= t /\ t < NEVER} /\ Timeouts # {}
ASSUME PeriodAssumption == Period \in Nat \ {0} /\ Warning \in 1..Period /\ UiTimeout \in Nat
ASSUME ClockAssumption == TickMod \in Nat \ {0} /\ MaxTime \in Nat /\ NEVER \in Nat /\ Raised \in 0..NEVER - 1

VARIABLES
  now,                           \* the time since boot
  last_activity_registered,
  last_ui_activity_registered,
  idle_timeout,                  \* the setting, in flash
  min_timeout_override_secs,
  screen_dimmed,
  idle_state,                    \* kept over a software restart
  keychain,                      \* whether a wallet is loaded
  usb_is_powered,
  task,                          \* idletimer_task: its step, when it goes on, and its locals
  changed,                       \* history: when the setting, the minimum or the cable last changed
  held                           \* history: the ticks since the last activity or change in which
                                 \* the task was ready and did not run

idle_vars == <<now, last_activity_registered, last_ui_activity_registered, idle_timeout,
               min_timeout_override_secs, screen_dimmed, idle_state, keychain, usb_is_powered, task,
               changed, held>>

Max2(a, b) == IF a > b THEN a ELSE b
Tick(t) == t % TickMod
Timeout == Max2(idle_timeout, min_timeout_override_secs)

IdleTypeOK ==
  /\ now \in 0..MaxTime
  /\ last_activity_registered \in 0..now /\ last_ui_activity_registered \in 0..last_activity_registered
  /\ idle_timeout \in Timeouts \cup {NEVER} /\ min_timeout_override_secs \in {0, Raised}
  /\ screen_dimmed \in BOOLEAN /\ idle_state \in {"NORMAL", "IDLE"}
  /\ keychain \in BOOLEAN /\ usb_is_powered \in BOOLEAN
  /\ task.pc \in {"sleep", "minimum", "activity", "clock", "decide", "loaded", "show", "warn",
                  "act", "dim"}
  /\ task.check <= now /\ task.last <= now /\ task.unseen \in BOOLEAN
  /\ task.action \in {"SCREEN_DIMMED", "REBOOT", "POWER_OFF"} /\ task.acted \in BOOLEAN
  /\ changed \in 0..now /\ held \in 0..now

\* The task makes its next check at the given time; its locals are void till then.  History:
\* `unseen`, if the last activity came when the task was not to look for it in time.
Asleep(until) == [pc |-> "sleep", wake |-> until, timeout |-> 0, last |-> 0, check |-> 0,
                  action |-> "SCREEN_DIMMED", acted |-> FALSE, unseen |-> FALSE]

\* idletimer_init, and the start of the device: only a software restart keeps idle_state.
Boot(state) ==
  /\ now' = 0 /\ last_activity_registered' = 0 /\ last_ui_activity_registered' = 0
  /\ min_timeout_override_secs' = 0
  /\ idle_state' = state /\ screen_dimmed' = (state = "IDLE")
  /\ keychain' = FALSE
  /\ task' = Asleep(0) /\ changed' = 0 /\ held' = 0
  /\ UNCHANGED <<idle_timeout, usb_is_powered>>

IdleInit ==
  /\ now = 0 /\ last_activity_registered = 0 /\ last_ui_activity_registered = 0
  /\ idle_timeout \in Timeouts /\ min_timeout_override_secs = 0
  /\ screen_dimmed = FALSE /\ idle_state = "NORMAL"
  /\ keychain = FALSE /\ usb_is_powered \in BOOLEAN
  /\ task = Asleep(0) /\ changed = 0 /\ held = 0

-----------------------------------------------------------------------------
(* The other tasks *)

\* A message arrives or, with is_ui, a button is pressed.  The press that wakes the
\* screen up is not passed on (gui.c); any other one may reach the warning screen.
idletimer_register_activity(is_ui) ==
  /\ idle_state' = "NORMAL"
  /\ last_activity_registered' = now /\ held' = 0
  /\ last_ui_activity_registered' = IF is_ui THEN now ELSE last_ui_activity_registered
  /\ screen_dimmed' = (screen_dimmed /\ ~is_ui)
  /\ \E seen \in BOOLEAN :
       /\ seen => is_ui /\ ~screen_dimmed /\ task.pc = "warn"
       /\ task' = [task EXCEPT !.acted = @ \/ seen, !.unseen = task.pc \in {"clock", "act"}]
  /\ keychain' \in (IF is_ui THEN {keychain} ELSE BOOLEAN)  \* the message unlocks or locks the device
  /\ UNCHANGED <<now, idle_timeout, min_timeout_override_secs, usb_is_powered, changed>>

\* Something changes without any activity: the setting, which the user changes with the
\* button press of an earlier step, the minimum, or the cable.
Change ==
  /\ \/ /\ idle_timeout' \in (Timeouts \cup {NEVER}) \ {idle_timeout}
        /\ UNCHANGED <<min_timeout_override_secs, usb_is_powered>>
     \/ /\ min_timeout_override_secs' \in {0, Raised} \ {min_timeout_override_secs}
        /\ UNCHANGED <<idle_timeout, usb_is_powered>>
     \/ usb_is_powered' = ~usb_is_powered /\ UNCHANGED <<idle_timeout, min_timeout_override_secs>>
  /\ changed' = now /\ held' = 0
  /\ UNCHANGED <<now, last_activity_registered, last_ui_activity_registered, screen_dimmed,
                 idle_state, keychain, task>>

\* The task sleeps, or waits for a button: it has nothing to do in this tick.
Waiting == task.pc \in {"sleep", "warn"} /\ task.wake > now /\ ~task.acted

\* The clock, which waits for no task.
TimePasses ==
  /\ now < MaxTime
  /\ now' = now + 1
  /\ held' = IF Waiting THEN held ELSE held + 1
  /\ UNCHANGED <<last_activity_registered, last_ui_activity_registered, idle_timeout,
                 min_timeout_override_secs, screen_dimmed, idle_state, keychain, usb_is_powered,
                 task, changed>>

-----------------------------------------------------------------------------
(* idletimer_task *)

others == <<now, last_activity_registered, last_ui_activity_registered, idle_timeout,
            min_timeout_override_secs, usb_is_powered, changed, held>>

\* The task wakes up, as soon as it may, and reads the setting.
ReadSetting ==
  /\ task.pc = "sleep" /\ task.wake <= now
  /\ task' = [task EXCEPT !.pc = "minimum", !.wake = 0, !.timeout = idle_timeout]
  /\ UNCHANGED <<others, screen_dimmed, idle_state, keychain>>

\* Then the minimum: compared and taken with nothing called in between, it is read once.
ReadMinimum ==
  /\ task.pc = "minimum"
  /\ task' = [task EXCEPT !.pc = "activity", !.timeout = Max2(@, min_timeout_override_secs)]
  /\ UNCHANGED <<others, screen_dimmed, idle_state, keychain>>

\* get_last_registered_activity: the time of the last activity, under the mutex.
ReadActivity ==
  /\ task.pc = "activity"
  /\ task' = [task EXCEPT !.pc = "clock", !.last = last_activity_registered,
                          !.unseen = FALSE]
  /\ UNCHANGED <<others, screen_dimmed, idle_state, keychain>>

\* xTaskGetTickCount: by now the mutex is free, and there may have been more activity.
ReadClock ==
  /\ task.pc = "clock"
  /\ task' = [task EXCEPT !.pc = "decide", !.check = now]
  /\ UNCHANGED <<others, screen_dimmed, idle_state, keychain>>

projected_timeout_time == (Tick(task.last) + task.timeout) % TickMod
Mutant_timed_out_after == task.timeout # NEVER /\ projected_timeout_time < Tick(task.check)
TimedOut == task.timeout # NEVER /\ projected_timeout_time <= Tick(task.check)

\* On battery the device is to be switched off; with power from the cable it depends.
Decide ==
  /\ task.pc = "decide"
  /\ task' = IF ~TimedOut THEN [task EXCEPT !.pc = "dim"]
             ELSE IF usb_is_powered THEN [task EXCEPT !.pc = "loaded"]
             ELSE [task EXCEPT !.pc = "show", !.action = "POWER_OFF"]
  /\ UNCHANGED <<others, screen_dimmed, idle_state, keychain>>

\* With a wallet it is to restart; without one the screen is dimmed and that is all.
KeychainLoaded ==
  /\ task.pc = "loaded"
  /\ IF keychain
     THEN /\ task' = [task EXCEPT !.pc = "show", !.action = "REBOOT"]
          /\ UNCHANGED <<screen_dimmed, idle_state>>
     ELSE /\ task' = [task EXCEPT !.pc = "dim"]
          /\ idle_state' = "IDLE" /\ screen_dimmed' = TRUE
  /\ UNCHANGED <<others, keychain>>

\* The warning is on the screen, and the wait for a button begins.
show_timeout_warning_screen ==
  /\ task.pc = "show"
  /\ task' = [task EXCEPT !.pc = "warn", !.wake = now + Warning]
  /\ UNCHANGED <<others, screen_dimmed, idle_state, keychain>>

Mutant_no_second_look ==
  /\ task.pc = "warn" /\ (task.acted \/ task.wake <= now)
  /\ task' = IF task.acted THEN Asleep(now + Period)
             ELSE [task EXCEPT !.pc = "act", !.wake = 0]
  /\ UNCHANGED <<others, screen_dimmed, idle_state, keychain>>

\* The wait ends; activity after the check, as far as it is known, keeps the device awake.
LookAgain ==
  /\ task.pc = "warn" /\ (task.acted \/ task.wake <= now)
  /\ task' = IF task.acted \/ Tick(last_activity_registered) > Tick(task.check)
             THEN Asleep(now + Period)
             ELSE [task EXCEPT !.pc = "act", !.wake = 0]
  /\ UNCHANGED <<others, screen_dimmed, idle_state, keychain>>

\* The wallet is cleared and the device restarts, or is switched off and on again later.
\* Activity may still come after idle_state is set to IDLE.
Restart ==
  /\ task.pc = "act"
  /\ \E state \in {"NORMAL", "IDLE"} : (task.action = "POWER_OFF" => state = "NORMAL") /\ Boot(state)

\* The screen is dimmed after a time without buttons, and the task sleeps: for as long as was
\* left at the time of the check, from whenever it gets so far.
SleepTime ==
  IF projected_timeout_time > Tick(task.check) /\ projected_timeout_time < Tick(task.check + Period)
    THEN projected_timeout_time - Tick(task.check) ELSE Period

Dim ==
  /\ task.pc = "dim"
  /\ screen_dimmed' = (screen_dimmed \/ Tick(last_ui_activity_registered + UiTimeout) <= Tick(task.check))
  /\ task' = Asleep(now + SleepTime)
  /\ UNCHANGED <<others, idle_state, keychain>>

IdleNext ==
  \/ \E is_ui \in BOOLEAN : idletimer_register_activity(is_ui)
  \/ Change \/ TimePasses
  \/ ReadSetting \/ ReadMinimum \/ ReadActivity \/ ReadClock \/ Decide \/ KeychainLoaded
  \/ show_timeout_warning_screen \/ LookAgain \/ Restart \/ Dim

IdleSpec == IdleInit /\ [][IdleNext]_idle_vars

-----------------------------------------------------------------------------
(* Properties *)

\* The clock does not wrap from one time to the other.
SameEpoch(from, to) == from \div TickMod = to \div TickMod

\* The device restarts for being idle only if there was no activity for the time-out of
\* the last check (idletimer_task), and none from the check to the second look at the end of
\* the warning.  It misses an activity that comes after it has read the time of the last one
\* and before it has read the clock, or in the tick of that reading, or after the second look;
\* and the clock may wrap.
RestartsOnlyWhenIdle ==
  [][Restart =>
       LET last == last_activity_registered IN
       \/ last + task.timeout <= task.check
       \/ task.unseen \/ last = task.check
       \/ ~SameEpoch(last, last + task.timeout) \/ ~SameEpoch(task.check, last)]_idle_vars

\* A device that holds a wallet, or runs on its battery, restarts in time: at the latest
\* two warnings after the time-out, or after the period in which a change is noticed, and as
\* much later as other tasks have kept the idle timer from running since then; unless the
\* clock wraps about then (idletimer_task).
Deadline ==
  Max2(last_activity_registered + Timeout, changed + Period) + 2 * Warning + held
LocksInTime ==
  /\ keychain \/ ~usb_is_powered
  /\ Timeout # NEVER /\ SameEpoch(last_activity_registered, Deadline + Period)
  => now <= Deadline

=============================================================================

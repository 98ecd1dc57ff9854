------------------------------ MODULE Scheduler ------------------------------
(***************************************************************************)
(* BackgroundSchedulerService: the daemon thread that runs the trading      *)
(* cycle, the calls that start, stop, poll and bypass it, and the count of  *)
(* consecutive failures that pages the operator.  The cycle itself is one   *)
(* step that completes or raises; what it does is in the other modules.     *)
(*                                                                         *)
(* The counters live in the class and in a state file.  A cycle loads the   *)
(* file when it begins and saves it when it has counted its result, and     *)
(* status() loads it too, from whichever thread polls.                      *)
(***************************************************************************)
EXTENDS Integers, FiniteSets, FiniteSetsExt

CONSTANTS
    Loops,      \* identities of loop threads
    Once,       \* the request thread of POST /background-scheduler/run-once
    Callers,    \* request threads that call start() and stop()
    AlertAfter, \* _ALERT_AFTER_FAILURES
    MaxStreak,  \* bound: failed cycles in a row, counted or real
    MaxMishaps  \* bound: failed saves, failed audit records, process restarts

ASSUME SchedulerAssumption ==
    /\ IsFiniteSet(Loops)
    /\ Once \notin Loops
    /\ AlertAfter \in Nat \ {0}
    /\ MaxStreak \in Nat
    /\ MaxMishaps \in Nat

Runners == Loops \cup {Once}
Stages == {"off", "killed", "wait", "cycle", "save", "alert", "saveFailed"}

VARIABLES
    enabled,    \* _enabled
    stopEvent,  \* _stop_event.is_set()
    mem,        \* _consecutive_failures in the class
    disk,       \* consecutive_failures in the state file
    stage,      \* where each thread is
    ctl,        \* where each call of start() or stop() is
    mishaps,    \* failed saves, failed audit records and restarts so far
    streak,     \* history: cycles that really failed since one completed
    lost,       \* history: failures of the streak that a load forgot
    paged,      \* history: this streak has been alerted
    overlapped, \* history: two start/stop calls were in progress at once
    stopped     \* history: stop() was called in this process

control == <<enabled, stopEvent, ctl, overlapped, stopped>>
counts == <<mem, disk, streak, lost, paged>>
schedulerVars == <<control, counts, stage, mishaps>>

Dead == {"off", "killed"}
Live == {l \in Loops : stage[l] \notin Dead}
Alerting == {l \in Loops : stage[l] = "alert"}

SchedulerInit ==
    /\ enabled = FALSE /\ stopEvent = FALSE
    /\ mem = 0 /\ disk = 0
    /\ stage = [t \in Runners |-> "off"]
    /\ ctl = [c \in Callers |-> "idle"]
    /\ mishaps = 0 /\ streak = 0 /\ lost = 0
    /\ paged = FALSE /\ overlapped = FALSE /\ stopped = FALSE

\* What a failure counted but not saved is worth to the load that forgets it.
Unsaved == IF mem > disk THEN mem - disk ELSE 0

\* _load_state: the file replaces what the class has counted.
Load ==
    /\ mem' = disk
    /\ lost' = lost + Unsaved
    /\ UNCHANGED <<disk, streak, paged>>

\* _save_state: atomic_write_json, which may raise and leave the file alone.
Save == disk' = mem /\ UNCHANGED <<mem, streak, lost, paged>>

Enter(t, next) == stage' = [stage EXCEPT ![t] = next]
MayFail == \A n \in {streak, mem, disk} : n < MaxStreak
Mishap == mishaps < MaxMishaps /\ mishaps' = mishaps + 1

-----------------------------------------------------------------------------
(* The loop thread and the cycle. *)

\* The while test of _run_loop, and _load_state at the head of the cycle.
Begin(l) ==
    /\ stage[l] = "wait"
    /\ ~stopEvent
    /\ Enter(l, "cycle")
    /\ Load
    /\ UNCHANGED <<control, mishaps>>

\* The while test, or the wait, sees the event and the thread returns.
Leave(l) ==
    /\ stage[l] = "wait"
    /\ stopEvent
    /\ Enter(l, "off")
    /\ UNCHANGED <<control, counts, mishaps>>

\* run_once: the same cycle in the thread of the request.
BeginOnce ==
    /\ stage[Once] = "off"
    /\ Enter(Once, "cycle")
    /\ Load
    /\ UNCHANGED <<control, mishaps>>

\* _record_result("COMPLETE"): every step has run and the streak is over.
RecordComplete(t) ==
    /\ stage[t] = "cycle"
    /\ Enter(t, "save")
    /\ mem' = 0 /\ streak' = 0 /\ lost' = 0 /\ paged' = FALSE
    /\ UNCHANGED <<control, disk, mishaps>>

\* An exception leaves the cycle.  The handler of the loop counts a failure,
\* _record_result("FAILED"); a route counts nothing.
Raise(t) ==
    /\ MayFail
    /\ IF t = Once
          THEN Enter(t, "off") /\ UNCHANGED <<mem, streak>>
          ELSE Enter(t, "alert") /\ mem' = mem + 1 /\ streak' = streak + 1
    /\ UNCHANGED <<lost, paged>>

\* A step outside a try raises.
Fail(t) ==
    /\ stage[t] = "cycle"
    /\ Raise(t)
    /\ UNCHANGED <<control, disk, mishaps>>

\* _save_state and the audit record that end a complete cycle.  Either may
\* raise: the loop then counts the cycle it has counted complete as failed.
SaveComplete(t) ==
    /\ stage[t] = "save"
    /\ \/ /\ Save
          /\ Enter(t, IF t = Once THEN "off" ELSE "wait")
          /\ UNCHANGED mishaps
       \/ Mishap /\ Raise(t) /\ disk' \in {disk, mem}
    /\ UNCHANGED control

\* Fault: the alert waits for one failure more.
AlertLate(l) ==
    /\ stage[l] = "alert"
    /\ Enter(l, "saveFailed")
    /\ paged' = (paged \/ mem > AlertAfter)
    /\ UNCHANGED <<control, mem, disk, streak, lost, mishaps>>

\* The rest of _record_result: the alert looks at the class again.
Alert(l) ==
    /\ stage[l] = "alert"
    /\ Enter(l, "saveFailed")
    /\ paged' = (paged \/ mem >= AlertAfter)
    /\ UNCHANGED <<control, mem, disk, streak, lost, mishaps>>

\* _save_state and the audit record of the handler.  Nothing catches what
\* they raise: the thread dies, and _enabled stays as it was.
SaveFailed(l) ==
    /\ stage[l] = "saveFailed"
    /\ \/ Save /\ Enter(l, "wait") /\ UNCHANGED mishaps
       \/ Mishap /\ (Save \/ UNCHANGED counts) /\ Enter(l, "killed")
    /\ UNCHANGED control

-----------------------------------------------------------------------------
(* The calls. *)

\* status(): a poll loads the file into the class.
Status ==
    /\ Load
    /\ UNCHANGED <<control, stage, mishaps>>

\* A call that begins while another is in progress.
Overlap == overlapped' = (overlapped \/ \E c \in Callers : ctl[c] # "idle")

\* Fault: start() does not look at _enabled.
StartAnyway(c) ==
    /\ ctl[c] = "idle"
    /\ enabled' = TRUE
    /\ ctl' = [ctl EXCEPT ![c] = "launch"]
    /\ Overlap
    /\ UNCHANGED <<stopEvent, stopped, counts, stage, mishaps>>

\* start(), to the assignment of _enabled.  An enabled scheduler answers
\* status() and does nothing else.
Start(c) ==
    /\ ctl[c] = "idle"
    /\ \/ enabled /\ Load /\ UNCHANGED control
       \/ /\ ~enabled
          /\ enabled' = TRUE
          /\ ctl' = [ctl EXCEPT ![c] = "launch"]
          /\ Overlap
          /\ UNCHANGED <<stopEvent, stopped, counts>>
    /\ UNCHANGED <<stage, mishaps>>

\* Fault: a new thread is launched under the old event.
LaunchStale(c) ==
    /\ ctl[c] = "launch"
    /\ ctl' = [ctl EXCEPT ![c] = "idle"]
    /\ \E l \in Loops :
        /\ stage[l] \in Dead
        /\ Enter(l, "wait")
    /\ UNCHANGED <<enabled, stopEvent, overlapped, stopped, counts, mishaps>>

\* The rest of start(): the event is cleared and a new thread runs the loop.
\* An old loop that has not seen the event goes on.
Launch(c) ==
    /\ ctl[c] = "launch"
    /\ ctl' = [ctl EXCEPT ![c] = "idle"]
    /\ stopEvent' = FALSE
    /\ \E l \in Loops :
        /\ stage[l] \in Dead
        /\ Enter(l, "wait")
    /\ UNCHANGED <<enabled, overlapped, stopped, counts, mishaps>>

\* stop(): _enabled first ...
Stop(c) ==
    /\ ctl[c] = "idle"
    /\ enabled' = FALSE
    /\ stopped' = TRUE
    /\ ctl' = [ctl EXCEPT ![c] = "stop"]
    /\ Overlap
    /\ UNCHANGED <<stopEvent, counts, stage, mishaps>>

\* Fault: stop() clears the flag and leaves the event.
SetEventNever(c) ==
    /\ ctl[c] = "stop"
    /\ ctl' = [ctl EXCEPT ![c] = "idle"]
    /\ UNCHANGED <<enabled, stopEvent, overlapped, stopped>>
    /\ UNCHANGED <<counts, stage, mishaps>>

\* ... and then the event.
SetEvent(c) ==
    /\ ctl[c] = "stop"
    /\ ctl' = [ctl EXCEPT ![c] = "idle"]
    /\ stopEvent' = TRUE
    /\ UNCHANGED <<enabled, overlapped, stopped, counts, stage, mishaps>>

\* GreyLineConnectionWatchdogEngine.run: status(), and start() when
\* scheduler_live() sees no living thread and no recent cycle.
Watchdog(c) ==
    /\ Live = {}
    /\ Start(c)

\* The process dies and comes back; the startup event then calls start().
Restart ==
    /\ Mishap
    /\ enabled' = FALSE /\ stopEvent' = FALSE
    /\ stage' = [t \in Runners |-> "off"]
    /\ ctl' = [c \in Callers |-> "idle"]
    /\ mem' = 0
    /\ lost' = lost + Max({Unsaved, Cardinality(Alerting)})
    /\ overlapped' = FALSE /\ stopped' = FALSE
    /\ UNCHANGED <<disk, streak, paged>>

-----------------------------------------------------------------------------
Cycle(t) == RecordComplete(t) \/ Fail(t) \/ SaveComplete(t)
Loop(l) == Begin(l) \/ Leave(l) \/ Alert(l) \/ SaveFailed(l)
Finish(c) == Launch(c) \/ SetEvent(c)

SchedulerNext ==
    \/ \E l \in Loops : Loop(l)
    \/ \E t \in Runners : Cycle(t)
    \/ \E c \in Callers : Start(c) \/ Stop(c) \/ Watchdog(c) \/ Finish(c)
    \/ BeginOnce
    \/ Status
    \/ Restart

SchedulerSpec == SchedulerInit /\ [][SchedulerNext]_schedulerVars

\* The threads keep running: a thread that can take its next step takes it.
\* Nobody has to call start(), stop(), run_once() or status().
FairScheduler ==
    /\ SchedulerSpec
    /\ \A l \in Loops : WF_schedulerVars(Loop(l)) /\ WF_schedulerVars(Cycle(l))
    /\ \A c \in Callers : WF_schedulerVars(Finish(c))

-----------------------------------------------------------------------------
SchedulerTypeOK ==
    /\ enabled \in BOOLEAN /\ stopEvent \in BOOLEAN
    /\ mem \in Nat /\ disk \in Nat
    /\ stage \in [Runners -> Stages]
    /\ stage[Once] \in {"off", "cycle", "save"}
    /\ ctl \in [Callers -> {"idle", "launch", "stop"}]
    /\ mishaps \in 0..MaxMishaps
    /\ streak \in Nat /\ lost \in Nat
    /\ paged \in BOOLEAN /\ overlapped \in BOOLEAN /\ stopped \in BOOLEAN

\* A streak of failed cycles is alerted once it is AlertAfter failures long,
\* counting out only the failures that a poll, another cycle or a restart
\* forgot between their count and their save, and those whose thread is still
\* on its way to the alert (_record_result, _load_state).
PagedInTime ==
    streak >= AlertAfter + lost + Cardinality(Alerting) => paged

\* As long as nobody called stop() and no two starts overlapped, start() may
\* be called by the startup event, the route and the watchdog any number of
\* times, and one loop at most runs the cycle.
StartIsIdempotent == ~stopped /\ ~overlapped => Cardinality(Live) <= 1

\* A scheduler that was stopped, by calls that did not overlap, and is not
\* started again loses every loop, also one it had started twice.
StoppedLoopsEnd ==
    <>[](~enabled /\ ~overlapped /\ \A c \in Callers : ctl[c] = "idle")
        => <>[](Live = {})

\* A start that overlaps no other call gets a cycle run: unless it is stopped,
\* or an exception kills the loop in its handler, or the process restarts.
StartedLoopsRun ==
    enabled /\ ~overlapped
        ~> \/ \E l \in Loops : stage[l] \in {"cycle", "killed"}
           \/ ~enabled \/ overlapped
=============================================================================

---------------------------- MODULE CycleProofs ----------------------------
(***************************************************************************)
(* Proofs about the threads that run the trading cycle and about the halt   *)
(* their cycles call.  The first part is about Scheduler, for every set of  *)
(* threads and callers and every alert threshold; the second about          *)
(* DailyHalt, for every set of threads, limit and number of days.  The two  *)
(* components share no variable.                                            *)
(***************************************************************************)
EXTENDS Scheduler, DailyHalt, FiniteSetTheorems, TLAPS

-----------------------------------------------------------------------------
(* Scheduler: what the state is made of. *)

\* The threads on their way to the alert are finitely many, before a step and
\* after it.
LEMMA AlertingCount ==
    /\ IsFiniteSet(Alerting) /\ Cardinality(Alerting) \in Nat
    /\ IsFiniteSet(Alerting') /\ Cardinality(Alerting') \in Nat
<1>1. Alerting \subseteq Loops /\ Alerting' \subseteq Loops
  BY DEF Alerting
<1>2. IsFiniteSet(Alerting) /\ IsFiniteSet(Alerting')
  BY <1>1, FS_Subset, SchedulerAssumption
<1> HIDE DEF Alerting
<1> QED
  BY <1>2, FS_CardinalityType

LEMMA UnsavedIsNat == SchedulerTypeOK => Unsaved \in Nat /\ Unsaved + disk >= mem
BY DEF SchedulerTypeOK, Unsaved

LEMMA LargerOfTwo == \A a, b \in Nat : Max({a, b}) \in Nat /\ Max({a, b}) >= a /\ Max({a, b}) >= b
<1> SUFFICES ASSUME NEW a \in Nat, NEW b \in Nat
             PROVE  Max({a, b}) \in Nat /\ Max({a, b}) >= a /\ Max({a, b}) >= b
  OBVIOUS
<1>1. \E x \in {a, b} : \A y \in {a, b} : x >= y
  <2>1. CASE a >= b
    BY <2>1
  <2>2. CASE b >= a
    BY <2>2
  <2> QED
    BY <2>1, <2>2
<1>2. Max({a, b}) \in {a, b} /\ \A y \in {a, b} : Max({a, b}) >= y
  BY <1>1 DEF Max
<1> QED
  BY <1>2

LEMMA SchedulerInitTypes == SchedulerInit => SchedulerTypeOK
<1> SUFFICES ASSUME SchedulerInit PROVE SchedulerTypeOK
  OBVIOUS
<1>1. stage \in [Runners -> Stages] /\ stage[Once] \in {"off", "cycle", "save"}
  BY DEF SchedulerInit, Runners, Stages
<1>2. ctl \in [Callers -> {"idle", "launch", "stop"}]
  BY DEF SchedulerInit
<1>3. /\ enabled \in BOOLEAN /\ stopEvent \in BOOLEAN
      /\ paged \in BOOLEAN /\ overlapped \in BOOLEAN /\ stopped \in BOOLEAN
  BY DEF SchedulerInit
<1>4. mem \in Nat /\ disk \in Nat /\ streak \in Nat /\ lost \in Nat
  BY DEF SchedulerInit
<1>5. mishaps \in 0..MaxMishaps
  BY SchedulerAssumption DEF SchedulerInit
<1> QED
  BY <1>1, <1>2, <1>3, <1>4, <1>5 DEF SchedulerTypeOK

\* What a step writes into the class and the file stays a count.
LEMMA LoadTypes == SchedulerTypeOK /\ Load => mem' \in Nat /\ disk' \in Nat /\ streak' \in Nat /\ lost' \in Nat /\ paged' \in BOOLEAN
BY UnsavedIsNat DEF Load, SchedulerTypeOK

LEMMA LoopTypes == \A l \in Loops : SchedulerTypeOK /\ Loop(l) => SchedulerTypeOK'
<1> SUFFICES ASSUME NEW l \in Loops, SchedulerTypeOK, Loop(l)
             PROVE  SchedulerTypeOK'
  OBVIOUS
<1> USE SchedulerAssumption DEF Enter, Runners, Stages, control, counts
<1>1. CASE Begin(l)
  <2>1. mem' \in Nat /\ disk' \in Nat /\ streak' \in Nat /\ lost' \in Nat /\ paged' \in BOOLEAN
    BY <1>1, LoadTypes DEF Begin
  <2> QED
    BY <1>1, <2>1 DEF Begin, SchedulerTypeOK
<1>2. CASE Leave(l)
  BY <1>2 DEF Leave, SchedulerTypeOK
<1>3. CASE Alert(l)
  BY <1>3 DEF Alert, SchedulerTypeOK
<1>4. CASE SaveFailed(l)
  BY <1>4 DEF SaveFailed, Save, Mishap, SchedulerTypeOK
<1> QED
  BY <1>1, <1>2, <1>3, <1>4 DEF Loop

LEMMA CycleTypes == \A t \in Runners : SchedulerTypeOK /\ Cycle(t) => SchedulerTypeOK'
<1> SUFFICES ASSUME NEW t \in Runners, SchedulerTypeOK, Cycle(t)
             PROVE  SchedulerTypeOK'
  OBVIOUS
<1> USE SchedulerAssumption DEF Enter, Runners, Stages, control, counts
<1>1. CASE RecordComplete(t)
  BY <1>1 DEF RecordComplete, SchedulerTypeOK
<1>2. CASE Fail(t)
  BY <1>2 DEF Fail, Raise, SchedulerTypeOK
<1>3. CASE SaveComplete(t)
  <2>1. CASE Save /\ Enter(t, IF t = Once THEN "off" ELSE "wait") /\ UNCHANGED mishaps
    BY <1>3, <2>1 DEF SaveComplete, Save, SchedulerTypeOK
  <2>2. CASE Mishap /\ Raise(t) /\ disk' \in {disk, mem}
    BY <1>3, <2>2 DEF SaveComplete, Mishap, Raise, SchedulerTypeOK
  <2> QED
    BY <1>3, <2>1, <2>2 DEF SaveComplete
<1> QED
  BY <1>1, <1>2, <1>3 DEF Cycle

LEMMA StartTypes == \A c \in Callers : SchedulerTypeOK /\ Start(c) => SchedulerTypeOK'
<1> SUFFICES ASSUME NEW c \in Callers, SchedulerTypeOK, Start(c)
             PROVE  SchedulerTypeOK'
  OBVIOUS
<1>1. CASE enabled /\ Load /\ UNCHANGED control
  <2>1. mem' \in Nat /\ disk' \in Nat /\ streak' \in Nat /\ lost' \in Nat /\ paged' \in BOOLEAN
    BY <1>1, LoadTypes
  <2> QED
    BY <1>1, <2>1 DEF Start, control, SchedulerTypeOK
<1>2. CASE ~enabled
  BY <1>2 DEF Start, Overlap, counts, control, SchedulerTypeOK
<1> QED
  BY <1>1, <1>2 DEF Start

LEMMA CallTypes == \A c \in Callers : SchedulerTypeOK /\ (Stop(c) \/ Finish(c)) => SchedulerTypeOK'
<1> SUFFICES ASSUME NEW c \in Callers, SchedulerTypeOK, Stop(c) \/ Finish(c)
             PROVE  SchedulerTypeOK'
  OBVIOUS
<1>1. CASE Stop(c)
  BY <1>1 DEF Stop, Overlap, counts, SchedulerTypeOK
<1>2. CASE Launch(c)
  BY <1>2, SchedulerAssumption DEF Launch, Enter, Runners, Stages, counts, SchedulerTypeOK
<1>3. CASE SetEvent(c)
  BY <1>3 DEF SetEvent, counts, SchedulerTypeOK
<1> QED
  BY <1>1, <1>2, <1>3 DEF Finish

LEMMA RequestTypes == SchedulerTypeOK /\ (BeginOnce \/ Status \/ Restart) => SchedulerTypeOK'
<1> SUFFICES ASSUME SchedulerTypeOK, BeginOnce \/ Status \/ Restart
             PROVE  SchedulerTypeOK'
  OBVIOUS
<1>1. CASE BeginOnce \/ Status
  <2>1. mem' \in Nat /\ disk' \in Nat /\ streak' \in Nat /\ lost' \in Nat /\ paged' \in BOOLEAN
    BY <1>1, LoadTypes DEF BeginOnce, Status
  <2> QED
    BY <1>1, <2>1, SchedulerAssumption
    DEF BeginOnce, Status, Enter, Runners, Stages, control, SchedulerTypeOK
<1>2. CASE Restart
  <2>1. lost' \in Nat
    BY <1>2, UnsavedIsNat, AlertingCount, LargerOfTwo DEF Restart, SchedulerTypeOK
  <2>2. /\ stage' \in [Runners -> Stages]
        /\ stage'[Once] \in {"off", "cycle", "save"}
        /\ ctl' \in [Callers -> {"idle", "launch", "stop"}]
    BY <1>2 DEF Restart, Runners, Stages
  <2>3. mishaps' \in 0..MaxMishaps
    BY <1>2, SchedulerAssumption DEF Restart, Mishap, SchedulerTypeOK
  <2> QED
    BY <1>2, <2>1, <2>2, <2>3 DEF Restart, SchedulerTypeOK
<1> QED
  BY <1>1, <1>2

LEMMA SchedulerTypesHold == SchedulerTypeOK /\ [SchedulerNext]_schedulerVars => SchedulerTypeOK'
<1>1. SchedulerTypeOK /\ UNCHANGED schedulerVars => SchedulerTypeOK'
  BY DEF schedulerVars, control, counts, SchedulerTypeOK
<1> QED
  BY <1>1, LoopTypes, CycleTypes, StartTypes, CallTypes, RequestTypes DEF SchedulerNext, Watchdog

\* The threads, calls and counters keep their types, for every set of threads
\* and callers and any number of failures (BackgroundSchedulerService).
THEOREM SchedulerTypeCorrect == SchedulerSpec => []SchedulerTypeOK
<1> QED
  BY SchedulerInitTypes, SchedulerTypesHold, PTL DEF SchedulerSpec
-----------------------------------------------------------------------------
(* Scheduler: one loop at most. *)

\* Without a stop and without two calls at once, a call in progress is alone,
\* it finds no loop, and a scheduler that is not enabled has none.
OneLoop ==
    ~stopped /\ ~overlapped =>
        /\ \A c \in Callers : ctl[c] # "stop"
        /\ \A c, d \in Callers : ctl[c] # "idle" /\ ctl[d] # "idle" => c = d
        /\ ~enabled => Live = {} /\ \A c \in Callers : ctl[c] = "idle"
        /\ (\E c \in Callers : ctl[c] = "launch") => Live = {}
        /\ \A l, m \in Live : l = m

\* A step of a thread that starts no loop and leaves the calls alone.
LEMMA FewerLoops == OneLoop /\ UNCHANGED control /\ Live' \subseteq Live => OneLoop'
<1> HIDE DEF Live
<1> QED
  BY DEF OneLoop, control

LEMMA LoopKeepsOneLoop == \A l \in Loops : SchedulerTypeOK /\ Loop(l) => UNCHANGED control /\ Live' \subseteq Live
BY DEF Loop, Begin, Leave, Alert, SaveFailed, Enter, Live, Dead, SchedulerTypeOK, Runners, control

LEMMA CycleKeepsOneLoop == \A t \in Runners : SchedulerTypeOK /\ Cycle(t) => UNCHANGED control /\ Live' \subseteq Live
BY SchedulerAssumption
DEF Cycle, RecordComplete, Fail, Raise, SaveComplete, Enter, Live, Dead, SchedulerTypeOK, Runners, control

LEMMA StartKeepsOneLoop == \A c \in Callers : SchedulerTypeOK /\ OneLoop /\ Start(c) => OneLoop'
<1> SUFFICES ASSUME NEW c \in Callers, SchedulerTypeOK, OneLoop, Start(c)
             PROVE  OneLoop'
  OBVIOUS
<1>1. Live' = Live
  BY DEF Start, Live
<1>2. CASE enabled
  BY <1>1, <1>2, FewerLoops DEF Start
<1>3. CASE ~enabled
  <2> HIDE DEF Live
  <2>1. ctl' = [ctl EXCEPT ![c] = "launch"] /\ enabled' /\ Overlap /\ UNCHANGED stopped
    BY <1>3 DEF Start
  <2> SUFFICES ASSUME ~stopped', ~overlapped' PROVE OneLoop'
    BY DEF OneLoop
  <2>2. ~stopped /\ ~overlapped /\ \A d \in Callers : ctl[d] = "idle"
    BY <2>1 DEF Overlap
  <2>3. Live = {}
    BY <2>2, <1>3 DEF OneLoop
  <2> QED
    BY <1>1, <2>1, <2>2, <2>3 DEF OneLoop, SchedulerTypeOK
<1> QED
  BY <1>2, <1>3

LEMMA FinishKeepsOneLoop == \A c \in Callers : SchedulerTypeOK /\ OneLoop /\ (Stop(c) \/ Finish(c)) => OneLoop'
<1> SUFFICES ASSUME NEW c \in Callers, SchedulerTypeOK, OneLoop, Stop(c) \/ Finish(c), ~stopped', ~overlapped'
             PROVE  OneLoop'
  BY DEF OneLoop
<1>1. ~Stop(c)
  BY DEF Stop
<1>2. CASE Launch(c)
  <2>1. ~stopped /\ ~overlapped /\ ctl' = [ctl EXCEPT ![c] = "idle"] /\ UNCHANGED enabled /\ ctl[c] = "launch"
    BY <1>2 DEF Launch
  <2>2. Live = {} /\ enabled /\ \A d \in Callers : d # c => ctl[d] = "idle"
    BY <2>1 DEF OneLoop
  <2>3. PICK l \in Loops : Enter(l, "wait")
    BY <1>2 DEF Launch
  <2>4. Live' \subseteq {l}
    BY <2>2, <2>3 DEF Live, Enter, Dead, SchedulerTypeOK, Runners
  <2>5. \A d \in Callers : ctl'[d] = "idle"
    BY <2>1, <2>2 DEF SchedulerTypeOK
  <2> HIDE DEF Live
  <2> QED
    BY <2>1, <2>2, <2>4, <2>5 DEF OneLoop
<1>3. CASE SetEvent(c)
  BY <1>3 DEF SetEvent, OneLoop
<1> QED
  BY <1>1, <1>2, <1>3 DEF Finish

LEMMA RequestKeepsOneLoop == SchedulerTypeOK /\ OneLoop /\ (BeginOnce \/ Status \/ Restart) => OneLoop'
<1> SUFFICES ASSUME SchedulerTypeOK, OneLoop, BeginOnce \/ Status \/ Restart
             PROVE  OneLoop'
  OBVIOUS
<1>1. CASE BeginOnce
  BY <1>1, FewerLoops, SchedulerAssumption DEF BeginOnce, Enter, Live, Runners, SchedulerTypeOK, control
<1>2. CASE Status
  BY <1>2, FewerLoops DEF Status, Live
<1>3. CASE Restart
  <2>1. ctl' = [d \in Callers |-> "idle"] /\ Live' = {}
    BY <1>3 DEF Restart, Live, Dead, Runners
  <2> HIDE DEF Live
  <2> QED
    BY <2>1 DEF OneLoop
<1> QED
  BY <1>1, <1>2, <1>3

LEMMA OneLoopHolds == SchedulerTypeOK /\ OneLoop /\ [SchedulerNext]_schedulerVars => OneLoop'
<1>1. UNCHANGED schedulerVars => UNCHANGED control /\ Live' \subseteq Live
  BY DEF schedulerVars, control, Live
<1> QED
  BY <1>1, FewerLoops, LoopKeepsOneLoop, CycleKeepsOneLoop, StartKeepsOneLoop,
     FinishKeepsOneLoop, RequestKeepsOneLoop DEF SchedulerNext, Watchdog

LEMMA OneLoopAtFirst == SchedulerInit => OneLoop
BY DEF SchedulerInit, OneLoop, Live, Dead, Runners

LEMMA OneLoopIsIdempotent == OneLoop => StartIsIdempotent
<1> SUFFICES ASSUME OneLoop, ~stopped, ~overlapped PROVE Cardinality(Live) <= 1
  BY DEF StartIsIdempotent
<1>1. \A l, m \in Live : l = m
  BY DEF OneLoop
<1>2. CASE Live = {}
  BY <1>2, FS_EmptySet
<1>3. CASE Live # {}
  <2>1. PICK l \in Live : TRUE
    BY <1>3
  <2>2. Live = {l}
    BY <1>1, <2>1
  <2>3. Cardinality({l}) = 1
    BY FS_Singleton
  <2> QED
    BY <2>2, <2>3
<1> QED
  BY <1>2, <1>3

\* However many callers start the scheduler, from a request, the startup event
\* or the watchdog, one loop at most runs the cycle: unless somebody called
\* stop() or two of the calls overlapped (start).
THEOREM OneLoopRuns == SchedulerSpec => []StartIsIdempotent
<1>1. SchedulerSpec => []OneLoop
  BY SchedulerTypeCorrect, OneLoopAtFirst, OneLoopHolds, PTL DEF SchedulerSpec
<1> QED
  BY <1>1, OneLoopIsIdempotent, PTL

-----------------------------------------------------------------------------
(* Scheduler: the alert. *)

Counting == {"cycle", "save", "alert", "saveFailed"}

\* The failures of the streak are counted or forgotten: in the class or in the
\* file, and in the class while a thread works on the count.
Counted ==
    /\ mem + lost >= streak \/ disk + lost >= streak
    /\ (\E t \in Runners : stage[t] \in Counting) => mem + lost >= streak

PagingInv == Counted /\ PagedInTime

LEMMA LoadCounts == SchedulerTypeOK /\ Counted /\ Load => mem' + lost' >= streak'
<1> SUFFICES ASSUME SchedulerTypeOK, Counted, Load PROVE mem' + lost' >= streak'
  OBVIOUS
<1>1. mem + lost >= streak \/ disk + lost >= streak
  BY DEF Counted
<1>2. Unsaved \in Nat /\ Unsaved + disk >= mem
  BY UnsavedIsNat
<1> HIDE DEF Unsaved
<1> QED
  BY <1>1, <1>2 DEF Load, SchedulerTypeOK

\* A load forgets failures, it never adds one, and it pages nobody.
LEMMA LoadPages == SchedulerTypeOK /\ PagingInv /\ Load /\ Alerting' = Alerting => PagingInv'
<1> SUFFICES ASSUME SchedulerTypeOK, PagingInv, Load, Alerting' = Alerting PROVE PagingInv'
  OBVIOUS
<1> HIDE DEF Alerting, Unsaved
<1>1. Counted'
  BY LoadCounts DEF PagingInv, Counted
<1>2. Unsaved \in Nat /\ Cardinality(Alerting) \in Nat
  BY UnsavedIsNat, AlertingCount
<1>3. PagedInTime'
  BY <1>2, SchedulerAssumption DEF Load, PagingInv, PagedInTime, SchedulerTypeOK
<1> QED
  BY <1>1, <1>3 DEF PagingInv
LEMMA LoopPages == \A l \in Loops : SchedulerTypeOK /\ PagingInv /\ Loop(l) => PagingInv'
<1> SUFFICES ASSUME NEW l \in Loops, SchedulerTypeOK, PagingInv, Loop(l)
             PROVE  PagingInv'
  OBVIOUS
<1>1. l \in Runners /\ stage \in [Runners -> Stages]
  BY DEF Runners, SchedulerTypeOK
<1>2. CASE Begin(l)
  <2>1. Alerting' = Alerting
    BY <1>1, <1>2 DEF Begin, Enter, Alerting, Runners
  <2> QED
    BY <1>2, <2>1, LoadPages DEF Begin
<1>3. CASE Leave(l)
  <2>1. Alerting' = Alerting
    BY <1>1, <1>3 DEF Leave, Enter, Alerting, Runners
  <2>2. \A t \in Runners : stage'[t] \in Counting => stage[t] \in Counting
    BY <1>1, <1>3 DEF Leave, Enter, Counting
  <2> HIDE DEF Alerting
  <2> QED
    BY <1>3, <2>1, <2>2 DEF Leave, PagingInv, Counted, PagedInTime, counts
<1>4. CASE Alert(l)
  <2>1. mem + lost >= streak
    BY <1>1, <1>4 DEF Alert, PagingInv, Counted, Counting
  <2>2. Cardinality(Alerting') \in Nat
    BY AlertingCount
  <2>3. UNCHANGED <<mem, disk, streak, lost>> /\ paged' = (paged \/ mem >= AlertAfter)
    BY <1>4 DEF Alert
  <2> HIDE DEF Alerting
  <2>4. PagedInTime'
    <3>1. CASE mem >= AlertAfter
      BY <2>3, <3>1 DEF PagedInTime
    <3>2. CASE mem < AlertAfter
      <4>1. streak' < AlertAfter + lost' + Cardinality(Alerting')
        BY <2>1, <2>2, <2>3, <3>2, SchedulerAssumption DEF SchedulerTypeOK
      <4> QED
        BY <4>1, <2>2, <2>3, SchedulerAssumption DEF PagedInTime, SchedulerTypeOK
    <3> QED
      BY <3>1, <3>2, SchedulerAssumption DEF SchedulerTypeOK
  <2>5. Counted'
    BY <2>1, <2>3 DEF Counted
  <2> QED
    BY <2>4, <2>5 DEF PagingInv
<1>5. CASE SaveFailed(l)
  <2>1. Alerting' = Alerting
    BY <1>1, <1>5 DEF SaveFailed, Enter, Alerting, Runners
  <2>2. mem + lost >= streak
    BY <1>1, <1>5 DEF SaveFailed, PagingInv, Counted, Counting
  <2>3. UNCHANGED <<mem, streak, lost, paged>>
    BY <1>5 DEF SaveFailed, Save, counts
  <2> HIDE DEF Alerting
  <2> QED
    BY <2>1, <2>2, <2>3 DEF PagingInv, Counted, PagedInTime
<1> QED
  BY <1>2, <1>3, <1>4, <1>5 DEF Loop

\* A failed cycle of the loop is one failure more and one alert on its way.
LEMMA RaisePages == \A t \in Runners :
    /\ SchedulerTypeOK /\ PagingInv /\ Raise(t)
    /\ stage[t] \in {"cycle", "save"} /\ disk' \in {disk, mem}
    => PagingInv'
<1> SUFFICES ASSUME NEW t \in Runners, SchedulerTypeOK, PagingInv, Raise(t),
                    stage[t] \in {"cycle", "save"}, disk' \in {disk, mem}
             PROVE  PagingInv'
  OBVIOUS
<1>1. stage \in [Runners -> Stages] /\ mem + lost >= streak
  BY DEF SchedulerTypeOK, PagingInv, Counted, Counting
<1>2. IsFiniteSet(Alerting) /\ Cardinality(Alerting) \in Nat
  BY AlertingCount
<1>3. CASE t = Once
  <2>1. Alerting' = Alerting
    BY <1>1, <1>3, SchedulerAssumption DEF Raise, Enter, Alerting, Runners
  <2> HIDE DEF Alerting
  <2> QED
    BY <1>1, <1>3, <2>1 DEF Raise, PagingInv, Counted, PagedInTime
<1>4. CASE t # Once
  <2>1. Alerting' = Alerting \cup {t} /\ t \notin Alerting
    BY <1>1, <1>4 DEF Raise, Enter, Alerting, Runners
  <2>2. mem' = mem + 1 /\ streak' = streak + 1 /\ UNCHANGED <<lost, paged>>
    BY <1>4 DEF Raise
  <2> HIDE DEF Alerting
  <2>3. Cardinality(Alerting') = Cardinality(Alerting) + 1
    BY <1>2, <2>1, FS_AddElement
  <2>4. mem' + lost' >= streak'
    BY <1>1, <2>2 DEF SchedulerTypeOK
  <2>5. PagedInTime'
    BY <1>2, <2>2, <2>3, SchedulerAssumption DEF PagingInv, PagedInTime, SchedulerTypeOK
  <2> QED
    BY <2>4, <2>5 DEF PagingInv, Counted
<1> QED
  BY <1>3, <1>4

LEMMA CyclePages == \A t \in Runners : SchedulerTypeOK /\ PagingInv /\ Cycle(t) => PagingInv'
<1> SUFFICES ASSUME NEW t \in Runners, SchedulerTypeOK, PagingInv, Cycle(t)
             PROVE  PagingInv'
  OBVIOUS
<1>1. stage \in [Runners -> Stages]
  BY DEF SchedulerTypeOK
<1>2. CASE RecordComplete(t)
  <2>1. mem' = 0 /\ streak' = 0 /\ lost' = 0 /\ ~paged' /\ UNCHANGED disk
    BY <1>2 DEF RecordComplete
  <2>2. Cardinality(Alerting') \in Nat
    BY AlertingCount
  <2> HIDE DEF Alerting
  <2> QED
    BY <2>1, <2>2, SchedulerAssumption DEF PagingInv, Counted, PagedInTime, SchedulerTypeOK
<1>3. CASE Fail(t)
  BY <1>3, RaisePages DEF Fail
<1>4. CASE SaveComplete(t)
  <2>1. CASE Save /\ Enter(t, IF t = Once THEN "off" ELSE "wait")
    <3>1. Alerting' = Alerting
      BY <1>1, <1>4, <2>1 DEF SaveComplete, Enter, Alerting, Runners
    <3>2. mem + lost >= streak
      BY <1>4 DEF SaveComplete, PagingInv, Counted, Counting
    <3> HIDE DEF Alerting
    <3> QED
      BY <2>1, <3>1, <3>2 DEF Save, PagingInv, Counted, PagedInTime
  <2>2. CASE Raise(t) /\ disk' \in {disk, mem}
    BY <1>4, <2>2, RaisePages DEF SaveComplete
  <2> QED
    BY <1>4, <2>1, <2>2 DEF SaveComplete
<1> QED
  BY <1>2, <1>3, <1>4 DEF Cycle

LEMMA StillPages == PagingInv /\ UNCHANGED <<counts, stage>> => PagingInv'
BY DEF PagingInv, Counted, PagedInTime, Alerting, counts

LEMMA CallPages == \A c \in Callers : SchedulerTypeOK /\ PagingInv /\ (Start(c) \/ Stop(c) \/ Finish(c)) => PagingInv'
<1> SUFFICES ASSUME NEW c \in Callers, SchedulerTypeOK, PagingInv, Start(c) \/ Stop(c) \/ Finish(c)
             PROVE  PagingInv'
  OBVIOUS
<1>1. CASE Start(c)
  <2>1. CASE Load
    BY <1>1, <2>1, LoadPages DEF Start, Alerting
  <2>2. CASE UNCHANGED counts
    BY <1>1, <2>2, StillPages DEF Start
  <2> QED
    BY <1>1, <2>1, <2>2 DEF Start
<1>2. CASE Stop(c) \/ SetEvent(c)
  BY <1>2, StillPages DEF Stop, SetEvent
<1>3. CASE Launch(c)
  <2>1. PICK l \in Loops : stage[l] \in Dead /\ Enter(l, "wait")
    BY <1>3 DEF Launch
  <2>2. stage \in [Runners -> Stages] /\ l \in Runners
    BY DEF SchedulerTypeOK, Runners
  <2>3. Alerting' = Alerting
    BY <2>1, <2>2 DEF Enter, Alerting, Dead, Runners
  <2>4. \A t \in Runners : stage'[t] \in Counting => stage[t] \in Counting
    BY <2>1, <2>2 DEF Enter, Counting
  <2> HIDE DEF Alerting
  <2> QED
    BY <1>3, <2>3, <2>4 DEF Launch, PagingInv, Counted, PagedInTime, counts
<1> QED
  BY <1>1, <1>2, <1>3 DEF Finish

LEMMA RequestPages == SchedulerTypeOK /\ PagingInv /\ (BeginOnce \/ Status \/ Restart) => PagingInv'
<1> SUFFICES ASSUME SchedulerTypeOK, PagingInv, BeginOnce \/ Status \/ Restart
             PROVE  PagingInv'
  OBVIOUS
<1>1. CASE BeginOnce
  <2>1. Alerting' = Alerting
    BY <1>1, SchedulerAssumption DEF BeginOnce, Enter, Alerting, Runners, SchedulerTypeOK
  <2> QED
    BY <1>1, <2>1, LoadPages DEF BeginOnce
<1>2. CASE Status
  BY <1>2, LoadPages DEF Status, Alerting
<1>3. CASE Restart
  <2>1. \A t \in Runners : stage'[t] = "off"
    BY <1>3 DEF Restart
  <2>2. Alerting' = {}
    BY <2>1 DEF Alerting, Runners
  <2>3. Unsaved \in Nat /\ Unsaved + disk >= mem /\ Cardinality(Alerting) \in Nat
    BY UnsavedIsNat, AlertingCount
  <2>4. /\ Max({Unsaved, Cardinality(Alerting)}) \in Nat
        /\ Max({Unsaved, Cardinality(Alerting)}) >= Unsaved
        /\ Max({Unsaved, Cardinality(Alerting)}) >= Cardinality(Alerting)
    BY <2>3, LargerOfTwo
  <2>5. mem' = 0 /\ lost' = lost + Max({Unsaved, Cardinality(Alerting)}) /\ UNCHANGED <<disk, streak, paged>>
    BY <1>3 DEF Restart
  <2>6. Cardinality(Alerting') = 0
    BY <2>2, FS_EmptySet
  <2> DEFINE extra == Max({Unsaved, Cardinality(Alerting)})
             alerts == Cardinality(Alerting)
             missing == Unsaved
  <2> HIDE DEF Alerting, Unsaved
  <2>7. /\ extra \in Nat /\ extra >= alerts /\ extra >= missing
        /\ alerts \in Nat /\ missing \in Nat /\ missing + disk >= mem /\ lost' = lost + extra
    BY <2>3, <2>4, <2>5
  <2>8. streak >= AlertAfter + lost + alerts => paged
    BY DEF PagingInv, PagedInTime
  <2> HIDE DEF extra, alerts, missing
  <2>9. PagedInTime'
    BY <2>5, <2>6, <2>7, <2>8, SchedulerAssumption DEF PagedInTime, SchedulerTypeOK
  <2>10. disk' + lost' >= streak'
    BY <2>5, <2>7 DEF PagingInv, Counted, SchedulerTypeOK
  <2> QED
    BY <2>1, <2>9, <2>10 DEF PagingInv, Counted, Counting
<1> QED
  BY <1>1, <1>2, <1>3

LEMMA PagingHolds == SchedulerTypeOK /\ PagingInv /\ [SchedulerNext]_schedulerVars => PagingInv'
<1>1. UNCHANGED schedulerVars => UNCHANGED <<counts, stage>>
  BY DEF schedulerVars
<1> QED
  BY <1>1, StillPages, LoopPages, CyclePages, CallPages, RequestPages DEF SchedulerNext, Watchdog

LEMMA PagingAtFirst == SchedulerInit => PagingInv
<1> SUFFICES ASSUME SchedulerInit PROVE PagingInv
  OBVIOUS
<1>1. SchedulerTypeOK
  BY SchedulerInitTypes
<1>2. Cardinality(Alerting) \in Nat
  BY <1>1, AlertingCount
<1> HIDE DEF Alerting
<1> QED
  BY <1>2, SchedulerAssumption DEF SchedulerInit, PagingInv, Counted, PagedInTime

\* The operator is paged for a streak of AlertAfter failed cycles, whatever
\* threads run them, except for the failures that a load from the file really
\* forgot and those whose thread has not come to the alert (_record_result).
THEOREM PagesInTime == SchedulerSpec => []PagedInTime
<1>1. SchedulerSpec => []PagingInv
  BY SchedulerTypeCorrect, PagingAtFirst, PagingHolds, PTL DEF SchedulerSpec
<1> QED
  BY <1>1, PTL DEF PagingInv

-----------------------------------------------------------------------------
(* DailyHalt: what the state is made of. *)

Act(t) == Ask(t) \/ Post(t) \/ Govern(t)

\* What an equity is read to be.
LEMMA LevelFacts ==
    /\ 0 \in Levels /\ Levels \subseteq Int
    /\ Unread \in [equity : Levels, ok : BOOLEAN, date : 0..MaxDay]
<1>1. 0 \in 0..MaxDay
  BY BoundAssumption
<1> QED
  BY <1>1, HaltAssumption DEF Levels, Unread

LEMMA InitTypes == Init => TypeOK
<1> SUFFICES ASSUME Init PROVE TypeOK
  OBVIOUS
<1>1. /\ day \in Days /\ worth \in Levels /\ realized \in Levels /\ flat \in BOOLEAN /\ high \in Levels /\ low \in Levels
      /\ marker \in 0..MaxDay \cup {Torn} /\ faults \in 0..MaxFaults /\ marked \in 0..MaxDay
  BY LevelFacts, BoundAssumption DEF Init, Days
<1>2. sod \in [date : 0..MaxDay, equity : Levels]
  BY LevelFacts, BoundAssumption DEF Init
<1>3. pc \in [Threads -> Steps]
  BY DEF Init, Steps
<1>4. seen \in [Threads -> [equity : Levels, ok : BOOLEAN, date : 0..MaxDay]]
  BY LevelFacts DEF Init
<1>5. /\ counted \in BOOLEAN /\ slipped \subseteq Threads /\ again \in BOOLEAN
      /\ blind \in BOOLEAN /\ fooled \in BOOLEAN
  BY DEF Init
<1> QED
  BY <1>1, <1>2, <1>3, <1>4, <1>5 DEF TypeOK

LEMMA WorldTypes == TypeOK /\ World => TypeOK'
<1> SUFFICES ASSUME TypeOK, World PROVE TypeOK'
  OBVIOUS
<1> USE LevelFacts, BoundAssumption DEF TypeOK, Days, Steps
<1>1. CASE WorthMoves
  BY <1>1 DEF WorthMoves, files, orders, Levels
<1>2. CASE NewDay
  <2>1. day' \in Days
    BY <1>2 DEF NewDay
  <2>2. fooled' \in BOOLEAN
    BY <1>2 DEF NewDay
  <2>3. UNCHANGED <<worth, realized, flat, sod, marker, counted, pc, seen, faults, marked>>
    BY <1>2 DEF NewDay, files, account
  <2>4. /\ high' \in Levels /\ low' \in Levels /\ slipped' \subseteq Threads
        /\ again' \in BOOLEAN /\ blind' \in BOOLEAN
    BY <1>2 DEF NewDay
  <2> QED
    BY <2>1, <2>2, <2>3, <2>4
<1>3. CASE CountAges
  BY <1>3 DEF CountAges, files, book, account, orders
<1>4. CASE Crash
  BY <1>4 DEF Crash, Fault, files, book, account, orders
<1>5. CASE PositionsChange
  BY <1>5 DEF PositionsChange, files, orders
<1> QED
  BY <1>1, <1>2, <1>3, <1>4, <1>5 DEF World

LEMMA ActTypes == ASSUME TypeOK, NEW t \in Threads, Act(t) PROVE TypeOK'
<1> USE LevelFacts, BoundAssumption DEF TypeOK, Days, Steps
<1>1. CASE Ask(t)
  BY <1>1 DEF Ask, Goto, files, book, account
<1>2. CASE Post(t)
  BY <1>2 DEF Post, Goto, files, book, account
<1>3. CASE StartPass(t)
  BY <1>3 DEF StartPass, Goto, files, book, account, orders
<1>4. CASE ReadBook(t)
  <2>1. PICK e \in Levels, k \in BOOLEAN : Reads(t, e, k)
    BY <1>4 DEF ReadBook
  <2>2. seen' \in [Threads -> [equity : Levels, ok : BOOLEAN, date : 0..MaxDay]]
    BY <2>1 DEF Reads, Unread
  <2>3. pc' \in [Threads -> Steps]
    BY <1>4 DEF ReadBook, Reads, Goto
  <2>4. faults' \in 0..MaxFaults
    <3>1. faults' = faults \/ Fault
      BY <1>4, Zenon DEF ReadBook
    <3> QED
      BY <3>1 DEF Fault
  <2>5. counted' \in BOOLEAN /\ fooled' \in BOOLEAN
    BY <1>4 DEF ReadBook
  <2>6. UNCHANGED <<book, files, marked, orders>>
    BY <1>4 DEF ReadBook, Reads
  <2> QED
    BY <2>2, <2>3, <2>4, <2>5, <2>6 DEF book, account, files, orders
<1>5. CASE Baseline(t)
  BY <1>5 DEF Baseline, Goto, Forget, TakeDate, book, account, orders
<1>6. CASE Record(t)
  BY <1>6 DEF Record, Goto, Forget, book, account, orders
<1>7. CASE TruncateMarker(t)
  BY <1>7 DEF TruncateMarker, Goto, TakeDate, book, account, orders
<1>8. CASE WriteMarker(t)
  BY <1>8 DEF WriteMarker, Goto, Forget, book, account, orders
<1> QED
  BY <1>1, <1>2, <1>3, <1>4, <1>5, <1>6, <1>7, <1>8 DEF Act, Govern

LEMMA StutterTypes == TypeOK /\ UNCHANGED vars => TypeOK'
BY DEF TypeOK, vars, book, account, files, orders

\* Every variable of the governor and the gate keeps its type.
THEOREM TypeCorrect == Spec => []TypeOK
<1>1. TypeOK /\ [Next]_vars => TypeOK'
  BY WorldTypes, ActTypes, StutterTypes DEF Next, Act
<1> QED
  BY InitTypes, <1>1, PTL DEF Spec

-----------------------------------------------------------------------------
(* DailyHalt: the halt holds. *)

\* A halted day keeps its marker, whole or torn, unless a write begun before
\* midnight replaced it; only then is an order counted against it; and whoever
\* has sent one and may send another asked a torn or a replaced marker.
HaltInv ==
    /\ marked <= day
    /\ marked = day => marker \in {day, Torn} \/ blind
    /\ slipped # {} => marked = day
    /\ \A t \in slipped : pc[t] = "post" => blind
    /\ again => blind

LEMMA InitHalt == Init => HaltInv
BY DEF Init, HaltInv

LEMMA WorldHalt == TypeOK /\ HaltInv /\ World => HaltInv'
<1> SUFFICES ASSUME TypeOK, HaltInv, World PROVE HaltInv'
  OBVIOUS
<1>1. CASE WorthMoves
  BY <1>1 DEF WorthMoves, HaltInv, files, orders
<1>2. CASE NewDay
  BY <1>2, BoundAssumption DEF NewDay, HaltInv, TypeOK, Days, files
<1>3. CASE CountAges
  BY <1>3 DEF CountAges, HaltInv, files, book, account, orders
<1>4. CASE Crash
  BY <1>4 DEF Crash, HaltInv, TypeOK, files, book, account, orders
<1>5. CASE PositionsChange
  BY <1>5 DEF PositionsChange, HaltInv, files, orders
<1> QED
  BY <1>1, <1>2, <1>3, <1>4, <1>5 DEF World

\* A step of a thread that neither touches the marker nor leads to an order.
LEMMA QuietHalt ==
    ASSUME TypeOK, HaltInv, NEW t \in Threads, NEW step \in Steps \ {"post"}, Goto(t, step),
           UNCHANGED <<book, marker, marked, orders>>
    PROVE  HaltInv'
BY DEF HaltInv, Goto, TypeOK, book, account, orders

LEMMA ActHalt == ASSUME TypeOK, HaltInv, NEW t \in Threads, Act(t) PROVE HaltInv'
<1>1. CASE Ask(t)
  BY <1>1 DEF Ask, Goto, HaltInv, TypeOK, Halted, files, book, account
<1>2. CASE Post(t)
  BY <1>2 DEF Post, Goto, HaltInv, TypeOK, files, book, account
<1>3. CASE StartPass(t)
  BY <1>3, QuietHalt DEF StartPass, files, Steps
<1>4. CASE ReadBook(t)
  BY <1>4, QuietHalt DEF ReadBook, Reads, files, Steps
<1>5. CASE Baseline(t)
  BY <1>5, QuietHalt DEF Baseline, Steps
<1>6. CASE Record(t)
  BY <1>6, QuietHalt DEF Record, Steps
<1>7. CASE TruncateMarker(t)
  BY <1>7 DEF TruncateMarker, Goto, HaltInv, TypeOK, book, account, orders
<1>8. CASE WriteMarker(t)
  <2>1. /\ pc' = [pc EXCEPT ![t] = "trade"] /\ marker' = seen[t].date
        /\ UNCHANGED <<day, slipped, again>>
    BY <1>8 DEF WriteMarker, Goto, book
  <2>2. \A s \in Threads : pc'[s] = "post" => pc[s] = "post"
    BY <2>1 DEF TypeOK
  <2>3. CASE seen[t].date = day
    <3>1. marker' = day /\ marked' = day /\ (blind => blind')
      BY <1>8, <2>1, <2>3 DEF WriteMarker
    <3>2. marked' <= day'
      BY <2>1, <3>1 DEF TypeOK, Days
    <3> QED
      BY <2>1, <2>2, <3>1, <3>2 DEF HaltInv, TypeOK
  <2>4. CASE seen[t].date # day
    <3>1. marked' = marked /\ (blind => blind') /\ (marked = day => blind')
      BY <1>8, <2>4, Zenon DEF WriteMarker
    <3> QED
      BY <2>1, <2>2, <3>1 DEF HaltInv, TypeOK
  <2> QED
    BY <2>3, <2>4
<1> QED
  BY <1>1, <1>2, <1>3, <1>4, <1>5, <1>6, <1>7, <1>8 DEF Act, Govern

\* Once a day is halted a thread sends at most the one opening order it had
\* asked for, unless it asked while the marker could not be parsed or a write
\* begun before midnight replaced it.
THEOREM HaltCorrect == Spec => []HaltHolds
<1>1. TypeOK /\ HaltInv /\ [Next]_vars => HaltInv'
  <2>1. HaltInv /\ UNCHANGED vars => HaltInv'
    BY DEF HaltInv, vars, book, account, files, orders
  <2> QED
    BY <2>1, WorldHalt, ActHalt DEF Next, Act
<1>2. HaltInv => HaltHolds
  BY DEF HaltInv, HaltHolds
<1> QED
  BY InitHalt, TypeCorrect, <1>1, <1>2, PTL DEF Spec

-----------------------------------------------------------------------------
(* DailyHalt: no halt without a loss. *)

Today(equity) == low <= equity /\ equity <= high

Lost == high - low >= HaltAt

\* What a pass that is past its read carries.
PassSound(t) ==
    /\ pc[t] \in {"baseline", "record", "check", "mark"} /\ seen[t].ok => Today(seen[t].equity)
    /\ pc[t] = "record" => seen[t].ok
    /\ pc[t] \in {"check", "mark"} => Lost

\* As long as nothing was taken for today's equity that is not, all the equities
\* in use lie within today's range, and who is about to mark has seen it move by
\* the limit.
LossInv ==
    /\ marked <= day
    /\ sod # Torn => sod.date <= day
    /\ ~fooled => /\ Today(worth)
                  /\ HasBaseline => Today(sod.equity)
                  /\ \A t \in Threads : PassSound(t)
                  /\ marked = day => Lost

\* A date that a write is about to use is not in the future.
DatesPast == \A t \in Threads : seen[t].date <= day

LEMMA InitDates == Init => DatesPast
BY DEF Init, DatesPast, Unread

LEMMA NextDates == TypeOK /\ DatesPast /\ [Next]_vars => DatesPast'
<1> SUFFICES ASSUME TypeOK, DatesPast, [Next]_vars PROVE DatesPast'
  OBVIOUS
<1>0. day \in Nat /\ Unread.date = 0 /\ seen \in [Threads -> [equity : Levels, ok : BOOLEAN, date : 0..MaxDay]]
  BY BoundAssumption DEF TypeOK, Days, Unread
<1>1. ASSUME UNCHANGED <<day, seen>> PROVE DatesPast'
  BY <1>1 DEF DatesPast
<1>2. ASSUME NEW t \in Threads, NEW u, seen' = [seen EXCEPT ![t] = u], u.date <= day, day' = day
      PROVE  DatesPast'
  BY <1>0, <1>2 DEF DatesPast
<1>3. CASE UNCHANGED vars
  BY <1>1, <1>3 DEF vars, book
<1>4. CASE World
  <2>1. CASE WorthMoves \/ PositionsChange \/ CountAges
    BY <1>1, <2>1 DEF WorthMoves, PositionsChange, CountAges, book
  <2>2. CASE NewDay
    <3>1. day' = day + 1 /\ seen' = seen
      BY <2>2 DEF NewDay
    <3>2. \A t \in Threads : seen[t].date \in Int
      BY <1>0
    <3> QED
      BY <1>0, <3>1, <3>2 DEF DatesPast
  <2>3. CASE Crash
    BY <1>0, <2>3 DEF Crash, DatesPast, book
  <2> QED
    BY <1>4, <2>1, <2>2, <2>3 DEF World
<1>5. ASSUME NEW t \in Threads, Act(t) PROVE DatesPast'
  <2>1. CASE Ask(t) \/ Post(t) \/ StartPass(t)
    BY <1>1, <2>1 DEF Ask, Post, StartPass, book
  <2>2. CASE ReadBook(t)
    <3>1. day' = day
      BY <2>2 DEF ReadBook, Reads, book
    <3>2. PICK e \in Levels, k \in BOOLEAN : Reads(t, e, k)
      BY <2>2, LevelFacts DEF ReadBook, TypeOK
    <3>3. PICK u : seen' = [seen EXCEPT ![t] = u] /\ u.date = 0
      <4>1. [Unread EXCEPT !.equity = e, !.ok = TRUE].date = 0
        BY DEF Unread
      <4>2. Unread.date = 0
        BY DEF Unread
      <4> QED
        BY <3>2, <4>1, <4>2, Zenon DEF Reads
    <3>4. u.date <= day
      BY <1>0, <3>3
    <3> QED
      BY <1>2, <3>1, <3>3, <3>4
  <2>3. CASE Record(t) \/ WriteMarker(t)
    BY <1>0, <1>2, <2>3 DEF Record, WriteMarker, Forget, book
  <2>4. CASE TruncateMarker(t)
    <3>1. day' = day /\ seen' = [seen EXCEPT ![t] = [seen[t] EXCEPT !.date = day]]
      BY <2>4 DEF TruncateMarker, TakeDate, book
    <3>2. [seen[t] EXCEPT !.date = day].date <= day
      BY <1>0
    <3> QED
      BY <1>2, <3>1, <3>2
  <2>5. CASE Baseline(t)
    <3>1. day' = day /\ (seen' = seen \/ TakeDate(t) \/ Forget(t))
      BY <2>5 DEF Baseline, book
    <3>2. [seen[t] EXCEPT !.date = day].date <= day
      BY <1>0
    <3> QED
      BY <1>0, <1>1, <1>2, <3>1, <3>2 DEF TakeDate, Forget
  <2> QED
    BY <1>5, <2>1, <2>2, <2>3, <2>4, <2>5 DEF Act, Govern
<1> QED
  BY <1>3, <1>4, <1>5 DEF Next, Act

LEMMA InitLoss == Init => LossInv
BY TornAssumption DEF Init, LossInv, Today, HasBaseline, PassSound, Unread

LEMMA WorldLoss == TypeOK /\ LossInv /\ World => LossInv'
<1> SUFFICES ASSUME TypeOK, LossInv, World PROVE LossInv'
  OBVIOUS
<1> USE DEF TypeOK, Days, Levels
<1>1. CASE WorthMoves
  <2>1. /\ low' <= low /\ high <= high' /\ low' \in Int /\ high' \in Int
        /\ low' <= worth' /\ worth' <= high'
    BY <1>1, HaltAssumption DEF WorthMoves, LossInv, Today
  <2>2. UNCHANGED <<day, files, pc, seen, fooled, marked>>
    BY <1>1 DEF WorthMoves
  <2>3. \A e \in Int : Today(e) => Today(e)'
    BY <2>1, HaltAssumption DEF Today
  <2>4. Lost => Lost'
    <3> SUFFICES ASSUME Lost PROVE Lost'
      OBVIOUS
    <3>1. low \in Int /\ high \in Int /\ HaltAt \in Int
      BY HaltAssumption
    <3>2. \A a, b, c, d, n \in Int : c <= a /\ b <= d /\ b - a >= n => d - c >= n
      OBVIOUS
    <3> QED
      BY <2>1, <3>1, <3>2 DEF Lost
  <2>5. Today(worth)'
    BY <2>1 DEF Today
  <2>6. \A t \in Threads : PassSound(t) => PassSound(t)'
    <3>1. \A t \in Threads : seen[t].equity \in Int
      BY HaltAssumption
    <3>2. UNCHANGED <<pc, seen>>
      BY <2>2
    <3> QED
      BY <2>3, <2>4, <3>1, <3>2 DEF PassSound, Today
  <2>7. HasBaseline => sod.equity \in Int
    BY HaltAssumption DEF HasBaseline
  <2> QED
    BY <2>2, <2>3, <2>4, <2>5, <2>6, <2>7 DEF LossInv, HasBaseline, Today, files
<1>2. CASE NewDay
  BY <1>2, BoundAssumption, TornAssumption DEF NewDay, LossInv, Today, HasBaseline, PassSound, Idle, files, account, Steps
<1>3. CASE CountAges
  BY <1>3 DEF CountAges, LossInv, Today, HasBaseline, PassSound, Lost, files, book, account, orders
<1>4. CASE Crash
  BY <1>4, BoundAssumption DEF Crash, LossInv, Today, HasBaseline, PassSound, Lost, Unread, files, book, account, orders
<1>5. CASE PositionsChange
  BY <1>5 DEF PositionsChange, LossInv, Today, HasBaseline, PassSound, Lost, files, orders
<1> QED
  BY <1>1, <1>2, <1>3, <1>4, <1>5 DEF World

\* A step of one thread that leaves the files and the book alone.
LEMMA QuietLoss ==
    ASSUME TypeOK, LossInv, NEW t \in Threads, NEW step \in Steps, Goto(t, step),
           fooled => fooled', UNCHANGED <<book, files, marked>>,
           \A s \in Threads \ {t} : seen'[s] = seen[s],
           ~fooled' => PassSound(t)'
    PROVE  LossInv'
<1>1. \A s \in Threads \ {t} : pc'[s] = pc[s]
  BY DEF Goto, TypeOK
<1>2. \A s \in Threads \ {t} : PassSound(s) => PassSound(s)'
  BY <1>1 DEF PassSound, Today, Lost, book, account
<1>3. ~fooled' => \A s \in Threads : PassSound(s)'
  BY <1>2 DEF LossInv
<1> QED
  BY <1>3 DEF LossInv, Today, HasBaseline, Lost, book, account, files

LEMMA ActLoss == ASSUME TypeOK, DatesPast, LossInv, NEW t \in Threads, Act(t) PROVE LossInv'
<1>0. pc \in [Threads -> Steps] /\ seen \in [Threads -> [equity : Levels, ok : BOOLEAN, date : 0..MaxDay]]
  BY DEF TypeOK
<1>1. CASE Ask(t)
  BY <1>0, <1>1, QuietLoss DEF Ask, Goto, PassSound, Steps
<1>2. CASE Post(t)
  BY <1>0, <1>2, QuietLoss DEF Post, Goto, PassSound, Steps
<1>3. CASE StartPass(t)
  BY <1>0, <1>3, QuietLoss DEF StartPass, Goto, PassSound, Steps
<1>4. CASE ReadBook(t)
  <2>1. UNCHANGED <<book, files, marked>> /\ Goto(t, "baseline") /\ (fooled => fooled')
    <3>1. UNCHANGED <<book, files, marked>> /\ Goto(t, "baseline")
      BY <1>4 DEF ReadBook, Reads
    <3>2. fooled => fooled'
      BY <1>4, Zenon DEF ReadBook
    <3> QED
      BY <3>1, <3>2
  <2>2. \A s \in Threads \ {t} : seen'[s] = seen[s]
    BY <1>0, <1>4 DEF ReadBook, Reads
  <2>3. pc'[t] = "baseline"
    BY <1>0, <2>1 DEF Goto
  <2>4. ~fooled' /\ seen'[t].ok => seen'[t].equity = worth
    <3>1. ~fooled' => Reads(t, worth, TRUE) \/ Reads(t, worth, ~counted) \/ \E e \in Levels : Reads(t, e, FALSE)
      BY <1>4, LevelFacts, Zenon DEF ReadBook, TypeOK
    <3>2. ASSUME NEW e, NEW k \in BOOLEAN, Reads(t, e, k) PROVE seen'[t].ok => k /\ seen'[t].equity = e
      BY <1>0, <3>2 DEF Reads, Unread
    <3> QED
      BY <3>1, <3>2 DEF TypeOK
  <2>5. ~fooled' => Today(worth)
    BY <2>1 DEF LossInv
  <2>6. ~fooled' => PassSound(t)'
    BY <2>1, <2>3, <2>4, <2>5 DEF PassSound, Today, book, account
  <2> QED
    BY <2>1, <2>2, <2>6, QuietLoss DEF Steps
<1>5. CASE Baseline(t)
  <2>1. CASE HasBaseline /\ PastLimit(t) /\ Goto(t, "check") /\ UNCHANGED <<sod, seen>>
    <3>1. UNCHANGED <<book, files, marked, fooled, seen>>
      BY <1>5, <2>1 DEF Baseline, files
    <3>2. pc'[t] = "check" /\ pc[t] = "baseline" /\ seen[t] \in [equity : Levels, ok : BOOLEAN, date : 0..MaxDay]
      BY <1>0, <1>5, <2>1 DEF Goto, Baseline
    <3>3. ~fooled => Today(seen[t].equity) /\ Today(sod.equity)
      BY <2>1, <3>2 DEF LossInv, PassSound, PastLimit
    <3>4. sod \in [date : 0..MaxDay, equity : Levels]
      BY <2>1 DEF TypeOK, HasBaseline
    <3>5. ~fooled => Lost
      BY <2>1, <3>2, <3>3, <3>4, HaltAssumption DEF Today, PastLimit, Loss, Lost, TypeOK, Levels
    <3>6. ~fooled' => PassSound(t)'
      BY <3>1, <3>2, <3>3, <3>5 DEF PassSound, Today, Lost, book, account
    <3> QED
      BY <2>1, <3>1, <3>6, QuietLoss DEF Steps
  <2>2. CASE Goto(t, "trade") /\ Forget(t) /\ UNCHANGED sod
    BY <1>0, <1>5, <2>2, QuietLoss DEF Baseline, Goto, Forget, PassSound, Steps, files
  <2>3. CASE MayRecord(t) /\ Goto(t, "record") /\ sod' = Torn /\ TakeDate(t)
    <3>1. UNCHANGED <<book, marked, fooled>>
      BY <1>5 DEF Baseline
    <3>2. ~HasBaseline'
      BY <2>3 DEF HasBaseline
    <3>3. pc'[t] = "record" /\ pc[t] = "baseline" /\ \A s \in Threads \ {t} : pc'[s] = pc[s]
      BY <1>0, <1>5, <2>3 DEF Goto, Baseline
    <3>4. ~fooled => \A s \in Threads : PassSound(s)'
      <4>1. \A s \in Threads : seen'[s].ok = seen[s].ok /\ seen'[s].equity = seen[s].equity
        BY <1>0, <2>3 DEF TakeDate
      <4> QED
        BY <2>3, <3>1, <3>3, <4>1 DEF LossInv, PassSound, Today, Lost, MayRecord, book, account
    <3> QED
      BY <2>3, <3>1, <3>2, <3>4 DEF LossInv, Today, Lost, book, account
  <2> QED
    BY <1>5, <2>1, <2>2, <2>3 DEF Baseline
<1>6. CASE Record(t)
  <2>1. UNCHANGED <<book, marked, fooled>> /\ sod' = [date |-> seen[t].date, equity |-> seen[t].equity]
    BY <1>6 DEF Record
  <2>2. pc'[t] = "trade" /\ \A s \in Threads \ {t} : pc'[s] = pc[s] /\ seen'[s] = seen[s]
    BY <1>0, <1>6 DEF Record, Goto, Forget
  <2>3. ~fooled => Today(seen[t].equity)
    BY <1>6 DEF Record, LossInv, PassSound
  <2>4. ~fooled => \A s \in Threads : PassSound(s)'
    BY <2>1, <2>2 DEF LossInv, PassSound, Today, Lost, book, account
  <2>5. seen[t].date <= day /\ sod'.date = seen[t].date /\ sod'.equity = seen[t].equity
    BY <2>1 DEF DatesPast
  <2> QED
    BY <2>1, <2>3, <2>4, <2>5 DEF LossInv, Today, HasBaseline, Lost, book, account
<1>7. CASE TruncateMarker(t)
  <2>1. UNCHANGED <<book, sod, marked, fooled>> /\ TakeDate(t)
    BY <1>7 DEF TruncateMarker
  <2>2. pc[t] = "check" /\ pc'[t] = "mark" /\ \A s \in Threads \ {t} : pc'[s] = pc[s]
    BY <1>0, <1>7 DEF TruncateMarker, Goto
  <2>3. ~fooled => \A s \in Threads : PassSound(s)'
    <3>1. \A s \in Threads : seen'[s].ok = seen[s].ok /\ seen'[s].equity = seen[s].equity
      BY <1>0, <2>1 DEF TakeDate
    <3> QED
      BY <2>1, <2>2, <3>1 DEF LossInv, PassSound, Today, Lost, book, account
  <2> QED
    BY <2>1, <2>3 DEF LossInv, Today, HasBaseline, Lost, book, account
<1>8. CASE WriteMarker(t)
  <2>1. UNCHANGED <<book, sod, fooled>> /\ marked' \in {day, marked} /\ pc[t] = "mark"
    BY <1>8 DEF WriteMarker
  <2>2. pc'[t] = "trade" /\ \A s \in Threads \ {t} : pc'[s] = pc[s] /\ seen'[s] = seen[s]
    BY <1>0, <1>8 DEF WriteMarker, Goto, Forget
  <2>3. ~fooled => Lost
    BY <2>1 DEF LossInv, PassSound
  <2>4. ~fooled => \A s \in Threads : PassSound(s)'
    BY <2>1, <2>2 DEF LossInv, PassSound, Today, Lost, book, account
  <2> QED
    BY <2>1, <2>3, <2>4 DEF LossInv, Today, HasBaseline, Lost, TypeOK, Days, book, account
<1> QED
  BY <1>1, <1>2, <1>3, <1>4, <1>5, <1>6, <1>7, <1>8 DEF Act, Govern

\* A day is halted only if the book moved by the limit within the day, unless
\* the equity of another day or an empty read was taken for it.
THEOREM NoFalseHaltCorrect == Spec => []NoFalseHalt
<1>1. TypeOK /\ DatesPast /\ LossInv /\ [Next]_vars => LossInv'
  <2>1. LossInv /\ UNCHANGED vars => LossInv'
    BY DEF LossInv, Today, HasBaseline, PassSound, Lost, vars, book, account, files
  <2> QED
    BY <2>1, WorldLoss, ActLoss DEF Next, Act
<1>2. LossInv => NoFalseHalt
  BY DEF LossInv, NoFalseHalt, Lost
<1> QED
  BY InitLoss, InitDates, NextDates, TypeCorrect, <1>1, <1>2, PTL DEF Spec
=============================================================================

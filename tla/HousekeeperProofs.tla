------------------------- MODULE HousekeeperProofs -------------------------
(***************************************************************************)
(* Proofs about the housekeeper, for any tasks, periods and caps.          *)
(***************************************************************************)
EXTENDS Housekeeper, FiniteSetTheorems, TLAPS

\* Flags of stop and start, and which task the worker holds.
FlagsAgree ==
    /\ stopper # "no" => stopped
    /\ ~started => worker = "off"
    /\ worker = "running" <=> current # NoTask
    /\ current \notin due
    /\ worker \notin {"batch", "running"} => due = {}

\* A task that waits in the batch or runs is at most one period away, and the
\* time since its collection and until the next one make up a period.
Schedule ==
    /\ \A t \in due : rem[t] <= Period[t]
    /\ current # NoTask => rem[current] <= Period[current]
    /\ \A t \in registered : since[t] + rem[t] >= Period[t]

\* Before the start every task counts as due, and its first run may be early.
Unstarted == ~started => \A t \in registered : since[t] >= Period[t]

IInv == TypeOK /\ Unstarted /\ FlagsAgree /\ Schedule /\ SleepsNotTooLong /\ QuietAfterStop

\* A power of two counts the subsets of a finite set.
LEMMA PowerIsNat == ASSUME NEW n \in Nat PROVE 2^n \in Nat
  <1> DEFINE S == 1 .. n
  <1>1. IsFiniteSet(S) /\ Cardinality(S) = n
    BY FS_Interval
  <1> HIDE DEF S
  <1>2. IsFiniteSet(SUBSET S) /\ Cardinality(SUBSET S) = 2^Cardinality(S)
    BY <1>1, FS_SUBSET
  <1>3. Cardinality(SUBSET S) \in Nat
    BY <1>2, FS_CardinalityType
  <1> QED BY <1>1, <1>2, <1>3

\* The backoff of runOnce after the n-th failure in a row is a duration between
\* the task's period and its limit.
LEMMA BackoffRange ==
    ASSUME NEW t \in Task, NEW n \in 0 .. FailCap
    PROVE  /\ Limit(t) \in Nat /\ Period[t] <= Limit(t)
           /\ Backoff(t, n) \in Nat /\ Backoff(t, n) <= Limit(t)
  <1>1. Period[t] \in Nat /\ BackoffCap \in Nat /\ 2^n \in Nat
    BY TaskAssumption, BoundAssumption, PowerIsNat
  <1> DEFINE p == 2^n
  <1>2. p \in Nat
    BY <1>1
  <1> HIDE DEF p
  <1>3. Period[t] * p \in Nat
    BY <1>1, <1>2
  <1>4. Backoff(t, n) = MinOf(Period[t] * p, Limit(t))
    BY DEF Backoff, p
  <1> QED
    BY <1>1, <1>3, <1>4 DEF MinOf, Limit

\* Hence a failure moves a task that is at most a period away no closer, and
\* not beyond its limit.
LEMMA PostponedRange ==
    ASSUME NEW t \in Task, NEW n \in 0 .. FailCap, rem[t] \in Nat,
           rem[t] <= Period[t]
    PROVE  /\ Postponed(t, n) \in Nat
           /\ rem[t] <= Postponed(t, n) /\ Postponed(t, n) <= Limit(t)
  <1>1. Period[t] \in Nat
    BY TaskAssumption
  <1> QED
    BY <1>1, BackoffRange DEF Postponed

\* The failure counter stays within its bound.
LEMMA FailRange ==
    ASSUME NEW k \in 0 .. FailCap
    PROVE  MinOf(k + 1, FailCap) \in 0 .. FailCap
  BY BoundAssumption DEF MinOf

LEMMA FirstRange == ASSUME NEW t \in Task PROVE firstDue(t) \in Nat
  BY TaskAssumption, BoundAssumption DEF firstDue, MinOf

LEMMA InitInv == Init => IInv
  <1> SUFFICES ASSUME Init PROVE IInv
    OBVIOUS
  <1> USE DEF Init
  <1>1. TypeOK
    <2>1. /\ rem \in [Task -> Nat] /\ since \in [Task -> Nat]
          /\ fails \in [Task -> 0 .. FailCap] /\ timer \in Nat
      BY BoundAssumption
    <2>2. /\ started \in BOOLEAN /\ stopped \in BOOLEAN /\ cancelled \in BOOLEAN
          /\ wake \in BOOLEAN
      BY Zenon
    <2>3. /\ registered \subseteq Task /\ refused \subseteq Task
          /\ signalling \subseteq registered /\ due \subseteq registered
      BY Zenon
    <2> QED
      BY <2>1, <2>2, <2>3 DEF TypeOK
  <1>2. FlagsAgree
    BY DEF FlagsAgree
  <1>3. Schedule
    BY DEF Schedule
  <1>4. SleepsNotTooLong /\ QuietAfterStop
    BY DEF SleepsNotTooLong, QuietAfterStop
  <1> QED
    BY <1>1, <1>2, <1>3, <1>4 DEF IInv, Unstarted

LEMMA TypeStep == ASSUME IInv, [Next]_vars PROVE TypeOK'
  <1> USE DEF IInv, TypeOK, callVars, flagVars, workVars
  <1>1. ASSUME NEW t \in Task, Register(t) PROVE TypeOK'
    BY <1>1, FirstRange, TaskAssumption DEF Register
  <1>2. ASSUME NEW t \in Task, signal(t) PROVE TypeOK'
    BY <1>2 DEF signal
  <1>3. CASE start
    BY <1>3, FirstRange DEF start
  <1>4. CASE collect
    <2>1. rem' \in [Task -> Nat] /\ since' \in [Task -> Nat]
      BY <1>4, TaskAssumption DEF collect, Advanced
    <2>2. Waits \subseteq Nat
      BY BoundAssumption DEF Waits
    <2>3. timer' \in Nat
      BY <1>4, <2>2 DEF collect
    <2> QED
      BY <1>4, <2>1, <2>3 DEF collect, DueNow
  <1>5. CASE RunNext
    BY <1>5 DEF RunNext
  <1>6. CASE RunSucceeds
    <2>1. current \in Task
      BY <1>6 DEF RunSucceeds, FlagsAgree
    <2> QED
      BY <1>6, <2>1, BoundAssumption DEF RunSucceeds, AfterRun
  <1>7. CASE RunFails
    <2> DEFINE n == MinOf(fails[current] + 1, FailCap)
    <2>1. current \in Task /\ rem[current] <= Period[current]
      BY <1>7 DEF RunFails, FlagsAgree, Schedule
    <2>2. n \in 0 .. FailCap
      BY <2>1, FailRange
    <2>3. Postponed(current, n) \in Nat
      BY <2>1, <2>2, PostponedRange
    <2>4. rem' = [rem EXCEPT ![current] = Postponed(current, n)]
          /\ fails' = [fails EXCEPT ![current] = n]
      BY <1>7 DEF RunFails
    <2> HIDE DEF n
    <2>5. rem' \in [Task -> Nat] /\ fails' \in [Task -> 0 .. FailCap]
      BY <2>2, <2>3, <2>4
    <2> QED
      BY <1>7, <2>5 DEF RunFails, AfterRun
  <1>8. CASE WakeUp
    BY <1>8 DEF WakeUp
  <1>9. CASE LeaveSleep
    BY <1>9 DEF LeaveSleep
  <1>10. CASE Tick
    BY <1>10, TaskAssumption DEF Tick, Less, MinOf
  <1>11. CASE stop
    BY <1>11 DEF stop
  <1>12. CASE Cancel
    BY <1>12 DEF Cancel
  <1>13. CASE StopReturns
    BY <1>13 DEF StopReturns
  <1>14. CASE UNCHANGED vars
    BY <1>14 DEF vars
  <1> QED
    BY <1>1, <1>2, <1>3, <1>4, <1>5, <1>6, <1>7, <1>8, <1>9, <1>10, <1>11,
       <1>12, <1>13, <1>14 DEF Next, Work

LEMMA FlagsStep == ASSUME IInv, [Next]_vars PROVE FlagsAgree'
  <1> USE DEF IInv, FlagsAgree, TypeOK, callVars, flagVars, workVars
  <1>1. ASSUME NEW t \in Task, Register(t) \/ signal(t) PROVE FlagsAgree'
    BY <1>1 DEF Register, signal
  <1>2. CASE start \/ Tick \/ WakeUp \/ LeaveSleep
    BY <1>2 DEF start, Tick, WakeUp, LeaveSleep
  <1>3. CASE collect
    BY <1>3, TaskAssumption DEF collect, DueNow
  <1>4. CASE RunNext
    BY <1>4, TaskAssumption DEF RunNext
  <1>5. CASE RunSucceeds \/ RunFails
    BY <1>5, TaskAssumption DEF RunSucceeds, RunFails, AfterRun
  <1>6. CASE stop \/ Cancel \/ StopReturns
    BY <1>6 DEF stop, Cancel, StopReturns
  <1>7. CASE UNCHANGED vars
    BY <1>7 DEF vars
  <1> QED
    BY <1>1, <1>2, <1>3, <1>4, <1>5, <1>6, <1>7 DEF Next, Work

LEMMA ScheduleStep == ASSUME IInv, [Next]_vars PROVE Schedule'
  <1> USE DEF IInv, Schedule, FlagsAgree, TypeOK, callVars, flagVars, workVars
  <1>0. Period \in [Task -> Nat] /\ NoTask \notin Task
    BY TaskAssumption
  <1>1. ASSUME NEW t \in Task, Register(t) PROVE Schedule'
    <2>1. firstDue(t) \in Nat
      BY FirstRange
    <2>3. CASE UNCHANGED <<registered, rem, since>>
      BY <1>1, <2>3 DEF Register
    <2>4. CASE /\ rem' = [rem EXCEPT ![t] = IF started THEN firstDue(t) ELSE 0]
               /\ since' = [since EXCEPT ![t] = Period[t]]
               /\ registered' = registered \cup {t}
               /\ t \notin registered
      <3>1. /\ rem'[t] \in Nat /\ since'[t] = Period[t]
            /\ \A u \in Task \ {t} : rem'[u] = rem[u] /\ since'[u] = since[u]
        BY <2>1, <2>4
      <3>2. since'[t] + rem'[t] >= Period[t]
        BY <1>0, <3>1
      <3>3. UNCHANGED <<due, current>>
        BY <1>1 DEF Register
      <3> QED
        BY <1>0, <2>4, <3>1, <3>2, <3>3
    <2> QED
      BY <1>1, <2>3, <2>4 DEF Register
  <1>2. ASSUME NEW t \in Task, signal(t) PROVE Schedule'
    BY <1>2 DEF signal
  <1>3. CASE start
    <2>1. due = {} /\ current = NoTask
      BY <1>3 DEF start, SleepsNotTooLong
    <2>2. \A t \in registered : since[t] >= Period[t]
      BY <1>3 DEF start, Unstarted
    <2> QED
      BY <1>0, <1>3, <2>1, <2>2, FirstRange DEF start
  <1>4. CASE collect
    BY <1>0, <1>4 DEF collect, Advanced, DueNow
  <1>5. CASE RunNext
    BY <1>0, <1>5 DEF RunNext
  <1>6. CASE RunSucceeds
    BY <1>0, <1>6 DEF RunSucceeds
  <1>7. CASE RunFails
    <2> DEFINE n == MinOf(fails[current] + 1, FailCap)
    <2>1. current \in Task
      BY <1>7 DEF RunFails
    <2>2. n \in 0 .. FailCap
      BY <2>1, FailRange
    <2>3. Postponed(current, n) \in Nat /\ rem[current] <= Postponed(current, n)
      BY <2>1, <2>2, PostponedRange, <1>7 DEF RunFails
    <2>4. rem' = [rem EXCEPT ![current] = Postponed(current, n)]
      BY <1>7 DEF RunFails
    <2> HIDE DEF n
    <2>5. \A t \in Task : rem'[t] \in Nat /\ rem'[t] >= rem[t]
      BY <2>1, <2>3, <2>4
    <2> QED
      BY <1>0, <1>7, <2>4, <2>5 DEF RunFails
  <1>8. CASE WakeUp \/ LeaveSleep
    BY <1>8 DEF WakeUp, LeaveSleep
  <1>9. CASE Tick
    BY <1>0, <1>9 DEF Tick, Less, MinOf
  <1>10. CASE stop \/ Cancel \/ StopReturns
    BY <1>10 DEF stop, Cancel, StopReturns
  <1>11. CASE UNCHANGED vars
    BY <1>11 DEF vars
  <1> QED
    BY <1>1, <1>2, <1>3, <1>4, <1>5, <1>6, <1>7, <1>8, <1>9, <1>10, <1>11
       DEF Next, Work

LEMMA UnstartedStep == ASSUME IInv, [Next]_vars PROVE Unstarted'
  <1> USE DEF IInv, Unstarted, FlagsAgree, TypeOK, callVars, flagVars, workVars
  <1>0. Period \in [Task -> Nat]
    BY TaskAssumption
  <1>1. ASSUME NEW t \in Task, Register(t) \/ signal(t) PROVE Unstarted'
    BY <1>0, <1>1 DEF Register, signal
  <1>2. CASE Tick
    BY <1>0, <1>2 DEF Tick, MinOf
  <1>3. CASE start \/ Work
    BY <1>3 DEF start, Work, collect, RunNext, RunSucceeds, RunFails, WakeUp, LeaveSleep
  <1>4. CASE stop \/ Cancel \/ StopReturns
    BY <1>4 DEF stop, Cancel, StopReturns
  <1>5. CASE UNCHANGED vars
    BY <1>5 DEF vars
  <1> QED
    BY <1>1, <1>2, <1>3, <1>4, <1>5 DEF Next

LEMMA SleepStep == ASSUME IInv, [Next]_vars PROVE SleepsNotTooLong'
  <1> USE DEF IInv, SleepsNotTooLong, TypeOK, callVars, flagVars, workVars
  <1>1. ASSUME NEW t \in Task, Register(t) PROVE SleepsNotTooLong'
    BY <1>1 DEF Register
  <1>2. ASSUME NEW t \in Task, signal(t) PROVE SleepsNotTooLong'
    BY <1>2 DEF signal
  <1>3. CASE collect
    <2>1. CASE DueNow = {}
      <3>1. \A t \in registered : timer' <= rem[t]
        BY <1>3, <2>1 DEF collect, Waits
      <3>2. \A t \in registered : rem'[t] = rem[t]
        BY <1>3, <2>1 DEF collect, Advanced
      <3> QED
        BY <1>3, <3>1, <3>2 DEF collect
    <2> QED
      BY <1>3, <2>1 DEF collect
  <1>4. CASE Tick
    BY <1>4 DEF Tick, Less
  <1>5. CASE start \/ RunNext \/ RunSucceeds \/ RunFails \/ WakeUp \/ LeaveSleep
    BY <1>5 DEF start, RunNext, RunSucceeds, RunFails, WakeUp, LeaveSleep, AfterRun
  <1>6. CASE stop \/ Cancel \/ StopReturns
    BY <1>6 DEF stop, Cancel, StopReturns
  <1>7. CASE UNCHANGED vars
    BY <1>7 DEF vars
  <1> QED
    BY <1>1, <1>2, <1>3, <1>4, <1>5, <1>6, <1>7 DEF Next, Work

LEMMA QuietStep == ASSUME IInv, [Next]_vars PROVE QuietAfterStop'
  <1> USE DEF IInv, QuietAfterStop, FlagsAgree, callVars, flagVars, workVars
  <1>1. ASSUME NEW t \in Task, Register(t) \/ signal(t) PROVE QuietAfterStop'
    BY <1>1 DEF Register, signal
  <1>2. CASE Work
    BY <1>2 DEF Work, collect, RunNext, RunSucceeds, RunFails, WakeUp, LeaveSleep
  <1>3. CASE start \/ Tick
    BY <1>3 DEF start, Tick
  <1>4. CASE stop \/ Cancel \/ StopReturns
    BY <1>4 DEF stop, Cancel, StopReturns, WorkerGone
  <1>5. CASE UNCHANGED vars
    BY <1>5 DEF vars
  <1> QED
    BY <1>1, <1>2, <1>3, <1>4, <1>5 DEF Next

LEMMA InvStep == IInv /\ [Next]_vars => IInv'
  BY TypeStep, FlagsStep, ScheduleStep, UnstartedStep, SleepStep, QuietStep DEF IInv

\* The inductive invariant of the housekeeper holds in every reachable state.
THEOREM HousekeeperInv == Spec => []IInv
  BY InitInv, InvStep, PTL DEF Spec

\* The housekeeper's state is well typed, whatever registers, fails or stops.
THEOREM HousekeeperTypes == Spec => []TypeOK
  <1>1. IInv => TypeOK
    BY DEF IInv
  <1> QED
    BY HousekeeperInv, <1>1, PTL

\* No wake-up of the worker is lost: it never sleeps past a due time, however
\* Register interleaves with collect (trunk/30-housekeeping.go, Register, loop).
THEOREM NoLostWakeup == Spec => []SleepsNotTooLong
  <1>1. IInv => SleepsNotTooLong
    BY DEF IInv
  <1> QED
    BY HousekeeperInv, <1>1, PTL

\* When stop has returned no task runs or will run.
THEOREM StopIsFinal == Spec => []QuietAfterStop
  <1>1. IInv => QuietAfterStop
    BY DEF IInv
  <1> QED
    BY HousekeeperInv, <1>1, PTL

\* No run's outcome schedules the next one sooner than it was, or beyond the
\* limit (runOnce).
THEOREM BackoffSane == Spec => BackoffIsSane
  <1> DEFINE A == worker = "running" /\ worker' # "running" =>
                    /\ rem'[current] >= rem[current]
                    /\ rem'[current] <= Limit(current)
  <1>1. ASSUME IInv, [Next]_vars PROVE [A]_vars
    <2> SUFFICES ASSUME worker = "running", worker' # "running"
                 PROVE  /\ rem'[current] >= rem[current]
                        /\ rem'[current] <= Limit(current)
      OBVIOUS
    <2> USE DEF IInv, FlagsAgree, Schedule, TypeOK
    <2>1. current \in Task /\ rem[current] <= Period[current]
      BY <1>1
    <2>2. RunSucceeds \/ RunFails
      BY <1>1 DEF Next, Work, Register, signal, start, collect, RunNext, WakeUp,
                  LeaveSleep, Tick, stop, Cancel, StopReturns, vars, workVars
    <2>3. Period[current] \in Nat /\ rem[current] \in Nat
          /\ Limit(current) \in Nat /\ Period[current] <= Limit(current)
      <3>1. 0 \in 0 .. FailCap
        BY BoundAssumption
      <3> QED
        BY <1>1, <2>1, <3>1, BackoffRange, TaskAssumption
    <2>4. CASE RunSucceeds
      <3>1. rem' = rem
        BY <2>4 DEF RunSucceeds
      <3> QED
        BY <2>1, <2>3, <3>1
    <2>5. CASE RunFails
      <3> DEFINE n == MinOf(fails[current] + 1, FailCap)
      <3>1. n \in 0 .. FailCap
        BY <1>1, <2>1, FailRange
      <3>2. rem'[current] = Postponed(current, n)
        BY <1>1, <2>1, <2>5 DEF RunFails
      <3> HIDE DEF n
      <3> QED
        BY <2>1, <2>3, <3>1, <3>2, PostponedRange
    <2> QED
      BY <2>2, <2>4, <2>5
  <1> QED
    BY HousekeeperInv, <1>1, PTL DEF Spec, BackoffIsSane

\* A task is collected at most once per period, however long batches take.
THEOREM AtMostOncePerPeriod == Spec => NotTooOften
  <1> DEFINE A == \A t \in Task : t \in due' \ due => since[t] >= Period[t]
  <1>1. ASSUME IInv, [Next]_vars PROVE [A]_vars
    <2> SUFFICES ASSUME NEW t \in Task, t \in due', t \notin due
                 PROVE  since[t] >= Period[t]
      OBVIOUS
    <2>1. collect
      BY <1>1 DEF Next, Work, Register, signal, start, RunNext, RunSucceeds,
                  RunFails, WakeUp, LeaveSleep, Tick, stop, Cancel, StopReturns,
                  vars, workVars
    <2>2. t \in registered /\ rem[t] = 0
      BY <2>1 DEF collect, DueNow
    <2>3. since[t] \in Nat /\ Period[t] \in Nat
      BY <1>1, TaskAssumption DEF IInv, TypeOK
    <2> QED
      BY <1>1, <2>2, <2>3 DEF IInv, Schedule
  <1> QED
    BY HousekeeperInv, <1>1, PTL DEF Spec, NotTooOften
=============================================================================

---------------------------- MODULE Housekeeper ----------------------------
(***************************************************************************)
(* The trunk's housekeeper (trunk/30-housekeeping.go): one worker runs the *)
(* periodic maintenance tasks of all modules, highest priority first, and  *)
(* backs off tasks that keep failing.                                      *)
(*                                                                         *)
(* Time is counted in ticks.  Only the distance of nextDue from now is     *)
(* ever looked at, so rem[t] is that distance (0 when due) and a tick      *)
(* lowers every distance and the worker's timer.  A task may run for any   *)
(* number of ticks, fail (by error or panic) or succeed.                   *)
(***************************************************************************)
EXTENDS Naturals, FiniteSets

CONSTANTS Task,
          NoTask,
          Period,        \* Period[t]; 0 stands for an invalid task
          Rank,          \* Rank[t]: place in the order (Priority desc, Name)
          FirstRunDelay, \* firstRunDelay
          BackoffCap,    \* failBackoffCap
          IdleCap,       \* idleCap
          FailCap        \* failures counted; more of them back off no further

ASSUME TaskAssumption ==
    /\ NoTask \notin Task
    /\ IsFiniteSet(Task)
    /\ Period \in [Task -> Nat]
    /\ Rank \in [Task -> Nat]
    /\ \A t, u \in Task : Rank[t] = Rank[u] => t = u
ASSUME BoundAssumption ==
    /\ FirstRunDelay \in Nat \ {0}
    /\ BackoffCap \in Nat
    /\ IdleCap \in Nat
    /\ FailCap \in Nat

VARIABLES
    registered, \* h.tasks
    refused,    \* tasks Register turned away
    signalling, \* Register calls between the unlock and the wake signal
    rem,        \* rem[t]: ticks until nextDue
    fails,      \* consecutive failures
    started, stopped, cancelled,
    wake,       \* the buffered wake channel holds a token
    worker, due, current, timer,
    stopper,    \* the call of stop()
    since       \* history: ticks since the task was last collected

callVars == <<registered, refused, signalling>>
workVars == <<worker, due, current, timer>>
flagVars == <<started, stopped, cancelled, stopper>>
vars == <<callVars, rem, fails, flagVars, wake, workVars, since>>

MinOf(a, b) == IF a < b THEN a ELSE b
Less(n) == IF n = 0 THEN 0 ELSE n - 1

\* Types of every variable.
TypeOK ==
    /\ registered \subseteq Task /\ refused \subseteq Task
    /\ signalling \subseteq registered
    /\ rem \in [Task -> Nat]
    /\ fails \in [Task -> 0 .. FailCap]
    /\ started \in BOOLEAN /\ stopped \in BOOLEAN /\ cancelled \in BOOLEAN
    /\ wake \in BOOLEAN
    /\ worker \in {"off", "collect", "batch", "running", "sleep", "done"}
    /\ due \subseteq registered
    /\ current \in registered \cup {NoTask}
    /\ timer \in Nat
    /\ stopper \in {"no", "cancel", "wait", "returned"}
    /\ since \in [Task -> Nat]

Init ==
    /\ registered = {} /\ refused = {} /\ signalling = {}
    /\ rem = [t \in Task |-> 0]
    /\ fails = [t \in Task |-> 0]
    /\ started = FALSE /\ stopped = FALSE /\ cancelled = FALSE
    /\ wake = FALSE
    /\ worker = "off" /\ due = {} /\ current = NoTask /\ timer = 0
    /\ stopper = "no"
    /\ since = [t \in Task |-> 0]

----------------------------------------------------------------------------
(* Registration                                                            *)

\* The first run: one period or the boot grace, whichever is sooner.
firstDue(t) == MinOf(Period[t], FirstRunDelay)

\* Register up to the unlock.  Before start the due time stays zero.
Register(t) ==
    /\ t \notin registered \cup refused
    /\ \/ /\ Period[t] > 0 /\ ~stopped
          /\ registered' = registered \cup {t}
          /\ signalling' = signalling \cup {t}
          /\ rem' = [rem EXCEPT ![t] = IF started THEN firstDue(t) ELSE 0]
          /\ since' = [since EXCEPT ![t] = Period[t]]
          /\ UNCHANGED refused
       \/ /\ Period[t] = 0 \/ stopped
          /\ refused' = refused \cup {t}
          /\ UNCHANGED <<registered, signalling, rem, since>>
    /\ UNCHANGED <<fails, flagVars, wake, workVars>>

\* Mutant: the signal is forgotten.
signalNothing(t) ==
    /\ t \in signalling
    /\ signalling' = signalling \ {t}
    /\ UNCHANGED <<registered, refused, rem, fails, flagVars, wake, workVars, since>>

\* The non-blocking send on the wake channel.
signal(t) ==
    /\ t \in signalling
    /\ signalling' = signalling \ {t}
    /\ wake' = TRUE
    /\ UNCHANGED <<registered, refused, rem, fails, flagVars, workVars, since>>

\* start seeds every due time and launches the worker.
start ==
    /\ ~started /\ ~stopped
    /\ started' = TRUE
    /\ rem' = [t \in Task |-> IF t \in registered THEN firstDue(t) ELSE rem[t]]
    /\ worker' = "collect"
    /\ UNCHANGED <<callVars, fails, stopped, cancelled, stopper, wake, due,
                   current, timer, since>>

----------------------------------------------------------------------------
(* The worker                                                              *)

DueNow == {t \in registered : rem[t] = 0}

\* The distances the sleep is bounded by.
Waits == {IdleCap} \cup {rem[t] : t \in registered}

\* Mutant: collect leaves nextDue in the past.
AdvancedNever(t) == rem[t]

\* collect's nextDue for the task.
Advanced(t) == IF t \in DueNow THEN Period[t] ELSE rem[t]

collect ==
    /\ worker = "collect"
    /\ due' = DueNow
    /\ rem' = [t \in Task |-> Advanced(t)]
    /\ since' = [t \in Task |-> IF t \in DueNow THEN 0 ELSE since[t]]
    /\ \/ /\ DueNow = {}
          /\ worker' = "sleep"
          /\ timer' \in {w \in Waits : \A v \in Waits : w <= v}
       \/ /\ DueNow # {}
          /\ worker' = "batch"
          /\ UNCHANGED timer
    /\ UNCHANGED <<callVars, fails, flagVars, wake, current>>

\* The next task of the sorted batch, unless the context is cancelled.
RunNext ==
    /\ worker = "batch"
    /\ IF cancelled
       THEN worker' = "done" /\ due' = {} /\ UNCHANGED current
       ELSE \E t \in due :
              /\ \A u \in due : Rank[t] <= Rank[u]
              /\ current' = t /\ due' = due \ {t} /\ worker' = "running"
    /\ UNCHANGED <<callVars, rem, fails, flagVars, wake, timer, since>>

\* Mutant: the rest of the batch is forgotten.
AfterRunCollect == "collect"

AfterRun == IF due = {} THEN "collect" ELSE "batch"

\* A run that succeeds, or is cut short by the shutdown.
RunSucceeds ==
    /\ worker = "running"
    /\ fails' = [fails EXCEPT ![current] = 0]
    /\ current' = NoTask
    /\ worker' = AfterRun
    /\ UNCHANGED <<callVars, rem, flagVars, wake, due, timer, since>>

\* Period, doubled once per failure, up to the cap or the period itself.
Limit(t) == IF Period[t] > BackoffCap THEN Period[t] ELSE BackoffCap

Backoff(t, n) == MinOf(Period[t] * 2^n, Limit(t))

\* nextDue after the n-th failure in a row: never sooner than it was.
Postponed(t, n) == IF Backoff(t, n) > Period[t] THEN Backoff(t, n) ELSE rem[t]

RunFails ==
    /\ worker = "running"
    /\ LET n == MinOf(fails[current] + 1, FailCap) IN
         /\ fails' = [fails EXCEPT ![current] = n]
         /\ rem' = [rem EXCEPT ![current] = Postponed(current, n)]
    /\ current' = NoTask
    /\ worker' = AfterRun
    /\ UNCHANGED <<callVars, flagVars, wake, due, timer, since>>

\* The select: the wake channel or the timer, or the cancelled context.
WakeUp ==
    /\ worker = "sleep"
    /\ \/ wake /\ wake' = FALSE
       \/ timer = 0 /\ UNCHANGED wake
    /\ worker' = "collect"
    /\ UNCHANGED <<callVars, rem, fails, flagVars, due, current, timer, since>>

LeaveSleep ==
    /\ worker = "sleep"
    /\ cancelled
    /\ worker' = "done"
    /\ UNCHANGED <<callVars, rem, fails, flagVars, wake, due, current, timer, since>>

\* since only matters up to the period.
Tick ==
    /\ rem' = [t \in Task |-> IF started THEN Less(rem[t]) ELSE rem[t]]
    /\ timer' = Less(timer)
    /\ since' = [t \in Task |-> MinOf(since[t] + 1, Period[t])]
    /\ UNCHANGED <<callVars, fails, flagVars, wake, worker, due, current>>

----------------------------------------------------------------------------
(* stop                                                                    *)

\* Under the lock: refuse later registrations, and see whether there is a
\* worker to stop.
stop ==
    /\ stopper = "no"
    /\ stopped' = TRUE
    /\ stopper' = IF started THEN "cancel" ELSE "returned"
    /\ UNCHANGED <<callVars, rem, fails, started, cancelled, wake, workVars, since>>

\* Mutant: the context is not cancelled.
CancelNothing ==
    /\ stopper = "cancel"
    /\ stopper' = "wait"
    /\ UNCHANGED <<callVars, rem, fails, started, stopped, cancelled, wake,
                   workVars, since>>

Cancel ==
    /\ stopper = "cancel"
    /\ cancelled' = TRUE
    /\ stopper' = "wait"
    /\ UNCHANGED <<callVars, rem, fails, started, stopped, wake, workVars, since>>

\* Mutant: stop cancels and does not wait for the worker.
WorkerIgnored == TRUE

\* The receive on h.done, which the worker closes when it returns.
WorkerGone == worker = "done"

StopReturns ==
    /\ stopper = "wait"
    /\ WorkerGone
    /\ stopper' = "returned"
    /\ UNCHANGED <<callVars, rem, fails, started, stopped, cancelled, wake,
                   workVars, since>>

Work == collect \/ RunNext \/ RunSucceeds \/ RunFails \/ WakeUp \/ LeaveSleep

Next ==
    \/ \E t \in Task : Register(t) \/ signal(t)
    \/ start \/ Work \/ Tick
    \/ stop \/ Cancel \/ StopReturns

Spec == Init /\ [][Next]_vars

\* The worker and the callers of Register and stop are scheduled, time passes,
\* and every run ends.  Among ready cases Go's select chooses at random, so a
\* cancelled context is not passed over forever (the strong fairness).  Nothing
\* forces a registration, the start or a stop.
Fairness ==
    /\ WF_vars(Work) /\ SF_vars(LeaveSleep)
    /\ WF_vars(Tick) /\ WF_vars(Cancel) /\ WF_vars(StopReturns)
    /\ \A t \in Task : WF_vars(signal(t))

FairSpec == Spec /\ Fairness

----------------------------------------------------------------------------
(* What is true                                                            *)

\* No lost wake-up: a worker asleep with no wake token pending and no Register
\* about to send one never sleeps past the due time of a registered task
\* (Register's append-then-signal against collect's computed wait).
SleepsNotTooLong ==
    worker = "sleep" /\ ~wake /\ signalling = {} =>
        \A t \in registered : timer <= rem[t]

\* A failed run never brings the next one closer, and never moves it further
\* than the cap or the task's own period (runOnce's backoff arithmetic).
BackoffIsSane ==
    [][worker = "running" /\ worker' # "running" =>
          /\ rem'[current] >= rem[current]
          /\ rem'[current] <= Limit(current)]_vars

\* Between two collections of a task at least its period passes, however long
\* batches take and whatever fails (a task is not queued twice).
NotTooOften ==
    [][\A t \in Task : t \in due' \ due => since[t] >= Period[t]]_vars

\* Once stop has returned no task is running and none will (the trunk stops the
\* modules, whose stores the tasks use, right after).
QuietAfterStop ==
    stopper = "returned" => worker \in {"off", "done"} /\ current = NoTask

\* No starvation: a due task is run, whatever its priority, unless the
\* housekeeper is stopped.
DueTasksRun ==
    \A t \in Task : t \in registered /\ started /\ rem[t] = 0
                        ~> current = t \/ cancelled

\* stop returns once the running task has ended.
StopCompletes == stopper = "cancel" ~> stopper = "returned"
=============================================================================

------------------------------- MODULE Trunk -------------------------------
(***************************************************************************)
(* The trunk of agentBob (trunk/20-lifecycle.go): it sorts the modules by  *)
(* the capabilities they provide and need, starts them in that order,      *)
(* degrades or aborts when one fails, and stops them in reverse.           *)
(*                                                                         *)
(* What the modules declare (provides, needs, optional) is chosen in Init  *)
(* and never changes, so one run covers every module graph of its size.    *)
(* A module's Start registers some of its capabilities and returns with or *)
(* without an error; the modules of this program register housekeeping     *)
(* tasks only when nothing can fail any more, so only started modules own  *)
(* tasks.  Housekeeper models the scheduler itself.                        *)
(***************************************************************************)
EXTENDS Integers, Sequences, FiniteSets

CONSTANTS Module,
          Cap,        \* capability types
          Mods,       \* Trunk.mods: the modules in registration order
          NoModule

ASSUME ModsAssumption ==
    /\ NoModule \notin Module /\ IsFiniteSet(Module)
    /\ Mods \in Seq(Module)
    /\ \A m \in Module : \E i \in DOMAIN Mods : Mods[i] = m
    /\ \A i, j \in DOMAIN Mods : Mods[i] = Mods[j] => i = j

VARIABLES
    provides, needs, optional, \* the declarations
    phase,
    indeg, queue, order,       \* topoOrder's locals
    at,                        \* Start's loop index into order
    caps,                      \* the registry
    started,                   \* Trunk.started
    running,                   \* modules started and not stopped
    err,                       \* why Start failed
    sweep                      \* owner of the housekeeping task that runs now

declVars == <<provides, needs, optional>>
topoVars == <<indeg, queue, order>>
vars == <<declVars, phase, topoVars, at, caps, started, running, err, sweep>>

Phases == {"new", "sorting", "starting", "unwinding", "up", "draining",
           "stopping", "down", "failed"}
Errors == {"none", "declaration", "cycle", "unmet", "start", "leak",
           "unregistered"}

\* Types of every variable.
TypeOK ==
    /\ provides \in [Module -> SUBSET Cap]
    /\ needs \in [Module -> SUBSET Cap]
    /\ optional \subseteq Module
    /\ phase \in Phases
    /\ indeg \in [Module -> Int]
    /\ queue \in Seq(Module) /\ order \in Seq(Module)
    /\ at \in Nat \ {0}
    /\ caps \subseteq Cap
    /\ started \in Seq(Module)
    /\ running \subseteq Module
    /\ err \in Errors
    /\ sweep \in Module \cup {NoModule}

Init ==
    /\ provides \in [Module -> SUBSET Cap]
    /\ needs \in [Module -> SUBSET Cap]
    /\ optional \in SUBSET Module
    /\ phase = "new"
    /\ indeg = [m \in Module |-> 0] /\ queue = <<>> /\ order = <<>>
    /\ at = 1
    /\ caps = {} /\ started = <<>> /\ running = {}
    /\ err = "none"
    /\ sweep = NoModule

----------------------------------------------------------------------------
(* topoOrder                                                               *)

Feeds(p, m) == provides[p] \cap needs[m] # {}

\* A capability with two providers, a need without one, or one's own.
BadDeclaration ==
    \/ \E m, p \in Module : m # p /\ provides[m] \cap provides[p] # {}
    \/ \E m \in Module : \E c \in needs[m] : \A p \in Module : c \notin provides[p]
    \/ \E m \in Module : Feeds(m, m)

ProvidersOf(m) == {p \in Module : Feeds(p, m)}

Place(m) == CHOOSE i \in DOMAIN Mods : Mods[i] = m

\* The modules of S in registration order (the one element of this set).
Listings(S) ==
    {l \in [1 .. Cardinality(S) -> S] :
        \A i, j \in 1 .. Cardinality(S) : i < j => Place(l[i]) < Place(l[j])}

\* Start up to the in-degrees and the queue of modules that need nothing.
Start ==
    /\ phase = "new"
    /\ IF BadDeclaration
       THEN /\ phase' = "failed" /\ err' = "declaration"
            /\ UNCHANGED topoVars
       ELSE /\ phase' = "sorting"
            /\ indeg' = [m \in Module |-> Cardinality(ProvidersOf(m))]
            /\ queue' \in Listings({m \in Module : ProvidersOf(m) = {}})
            /\ UNCHANGED <<order, err>>
    /\ UNCHANGED <<declVars, at, caps, started, running, sweep>>

\* Mutant: a dependent is queued as soon as one of its providers is placed.
FreedByAny(m) == {d \in Module : Feeds(m, d) /\ indeg[d] > 0}

\* The dependents whose last provider was m.
FreedBy(m) == {d \in Module : Feeds(m, d) /\ indeg[d] = 1}

Dequeue ==
    /\ phase = "sorting" /\ queue # <<>>
    /\ LET m == Head(queue) IN
          /\ order' = Append(order, m)
          /\ indeg' = [d \in Module |-> IF Feeds(m, d) THEN indeg[d] - 1
                                                      ELSE indeg[d]]
          /\ \E l \in Listings(FreedBy(m)) : queue' = Tail(queue) \o l
    /\ UNCHANGED <<declVars, phase, at, caps, started, running, err, sweep>>

\* The queue is empty: everything is placed, or there is a cycle.
Sorted ==
    /\ phase = "sorting" /\ queue = <<>>
    /\ IF Len(order) = Len(Mods)
       THEN phase' = "starting" /\ UNCHANGED err
       ELSE phase' = "failed" /\ err' = "cycle"
    /\ UNCHANGED <<declVars, topoVars, at, caps, started, running, sweep>>

----------------------------------------------------------------------------
(* The start loop                                                          *)

\* Mutant: the abort skips the unwind.
AbortOnly(e) == phase' = "failed" /\ err' = e /\ UNCHANGED at

Abort(e) == phase' = "unwinding" /\ err' = e /\ UNCHANGED at

Continue == at' = at + 1 /\ UNCHANGED <<phase, err>>

SkipOrAbort(m, e) == IF m \in optional THEN Continue ELSE Abort(e)

\* A needed capability is missing: its provider was skipped.
SkipUnmet ==
    /\ phase = "starting" /\ at <= Len(order)
    /\ LET m == order[at] IN
         /\ ~(needs[m] \subseteq caps)
         /\ SkipOrAbort(m, "unmet")
    /\ UNCHANGED <<declVars, topoVars, caps, started, running, sweep>>

\* Start succeeds, having registered the capabilities in r; a critical module
\* must have registered all it declared.
StartSucceeds(r) ==
    /\ phase = "starting" /\ at <= Len(order)
    /\ LET m == order[at] IN
         /\ needs[m] \subseteq caps
         /\ r \subseteq provides[m]
         /\ caps' = caps \cup r
         /\ started' = Append(started, m)
         /\ running' = running \cup {m}
         /\ IF provides[m] \subseteq caps' THEN Continue
                                           ELSE SkipOrAbort(m, "unregistered")
    /\ UNCHANGED <<declVars, topoVars, sweep>>

\* Mutant: an optional module's failure is always tolerated.
LeaksNothing(m, r) == FALSE

\* A failed Start left a half-initialized capability in the registry.
Leaks(m, r) == provides[m] \cap (caps \cup r) # {}

StartFails(r) ==
    /\ phase = "starting" /\ at <= Len(order)
    /\ LET m == order[at] IN
         /\ needs[m] \subseteq caps
         /\ r \subseteq provides[m]
         /\ caps' = caps \cup r
         /\ IF m \in optional /\ Leaks(m, r) THEN Abort("leak")
                                             ELSE SkipOrAbort(m, "start")
    /\ UNCHANGED <<declVars, topoVars, started, running, sweep>>

\* Everything that can run does: start the housekeeper.
Serve ==
    /\ phase = "starting" /\ at > Len(order)
    /\ phase' = "up"
    /\ UNCHANGED <<declVars, topoVars, at, caps, started, running, err, sweep>>

----------------------------------------------------------------------------
(* Stopping                                                                *)

\* Mutant: modules are stopped in start order.
StopFirst == /\ running' = running \ {Head(started)}
             /\ started' = Tail(started)

\* Stop of the module started last.
StopLast == /\ running' = running \ {started[Len(started)]}
            /\ started' = SubSeq(started, 1, Len(started) - 1)

StopModule ==
    /\ phase \in {"unwinding", "stopping"} /\ started # <<>>
    /\ StopLast
    /\ UNCHANGED <<declVars, phase, topoVars, at, caps, err, sweep>>

Stopped ==
    /\ phase \in {"unwinding", "stopping"} /\ started = <<>>
    /\ phase' = IF phase = "unwinding" THEN "failed" ELSE "down"
    /\ UNCHANGED <<declVars, topoVars, at, caps, started, running, err, sweep>>

\* Stop asks the housekeeper to stop and waits for its running task.
Stop ==
    /\ phase = "up"
    /\ phase' = "draining"
    /\ UNCHANGED <<declVars, topoVars, at, caps, started, running, err, sweep>>

\* Mutants: Stop does not wait; Stop waits for a task even if none runs.
NoWait == TRUE
WaitForTask == sweep # NoModule

HousekeeperStopped == sweep = NoModule

Drained ==
    /\ phase = "draining"
    /\ HousekeeperStopped
    /\ phase' = "stopping"
    /\ UNCHANGED <<declVars, topoVars, at, caps, started, running, err, sweep>>

\* The housekeeper's worker runs a task of a module, and finishes it.
Sweep ==
    /\ phase = "up" /\ sweep = NoModule
    /\ \E m \in running : sweep' = m
    /\ UNCHANGED <<declVars, phase, topoVars, at, caps, started, running, err>>

SweepEnds ==
    /\ sweep # NoModule
    /\ sweep' = NoModule
    /\ UNCHANGED <<declVars, phase, topoVars, at, caps, started, running, err>>

Boot ==
    \/ Start \/ Dequeue \/ Sorted \/ SkipUnmet
    \/ \E r \in SUBSET Cap : StartSucceeds(r) \/ StartFails(r)
    \/ Serve

Shutdown == StopModule \/ Stopped \/ Drained

Next == Boot \/ Stop \/ Shutdown \/ Sweep \/ SweepEnds

Spec == Init /\ [][Next]_vars

\* main runs Start and Stop to their end; module hooks and tasks return.  The
\* signal that asks for Stop may never come.
Fairness == WF_vars(Boot) /\ WF_vars(Shutdown) /\ WF_vars(SweepEnds)

FairSpec == Spec /\ Fairness

----------------------------------------------------------------------------
(* What is true                                                            *)

\* Whatever failed, was skipped or is being stopped, a running module's needed
\* capabilities belong to running modules: providers start before and stop after
\* those who need them (unmetNeeds, the leak check and the reverse order).
DependenciesOutlive ==
    \A m \in running : \A c \in needs[m] :
        \E p \in running : c \in provides[p]

\* Every capability in the registry of a serving process belongs to a module
\* that started (a failed Start leaves nothing behind, or the boot aborts).
CapsAreBacked ==
    phase \in {"starting", "up"} =>
        \A c \in caps : \E m \in running : c \in provides[m]

\* A boot that failed leaves no module running and says why; a stop that ended
\* leaves none running either (every abort path unwinds).
NothingLeftBehind ==
    /\ phase \in {"failed", "down"} => running = {}
    /\ phase = "failed" => err # "none"

\* A housekeeping task never runs against a stopped module (Stop halts the
\* housekeeper first).
SweepsOnLiveModules == sweep = NoModule \/ sweep \in running

\* The reference for a cycle: modules that all need one another.
Cyclic == \E S \in SUBSET Module :
              S # {} /\ \A m \in S : \E p \in S : Feeds(p, m)

\* The sort places every module once, after all its providers, and reports a
\* cycle exactly when there is one (Kahn's algorithm in topoOrder).
SortIsCorrect ==
    /\ phase \in {"starting", "up"} =>
          /\ ~Cyclic
          /\ Len(order) = Cardinality(Module)
          /\ \A i, j \in DOMAIN order :
                order[i] = order[j] \/ Feeds(order[i], order[j]) => i <= j
    /\ err = "cycle" => Cyclic

\* Start comes to a result and a requested Stop to an end, sweeps included.
LifeCycleSettles ==
    /\ phase # "new" ~> phase \in {"up", "failed", "draining", "down"}
    /\ phase = "draining" ~> phase = "down"
=============================================================================

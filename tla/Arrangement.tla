---------------------------- MODULE Arrangement ----------------------------
(***************************************************************************)
(* The arrangement engine (leaf/arrangement): items of work move through   *)
(* an ordered list of role buckets.  A selector looks for buckets with     *)
(* work and queues wakes for idle members, a drainer emits the wakes one   *)
(* by one, a woken member's turn pulls an item, works on it and submits    *)
(* it, which routes it forward, back or into a parked state.               *)
(*                                                                         *)
(* There are no transactions: every store call is a step of its own, so    *)
(* turns, selector, drainer, Define, Inject, Cancel and the retention      *)
(* sweeps interleave between them.  The organisation (who serves a role,   *)
(* is the company active) and the session manager (who runs a turn) are    *)
(* other modules; they appear as the environment's variables.              *)
(*                                                                         *)
(* Payloads and stage texts are left out: the engine never reads them.     *)
(* What may go wrong (store errors, a failed emit, lost staff, a pause, a  *)
(* turn that ends without a submit, an item sent back, a crash) happens    *)
(* at most MaxShocks times.                                                *)
(***************************************************************************)
EXTENDS Naturals, Sequences, FiniteSets, FiniteSetsExt, SequencesExt

CONSTANTS Arr,        \* arrangement ids
          Stages,     \* number of buckets of the (frozen) specification
          Members,    \* Members[r]: the scopes that serve stage r
          Slot,       \* slots for woken turns
          MaxItems,   \* bound on the items ever inserted
          MaxRunning, \* maxConcurrentArrangements
          MaxPrio,    \* priorities are 0..MaxPrio
          MaxCalls,   \* bound on the calls under way at a time
          MaxShocks,  \* bound on disturbances
          None

Role == 1..Stages
Item == 1..MaxItems
Member == UNION {Members[r] : r \in Role}

ASSUME ArrangementAssumption ==
    /\ Stages \in Nat \ {0} /\ MaxItems \in Nat /\ MaxRunning \in Nat \ {0}
    /\ MaxPrio \in Nat /\ MaxCalls \in Nat /\ MaxShocks \in Nat
    /\ DOMAIN Members = Role
    /\ None \notin Arr \cup Slot \cup Member

VARIABLES
    defs,      \* bob_arrangement_defs: status by id
    items,     \* bob_arrangement_items: rows by id
    calls,     \* Define, Inject and Cancel calls between their statements
    turn,      \* the woken turns, by slot
    pushQ,     \* Module.pushQ (pushSet is the set of its elements)
    cooling,   \* scopes whose lastNudged is younger than nudgeCooldownSec
    drain,     \* the scope whose wake was emitted and not stamped yet
    sel,       \* the selector: its step and the rows still to handle
    unstaffed, \* stages without a live member            (agora)
    revoked,   \* stages whose role lacks pull and submit (agora)
    paused,    \* the company is not active               (agora)
    shocks,    \* disturbances so far
    late,      \* history: items made runnable by a call older than the closing
    half       \* history: definitions whose Cancel stopped halfway

storeVars == <<defs, items>>
wakeVars == <<pushQ, cooling, drain>>
orgVars == <<unstaffed, revoked, paused>>
ghostVars == <<late, half>>
vars == <<storeVars, calls, turn, wakeVars, sel, orgVars, shocks, ghostVars>>

Live == {"queued", "in_flight", "unmet", "parked"}
Runnable == {"queued", "in_flight"}
ItemStatus == Live \cup {"none", "done", "cancelled", "gone"}
DefStatus == {"none", "started", "done", "cancelled", "gone"}

Wake == [arr: Arr, role: Role, who: Member]
NoItem == [st |-> "none", arr |-> None, role |-> 1, prio |-> 0, by |-> None,
           old |-> FALSE]
Free == [pc |-> "free", who |-> None, arr |-> None, role |-> 1, item |-> 0,
         st |-> "none"]
Idle == [pc |-> "idle", todo |-> {}]

\* New starts with an empty push queue; the tables may be empty too.
Init ==
    /\ defs = [a \in Arr |-> "none"]
    /\ items = [i \in Item |-> NoItem]
    /\ calls = {}
    /\ turn = [t \in Slot |-> Free]
    /\ pushQ = <<>> /\ cooling = {} /\ drain = None
    /\ sel = Idle
    /\ unstaffed = {} /\ revoked = {} /\ paused = FALSE
    /\ shocks = 0
    /\ late = {} /\ half = {}

(* ------------------------------ reading ------------------------------- *)

Of(a) == {i \in Item : items[i].arr = a}
Bucket(a, r, s) == {i \in Of(a) : items[i].role = r /\ items[i].st = s}
Buckets(s) == {<<items[i].arr, items[i].role>> :
                   i \in {j \in Item : items[j].st = s}}
Unborn == {i \in Item : items[i].st = "none"}

\* RunningAtScope: a turn that was emitted but has not registered busy does
\* not count.
Running(m) == \E t \in Slot : turn[t].who = m /\ turn[t].pc \notin {"free", "woken"}

MemberScopesForRole(r) == IF r \in unstaffed THEN {} ELSE Members[r]
roleCanProcess(r) == r \notin revoked
CountRunningDefs ==
    Cardinality({a \in Arr : /\ defs[a] = "started"
                             /\ \E i \in Of(a) : items[i].st \in Runnable})

\* ORDER BY priority DESC, created_at ASC.
Top(a, r) ==
    CHOOSE i \in Bucket(a, r, "queued") : \A j \in Bucket(a, r, "queued") :
        \/ items[i].prio > items[j].prio
        \/ items[i].prio = items[j].prio /\ i <= j

\* Mutant: parked items do not keep a definition open.
CountRunnableForDef(a) == Cardinality({i \in Of(a) : items[i].st \in Runnable})

CountLiveForDef(a) == Cardinality({i \in Of(a) : items[i].st \in Live})

\* A completion or a cancel of a that has already looked at its items.
Closing(a) ==
    \/ defs[a] # "started"
    \/ \E t \in Slot : turn[t].pc = "complete" /\ turn[t].arr = a

Shock == shocks < MaxShocks /\ shocks' = shocks + 1

(* --------------------- Define, Inject and Cancel ---------------------- *)

\* A row that is not there yet becomes a queued item of (a, r).
InsertItem(a, r, p) ==
    /\ Unborn # {}
    /\ items' = [items EXCEPT ![Min(Unborn)] =
                    [NoItem EXCEPT !.st = "queued", !.arr = a, !.role = r,
                                   !.prio = p]]

\* A call under way; its id tells calls with the same arguments apart.
NewCall(op, a, r, p) ==
    LET ids == (1..MaxCalls) \ {c.id : c \in calls}
    IN  /\ ids # {}
        /\ calls' = calls \cup {[id |-> Min(ids), op |-> op, arr |-> a, role |-> r,
                                 prio |-> p]}

\* Call c goes on with its next statement, or ends.
CallGoes(c, op) == calls' = (calls \ {c}) \cup {[c EXCEPT !.op = op]}
CallEnds(c) == calls' = calls \ {c}
Calling(c, op) == c \in calls /\ c.op = op

\* The calls that may still insert an item; a row is kept for each of them.
Inserting == {c \in calls : c.op \in {"define", "kickoff", "inject"}}
HasRoom == Cardinality(Unborn) > Cardinality(Inserting)

\* Define up to the count of running definitions: the permission gate and the
\* cap.  The id is a new one.
Define(a) ==
    /\ defs[a] = "none" /\ \A c \in calls : c.arr # a
    /\ HasRoom
    /\ \A r \in Role : roleCanProcess(r)
    /\ CountRunningDefs < MaxRunning
    /\ NewCall("define", a, 1, 0)
    /\ UNCHANGED <<storeVars, turn, wakeVars, sel, orgVars, shocks, ghostVars>>

\* The row of the definition, whatever started meanwhile.
InsertDef(c) ==
    /\ Calling(c, "define") /\ defs[c.arr] = "none"
    /\ defs' = [defs EXCEPT ![c.arr] = "started"]
    /\ CallGoes(c, "kickoff")
    /\ UNCHANGED <<items, turn, wakeVars, sel, orgVars, shocks, ghostVars>>

\* An insert by call c, which does not look at the definition (again).
CallInserts(c) ==
    /\ InsertItem(c.arr, c.role, c.prio)
    /\ late' = IF Closing(c.arr) THEN late \cup {Min(Unborn)} ELSE late
    /\ CallEnds(c)
    /\ UNCHANGED <<defs, turn, wakeVars, sel, orgVars, shocks, half>>

\* The kickoff item of Define: the definition may be cancelled by now.
Kickoff(c) == Calling(c, "kickoff") /\ CallInserts(c)

\* The kickoff insert fails: Define rolls the definition back.
KickoffFails(c) ==
    /\ Calling(c, "kickoff")
    /\ Shock
    /\ CallGoes(c, "rollback")
    /\ UNCHANGED <<storeVars, turn, wakeVars, sel, orgVars, ghostVars>>

Gone == [NoItem EXCEPT !.st = "gone"]

\* DeleteDef: the items first, and there may be some (an Inject in between),
DeleteItems(c) ==
    /\ Calling(c, "rollback")
    /\ items' = [i \in Item |-> IF i \in Of(c.arr) THEN Gone ELSE items[i]]
    /\ CallGoes(c, "delete")
    /\ UNCHANGED <<defs, turn, wakeVars, sel, orgVars, shocks, ghostVars>>

\* ... then the definition.
DeleteDef(c) ==
    /\ Calling(c, "delete")
    /\ defs' = [defs EXCEPT ![c.arr] = "gone"]
    /\ CallEnds(c)
    /\ UNCHANGED <<items, turn, wakeVars, sel, orgVars, shocks, ghostVars>>

\* The store is still failing when the rollback runs: an orphan is left.
RollbackFails(c) ==
    /\ Calling(c, "rollback") \/ Calling(c, "delete")
    /\ CallEnds(c)
    /\ UNCHANGED <<storeVars, turn, wakeVars, sel, orgVars, shocks, ghostVars>>

\* Inject up to the insert: the definition is started and the stage served.
Inject(a, r, p) ==
    /\ defs[a] = "started"
    /\ HasRoom
    /\ roleCanProcess(r)
    /\ NewCall("inject", a, r, p)
    /\ UNCHANGED <<storeVars, turn, wakeVars, sel, orgVars, shocks, ghostVars>>

\* The insert of Inject.
InjectItem(c) == Calling(c, "inject") /\ CallInserts(c)

\* InsertDef or the insert of Inject fails, and the call with it.
InsertFails(c) ==
    /\ Calling(c, "define") \/ Calling(c, "inject")
    /\ Shock
    /\ CallEnds(c)
    /\ UNCHANGED <<storeVars, turn, wakeVars, sel, orgVars, ghostVars>>

\* UPDATE .. SET status = 'cancelled' WHERE id = .. AND status = 'started'.
CancelDef(a) ==
    defs' = IF defs[a] = "started" THEN [defs EXCEPT ![a] = "cancelled"] ELSE defs

\* Cancel's first statement; a definition that is closed already is not
\* touched, but what is still runnable of it is parked all the same.
Cancel(a) ==
    /\ defs[a] \in {"started", "done", "cancelled"}
    /\ CancelDef(a)
    /\ NewCall("cancel", a, 1, 0)
    /\ UNCHANGED <<items, turn, wakeVars, sel, orgVars, shocks, ghostVars>>

\* status IN ('queued', 'in_flight').
Cancels(i) == items[i].st \in Runnable

\* Cancel's second statement.
CancelLive(c) ==
    /\ Calling(c, "cancel")
    /\ items' = [i \in Item |-> IF items[i].arr = c.arr /\ Cancels(i)
                                THEN [items[i] EXCEPT !.st = "cancelled"]
                                ELSE items[i]]
    /\ CallEnds(c)
    /\ half' = half \ {c.arr}
    /\ UNCHANGED <<defs, turn, wakeVars, sel, orgVars, shocks, late>>

\* The second statement fails: live items stay behind until Cancel is repeated.
CancelFails(c) ==
    /\ Calling(c, "cancel")
    /\ Shock
    /\ CallEnds(c)
    /\ half' = half \cup {c.arr}
    /\ UNCHANGED <<storeVars, turn, wakeVars, sel, orgVars, late>>

(* -------------------------- a woken turn ------------------------------ *)

\* Turn t goes on with the fields of e, or ends.
Turn(t, e) == turn' = [turn EXCEPT ![t] = e]
EndTurn(t) == Turn(t, Free)
At(t, pc) == turn[t].pc = pc

\* The wake reaches the session manager: the scope is busy from now on.
StartTurn(t) ==
    /\ At(t, "woken")
    /\ Turn(t, [turn[t] EXCEPT !.pc = "pull"])
    /\ UNCHANGED <<storeVars, calls, wakeVars, sel, orgVars, shocks, ghostVars>>

\* Pull and ClaimTop: after the checks of the definition, the company and the
\* membership, the top item of the bucket is claimed.  Its SELECT and its
\* conditional UPDATE are one step: an UPDATE that lost a race selects again.
\* Whoever fails a check or finds the bucket empty gets nothing, and the turn
\* is over.
Pull(t) ==
    /\ At(t, "pull")
    /\ LET a == turn[t].arr
           r == turn[t].role
           i == Top(a, r)
       IN  IF /\ defs[a] = "started" /\ ~paused
              /\ turn[t].who \in MemberScopesForRole(r)
              /\ Bucket(a, r, "queued") # {}
           THEN /\ items' = [items EXCEPT ![i] =
                                [@ EXCEPT !.st = "in_flight", !.by = turn[t].who]]
                /\ Turn(t, [turn[t] EXCEPT !.pc = "work", !.item = i])
           ELSE EndTurn(t) /\ UNCHANGED items
    /\ UNCHANGED <<defs, calls, wakeVars, sel, orgVars, shocks, ghostVars>>

\* The turn ends without a submit: the item stays under the member's name.
Abandon(t) ==
    /\ At(t, "work")
    /\ Shock
    /\ EndTurn(t)
    /\ UNCHANGED <<storeVars, calls, wakeVars, sel, orgVars, ghostVars>>

\* Where a submit of an item in stage r sends it.
Forward(r) == IF r = Stages THEN <<r, "done">> ELSE <<r + 1, "queued">>
Back(r) == IF r = 1 THEN <<r, "parked">> ELSE <<r - 1, "queued">>

\* Submit reads the item and its definition and decides the route.
SubmitTo(t, route) ==
    Turn(t, [turn[t] EXCEPT !.pc = "route", !.role = route[1], !.st = route[2]])

Submit(t) ==
    /\ At(t, "work")
    /\ LET it == items[turn[t].item]
       IN  IF it.by # turn[t].who \/ defs[it.arr] = "gone"
           THEN EndTurn(t) /\ UNCHANGED shocks
           ELSE IF defs[it.arr] = "cancelled"
           THEN SubmitTo(t, <<it.role, "cancelled">>) /\ UNCHANGED shocks
           ELSE \/ SubmitTo(t, Forward(it.role)) /\ UNCHANGED shocks
                \/ SubmitTo(t, <<it.role, "parked">>) /\ UNCHANGED shocks
                \/ SubmitTo(t, Back(it.role)) /\ Shock
    /\ UNCHANGED <<storeVars, calls, wakeVars, sel, orgVars, ghostVars>>

\* WHERE id = .. AND claimed_by = .. AND status = 'in_flight'.
MayRoute(t) == /\ items[turn[t].item].st = "in_flight"
               /\ items[turn[t].item].by = turn[t].who

RouteItem(t) ==
    /\ At(t, "route")
    /\ IF MayRoute(t)
       THEN /\ items' = [items EXCEPT ![turn[t].item] =
                            [@ EXCEPT !.st = turn[t].st, !.role = turn[t].role,
                                      !.by = None, !.old = FALSE]]
            /\ IF turn[t].st = "done"
               THEN Turn(t, [turn[t] EXCEPT !.pc = "deliver"])
               ELSE EndTurn(t)
       ELSE EndTurn(t) /\ UNCHANGED items
    /\ UNCHANGED <<defs, calls, wakeVars, sel, orgVars, shocks, ghostVars>>

\* deliverTerminal: the report goes to the bridge (without a bridge the
\* product stays in the item); the definition is closed only when no item of
\* it is live.
Deliver(t) ==
    /\ At(t, "deliver")
    /\ IF CountLiveForDef(turn[t].arr) = 0
       THEN Turn(t, [turn[t] EXCEPT !.pc = "complete"])
       ELSE EndTurn(t)
    /\ UNCHANGED <<storeVars, calls, wakeVars, sel, orgVars, shocks, ghostVars>>

\* The report cannot be emitted: the definition is left open.
DeliverFails(t) ==
    /\ At(t, "deliver")
    /\ Shock
    /\ EndTurn(t)
    /\ UNCHANGED <<storeVars, calls, wakeVars, sel, orgVars, ghostVars>>

\* CompleteDef, guarded on status = 'started'.
CompleteDef(t) ==
    /\ At(t, "complete")
    /\ defs' = IF defs[turn[t].arr] = "started"
               THEN [defs EXCEPT ![turn[t].arr] = "done"] ELSE defs
    /\ EndTurn(t)
    /\ UNCHANGED <<items, calls, wakeVars, sel, orgVars, shocks, ghostVars>>

(* ----------------------------- selector ------------------------------- *)

SelAt(pc) == sel.pc = pc

\* A new round: StaleInFlight lists the expired claims of started definitions.
StaleInFlight ==
    /\ SelAt("idle")
    /\ sel' = [Idle EXCEPT !.pc = "stale",
                 !.todo = {<<i, items[i].by>> : i \in
                     {j \in Item : /\ items[j].st = "in_flight" /\ items[j].old
                                   /\ defs[items[j].arr] = "started"}}]
    /\ UNCHANGED <<storeVars, calls, turn, wakeVars, orgVars, shocks, ghostVars>>

\* Mutant: nothing is ever reclaimed.
RequeuesNothing(i) == FALSE

\* WHERE id = .. AND status = 'in_flight'.
Requeues(i) == items[i].st = "in_flight"

\* The liveness gate looks at the claimer the list names.
RequeueInFlight(x) ==
    /\ SelAt("stale") /\ x \in sel.todo
    /\ sel' = [sel EXCEPT !.todo = @ \ {x}]
    /\ items' = IF ~Running(x[2]) /\ Requeues(x[1])
                THEN [items EXCEPT ![x[1]] = [@ EXCEPT !.st = "queued", !.by = None,
                                                       !.old = FALSE]]
                ELSE items
    /\ UNCHANGED <<defs, calls, turn, wakeVars, orgVars, shocks, ghostVars>>

Serviceable(r) == MemberScopesForRole(r) # {} /\ roleCanProcess(r)

\* The rows of the buckets bs with status s get status n.
Restatus(bs, s, n) ==
    [i \in Item |->
        IF items[i].st = s /\ <<items[i].arr, items[i].role>> \in bs
        THEN [items[i] EXCEPT !.st = n] ELSE items[i]]

\* enqueuePush: one pending wake per bucket and scope, none while cooling.
MayPush(w) == ~Running(w.who) /\ w.who \notin cooling /\ w \notin Range(pushQ)

Pushes(a, r) ==
    {w \in Wake : /\ w.arr = a /\ w.role = r
                  /\ w.who \in MemberScopesForRole(r) /\ MayPush(w)}

\* ListDefs and CompanyActive.
ActiveDefs == IF paused THEN {} ELSE {a \in Arr : defs[a] = "started"}

\* The queued buckets of active definitions: wakes for the idle members of a
\* bucket that can be served; a bucket that cannot is parked.  The unmet
\* buckets are listed next.
ServeBuckets ==
    /\ SelAt("stale") /\ sel.todo = {}
    /\ LET due == {b \in Buckets("queued") : b[1] \in ActiveDefs}
           parked == {b \in due : ~Serviceable(b[2])}
       IN  /\ pushQ' = pushQ \o SetToSeq(UNION {Pushes(b[1], b[2]) : b \in due \ parked})
           /\ items' = Restatus(parked, "queued", "unmet")
           /\ sel' = [pc |-> "heal",
                      todo |-> {b \in Buckets("unmet") \cup parked : b[1] \in ActiveDefs}]
    /\ UNCHANGED <<defs, calls, turn, cooling, drain, orgVars, shocks, ghostVars>>

\* The unmet buckets whose role can serve again.
Heals == {b \in sel.todo : Serviceable(b[2])}

\* RequeueUnmet, the end of the round.
RequeueUnmet ==
    /\ SelAt("heal")
    /\ items' = Restatus(Heals, "unmet", "queued")
    /\ late' = late \cup {i \in Item : /\ items[i].st = "unmet"
                                       /\ <<items[i].arr, items[i].role>> \in Heals
                                       /\ Closing(items[i].arr)}
    /\ sel' = Idle
    /\ UNCHANGED <<defs, calls, turn, wakeVars, orgVars, shocks, half>>

\* The scan for stale claims, or the requeue of one, fails: the round goes on.
ScanFails ==
    /\ Shock
    /\ \/ SelAt("idle") /\ sel' = [Idle EXCEPT !.pc = "stale"]
       \/ SelAt("stale") /\ \E x \in sel.todo : sel' = [sel EXCEPT !.todo = @ \ {x}]
    /\ UNCHANGED <<storeVars, calls, turn, wakeVars, orgVars, ghostVars>>

\* A later query of the round fails: the round is given up.
RoundFails ==
    /\ sel.pc \in {"stale", "heal"}
    /\ Shock
    /\ sel' = Idle
    /\ UNCHANGED <<storeVars, calls, turn, wakeVars, orgVars, ghostVars>>

(* ------------------------------ drainer ------------------------------- *)

\* Mutant: the drainer does not look at the cooldown.
DropsBusy(m) == Running(m)

\* drainOne's two checks of the scope.
Drops(m) == Running(m) \/ m \in cooling

\* The bucket still has work and the company is active (and GetDef finds the
\* definition).
StillDue(w) == /\ Bucket(w.arr, w.role, "queued") # {}
               /\ defs[w.arr] # "gone" /\ ~paused

dequeuePush == pushQ' = Tail(pushQ)

\* drainOne up to the Emit: the woken turn is on its way, unless the wake is
\* stale by now.
DrainOne ==
    /\ drain = None /\ pushQ # <<>>
    /\ LET w == Head(pushQ)
           t == CHOOSE u \in Slot : At(u, "free")
       IN  IF Drops(w.who) \/ ~StillDue(w)
           THEN UNCHANGED <<turn, drain>>
           ELSE /\ \E u \in Slot : At(u, "free")
                /\ Turn(t, [Free EXCEPT !.pc = "woken", !.who = w.who,
                                        !.arr = w.arr, !.role = w.role])
                /\ drain' = w.who
    /\ dequeuePush
    /\ UNCHANGED <<storeVars, calls, cooling, sel, orgVars, shocks, ghostVars>>

\* A query of drainOne or the emit fails: the wake is dropped, unstamped.
EmitFails ==
    /\ drain = None /\ pushQ # <<>>
    /\ Shock
    /\ dequeuePush
    /\ UNCHANGED <<storeVars, calls, turn, cooling, drain, sel, orgVars, ghostVars>>

\* lastNudged is stamped after the emit.
Stamp ==
    /\ drain # None
    /\ cooling' = cooling \cup {drain}
    /\ drain' = None
    /\ UNCHANGED <<storeVars, calls, turn, pushQ, sel, orgVars, shocks, ghostVars>>

(* ------------------------- retention sweeps --------------------------- *)

\* Retention periods are days: no call on a is still under way.
Calm(a) ==
    /\ \A c \in calls : c.arr # a
    /\ \A t \in Slot : turn[t].arr # a
    /\ \A i \in Of(a) : items[i].st # "in_flight"
    /\ drain = None /\ pushQ = <<>> /\ sel.todo = {}

\* CloseStalledDefs: started, nothing runnable, no activity.
CloseStalledDefs(a) ==
    /\ defs[a] = "started" /\ Calm(a)
    /\ \A i \in Of(a) : items[i].st \notin Runnable
    /\ defs' = [defs EXCEPT ![a] = "cancelled"]
    /\ UNCHANGED <<items, calls, turn, wakeVars, sel, orgVars, shocks, ghostVars>>

\* PruneTerminalDefs: a closed definition goes, its items first.
PruneTerminalDefs(a) ==
    /\ defs[a] \in {"done", "cancelled"} /\ Calm(a)
    /\ items' = [i \in Item |-> IF i \in Of(a) THEN Gone ELSE items[i]]
    /\ defs' = [defs EXCEPT ![a] = "gone"]
    /\ UNCHANGED <<calls, turn, wakeVars, sel, orgVars, shocks, ghostVars>>

\* PruneTerminal: old terminal items go, whatever their definition.
PruneTerminal(i) ==
    /\ items[i].st \in {"done", "cancelled"} /\ Calm(items[i].arr)
    /\ items' = [items EXCEPT ![i] = Gone]
    /\ UNCHANGED <<defs, calls, turn, wakeVars, sel, orgVars, shocks, ghostVars>>

(* ---------------------------- environment ----------------------------- *)

\* A claim outlives the lease.
Expire(i) ==
    /\ items[i].st = "in_flight" /\ ~items[i].old
    /\ items' = [items EXCEPT ![i].old = TRUE]
    /\ UNCHANGED <<defs, calls, turn, wakeVars, sel, orgVars, shocks, ghostVars>>

\* The cooldown runs out; it outlasts the start of a turn.
CoolDown(m) ==
    /\ m \in cooling
    /\ \A t \in Slot : ~(turn[t].who = m /\ turn[t].pc = "woken")
    /\ cooling' = cooling \ {m}
    /\ UNCHANGED <<storeVars, calls, turn, pushQ, drain, sel, orgVars, shocks, ghostVars>>

\* The organisation changes: a role loses its members or its grant, the
\* company is paused.
LoseService ==
    /\ Shock
    /\ \/ \E r \in Role : unstaffed' = unstaffed \cup {r} /\ UNCHANGED <<revoked, paused>>
       \/ \E r \in Role : revoked' = revoked \cup {r} /\ UNCHANGED <<unstaffed, paused>>
       \/ paused' = TRUE /\ UNCHANGED <<unstaffed, revoked>>
    /\ UNCHANGED <<storeVars, calls, turn, wakeVars, sel, ghostVars>>

\* ... and is repaired.
RestoreService ==
    /\ unstaffed # {} \/ revoked # {} \/ paused
    /\ unstaffed' = {} /\ revoked' = {} /\ paused' = FALSE
    /\ UNCHANGED <<storeVars, calls, turn, wakeVars, sel, shocks, ghostVars>>

\* A crash or restart: the tables survive, nothing else does.
Crash ==
    /\ Shock
    /\ half' = half \cup {c.arr : c \in {d \in calls : d.op = "cancel"}}
    /\ calls' = {} /\ turn' = [t \in Slot |-> Free]
    /\ pushQ' = <<>> /\ cooling' = {} /\ drain' = None /\ sel' = Idle
    /\ UNCHANGED <<storeVars, orgVars, late>>

(* ---------------------------- specification --------------------------- *)

TurnStep(t) ==
    \/ StartTurn(t) \/ Pull(t)
    \/ Submit(t) \/ RouteItem(t)
    \/ Deliver(t) \/ CompleteDef(t)

SelectorStep ==
    \/ StaleInFlight \/ \E x \in sel.todo : RequeueInFlight(x)
    \/ ServeBuckets \/ RequeueUnmet

DrainerStep == DrainOne \/ Stamp

CallStep ==
    \E c \in calls : \/ InsertDef(c) \/ Kickoff(c) \/ InjectItem(c)
                     \/ DeleteItems(c) \/ DeleteDef(c) \/ CancelLive(c)

Next ==
    \/ \E a \in Arr : Define(a) \/ Cancel(a) \/ CloseStalledDefs(a)
                      \/ PruneTerminalDefs(a)
    \/ \E a \in Arr, r \in Role, p \in 0..MaxPrio : Inject(a, r, p)
    \/ CallStep
    \/ \E c \in calls : \/ InsertFails(c) \/ KickoffFails(c) \/ RollbackFails(c)
                        \/ CancelFails(c)
    \/ \E t \in Slot : TurnStep(t) \/ Abandon(t) \/ DeliverFails(t)
    \/ SelectorStep \/ ScanFails \/ RoundFails
    \/ DrainerStep \/ EmitFails
    \/ \E i \in Item : Expire(i) \/ PruneTerminal(i)
    \/ \E m \in Member : CoolDown(m)
    \/ LoseService \/ RestoreService \/ Crash

Spec == Init /\ [][Next]_vars

\* Timers fire, store calls return, woken turns run and submit, leases and
\* cooldowns run out, and the organisation is repaired some day.
Fairness ==
    /\ \A t \in Slot : WF_vars(TurnStep(t))
    /\ WF_vars(SelectorStep) /\ WF_vars(DrainerStep) /\ WF_vars(CallStep)
    /\ \A i \in Item : WF_vars(Expire(i))
    /\ \A m \in Member : WF_vars(CoolDown(m))
    /\ WF_vars(RestoreService)

FairSpec == Spec /\ Fairness

(* ----------------------------- properties ----------------------------- *)

\* A closed definition has no live item (when done) and no runnable one (when
\* cancelled), apart from items that a call which started earlier made runnable
\* behind its back (the insert of Inject, the kickoff of a Define that was
\* cancelled after InsertDef, the requeue of unmet buckets) and cancels that
\* failed halfway (CountLiveForDef and CompleteDef, CancelDef and CancelLive are
\* separate statements).
ClosedIsSettled ==
    \A i \in Item \ late :
        LET a == items[i].arr IN
        a # None =>
            /\ defs[a] = "done" => items[i].st \notin Live
            /\ defs[a] = "cancelled" /\ items[i].st \in Runnable =>
                  a \in half \/ \E c \in calls : c.op = "cancel" /\ c.arr = a

\* A member is never woken into two turns at once, although wakes for several
\* buckets of one member wait in the queue and a woken turn registers busy
\* late (the cooldown of enqueuePush and drainOne).
OneWakePerMember ==
    \A t, u \in Slot : t # u /\ turn[t].who # None => turn[t].who # turn[u].who

\* The selector takes a claim away only if its holder is not running a turn.
ReclaimsOnlyOrphans ==
    [][\A x \in sel.todo, i \in Item :
          RequeueInFlight(x) /\ items[i].st = "in_flight" /\ items'[i].st = "queued"
              => ~Running(items[i].by)]_vars

Settled(i) == \/ items[i].st \in {"none", "parked", "done", "cancelled", "gone"}
              \/ defs[items[i].arr] # "started"

\* Every item of a running arrangement is finished, parked or cancelled in the
\* end, and once no more are injected all of them are at the same time: orphaned
\* claims are reclaimed, unmet buckets heal, dropped wakes are queued again.
ItemsSettle ==
    (\E i \in Item : items[i].st \in Live) ~> (\A i \in Item : Settled(i))
=============================================================================

----------------------------- MODULE ModelHealth -----------------------------
(***************************************************************************)
(* Health of the model pool's entries (leaf/model): the passive breaker of *)
(* each entry row, the on-demand heartbeat that probes dead rows, the two  *)
(* latches behind the admin pages, the admin's pause and resume, and the   *)
(* reload that swaps the whole table while calls still hold old rows.      *)
(*                                                                         *)
(* Time is abstracted to what it decides: deadUntil is "no" (zero),        *)
(* "cooling" (in the future) or "lapsed" (in the past, not yet cleared);   *)
(* nextProbeAt is the flag held; the sliding window is the count of errors *)
(* so far, any three of which may fall inside it.  Entries have no         *)
(* concurrency limit here: slots and the wait queue are in ModelFailover.  *)
(***************************************************************************)
EXTENDS Naturals, FiniteSets

CONSTANTS
    Entry,          \* names of the enabled entries of models.yaml
    KindOf,         \* the kind of each entry
    Caller,         \* goroutines that make model calls
    Budgets         \* bound: a behaviour is limited to the model calls and
                    \* the shocks (reloads, pauses, panics, close) of one

ASSUME HealthAssumption ==
    /\ Budgets \subseteq [calls : Nat, shocks : Nat]
    /\ DOMAIN KindOf = Entry

livenessFailThreshold == 3
consecutiveFailThreshold == 2

Kind == {KindOf[e] : e \in Entry}
Gen == UNION {0 .. b.shocks : b \in Budgets}
Runner == 1 .. 2        \* heartbeat goroutines: one live, one on its way out

VARIABLES
    \* the tables: rows[g][e] is entry e's row in the g-th table, gen the
    \* one the atomic pointer holds
    rows, gen,
    calls,          \* what each caller is doing
    budget,         \* calls and shocks left
    running, hb,    \* the heartbeat's flag and its goroutines
    closed,         \* the pool was closed
    allDead, exhausted,   \* the two latches (allDeadMu)
    admin,          \* what the /model pause | resume handler is doing
    reload,         \* what the reloader is doing
    pager           \* what the admin last learnt of each kind

healthVars == <<rows, gen, calls, budget, running, hb, closed, allDead,
                exhausted, admin, reload, pager>>

Fresh == [paused |-> FALSE, tentative |-> FALSE, dead |-> "no",
          held |-> FALSE, fails |-> 0, errs |-> 0]

IdleCall == [pc |-> "idle", gen |-> 0, on |-> "none",
             tried |-> {}, fault |-> FALSE]
IdleRunner == [pc |-> "off", todo |-> {}, dead |-> FALSE, rec |-> FALSE]
NoRows == [e \in {} |-> Fresh]
IdleReload == [pc |-> "idle", keep |-> FALSE, built |-> NoRows]

HealthInit ==
    /\ rows = [g \in Gen |-> [e \in Entry |-> Fresh]]
    /\ gen = 0
    /\ calls = [c \in Caller |-> IdleCall]
    /\ budget \in Budgets
    /\ running = FALSE
    /\ hb = [h \in Runner |-> IdleRunner]
    /\ closed = FALSE
    /\ allDead = {} /\ exhausted = {}
    /\ admin = "idle"
    /\ reload = IdleReload
    /\ pager = [k \in Kind |-> "ok"]

-----------------------------------------------------------------------------
(* One row.                                                                *)

IsEligible(r) == ~r.paused /\ (r.tentative \/ r.dead # "cooling")

\* What asking IsEligible leaves behind: an elapsed cooldown is cleared, and
\* the fail counter kept, so that one more error kills the row again.
Asked(r) ==
    IF ~r.paused /\ ~r.tentative /\ r.dead = "lapsed"
    THEN [r EXCEPT !.dead = "no"] ELSE r

IsDead(r) == ~r.paused /\ ~r.tentative /\ r.dead = "cooling"

RecordSuccess(r) ==
    [r EXCEPT !.fails = 0, !.held = FALSE, !.tentative = FALSE]

Capped(n, cap) == IF n > cap THEN cap ELSE n

Counted(r) ==
    [r EXCEPT !.errs = Capped(r.errs + 1, livenessFailThreshold),
              !.fails = Capped(r.fails + 1, consecutiveFailThreshold)]

\* full: livenessFailThreshold errors fell inside the sliding window.
NewlyDead(r, full) ==
    \/ r.tentative
    \/ /\ full \/ Counted(r).fails >= consecutiveFailThreshold
       /\ r.dead # "cooling"

\* A failed tentative recovery also holds the heartbeat off the row until the
\* same deadline.
RecordError(r, full) ==
    IF ~NewlyDead(r, full) THEN Counted(r)
    ELSE [Counted(r) EXCEPT !.dead = "cooling", !.tentative = FALSE,
                            !.held = @ \/ r.tentative]

MarkProbed(r, ok) ==
    IF IsDead(r) /\ ok THEN [r EXCEPT !.tentative = TRUE, !.dead = "no"] ELSE r

\* Everything but the probe hold (and the slots and usage counters).
copyLiveness(from) == [from EXCEPT !.held = FALSE]

-----------------------------------------------------------------------------
(* The pool.                                                               *)

HasDeadEntry == \E e \in Entry : IsDead(rows[gen][e])

OfKind(k) == {e \in Entry : KindOf[e] = k}

DeadKindsOf(table) ==
    {k \in Kind : \A e \in OfKind(k) : ~IsEligible(table[e])}

\* A page is worth sending once per outage: "twice" records that one was sent
\* while the previous one still described the state of the kind.
Paged(k, as) == IF pager[k] \in {"ok", "quiet"} THEN as ELSE "twice"

\* Mutant: pages without asking whether the kind was already reported as
\* exhausted.
CheckPagesTwice ==
    LET dead == DeadKindsOf(rows[gen])
    IN  /\ allDead' = dead
        /\ pager' = [k \in Kind |-> IF k \in dead \ allDead
                                    THEN Paged(k, "down") ELSE pager[k]]
        /\ UNCHANGED exhausted

CheckPoolLiveness ==
    LET dead == DeadKindsOf(rows[gen])
        news == (dead \ allDead) \ exhausted
    IN  /\ allDead' = dead
        /\ pager' = [k \in Kind |-> IF k \in news THEN Paged(k, "down")
                                    ELSE pager[k]]
        /\ UNCHANGED exhausted

\* The goroutines, the fall of one that panicked (see Panicked) forgotten.
Restarted == [h \in Runner |-> IF hb[h].pc = "fallen" THEN IdleRunner ELSE hb[h]]

Ensure ==
    IF running THEN UNCHANGED <<running, hb>>
    ELSE /\ running' = TRUE
         /\ \E h \in Runner : /\ Restarted[h].pc = "off"
                              /\ hb' = [Restarted EXCEPT ![h].pc = "wait"]

Latches == <<allDead, exhausted, pager>>

\* Bookkeeping of the ghost: a kind whose page says "down" is news again as
\* soon as one of its entries is usable.
Notice(table) ==
    pager' = [k \in Kind |->
                IF pager[k] = "down" /\ k \notin DeadKindsOf(table)
                THEN "quiet" ELSE pager[k]]

Shock ==
    /\ budget.shocks > 0
    /\ budget' = [budget EXCEPT !.shocks = @ - 1]

SetRow(g, e, r) == rows' = [rows EXCEPT ![g][e] = r]

-----------------------------------------------------------------------------
(* A model call: pick, attempt, record, fail over.                         *)

KindOfCall(c) == KindOf[calls[c].on]

\* pick asks every untried row of the kind whether it is eligible; the ranking
\* among the eligible ones is left open.  With none left the call gives up,
\* and reports the kind when a backend was at fault.
Pick(c, k, tried, fault) ==
    LET asked == OfKind(k) \ tried
        ready == {e \in asked : IsEligible(rows[gen][e])}
        table == [e \in Entry |-> IF e \in asked THEN Asked(rows[gen][e])
                                  ELSE rows[gen][e]]
    IN  /\ rows' = [rows EXCEPT ![gen] = table]
        /\ Notice(table)
        /\ \/ \E e \in ready :
                 calls' = [calls EXCEPT ![c] =
                   [pc |-> "attempt", gen |-> gen, on |-> e, tried |-> tried,
                    fault |-> fault]]
           \/ /\ ready = {}
              /\ calls' = [calls EXCEPT ![c] =
                   IF fault THEN [calls[c] EXCEPT !.pc = "exhausted"]
                   ELSE IdleCall]
        /\ UNCHANGED <<gen, running, hb, closed, allDead, exhausted, admin,
                       reload>>

StartCall(c, k) ==
    /\ calls[c].pc = "idle" /\ budget.calls > 0
    /\ budget' = [budget EXCEPT !.calls = @ - 1]
    /\ Pick(c, k, {}, FALSE)

FailOver(c) ==
    /\ calls[c].pc = "pick"
    /\ Pick(c, KindOfCall(c), calls[c].tried, calls[c].fault)
    /\ UNCHANGED budget

\* The heartbeat has re-admitted a row and not yet recomputed the latch.
Rechecking == \E h \in Runner : hb[h].rec

RowOf(c) == rows[calls[c].gen][calls[c].on]

\* The call is answered: the row is confirmed, then the kind's exhaustion
\* latch dropped (ClearExhausted).
Served(c) ==
    LET k == KindOfCall(c)
    IN  /\ calls[c].pc = "attempt"
        /\ SetRow(calls[c].gen, calls[c].on, RecordSuccess(RowOf(c)))
        /\ calls' = [calls EXCEPT ![c].pc = "served"]
        /\ pager' = [pager EXCEPT ![k] =
                       IF k \notin DeadKindsOf(rows[gen]) /\ ~Rechecking
                       THEN "ok" ELSE @]
        /\ UNCHANGED <<gen, budget, running, hb, closed, allDead, exhausted,
                       admin, reload>>

ClearExhausted(c) ==
    /\ calls[c].pc = "served"
    /\ exhausted' = exhausted \ {KindOfCall(c)}
    /\ pager' = [pager EXCEPT ![KindOfCall(c)] =
                    IF @ = "spent" THEN "quiet" ELSE @]
    /\ calls' = [calls EXCEPT ![c] = IdleCall]
    /\ UNCHANGED <<rows, gen, budget, running, hb, closed, allDead, admin,
                   reload>>

\* The attempt fails through the backend's fault.
Failed(c, full) ==
    /\ calls[c].pc = "attempt"
    /\ full => Counted(RowOf(c)).errs = livenessFailThreshold
    /\ SetRow(calls[c].gen, calls[c].on, RecordError(RowOf(c), full))
    /\ calls' = [calls EXCEPT
          ![c].pc = IF NewlyDead(RowOf(c), full) THEN "ensure" ELSE "pick",
          ![c].tried = @ \cup {calls[c].on}, ![c].fault = TRUE]
    /\ UNCHANGED <<gen, budget, running, hb, closed, Latches, admin, reload>>

\* The attempt fails through the request's fault (a content-level 4xx,
\* truncated tool arguments, thinking only): not counted, still failed over.
Refused(c) ==
    /\ calls[c].pc = "attempt"
    /\ calls' = [calls EXCEPT ![c].pc = "pick", ![c].fault = FALSE,
                              ![c].tried = @ \cup {calls[c].on}]
    /\ UNCHANGED <<rows, gen, budget, running, hb, closed, Latches, admin,
                   reload>>

\* The caller cancels, the prompt overflows the window or the stream was
\* already committed: straight back to the caller, nothing recorded.
Aborted(c) ==
    /\ calls[c].pc = "attempt"
    /\ calls' = [calls EXCEPT ![c] = IdleCall]
    /\ UNCHANGED <<rows, gen, budget, running, hb, closed, Latches, admin,
                   reload>>

EnsureAfterError(c) ==
    /\ calls[c].pc = "ensure"
    /\ Ensure
    /\ calls' = [calls EXCEPT ![c].pc = "check"]
    /\ UNCHANGED <<rows, gen, budget, closed, Latches, admin, reload>>

CheckAfterError(c) ==
    /\ calls[c].pc = "check"
    /\ CheckPoolLiveness
    /\ calls' = [calls EXCEPT ![c].pc = "pick"]
    /\ UNCHANGED <<rows, gen, budget, running, hb, closed, admin, reload>>

\* Every candidate failed.
ReportKindExhausted(c) ==
    LET k == KindOfCall(c)
    IN  /\ calls[c].pc = "exhausted"
        /\ IF k \in allDead \cup exhausted
           THEN UNCHANGED <<exhausted, pager>>
           ELSE /\ exhausted' = exhausted \cup {k}
                /\ pager' = [pager EXCEPT ![k] = Paged(k, "spent")]
        /\ calls' = [calls EXCEPT ![c] = IdleCall]
        /\ UNCHANGED <<rows, gen, budget, running, hb, closed, allDead, admin,
                       reload>>

-----------------------------------------------------------------------------
(* The heartbeat.  A goroutine's tick is ten seconds after the last one, so *)
(* a goroutine that has released the flag is gone before the next tick.    *)

Leaving == \E h \in Runner : hb[h].pc \in {"rescan", "rearm"}

Tick(h) ==
    /\ hb[h].pc = "wait" /\ ~Leaving
    /\ LET dead == {e \in Entry : IsDead(rows[gen][e])}
           due  == {e \in dead : ~rows[gen][e].held}
       IN  hb' = [hb EXCEPT ![h] =
                    [pc |-> IF due = {} THEN "decide" ELSE "ping",
                     todo |-> {gen} \X due, dead |-> dead # due, rec |-> FALSE]]
    /\ UNCHANGED <<rows, gen, calls, budget, running, closed, Latches, admin,
                   reload>>

\* One Ping and the reconciliation of its result, on the table of the tick.
Ping(h, ok) ==
    /\ hb[h].pc = "ping"
    /\ \E p \in hb[h].todo :
          LET r == rows[p[1]][p[2]]
          IN  /\ SetRow(p[1], p[2], MarkProbed(r, ok))
              /\ Notice([rows[gen] EXCEPT ![p[2]] =
                           IF p[1] = gen THEN MarkProbed(r, ok) ELSE @])
              /\ hb' = [hb EXCEPT ![h] =
                    [pc |-> IF hb[h].todo # {p} THEN "ping"
                            ELSE IF hb[h].rec \/ (IsDead(r) /\ ok) THEN "recovered"
                            ELSE "decide",
                     todo |-> hb[h].todo \ {p},
                     dead |-> hb[h].dead \/ (IsDead(r) /\ ~ok),
                     rec |-> hb[h].rec \/ (IsDead(r) /\ ok)]]
    /\ UNCHANGED <<gen, calls, budget, running, closed, allDead, exhausted,
                   admin, reload>>

OnRecovery(h) ==
    /\ hb[h].pc = "recovered"
    /\ CheckPoolLiveness
    /\ hb' = [hb EXCEPT ![h].pc = "decide"]
    /\ UNCHANGED <<rows, gen, calls, budget, running, closed, admin, reload>>

\* Mutant: leaves without looking again after the flag is released.
DecideLeaves(h) ==
    /\ hb[h].pc = "decide"
    /\ IF hb[h].dead
       THEN hb' = [hb EXCEPT ![h] = [IdleRunner EXCEPT !.pc = "wait"]]
            /\ UNCHANGED running
       ELSE hb' = [hb EXCEPT ![h] = IdleRunner] /\ running' = FALSE
    /\ UNCHANGED <<rows, gen, calls, budget, closed, Latches, admin, reload>>

\* Nothing dead: release the flag, then look again.
Decide(h) ==
    /\ hb[h].pc = "decide"
    /\ IF hb[h].dead
       THEN hb' = [hb EXCEPT ![h] = [IdleRunner EXCEPT !.pc = "wait"]]
            /\ UNCHANGED running
       ELSE hb' = [hb EXCEPT ![h] = [IdleRunner EXCEPT !.pc = "rescan"]]
            /\ running' = FALSE
    /\ UNCHANGED <<rows, gen, calls, budget, closed, Latches, admin, reload>>

Rescan(h) ==
    /\ hb[h].pc = "rescan"
    /\ hb' = [hb EXCEPT ![h].pc = IF HasDeadEntry THEN "rearm" ELSE "off"]
    /\ UNCHANGED <<rows, gen, calls, budget, running, closed, Latches, admin,
                   reload>>

\* Mutant: raises the flag with a plain store.
RearmStores(h) ==
    /\ hb[h].pc = "rearm"
    /\ hb' = [hb EXCEPT ![h].pc = "wait"]
    /\ running' = TRUE
    /\ UNCHANGED <<rows, gen, calls, budget, closed, Latches, admin, reload>>

\* The compare-and-swap: lost when an Ensure took over.
Rearm(h) ==
    /\ hb[h].pc = "rearm"
    /\ hb' = [Restarted EXCEPT ![h].pc = IF running THEN "off" ELSE "wait"]
    /\ running' = TRUE
    /\ UNCHANGED <<rows, gen, calls, budget, closed, Latches, admin, reload>>

\* The net under the loop: a Ping, or the pool's recovery hook, panics.  The
\* flag is released and the goroutine is gone; what is still dead waits for
\* the next start.
Panicked(h) ==
    /\ hb[h].pc \in {"ping", "recovered"}
    /\ Shock
    /\ hb' = [hb EXCEPT ![h] = [IdleRunner EXCEPT !.pc = "fallen"]]
    /\ running' = FALSE
    /\ UNCHANGED <<rows, gen, calls, closed, Latches, admin, reload>>

Close ==
    /\ ~closed /\ closed' = TRUE
    /\ Shock
    /\ UNCHANGED <<rows, gen, calls, running, hb, Latches, admin, reload>>

Stopped(h) ==
    /\ closed /\ hb[h].pc = "wait"
    /\ hb' = [hb EXCEPT ![h].pc = "off"]
    /\ running' = FALSE
    /\ UNCHANGED <<rows, gen, calls, budget, closed, Latches, admin, reload>>

-----------------------------------------------------------------------------
(* Pause and resume.                                                       *)

SetPause(e, on) ==
    /\ admin = "idle"
    /\ IF on THEN Shock ELSE UNCHANGED budget
    /\ rows[gen][e].paused # on
    /\ SetRow(gen, e, [rows[gen][e] EXCEPT !.paused = on])
    /\ Notice([rows[gen] EXCEPT ![e].paused = on])
    /\ admin' = IF on THEN "paused" ELSE "resumed"
    /\ UNCHANGED <<gen, calls, running, hb, closed, allDead, exhausted, reload>>

CheckAfterAdmin ==
    /\ admin \in {"paused", "resumed"}
    /\ CheckPoolLiveness
    /\ admin' = IF admin = "paused" THEN "idle" ELSE "probe"
    /\ UNCHANGED <<rows, gen, calls, budget, running, hb, closed, reload>>

EnsureAfterResume ==
    /\ admin = "probe"
    /\ IF HasDeadEntry THEN Ensure ELSE UNCHANGED <<running, hb>>
    /\ admin' = "idle"
    /\ UNCHANGED <<rows, gen, calls, budget, closed, Latches, reload>>

-----------------------------------------------------------------------------
(* Reload: the new rows are built one after the other (each may be probed   *)
(* over the network), then published in one store.                         *)

BeginReload(keep) ==
    /\ reload.pc = "idle"
    /\ Shock
    /\ reload' = [pc |-> "build", keep |-> keep, built |-> NoRows]
    /\ UNCHANGED <<rows, gen, calls, running, hb, closed, Latches, admin>>

BuildRow(e) ==
    /\ reload.pc = "build" /\ e \notin DOMAIN reload.built
    /\ reload' = [reload EXCEPT !.built =
          [f \in DOMAIN @ \cup {e} |->
             IF f # e THEN @[f]
             ELSE IF reload.keep THEN copyLiveness(rows[gen][e]) ELSE Fresh]]
    /\ UNCHANGED <<rows, gen, calls, budget, running, hb, closed, Latches,
                   admin>>

\* A config that does not parse, or an entry that cannot be built, leaves the
\* current table in service.
ReloadFails ==
    /\ reload.pc = "build"
    /\ reload' = IdleReload
    /\ UNCHANGED <<rows, gen, calls, budget, running, hb, closed, Latches,
                   admin>>

Swap ==
    /\ reload.pc = "build" /\ DOMAIN reload.built = Entry
    /\ rows' = [rows EXCEPT ![gen + 1] = reload.built]
    /\ gen' = gen + 1
    /\ Notice(reload.built)
    /\ reload' = [IdleReload EXCEPT !.pc = "check"]
    /\ UNCHANGED <<calls, budget, running, hb, closed, allDead, exhausted, admin>>

CheckAfterSwap ==
    /\ reload.pc = "check"
    /\ CheckPoolLiveness
    /\ reload' = [reload EXCEPT !.pc = "probe"]
    /\ UNCHANGED <<rows, gen, calls, budget, running, hb, closed, admin>>

EnsureAfterSwap ==
    /\ reload.pc = "probe"
    /\ IF HasDeadEntry THEN Ensure ELSE UNCHANGED <<running, hb>>
    /\ reload' = IdleReload
    /\ UNCHANGED <<rows, gen, calls, budget, closed, Latches, admin>>

-----------------------------------------------------------------------------
(* Time.  A row the heartbeat keeps probing has its deadline pushed out on  *)
(* every failed Ping, minutes before it could elapse; only a row nobody    *)
(* probes runs into it.  A row held off the heartbeat is held until that    *)
(* same deadline.  A cooldown is at least five windows long: the errors    *)
(* that killed the row have left the window when it elapses.               *)

\* A row of an old table lives on only in the calls and the tick that hold it.
InUse(g, e) ==
    \/ g = gen
    \/ \E c \in Caller : calls[c].pc # "idle" /\ calls[c].gen = g /\ calls[c].on = e
    \/ \E h \in Runner : <<g, e>> \in hb[h].todo

Lapse(g, e) ==
    /\ InUse(g, e)
    /\ rows[g][e].dead = "cooling"
    /\ \/ rows[g][e].held \/ rows[g][e].paused \/ g # gen \/ closed
       \/ \E h \in Runner : hb[h].pc = "fallen"
    /\ SetRow(g, e, [rows[g][e] EXCEPT !.dead = "lapsed", !.held = FALSE,
                                        !.errs = 0])
    /\ Notice([rows[gen] EXCEPT ![e].dead = IF g = gen THEN "lapsed" ELSE @])
    /\ UNCHANGED <<gen, calls, budget, running, hb, closed, allDead, exhausted,
                   admin, reload>>

HealthNext ==
    \/ \E c \in Caller :
          \/ \E k \in Kind : StartCall(c, k)
          \/ FailOver(c) \/ Served(c) \/ ClearExhausted(c)
          \/ (\E full \in BOOLEAN : Failed(c, full)) \/ Refused(c) \/ Aborted(c) \/ EnsureAfterError(c)
          \/ CheckAfterError(c) \/ ReportKindExhausted(c)
    \/ \E h \in Runner :
          \/ Tick(h) \/ (\E ok \in BOOLEAN : Ping(h, ok)) \/ OnRecovery(h)
          \/ Decide(h) \/ Rescan(h) \/ Rearm(h) \/ Stopped(h) \/ Panicked(h)
    \/ Close
    \/ \E e \in Entry, on \in BOOLEAN : SetPause(e, on)
    \/ CheckAfterAdmin \/ EnsureAfterResume
    \/ \E keep \in BOOLEAN : BeginReload(keep)
    \/ \E e \in Entry : BuildRow(e)
    \/ ReloadFails \/ Swap \/ CheckAfterSwap \/ EnsureAfterSwap
    \/ \E g \in Gen, e \in Entry : Lapse(g, e)

HealthSpec == HealthInit /\ [][HealthNext]_healthVars

-----------------------------------------------------------------------------
(* Properties.                                                             *)

\* A dead entry of the table in service is always being probed: the flag is
\* up, or someone who will raise it is on the way.  (The heartbeat is only
\* started on a fresh death, so a start lost to a racing exit would leave the
\* entry dead until unrelated traffic failed again.  Just that is what the net
\* under a panic settles for, until the flag is next raised.)
DeadIsProbed ==
    HasDeadEntry /\ ~closed =>
        \/ running
        \/ \E c \in Caller : calls[c].pc = "ensure"
        \/ \E h \in Runner : hb[h].pc \in {"rescan", "rearm", "fallen"}
        \/ admin \in {"resumed", "probe"}
        \/ reload.pc \in {"check", "probe"}

\* The flag is the heartbeat's lock: at most one goroutine probes, and the
\* flag is up exactly while one does, panics included.
OneHeartbeat ==
    LET probing == {h \in Runner : hb[h].pc \notin {"off", "rescan", "rearm", "fallen"}}
    IN  /\ Cardinality(probing) <= 1
        /\ running <=> probing # {}

\* The admin is paged once per outage: no page for a kind whose last page
\* still stands (its entries still unusable after a "fully unavailable" page,
\* no call served since a "no fallback left" page).
OnePagePerOutage == \A k \in Kind : pager[k] # "twice"
=============================================================================

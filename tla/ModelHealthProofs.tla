------------------------- MODULE ModelHealthProofs -------------------------
(***************************************************************************)
(* Proofs about the health of the model pool, for any entries, kinds,      *)
(* callers and budgets.                                                    *)
(***************************************************************************)
EXTENDS ModelHealth, FiniteSetTheorems, TLAPS

RowRec ==
    [paused : BOOLEAN, tentative : BOOLEAN, dead : {"no", "cooling", "lapsed"},
     held : BOOLEAN, fails : Nat, errs : Nat]

\* A row re-admitted on trial has no deadline.
RowOK(r) == r \in RowRec /\ (r.tentative => r.dead = "no")

TableOK(t) == t \in [Entry -> RowRec] /\ \A e \in Entry : RowOK(t[e])

CallRec ==
    [pc : {"idle", "attempt", "served", "ensure", "check", "pick", "exhausted"},
     gen : Gen, on : Entry \cup {"none"}, tried : SUBSET Entry, fault : BOOLEAN]

RunnerRec ==
    [pc : {"off", "wait", "ping", "recovered", "decide", "rescan", "rearm",
           "fallen"},
     todo : SUBSET (Gen \X Entry), dead : BOOLEAN, rec : BOOLEAN]

RowsOK == rows \in [Gen -> [Entry -> RowRec]] /\ \A g \in Gen : TableOK(rows[g])

CallsOK ==
    /\ calls \in [Caller -> CallRec]
    /\ \A c \in Caller : calls[c].pc # "idle" => calls[c].on \in Entry

RunnersOK == hb \in [Runner -> RunnerRec]

\* Every reload still to come has a table to go to.
ReloadOK ==
    /\ gen \in Nat /\ budget \in [calls : Nat, shocks : Nat]
    /\ gen + budget.shocks + (IF reload.pc = "build" THEN 1 ELSE 0) \in Gen
    /\ reload = [pc |-> reload.pc, keep |-> reload.keep, built |-> reload.built]
    /\ \A e \in DOMAIN reload.built : e \in Entry /\ RowOK(reload.built[e])
    /\ DOMAIN reload.built = Entry => reload.built \in [Entry -> RowRec]

HealthTypeOK == RowsOK /\ CallsOK /\ RunnersOK /\ ReloadOK

Probing(h) == hb[h].pc \notin {"off", "rescan", "rearm", "fallen"}

FlagOK ==
    /\ \A h, i \in Runner : Probing(h) /\ Probing(i) => h = i
    /\ running <=> \E h \in Runner : Probing(h)

\* A page that stands has its latch up, and a "down" page its outage.
PagesOK ==
    \A k \in Kind :
        /\ pager[k] \in {"ok", "quiet", "down", "spent"}
        /\ pager[k] = "spent" => k \in exhausted
        /\ pager[k] = "down" => k \in allDead /\ k \in DeadKindsOf(rows[gen])

PagerOK == pager \in [Kind -> {"ok", "quiet", "down", "spent"}] /\ PagesOK

HealthInv == HealthTypeOK /\ FlagOK /\ DeadIsProbed /\ PagerOK

-----------------------------------------------------------------------------
(* One row.                                                                *)

LEMMA FreshOK == RowOK(Fresh)
  BY DEF RowOK, RowRec, Fresh

\* Asking changes neither answer.
LEMMA AskedOK ==
    ASSUME NEW r, RowOK(r)
    PROVE  /\ RowOK(Asked(r))
           /\ IsEligible(Asked(r)) <=> IsEligible(r)
           /\ IsDead(Asked(r)) <=> IsDead(r)
  BY DEF RowOK, RowRec, Asked, IsEligible, IsDead

\* A success does not change whether the row is usable.
LEMMA SuccessOK ==
    ASSUME NEW r, RowOK(r)
    PROVE  /\ RowOK(RecordSuccess(r))
           /\ IsEligible(RecordSuccess(r)) <=> IsEligible(r)
           /\ IsDead(RecordSuccess(r)) <=> IsDead(r)
  BY DEF RowOK, RowRec, RecordSuccess, IsEligible, IsDead

\* An error never makes a row usable, and reports each death.
LEMMA ErrorOK ==
    ASSUME NEW r, RowOK(r), NEW full \in BOOLEAN
    PROVE  /\ RowOK(RecordError(r, full))
           /\ IsEligible(RecordError(r, full)) => IsEligible(r)
           /\ IsDead(RecordError(r, full)) => IsDead(r) \/ NewlyDead(r, full)
  <1>1. /\ Counted(r) \in RowRec
        /\ Counted(r).tentative = r.tentative /\ Counted(r).dead = r.dead
        /\ Counted(r).paused = r.paused /\ Counted(r).held = r.held
    <2> DEFINE n == Capped(r.errs + 1, livenessFailThreshold)
               m == Capped(r.fails + 1, consecutiveFailThreshold)
    <2>1. n \in Nat /\ m \in Nat
      BY DEF RowOK, RowRec, Capped, livenessFailThreshold, consecutiveFailThreshold
    <2>2. Counted(r) = [r EXCEPT !.errs = n, !.fails = m]
      BY DEF Counted
    <2> HIDE DEF n, m
    <2> QED
      BY <2>1, <2>2 DEF RowOK, RowRec
  <1> HIDE DEF Counted
  <1>2. CASE ~NewlyDead(r, full)
    BY <1>1, <1>2 DEF RowOK, RecordError, IsEligible, IsDead
  <1>3. CASE NewlyDead(r, full)
    <2> DEFINE d == [Counted(r) EXCEPT !.dead = "cooling", !.tentative = FALSE,
                                       !.held = @ \/ r.tentative]
    <2>1. RecordError(r, full) = d
      BY <1>3 DEF RecordError
    <2>2. /\ d \in RowRec /\ d.dead = "cooling" /\ ~d.tentative
      BY <1>1 DEF RowRec
    <2> QED
      BY <1>3, <2>1, <2>2 DEF RowOK, IsEligible, IsDead
  <1> QED
    BY <1>2, <1>3

LEMMA ProbedOK ==
    ASSUME NEW r, RowOK(r), NEW ok \in BOOLEAN
    PROVE  RowOK(MarkProbed(r, ok)) /\ (IsDead(MarkProbed(r, ok)) => IsDead(r))
  BY DEF RowOK, RowRec, MarkProbed, IsDead

LEMMA CopyOK == ASSUME NEW r, RowOK(r) PROVE RowOK(copyLiveness(r))
  BY DEF RowOK, RowRec, copyLiveness

LEMMA PausedOK ==
    ASSUME NEW r, RowOK(r), NEW on \in BOOLEAN
    PROVE  /\ RowOK([r EXCEPT !.paused = on])
           /\ on => ~IsDead([r EXCEPT !.paused = on])
  BY DEF RowOK, RowRec, IsDead

LEMMA LapsedOK ==
    ASSUME NEW r, RowOK(r), r.dead = "cooling"
    PROVE  LET l == [r EXCEPT !.dead = "lapsed", !.held = FALSE, !.errs = 0]
           IN  RowOK(l) /\ ~IsDead(l)
  BY DEF RowOK, RowRec, IsDead

-----------------------------------------------------------------------------
(* Tables.                                                                 *)

LEMMA GenDown == ASSUME NEW n \in Gen, NEW m \in Nat, m <= n PROVE m \in Gen
  BY HealthAssumption DEF Gen

LEMMA GenNat == Gen \subseteq Nat
  BY DEF Gen

LEMMA GenHere == ASSUME ReloadOK PROVE gen \in Gen
  BY GenDown, GenNat DEF ReloadOK

\* Storing one row.
LEMMA SetRowOK ==
    ASSUME RowsOK, NEW g \in Gen, NEW e \in Entry, NEW r, RowOK(r), SetRow(g, e, r)
    PROVE  /\ RowsOK'
           /\ \A h \in Gen, f \in Entry :
                 rows'[h][f] = IF h = g /\ f = e THEN r ELSE rows[h][f]
  <1>1. r \in RowRec
    BY DEF RowOK
  <1>2. /\ rows' \in [Gen -> [Entry -> RowRec]]
        /\ \A h \in Gen, f \in Entry :
              rows'[h][f] = IF h = g /\ f = e THEN r ELSE rows[h][f]
    BY <1>1 DEF RowsOK, SetRow
  <1>3. \A h \in Gen : TableOK(rows'[h])
    BY <1>2 DEF RowsOK, TableOK
  <1> QED
    BY <1>2, <1>3 DEF RowsOK

\* The table pick leaves behind.
AskedTable(asked) ==
    [e \in Entry |-> IF e \in asked THEN Asked(rows[gen][e]) ELSE rows[gen][e]]

LEMMA AskedTableOK ==
    ASSUME RowsOK, gen \in Gen, NEW asked,
           rows' = [rows EXCEPT ![gen] = AskedTable(asked)]
    PROVE  /\ RowsOK'
           /\ \A f \in Entry :
                 /\ rows'[gen][f] = AskedTable(asked)[f]
                 /\ IsEligible(rows'[gen][f]) <=> IsEligible(rows[gen][f])
                 /\ IsDead(rows'[gen][f]) <=> IsDead(rows[gen][f])
  <1> DEFINE t == AskedTable(asked)
  <1>1. \A f \in Entry : RowOK(rows[gen][f])
    BY DEF RowsOK, TableOK
  <1>2. \A f \in Entry : t[f] = IF f \in asked THEN Asked(rows[gen][f]) ELSE rows[gen][f]
    BY DEF AskedTable
  <1>3. \A f \in Entry : /\ RowOK(t[f])
                         /\ IsEligible(t[f]) <=> IsEligible(rows[gen][f])
                         /\ IsDead(t[f]) <=> IsDead(rows[gen][f])
    BY <1>1, <1>2, AskedOK
  <1>4. t \in [Entry -> RowRec]
    <2>1. \A f \in Entry :
            (IF f \in asked THEN Asked(rows[gen][f]) ELSE rows[gen][f]) \in RowRec
      BY <1>2, <1>3 DEF RowOK
    <2> QED
      BY <2>1 DEF AskedTable
  <1>5. TableOK(t)
    BY <1>3, <1>4 DEF TableOK
  <1> HIDE DEF t
  <1>6. /\ rows' \in [Gen -> [Entry -> RowRec]] /\ rows'[gen] = t
        /\ \A g \in Gen \ {gen} : rows'[g] = rows[g]
    BY <1>4 DEF RowsOK, t
  <1>7. RowsOK'
    BY <1>5, <1>6 DEF RowsOK, TableOK
  <1> QED
    BY <1>3, <1>6, <1>7 DEF t

\* What a step may do to the tables.
LEMMA RowSteps ==
    ASSUME [HealthNext]_healthVars
    PROVE  \/ UNCHANGED <<rows, gen>>
           \/ \E c \in Caller, k \in Kind : StartCall(c, k)
           \/ \E c \in Caller : FailOver(c) \/ Served(c)
           \/ \E c \in Caller, full \in BOOLEAN : Failed(c, full)
           \/ \E h \in Runner, ok \in BOOLEAN : Ping(h, ok)
           \/ \E e \in Entry, on \in BOOLEAN : SetPause(e, on)
           \/ Swap
           \/ \E g \in Gen, e \in Entry : Lapse(g, e)
  BY DEF HealthNext, healthVars, ClearExhausted, Refused, Aborted,
         EnsureAfterError, CheckAfterError, ReportKindExhausted, Tick,
         OnRecovery, Decide, Rescan, Rearm, Stopped, Panicked, Close,
         CheckAfterAdmin, EnsureAfterResume, BeginReload, BuildRow, ReloadFails,
         CheckAfterSwap, EnsureAfterSwap

LEMMA PickTable ==
    ASSUME NEW c, NEW k, NEW tried, NEW fault, Pick(c, k, tried, fault)
    PROVE  /\ rows' = [rows EXCEPT ![gen] = AskedTable(OfKind(k) \ tried)]
           /\ Notice(AskedTable(OfKind(k) \ tried)) /\ UNCHANGED gen
  BY DEF Pick, AskedTable

\* The row a call holds.
LEMMA RowOfOK ==
    ASSUME HealthTypeOK, NEW c \in Caller, calls[c].pc # "idle"
    PROVE  calls[c].gen \in Gen /\ calls[c].on \in Entry /\ RowOK(RowOf(c))
  BY DEF HealthTypeOK, RowsOK, TableOK, CallsOK, CallRec, RowOf

LEMMA RowsStep == ASSUME HealthTypeOK, [HealthNext]_healthVars PROVE RowsOK'
  <1>0. RowsOK /\ gen \in Gen
    BY GenHere DEF HealthTypeOK
  <1>1. CASE UNCHANGED <<rows, gen>>
    BY <1>0, <1>1 DEF RowsOK, TableOK
  <1>2. ASSUME NEW c \in Caller, NEW k \in Kind, StartCall(c, k) PROVE RowsOK'
    BY <1>0, <1>2, PickTable, AskedTableOK DEF StartCall
  <1>3. ASSUME NEW c \in Caller, FailOver(c) PROVE RowsOK'
    BY <1>0, <1>3, PickTable, AskedTableOK DEF FailOver
  <1>4. ASSUME NEW c \in Caller, Served(c) PROVE RowsOK'
    <2>1. RowOK(RecordSuccess(RowOf(c))) /\ calls[c].gen \in Gen /\ calls[c].on \in Entry
      BY <1>4, RowOfOK, SuccessOK DEF Served
    <2> QED
      BY <1>0, <1>4, <2>1, SetRowOK DEF Served
  <1>5. ASSUME NEW c \in Caller, NEW full \in BOOLEAN, Failed(c, full) PROVE RowsOK'
    <2>1. RowOK(RecordError(RowOf(c), full)) /\ calls[c].gen \in Gen /\ calls[c].on \in Entry
      BY <1>5, RowOfOK, ErrorOK DEF Failed
    <2> QED
      BY <1>0, <1>5, <2>1, SetRowOK DEF Failed
  <1>6. ASSUME NEW h \in Runner, NEW ok \in BOOLEAN, Ping(h, ok) PROVE RowsOK'
    <2>1. PICK p \in hb[h].todo : SetRow(p[1], p[2], MarkProbed(rows[p[1]][p[2]], ok))
      BY <1>6 DEF Ping
    <2>2. p[1] \in Gen /\ p[2] \in Entry
      BY DEF HealthTypeOK, RunnersOK, RunnerRec
    <2>3. RowOK(MarkProbed(rows[p[1]][p[2]], ok))
      BY <1>0, <2>2, ProbedOK DEF RowsOK, TableOK
    <2> QED
      BY <1>0, <2>1, <2>2, <2>3, SetRowOK
  <1>7. ASSUME NEW e \in Entry, NEW on \in BOOLEAN, SetPause(e, on) PROVE RowsOK'
    <2>1. RowOK([rows[gen][e] EXCEPT !.paused = on])
      BY <1>0, PausedOK DEF RowsOK, TableOK
    <2> QED
      BY <1>0, <1>7, <2>1, SetRowOK DEF SetPause
  <1>8. CASE Swap
    <2>1. gen + 1 \in Gen /\ TableOK(reload.built)
      BY <1>8, GenDown, GenNat DEF Swap, HealthTypeOK, ReloadOK, TableOK
    <2>2. /\ rows' \in [Gen -> [Entry -> RowRec]] /\ rows'[gen + 1] = reload.built
          /\ \A g \in Gen \ {gen + 1} : rows'[g] = rows[g]
      BY <1>0, <1>8, <2>1 DEF Swap, RowsOK, TableOK
    <2> QED
      BY <1>0, <2>1, <2>2 DEF RowsOK, TableOK
  <1>9. ASSUME NEW g \in Gen, NEW e \in Entry, Lapse(g, e) PROVE RowsOK'
    <2>1. RowOK([rows[g][e] EXCEPT !.dead = "lapsed", !.held = FALSE, !.errs = 0])
      BY <1>0, <1>9, LapsedOK DEF Lapse, RowsOK, TableOK
    <2> QED
      BY <1>0, <1>9, <2>1, SetRowOK DEF Lapse
  <1> QED
    BY <1>1, <1>2, <1>3, <1>4, <1>5, <1>6, <1>7, <1>8, <1>9, RowSteps

\* What a step may do to the calls.
LEMMA CallSteps ==
    ASSUME [HealthNext]_healthVars
    PROVE  \/ UNCHANGED calls
           \/ \E c \in Caller :
                 \/ \E k \in Kind : StartCall(c, k)
                 \/ FailOver(c) \/ Served(c) \/ ClearExhausted(c)
                 \/ (\E full \in BOOLEAN : Failed(c, full)) \/ Refused(c) \/ Aborted(c)
                 \/ EnsureAfterError(c) \/ CheckAfterError(c) \/ ReportKindExhausted(c)
  BY DEF HealthNext, healthVars, Tick, Ping, OnRecovery, Decide, Rescan,
         Rearm, Stopped, Panicked, Close, SetPause,
         CheckAfterAdmin, EnsureAfterResume, BeginReload, BuildRow,
         ReloadFails, Swap, CheckAfterSwap, EnsureAfterSwap, Lapse

LEMMA CallsStep == ASSUME HealthTypeOK, [HealthNext]_healthVars PROVE CallsOK'
  <1> USE DEF CallsOK, CallRec
  <1>0. CallsOK /\ gen \in Gen /\ IdleCall \in CallRec
    BY GenHere, GenDown, GenNat DEF HealthTypeOK, ReloadOK, IdleCall
  <1>1. CASE UNCHANGED calls
    BY <1>0, <1>1
  <1>2. ASSUME NEW c \in Caller, NEW k, NEW tried \in SUBSET Entry,
               NEW fault \in BOOLEAN, Pick(c, k, tried, fault),
               fault => calls[c].pc # "idle"
        PROVE  CallsOK'
    <2>1. CASE \E e \in Entry : calls' = [calls EXCEPT ![c] =
                 [pc |-> "attempt", gen |-> gen, on |-> e, tried |-> tried,
                  fault |-> fault]]
      BY <1>0, <1>2, <2>1
    <2>2. CASE fault /\ calls' = [calls EXCEPT ![c] = [calls[c] EXCEPT !.pc = "exhausted"]]
      BY <1>0, <1>2, <2>2
    <2>3. CASE calls' = [calls EXCEPT ![c] = IdleCall]
      BY <1>0, <2>3 DEF IdleCall
    <2> QED
      BY <1>2, <2>1, <2>2, <2>3 DEF Pick, OfKind
  <1>3. ASSUME NEW c \in Caller, NEW k \in Kind, StartCall(c, k) PROVE CallsOK'
    BY <1>2, <1>3 DEF StartCall
  <1>4. ASSUME NEW c \in Caller, FailOver(c) PROVE CallsOK'
    <2>1. calls[c].tried \in SUBSET Entry /\ calls[c].fault \in BOOLEAN
      BY <1>0
    <2>2. /\ calls[c].pc # "idle"
          /\ Pick(c, KindOfCall(c), calls[c].tried, calls[c].fault)
      BY <1>4 DEF FailOver
    <2> HIDE DEF CallsOK
    <2> QED
      BY <1>2, <2>1, <2>2
  <1>5. ASSUME NEW c \in Caller,
               Served(c) \/ EnsureAfterError(c) \/ CheckAfterError(c)
        PROVE  CallsOK'
    <2>1. PICK to \in {"served", "check", "pick"} : calls' = [calls EXCEPT ![c].pc = to]
      BY <1>5 DEF Served, EnsureAfterError, CheckAfterError
    <2>2. calls[c].pc # "idle"
      BY <1>5 DEF Served, EnsureAfterError, CheckAfterError
    <2> QED
      BY <1>0, <2>1, <2>2
  <1>6. ASSUME NEW c \in Caller,
               ClearExhausted(c) \/ Aborted(c) \/ ReportKindExhausted(c)
        PROVE  CallsOK'
    <2>1. calls' = [calls EXCEPT ![c] = IdleCall]
      BY <1>6 DEF ClearExhausted, Aborted, ReportKindExhausted
    <2> QED
      BY <1>0, <2>1 DEF IdleCall
  <1>7. ASSUME NEW c \in Caller,
               Refused(c) \/ \E full \in BOOLEAN : Failed(c, full)
        PROVE  CallsOK'
    <2>1. PICK to \in {"ensure", "pick"}, f \in BOOLEAN :
             calls' = [calls EXCEPT ![c].pc = to, ![c].fault = f,
                                    ![c].tried = @ \cup {calls[c].on}]
      <3>1. CASE Refused(c)
        BY <3>1 DEF Refused
      <3>2. ASSUME NEW full \in BOOLEAN, Failed(c, full)
            PROVE  \E to \in {"ensure", "pick"} :
                     calls' = [calls EXCEPT ![c].pc = to, ![c].fault = TRUE,
                                    ![c].tried = @ \cup {calls[c].on}]
        BY <3>2, Zenon DEF Failed
      <3> QED
        BY <1>7, <3>1, <3>2
    <2>2. calls[c].pc = "attempt"
      BY <1>7 DEF Refused, Failed
    <2> DEFINE rec == [calls[c] EXCEPT !.pc = to, !.fault = f,
                                       !.tried = @ \cup {calls[c].on}]
    <2>3. calls[c] \in CallRec /\ calls[c].on \in Entry
      BY <1>0, <2>2
    <2>4. rec \in CallRec /\ rec.on \in Entry
      BY <2>3
    <2>5. calls' = [calls EXCEPT ![c] = rec]
      BY <1>0, <2>1
    <2> HIDE DEF rec, CallRec
    <2> QED
      BY <1>0, <2>4, <2>5
  <1> QED
    BY <1>1, <1>3, <1>4, <1>5, <1>6, <1>7, CallSteps

\* What a step may do to the heartbeat.
LEMMA RunnerSteps ==
    ASSUME [HealthNext]_healthVars
    PROVE  \/ UNCHANGED <<hb, running>>
           \/ Ensure
           \/ \E h \in Runner :
                 \/ Tick(h) \/ (\E ok \in BOOLEAN : Ping(h, ok)) \/ OnRecovery(h)
                 \/ Decide(h) \/ Rescan(h) \/ Rearm(h) \/ Stopped(h) \/ Panicked(h)
  <1>1. CASE \E c \in Caller :
          \/ \E k \in Kind : StartCall(c, k)
          \/ FailOver(c) \/ Served(c) \/ ClearExhausted(c)
          \/ (\E full \in BOOLEAN : Failed(c, full)) \/ Refused(c) \/ Aborted(c)
          \/ EnsureAfterError(c) \/ CheckAfterError(c) \/ ReportKindExhausted(c)
    <2>1. PICK c \in Caller :
            \/ \E k \in Kind : StartCall(c, k)
            \/ FailOver(c) \/ Served(c) \/ ClearExhausted(c)
            \/ (\E full \in BOOLEAN : Failed(c, full)) \/ Refused(c) \/ Aborted(c)
            \/ EnsureAfterError(c) \/ CheckAfterError(c) \/ ReportKindExhausted(c)
      BY <1>1
    <2> QED
      BY <2>1, Zenon
      DEF StartCall, FailOver, Pick, Served, ClearExhausted, Failed, Refused,
          Aborted, EnsureAfterError, CheckAfterError, ReportKindExhausted
  <1>2. CASE \/ Close \/ (\E e \in Entry, on \in BOOLEAN : SetPause(e, on))
             \/ CheckAfterAdmin \/ EnsureAfterResume
             \/ (\E keep \in BOOLEAN : BeginReload(keep))
             \/ (\E e \in Entry : BuildRow(e))
             \/ ReloadFails \/ Swap \/ CheckAfterSwap \/ EnsureAfterSwap
             \/ \E g \in Gen, e \in Entry : Lapse(g, e)
             \/ UNCHANGED healthVars
    BY <1>2 DEF healthVars, Close, SetPause, CheckAfterAdmin, EnsureAfterResume,
                BeginReload, BuildRow, ReloadFails, Swap, CheckAfterSwap,
                EnsureAfterSwap, Lapse
  <1> QED
    BY <1>1, <1>2 DEF HealthNext

\* A start forgets the goroutines that fell, and nothing else.
LEMMA RestartedOK ==
    ASSUME hb \in [Runner -> RunnerRec]
    PROVE  /\ Restarted \in [Runner -> RunnerRec]
           /\ \A i \in Runner : Probing(i) => Restarted[i] = hb[i]
           /\ \A i \in Runner : ~Probing(i) =>
                Restarted[i].pc \in {"off", "rescan", "rearm"}
  <1>1. IdleRunner \in RunnerRec /\ IdleRunner.pc = "off"
    BY DEF IdleRunner, RunnerRec
  <1> QED
    BY <1>1 DEF Restarted, Probing

LEMMA RunnersStep == ASSUME HealthTypeOK, [HealthNext]_healthVars PROVE RunnersOK'
  <1> USE DEF RunnersOK, RunnerRec
  <1>0. RunnersOK /\ gen \in Gen
    BY GenHere DEF HealthTypeOK
  <1>1. CASE UNCHANGED <<hb, running>>
    BY <1>0, <1>1
  <1>2. CASE Ensure
    <2>1. CASE running
      BY <1>0, <1>2, <2>1 DEF Ensure
    <2>2. CASE ~running
      <3>1. PICK h \in Runner : hb' = [Restarted EXCEPT ![h].pc = "wait"]
        BY <1>2, <2>2 DEF Ensure
      <3> QED
        BY <1>0, <3>1, RestartedOK
    <2> QED
      BY <2>1, <2>2
  <1>3. ASSUME NEW h \in Runner, Tick(h) PROVE RunnersOK'
    <2> DEFINE dead == {e \in Entry : IsDead(rows[gen][e])}
               due == {e \in dead : ~rows[gen][e].held}
               rec == [pc |-> IF due = {} THEN "decide" ELSE "ping",
                       todo |-> {gen} \X due, dead |-> dead # due, rec |-> FALSE]
    <2>1. hb' = [hb EXCEPT ![h] = rec]
      BY <1>3 DEF Tick
    <2>2. {gen} \X due \in SUBSET (Gen \X Entry)
      BY <1>0
    <2>3. (dead # due) \in BOOLEAN
      OBVIOUS
    <2>4. rec \in RunnerRec
      BY <2>2, <2>3
    <2> HIDE DEF rec
    <2> QED
      BY <1>0, <2>1, <2>4
  <1>4. ASSUME NEW h \in Runner, NEW ok \in BOOLEAN, Ping(h, ok) PROVE RunnersOK'
    <2>1. PICK p \in hb[h].todo :
            hb' = [hb EXCEPT ![h] =
                    [pc |-> IF hb[h].todo # {p} THEN "ping"
                            ELSE IF hb[h].rec \/ (IsDead(rows[p[1]][p[2]]) /\ ok)
                                 THEN "recovered"
                            ELSE "decide",
                     todo |-> hb[h].todo \ {p},
                     dead |-> hb[h].dead \/ (IsDead(rows[p[1]][p[2]]) /\ ~ok),
                     rec |-> hb[h].rec \/ (IsDead(rows[p[1]][p[2]]) /\ ok)]]
      BY <1>4, Zenon DEF Ping
    <2> DEFINE died == hb[h].dead \/ (IsDead(rows[p[1]][p[2]]) /\ ~ok)
               came == hb[h].rec \/ (IsDead(rows[p[1]][p[2]]) /\ ok)
               at == IF hb[h].todo # {p} THEN "ping"
                     ELSE IF came THEN "recovered" ELSE "decide"
    <2>2. died \in BOOLEAN /\ came \in BOOLEAN
      OBVIOUS
    <2>3. at \in {"ping", "recovered", "decide"}
      OBVIOUS
    <2>4. hb' = [hb EXCEPT ![h] = [pc |-> at, todo |-> hb[h].todo \ {p},
                                   dead |-> died, rec |-> came]]
      BY <2>1
    <2> HIDE DEF died, came, at
    <2> QED
      BY <1>0, <2>2, <2>3, <2>4
  <1>5. ASSUME NEW h \in Runner, OnRecovery(h) \/ Rescan(h) \/ Stopped(h)
        PROVE  RunnersOK'
    <2>1. PICK to \in {"decide", "rearm", "off"} : hb' = [hb EXCEPT ![h].pc = to]
      BY <1>5 DEF OnRecovery, Rescan, Stopped
    <2> QED
      BY <1>0, <2>1
  <1>6. ASSUME NEW h \in Runner, Rearm(h) PROVE RunnersOK'
    <2>1. PICK to \in {"off", "wait"} : hb' = [Restarted EXCEPT ![h].pc = to]
      BY <1>6 DEF Rearm
    <2> QED
      BY <1>0, <2>1, RestartedOK
  <1>7. ASSUME NEW h \in Runner, Decide(h) \/ Panicked(h) PROVE RunnersOK'
    <2>1. PICK to \in {"wait", "rescan", "fallen"} :
             hb' = [hb EXCEPT ![h] = [IdleRunner EXCEPT !.pc = to]]
      BY <1>7 DEF Decide, Panicked
    <2>2. [IdleRunner EXCEPT !.pc = to] \in RunnerRec
      BY DEF IdleRunner
    <2> QED
      BY <1>0, <2>1, <2>2
  <1> HIDE DEF RunnersOK
  <1> QED
    BY <1>1, <1>2, <1>3, <1>4, <1>5, <1>6, <1>7, RunnerSteps

\* The flag and the goroutine move together: Ensure and the re-arm raise it
\* only when it is down, and who takes it down stops probing.
LEMMA FlagStep == ASSUME HealthTypeOK, FlagOK, [HealthNext]_healthVars PROVE FlagOK'
  <1> USE DEF FlagOK, Probing
  <1>0. RunnersOK /\ hb \in [Runner -> RunnerRec]
    BY DEF HealthTypeOK, RunnersOK
  <1>1. CASE UNCHANGED <<hb, running>>
    BY <1>1
  <1>2. CASE Ensure
    <2>1. CASE running
      BY <1>2, <2>1 DEF Ensure
    <2>2. CASE ~running
      <3>1. PICK h \in Runner : hb' = [Restarted EXCEPT ![h].pc = "wait"]
        BY <1>2, <2>2 DEF Ensure
      <3>2. hb'[h].pc = "wait" /\ \A i \in Runner \ {h} : hb'[i] = Restarted[i]
        BY <1>0, <3>1, RestartedOK DEF RunnerRec
      <3>3. running'
        BY <1>2, <2>2 DEF Ensure
      <3>4. \A i \in Runner \ {h} : Restarted[i].pc \in {"off", "rescan", "rearm"}
        BY <1>0, <2>2, RestartedOK
      <3> QED
        BY <3>2, <3>3, <3>4
    <2> QED
      BY <2>1, <2>2
  <1>3. ASSUME NEW h \in Runner, Probing(h),
               hb'[h].pc \in {"wait", "ping", "recovered", "decide"},
               \A i \in Runner \ {h} : hb'[i] = hb[i], UNCHANGED running
        PROVE  FlagOK'
    BY <1>3
  <1>4. ASSUME NEW h \in Runner, Tick(h) PROVE FlagOK'
    <2>1. /\ hb'[h].pc \in {"decide", "ping"} /\ hb[h].pc = "wait"
          /\ \A i \in Runner \ {h} : hb'[i] = hb[i]
      BY <1>0, <1>4 DEF Tick
    <2>2. UNCHANGED running
      BY <1>4 DEF Tick
    <2> QED
      BY <1>3, <2>1, <2>2
  <1>5. ASSUME NEW h \in Runner, NEW ok \in BOOLEAN, Ping(h, ok) PROVE FlagOK'
    <2>1. /\ hb'[h].pc \in {"decide", "ping", "recovered"} /\ hb[h].pc = "ping"
          /\ \A i \in Runner \ {h} : hb'[i] = hb[i]
      BY <1>0, <1>5 DEF Ping
    <2>2. UNCHANGED running
      BY <1>5 DEF Ping
    <2> QED
      BY <1>3, <2>1, <2>2
  <1>6. ASSUME NEW h \in Runner, OnRecovery(h) PROVE FlagOK'
    <2>1. /\ hb'[h].pc = "decide" /\ hb[h].pc = "recovered"
          /\ \A i \in Runner \ {h} : hb'[i] = hb[i]
      BY <1>0, <1>6 DEF OnRecovery, RunnerRec
    <2>2. UNCHANGED running
      BY <1>6 DEF OnRecovery
    <2> QED
      BY <1>3, <2>1, <2>2
  <1>7. ASSUME NEW h \in Runner, Decide(h) PROVE FlagOK'
    <2>1. CASE hb[h].dead
      <3>1. /\ hb'[h].pc = "wait" /\ hb[h].pc = "decide"
            /\ \A i \in Runner \ {h} : hb'[i] = hb[i]
        BY <1>0, <1>7, <2>1 DEF Decide, IdleRunner
      <3>2. UNCHANGED running
        BY <1>7, <2>1 DEF Decide
      <3> QED
        BY <1>3, <3>1, <3>2
    <2>2. CASE ~hb[h].dead
      <3>1. hb'[h].pc = "rescan" /\ \A i \in Runner \ {h} : hb'[i] = hb[i]
        BY <1>0, <1>7, <2>2 DEF Decide, IdleRunner
      <3>2. ~running' /\ hb[h].pc = "decide"
        BY <1>7, <2>2 DEF Decide
      <3> QED
        BY <3>1, <3>2
    <2> QED
      BY <2>1, <2>2
  <1>8. ASSUME NEW h \in Runner, Rescan(h) PROVE FlagOK'
    <2>1. /\ hb'[h].pc \in {"rearm", "off"} /\ hb[h].pc = "rescan"
          /\ \A i \in Runner \ {h} : hb'[i] = hb[i]
      BY <1>0, <1>8 DEF Rescan, RunnerRec
    <2>2. UNCHANGED running
      BY <1>8 DEF Rescan
    <2> QED
      BY <2>1, <2>2
  <1>9. ASSUME NEW h \in Runner, Rearm(h) PROVE FlagOK'
    <2>1. /\ hb'[h].pc = IF running THEN "off" ELSE "wait"
          /\ hb[h].pc = "rearm" /\ \A i \in Runner \ {h} : hb'[i] = Restarted[i]
      BY <1>0, <1>9, RestartedOK DEF Rearm, RunnerRec
    <2>2. running'
      BY <1>9 DEF Rearm
    <2>3. \A i \in Runner : /\ Probing(i) => Restarted[i] = hb[i]
                           /\ ~Probing(i) => Restarted[i].pc \in {"off", "rescan", "rearm"}
      BY <1>0, RestartedOK
    <2>4. CASE running
      <3>1. PICK j \in Runner : Probing(j)
        BY <2>4
      <3>2. j # h
        BY <2>1, <3>1
      <3>3. Restarted[j] = hb[j]
        BY <1>0, <3>1, RestartedOK
      <3>4. hb'[j] = hb[j]
        BY <2>1, <3>2, <3>3
      <3>5. Probing(j)'
        BY <3>1, <3>4
      <3>6. \A i \in Runner \ {j} : ~Probing(i)
        BY <3>1
      <3>7. \A i \in Runner \ {j} : ~Probing(i)'
        BY <2>1, <2>3, <2>4, <3>6
      <3> QED
        BY <2>2, <3>7, <3>5
    <2>5. CASE ~running
      BY <2>1, <2>2, <2>3, <2>5
    <2> QED
      BY <2>4, <2>5
  <1>10. ASSUME NEW h \in Runner, Stopped(h) PROVE FlagOK'
    <2>1. /\ hb'[h].pc = "off" /\ hb[h].pc = "wait"
          /\ \A i \in Runner \ {h} : hb'[i] = hb[i]
      BY <1>0, <1>10 DEF Stopped, RunnerRec
    <2>2. ~running'
      BY <1>10 DEF Stopped
    <2> QED
      BY <2>1, <2>2
  <1>11. ASSUME NEW h \in Runner, Panicked(h) PROVE FlagOK'
    <2>1. hb'[h].pc = "fallen" /\ \A i \in Runner \ {h} : hb'[i] = hb[i]
      BY <1>0, <1>11 DEF Panicked, IdleRunner
    <2>2. ~running' /\ hb[h].pc \in {"ping", "recovered"}
      BY <1>11 DEF Panicked
    <2> QED
      BY <2>1, <2>2
  <1> HIDE DEF FlagOK, Probing
  <1> QED
    BY <1>1, <1>2, <1>4, <1>5, <1>6, <1>7, <1>8, <1>9, <1>10, <1>11, RunnerSteps

\* What a step may do to the reload and the budget.
LEMMA ReloadSteps ==
    ASSUME [HealthNext]_healthVars
    PROVE  \/ UNCHANGED <<gen, budget, reload>>
           \/ \E c \in Caller, k \in Kind : StartCall(c, k)
           \/ Close \/ \E e \in Entry, on \in BOOLEAN : SetPause(e, on)
           \/ \E h \in Runner : Panicked(h)
           \/ \E keep \in BOOLEAN : BeginReload(keep)
           \/ \E e \in Entry : BuildRow(e)
           \/ ReloadFails \/ Swap \/ CheckAfterSwap \/ EnsureAfterSwap
  BY ZenonT(30)
     DEF HealthNext, healthVars, FailOver, Pick, Served, ClearExhausted, Failed,
         Refused, Aborted, EnsureAfterError, CheckAfterError,
         ReportKindExhausted, Tick, Ping, OnRecovery, Decide, Rescan, Rearm,
         Stopped, CheckAfterAdmin, EnsureAfterResume, Lapse

LEMMA ShockOK ==
    ASSUME budget \in [calls : Nat, shocks : Nat], Shock
    PROVE  /\ budget' \in [calls : Nat, shocks : Nat]
           /\ budget.shocks = budget'.shocks + 1
  BY DEF Shock

LEMMA ReloadStep == ASSUME HealthTypeOK, [HealthNext]_healthVars PROVE ReloadOK'
  <1>0. ReloadOK /\ RowsOK /\ gen \in Gen /\ budget \in [calls : Nat, shocks : Nat]
    BY GenHere DEF HealthTypeOK, ReloadOK
  <1>1. CASE UNCHANGED <<gen, budget, reload>>
    BY <1>0, <1>1 DEF ReloadOK
  <1>2. ASSUME NEW c \in Caller, NEW k \in Kind, StartCall(c, k) PROVE ReloadOK'
    <2>1. /\ budget' \in [calls : Nat, shocks : Nat] /\ budget'.shocks = budget.shocks
          /\ UNCHANGED <<gen, reload>>
      BY <1>0, <1>2 DEF StartCall, Pick
    <2> QED
      BY <1>0, <2>1 DEF ReloadOK
  <1>3. ASSUME NEW n \in Nat, gen' = n, budget' \in [calls : Nat, shocks : Nat],
               n + budget'.shocks + (IF reload'.pc = "build" THEN 1 ELSE 0)
                 <= gen + budget.shocks + (IF reload.pc = "build" THEN 1 ELSE 0)
        PROVE  gen' + budget'.shocks + (IF reload'.pc = "build" THEN 1 ELSE 0) \in Gen
    BY <1>0, <1>3, GenDown, GenNat DEF ReloadOK
  <1>4. CASE \/ Close \/ \E e \in Entry, on \in BOOLEAN : SetPause(e, on)
             \/ \E h \in Runner : Panicked(h)
    <2>1. /\ budget' \in [calls : Nat, shocks : Nat] /\ budget'.shocks <= budget.shocks
          /\ UNCHANGED <<gen, reload>>
      <3>1. UNCHANGED <<gen, reload>> /\ (Shock \/ UNCHANGED budget)
        BY <1>4 DEF Close, SetPause, Panicked
      <3>2. CASE Shock
        BY <1>0, <3>1, <3>2, ShockOK
      <3>3. CASE UNCHANGED budget
        BY <1>0, <3>1, <3>3
      <3> QED
        BY <3>1, <3>2, <3>3
    <2>2. gen' + budget'.shocks + (IF reload'.pc = "build" THEN 1 ELSE 0) \in Gen
      BY <1>0, <1>3, <2>1 DEF ReloadOK
    <2> QED
      BY <1>0, <2>1, <2>2 DEF ReloadOK
  <1>5. ASSUME NEW at \in {"idle", "build", "check", "probe"}, NEW keep,
               reload' = [pc |-> at, keep |-> keep, built |-> NoRows],
               gen' \in Nat, budget' \in [calls : Nat, shocks : Nat],
               gen' + budget'.shocks + (IF at = "build" THEN 1 ELSE 0) \in Gen
        PROVE  ReloadOK'
    <2>1. reload'.pc = at /\ reload'.keep = keep /\ reload'.built = NoRows
      BY <1>5
    <2>2. DOMAIN NoRows = {} /\ (Entry = {} => NoRows \in [Entry -> RowRec])
      BY DEF NoRows
    <2> QED
      BY <1>5, <2>1, <2>2 DEF ReloadOK
  <1>6. ASSUME NEW keep \in BOOLEAN, BeginReload(keep) PROVE ReloadOK'
    <2>1. /\ budget' \in [calls : Nat, shocks : Nat] /\ budget.shocks = budget'.shocks + 1
          /\ UNCHANGED gen /\ reload.pc = "idle"
          /\ reload' = [pc |-> "build", keep |-> keep, built |-> NoRows]
      BY <1>0, <1>6, ShockOK DEF BeginReload
    <2>2. gen' + budget'.shocks + 1 \in Gen
      BY <1>0, <2>1 DEF ReloadOK
    <2> QED
      BY <1>0, <1>5, <2>1, <2>2 DEF ReloadOK
  <1>7. ASSUME NEW e \in Entry, BuildRow(e) PROVE ReloadOK'
    <2> DEFINE row == IF reload.keep THEN copyLiveness(rows[gen][e]) ELSE Fresh
               D == DOMAIN reload.built
               built == [f \in D \cup {e} |-> IF f # e THEN reload.built[f] ELSE row]
    <2>1. RowOK(row)
      BY <1>0, FreshOK, CopyOK DEF RowsOK, TableOK
    <2>2. /\ reload'.pc = reload.pc /\ reload'.keep = reload.keep
          /\ reload'.built = built
          /\ reload' = [pc |-> reload.pc, keep |-> reload.keep, built |-> built]
      BY <1>0, <1>7 DEF BuildRow, ReloadOK
    <2> HIDE DEF row
    <2>3. \A f \in D : f \in Entry /\ RowOK(reload.built[f])
      BY <1>0 DEF ReloadOK
    <2>4. /\ DOMAIN built = D \cup {e}
          /\ \A f \in D \cup {e} : f \in Entry /\ RowOK(built[f])
      BY <2>1, <2>3
    <2>5. D \cup {e} = Entry => built \in [Entry -> RowRec]
      BY <2>1, <2>3 DEF RowOK
    <2> HIDE DEF built, D
    <2>6. UNCHANGED <<gen, budget>>
      BY <1>7 DEF BuildRow
    <2> QED
      BY <1>0, <2>2, <2>4, <2>5, <2>6 DEF ReloadOK
  <1>8. CASE ReloadFails \/ EnsureAfterSwap
    <2>1. reload' = IdleReload /\ UNCHANGED <<gen, budget>>
      BY <1>8 DEF ReloadFails, EnsureAfterSwap
    <2>2. gen' + budget'.shocks + 0 \in Gen
      BY <1>0, <2>1, GenDown, GenNat DEF ReloadOK
    <2> QED
      BY <1>0, <1>5, <2>1, <2>2 DEF IdleReload, ReloadOK
  <1>9. CASE Swap
    <2>1. /\ reload' = [pc |-> "check", keep |-> FALSE, built |-> NoRows]
          /\ gen' = gen + 1 /\ UNCHANGED budget /\ reload.pc = "build"
      BY <1>9 DEF Swap, IdleReload
    <2>2. gen' + budget'.shocks + 0 \in Gen
      BY <1>0, <2>1 DEF ReloadOK
    <2> QED
      BY <1>0, <1>5, <2>1, <2>2 DEF ReloadOK
  <1>10. CASE CheckAfterSwap
    <2>1. /\ reload' = [pc |-> "probe", keep |-> reload.keep, built |-> reload.built]
          /\ reload.pc = "check" /\ UNCHANGED <<gen, budget>>
      BY <1>0, <1>10 DEF CheckAfterSwap, ReloadOK
    <2>2. reload'.pc = "probe" /\ reload'.keep = reload.keep /\ reload'.built = reload.built
      BY <2>1
    <2> QED
      BY <1>0, <2>1, <2>2 DEF ReloadOK
  <1> QED
    BY <1>1, <1>2, <1>4, <1>6, <1>7, <1>8, <1>9, <1>10, ReloadSteps

LEMMA TypesStep == ASSUME HealthTypeOK, [HealthNext]_healthVars PROVE HealthTypeOK'
  BY RowsStep, CallsStep, RunnersStep, ReloadStep DEF HealthTypeOK

-----------------------------------------------------------------------------
(* Every dead entry is probed.                                             *)

ProbeComing ==
    \/ running
    \/ \E c \in Caller : calls[c].pc = "ensure"
    \/ \E h \in Runner : hb[h].pc \in {"rescan", "rearm", "fallen"}
    \/ admin \in {"resumed", "probe"}
    \/ reload.pc \in {"check", "probe"}

\* An entry dies only by a fresh error, a resume or a new table, and each of
\* them leaves someone on the way to the heartbeat.
LEMMA DeathStep ==
    ASSUME HealthTypeOK, [HealthNext]_healthVars, HasDeadEntry'
    PROVE  \/ HasDeadEntry
           \/ \E c \in Caller : calls'[c].pc = "ensure"
           \/ admin' = "resumed" \/ reload'.pc = "check"
  <1>0. /\ RowsOK /\ gen \in Gen /\ RowsOK'
        /\ \A f \in Entry : RowOK(rows[gen][f])
    BY GenHere, RowsStep DEF HealthTypeOK, RowsOK, TableOK
  <1>1. CASE UNCHANGED <<rows, gen>>
    BY <1>1 DEF HasDeadEntry
  <1>2. ASSUME NEW c, NEW k, NEW tried, NEW fault, Pick(c, k, tried, fault)
        PROVE  HasDeadEntry
    <2>1. /\ \A f \in Entry : IsDead(rows'[gen][f]) <=> IsDead(rows[gen][f])
          /\ gen' = gen
      BY <1>0, <1>2, PickTable, AskedTableOK
    <2> QED
      BY <2>1 DEF HasDeadEntry
  <1>3. ASSUME NEW g \in Gen, NEW e \in Entry, NEW r, RowOK(r), SetRow(g, e, r),
               IsDead(r) => IsDead(rows[g][e]), UNCHANGED gen
        PROVE  HasDeadEntry
    <2>1. \A f \in Entry : IsDead(rows'[gen][f]) => IsDead(rows[gen][f])
      BY <1>0, <1>3, SetRowOK
    <2> QED
      BY <1>3, <2>1 DEF HasDeadEntry
  <1>4. ASSUME NEW c \in Caller, Served(c) PROVE HasDeadEntry
    <2>1. /\ calls[c].gen \in Gen /\ calls[c].on \in Entry
          /\ RowOK(RecordSuccess(RowOf(c)))
          /\ IsDead(RecordSuccess(RowOf(c))) => IsDead(rows[calls[c].gen][calls[c].on])
      BY <1>4, RowOfOK, SuccessOK DEF Served, RowOf
    <2> QED
      BY <1>3, <1>4, <2>1 DEF Served
  <1>5. ASSUME NEW c \in Caller, NEW full \in BOOLEAN, Failed(c, full)
        PROVE  HasDeadEntry \/ calls'[c].pc = "ensure"
    <2>1. /\ calls[c].gen \in Gen /\ calls[c].on \in Entry /\ RowOK(RowOf(c))
          /\ RowOK(RecordError(RowOf(c), full))
          /\ IsDead(RecordError(RowOf(c), full)) =>
                IsDead(RowOf(c)) \/ NewlyDead(RowOf(c), full)
      BY <1>5, RowOfOK, ErrorOK DEF Failed
    <2>2. CASE NewlyDead(RowOf(c), full)
      BY <1>5, <2>2 DEF Failed, HealthTypeOK, CallsOK, CallRec
    <2>3. CASE ~NewlyDead(RowOf(c), full)
      <3>1. IsDead(RecordError(RowOf(c), full)) => IsDead(rows[calls[c].gen][calls[c].on])
        BY <2>1, <2>3 DEF RowOf
      <3> QED
        BY <1>3, <1>5, <2>1, <3>1 DEF Failed
    <2> QED
      BY <2>2, <2>3
  <1>6. ASSUME NEW h \in Runner, NEW ok \in BOOLEAN, Ping(h, ok) PROVE HasDeadEntry
    <2>1. PICK q \in hb[h].todo : SetRow(q[1], q[2], MarkProbed(rows[q[1]][q[2]], ok))
      BY <1>6 DEF Ping
    <2>2. q[1] \in Gen /\ q[2] \in Entry /\ UNCHANGED gen
      BY <1>6 DEF HealthTypeOK, RunnersOK, RunnerRec, Ping
    <2>3. /\ RowOK(MarkProbed(rows[q[1]][q[2]], ok))
          /\ IsDead(MarkProbed(rows[q[1]][q[2]], ok)) => IsDead(rows[q[1]][q[2]])
      BY <1>0, <2>2, ProbedOK DEF RowsOK, TableOK
    <2> QED
      BY <1>3, <2>1, <2>2, <2>3
  <1>7. ASSUME NEW e \in Entry, NEW on \in BOOLEAN, SetPause(e, on)
        PROVE  HasDeadEntry \/ admin' = "resumed"
    <2>1. CASE on
      <3>1. /\ RowOK([rows[gen][e] EXCEPT !.paused = on])
            /\ ~IsDead([rows[gen][e] EXCEPT !.paused = on])
        BY <1>0, <2>1, PausedOK
      <3> QED
        BY <1>0, <1>3, <1>7, <3>1 DEF SetPause
    <2>2. CASE ~on
      BY <1>7, <2>2 DEF SetPause
    <2> QED
      BY <2>1, <2>2
  <1>8. CASE Swap
    BY <1>8 DEF Swap, IdleReload
  <1>9. ASSUME NEW g \in Gen, NEW e \in Entry, Lapse(g, e) PROVE HasDeadEntry
    <2> DEFINE l == [rows[g][e] EXCEPT !.dead = "lapsed", !.held = FALSE, !.errs = 0]
    <2>1. RowOK(l) /\ ~IsDead(l)
      BY <1>0, <1>9, LapsedOK DEF Lapse, RowsOK, TableOK
    <2>2. SetRow(g, e, l) /\ UNCHANGED gen
      BY <1>9 DEF Lapse
    <2> HIDE DEF l
    <2> QED
      BY <1>3, <2>1, <2>2
  <1> QED
    BY <1>1, <1>2, <1>4, <1>5, <1>6, <1>7, <1>8, <1>9, RowSteps
    DEF StartCall, FailOver

\* Whoever is on the way hands over to the flag or to the next in line, and
\* gives up only with nothing dead.
LEMMA ComingStep ==
    ASSUME HealthTypeOK, [HealthNext]_healthVars, HasDeadEntry', ~closed',
           ProbeComing
    PROVE  ProbeComing'
  <1>0. hb \in [Runner -> RunnerRec] /\ calls \in [Caller -> CallRec]
    BY DEF HealthTypeOK, RunnersOK, CallsOK
  <1>1. ASSUME Ensure PROVE running'
    BY <1>1 DEF Ensure
  <1>2. UNCHANGED <<rows, gen>> => HasDeadEntry
    BY DEF HasDeadEntry
  <1>3. ASSUME running
        PROVE  running' \/ \E h \in Runner : hb'[h].pc \in {"rescan", "fallen"}
    <2>1. ASSUME NEW h \in Runner, Decide(h)
          PROVE  running' \/ hb'[h].pc = "rescan"
      BY <1>0, <1>3, <2>1 DEF Decide, IdleRunner
    <2>2. ASSUME NEW h \in Runner, Stopped(h) PROVE FALSE
      BY <2>2 DEF Stopped
    <2>3. ASSUME NEW h \in Runner,
                 \/ Tick(h) \/ (\E ok \in BOOLEAN : Ping(h, ok))
                 \/ OnRecovery(h) \/ Rescan(h)
          PROVE  running'
      BY <1>3, <2>3 DEF Tick, Ping, OnRecovery, Rescan
    <2>4. ASSUME NEW h \in Runner, Rearm(h) PROVE running'
      BY <2>4 DEF Rearm
    <2>5. CASE UNCHANGED <<hb, running>>
      BY <1>3, <2>5
    <2>6. ASSUME NEW h \in Runner, Panicked(h) PROVE hb'[h].pc = "fallen"
      BY <1>0, <2>6 DEF Panicked, IdleRunner
    <2> QED
      BY <1>1, <2>1, <2>2, <2>3, <2>4, <2>5, <2>6, RunnerSteps
  <1>4. ASSUME NEW c \in Caller, calls[c].pc = "ensure"
        PROVE  running' \/ calls'[c].pc = "ensure"
    <2>1. CASE EnsureAfterError(c)
      BY <1>1, <2>1 DEF EnsureAfterError
    <2>2. CASE calls'[c] = calls[c]
      BY <1>4, <2>2
    <2>3. ASSUME NEW d \in Caller,
                 \/ \E k \in Kind : StartCall(d, k)
                 \/ FailOver(d) \/ Served(d) \/ ClearExhausted(d)
                 \/ (\E full \in BOOLEAN : Failed(d, full)) \/ Refused(d) \/ Aborted(d)
                 \/ CheckAfterError(d) \/ ReportKindExhausted(d)
          PROVE  calls'[c] = calls[c]
      <3>1. d # c
        BY <1>4, <2>3 DEF StartCall, FailOver, Served, ClearExhausted, Failed,
                          Refused, Aborted, CheckAfterError, ReportKindExhausted
      <3> QED
        BY <1>0, <2>3, <3>1
        DEF StartCall, FailOver, Pick, Served, ClearExhausted, Failed,
            Refused, Aborted, CheckAfterError, ReportKindExhausted
    <2>5. ASSUME NEW d \in Caller, d # c, EnsureAfterError(d)
          PROVE  calls'[c] = calls[c]
      BY <1>0, <2>5 DEF EnsureAfterError
    <2> QED
      BY <2>1, <2>2, <2>3, <2>5, CallSteps
  <1>5. ASSUME NEW h \in Runner, hb[h].pc \in {"rescan", "rearm", "fallen"}
        PROVE  running' \/ hb'[h].pc \in {"rescan", "rearm", "fallen"}
    <2>1. CASE UNCHANGED <<hb, running>>
      BY <1>5, <2>1
    <2>2. CASE Ensure
      BY <1>1, <2>2
    <2>3. CASE Rescan(h)
      <3>1. HasDeadEntry
        BY <1>2, <2>3 DEF Rescan
      <3> QED
        BY <1>0, <2>3, <3>1 DEF Rescan, RunnerRec
    <2>4. ASSUME NEW i \in Runner, Rearm(i) PROVE running'
      BY <2>4 DEF Rearm
    <2>5. ASSUME NEW i \in Runner,
                 \/ Tick(i) \/ (\E ok \in BOOLEAN : Ping(i, ok)) \/ OnRecovery(i)
                 \/ Decide(i) \/ (i # h /\ Rescan(i)) \/ Stopped(i) \/ Panicked(i)
          PROVE  hb'[h] = hb[h]
      <3>1. i # h
        BY <1>5, <2>5 DEF Tick, Ping, OnRecovery, Decide, Stopped, Panicked
      <3> QED
        BY <1>0, <2>5, <3>1
        DEF Tick, Ping, OnRecovery, Decide, Rescan, Stopped, Panicked
    <2> QED
      BY <1>5, <2>1, <2>2, <2>3, <2>4, <2>5, RunnerSteps
  <1>6. ASSUME admin \in {"resumed", "probe"}
        PROVE  running' \/ admin' \in {"resumed", "probe"}
    <2>1. CASE UNCHANGED admin
      BY <1>6, <2>1
    <2>2. CASE CheckAfterAdmin
      BY <1>6, <2>2 DEF CheckAfterAdmin
    <2>3. CASE EnsureAfterResume
      BY <1>1, <1>2, <2>3 DEF EnsureAfterResume
    <2>4. \/ UNCHANGED admin \/ CheckAfterAdmin \/ EnsureAfterResume
          \/ \E e \in Entry, on \in BOOLEAN : SetPause(e, on)
      BY DEF HealthNext, healthVars, StartCall, FailOver, Pick, Served,
             ClearExhausted, Failed, Refused, Aborted, EnsureAfterError,
             CheckAfterError, ReportKindExhausted, Tick, Ping, OnRecovery,
             Decide, Rescan, Rearm, Stopped, Panicked, Close,
             BeginReload, BuildRow, ReloadFails, Swap, CheckAfterSwap,
             EnsureAfterSwap, Lapse
    <2>5. ASSUME NEW e \in Entry, NEW on \in BOOLEAN, SetPause(e, on) PROVE FALSE
      BY <1>6, <2>5 DEF SetPause
    <2> QED
      BY <2>1, <2>2, <2>3, <2>4, <2>5
  <1>7. ASSUME reload.pc \in {"check", "probe"}
        PROVE  running' \/ reload'.pc \in {"check", "probe"}
    <2>1. CASE UNCHANGED reload
      BY <1>7, <2>1
    <2>2. CASE CheckAfterSwap
      BY <1>7, <2>2 DEF CheckAfterSwap, HealthTypeOK, ReloadOK
    <2>3. CASE EnsureAfterSwap
      BY <1>1, <1>2, <2>3 DEF EnsureAfterSwap
    <2>4. ~ (\/ \E keep \in BOOLEAN : BeginReload(keep)
             \/ \E e \in Entry : BuildRow(e)
             \/ ReloadFails \/ Swap)
      BY <1>7 DEF BeginReload, BuildRow, ReloadFails, Swap
    <2>5. UNCHANGED reload \/ CheckAfterSwap \/ EnsureAfterSwap
      BY <2>4, ReloadSteps DEF StartCall, Pick, Close, SetPause, Panicked
    <2> QED
      BY <2>1, <2>2, <2>3, <2>5
  <1> QED
    BY <1>3, <1>4, <1>5, <1>6, <1>7 DEF ProbeComing

LEMMA ProbedStep ==
    ASSUME HealthTypeOK, DeadIsProbed, [HealthNext]_healthVars
    PROVE  DeadIsProbed'
  <1> SUFFICES ASSUME HasDeadEntry', ~closed' PROVE ProbeComing'
    BY DEF DeadIsProbed, ProbeComing
  <1>1. ~closed
    BY DEF HealthNext, healthVars, StartCall, FailOver, Pick, Served,
           ClearExhausted, Failed, Refused, Aborted, EnsureAfterError,
           CheckAfterError, ReportKindExhausted, Tick, Ping, OnRecovery,
           Decide, Rescan, Rearm, Stopped, Panicked, Close, SetPause,
           CheckAfterAdmin, EnsureAfterResume, BeginReload, BuildRow,
           ReloadFails, Swap, CheckAfterSwap, EnsureAfterSwap, Lapse
  <1>2. HasDeadEntry => ProbeComing
    BY <1>1 DEF DeadIsProbed, ProbeComing
  <1> QED
    BY <1>2, DeathStep, ComingStep DEF ProbeComing

-----------------------------------------------------------------------------
(* One page per outage.                                                    *)

PagerVals == {"ok", "quiet", "down", "spent"}

\* DeadKindsOf asks the rows only whether they are eligible.
LEMMA SameDeadKinds ==
    ASSUME NEW t, NEW u, \A e \in Entry : IsEligible(t[e]) <=> IsEligible(u[e])
    PROVE  DeadKindsOf(t) = DeadKindsOf(u)
  BY DEF DeadKindsOf, OfKind

LEMMA MoreDeadKinds ==
    ASSUME NEW t, NEW u, \A e \in Entry : IsEligible(u[e]) => IsEligible(t[e])
    PROVE  DeadKindsOf(t) \subseteq DeadKindsOf(u)
  BY DEF DeadKindsOf, OfKind

\* PagerOK after a step, from what it asks of the step.
LEMMA PagerNext ==
    ASSUME pager' \in [Kind -> PagerVals],
           NEW dead, dead = DeadKindsOf(rows'[gen']),
           \A k \in Kind : /\ pager'[k] = "spent" => k \in exhausted'
                           /\ pager'[k] = "down" => k \in allDead' /\ k \in dead
    PROVE  PagerOK'
  BY DEF PagerOK, PagesOK, PagerVals, DeadKindsOf

LEMMA NoticeKeeps ==
    ASSUME PagerOK, NEW t, Notice(t), UNCHANGED allDead, UNCHANGED exhausted,
           \A e \in Entry : IsEligible(rows'[gen'][e]) <=> IsEligible(t[e])
    PROVE  PagerOK'
  <1> DEFINE dead == DeadKindsOf(rows'[gen'])
  <1>1. dead = DeadKindsOf(t)
    BY SameDeadKinds
  <1>2. pager' = [k \in Kind |-> IF pager[k] = "down" /\ k \notin dead
                                 THEN "quiet" ELSE pager[k]]
    BY <1>1 DEF Notice
  <1> HIDE DEF dead
  <1>3. pager' \in [Kind -> PagerVals]
    BY <1>2 DEF PagerOK, PagerVals
  <1>4. \A k \in Kind : /\ pager'[k] = "spent" => k \in exhausted'
                        /\ pager'[k] = "down" => k \in allDead' /\ k \in dead
    BY <1>2 DEF PagerOK, PagesOK
  <1> QED
    BY <1>3, <1>4, PagerNext DEF dead

\* A recheck pages a kind only with neither latch up, and then no page of the
\* kind stands.
LEMMA CheckKeeps ==
    ASSUME PagerOK, CheckPoolLiveness, UNCHANGED rows, UNCHANGED gen
    PROVE  PagerOK'
  <1> DEFINE dead == DeadKindsOf(rows[gen])
  <1>1. dead = DeadKindsOf(rows'[gen'])
    OBVIOUS
  <1>2. /\ allDead' = dead /\ exhausted' = exhausted
        /\ pager' = [k \in Kind |->
              IF k \in (dead \ allDead) \ exhausted THEN Paged(k, "down")
              ELSE pager[k]]
    BY DEF CheckPoolLiveness
  <1>3. \A k \in Kind : /\ pager[k] \in PagerVals
                        /\ pager[k] = "spent" => k \in exhausted
                        /\ pager[k] = "down" => k \in allDead /\ k \in dead
    BY DEF PagerOK, PagesOK, PagerVals
  <1> HIDE DEF dead
  <1>4. \A k \in Kind : k \notin allDead /\ k \notin exhausted => Paged(k, "down") = "down"
    BY <1>3 DEF Paged, PagerVals
  <1>5. pager' \in [Kind -> PagerVals]
    BY <1>2, <1>3, <1>4 DEF PagerVals
  <1>6. \A k \in Kind : /\ pager'[k] = "spent" => k \in exhausted'
                        /\ pager'[k] = "down" => k \in allDead' /\ k \in dead
    BY <1>2, <1>3, <1>4
  <1> QED
    BY <1>1, <1>5, <1>6, PagerNext

\* A step that leaves the latches alone and makes no entry usable.
LEMMA LatchKeeps ==
    ASSUME PagerOK, UNCHANGED Latches,
           \A e \in Entry : IsEligible(rows'[gen'][e]) => IsEligible(rows[gen][e])
    PROVE  PagerOK'
  <1> DEFINE dead == DeadKindsOf(rows'[gen'])
  <1>1. DeadKindsOf(rows[gen]) \subseteq dead
    BY MoreDeadKinds
  <1> HIDE DEF dead
  <1>2. pager' = pager /\ allDead' = allDead /\ exhausted' = exhausted
    BY DEF Latches
  <1>3. pager' \in [Kind -> PagerVals]
    BY <1>2 DEF PagerOK, PagerVals
  <1>4. \A k \in Kind : /\ pager'[k] = "spent" => k \in exhausted'
                        /\ pager'[k] = "down" => k \in allDead' /\ k \in dead
    BY <1>1, <1>2 DEF PagerOK, PagesOK
  <1> QED
    BY <1>3, <1>4, PagerNext DEF dead

\* What a step may do to the pages and the latches.
LEMMA PageSteps ==
    ASSUME [HealthNext]_healthVars
    PROVE  \/ UNCHANGED Latches /\ UNCHANGED <<rows, gen>>
           \/ \E c \in Caller, full \in BOOLEAN : Failed(c, full)
           \/ CheckPoolLiveness /\ UNCHANGED <<rows, gen>>
           \/ \E c \in Caller, k \in Kind : StartCall(c, k)
           \/ \E c \in Caller : \/ FailOver(c) \/ Served(c) \/ ClearExhausted(c)
                                \/ ReportKindExhausted(c)
           \/ \E h \in Runner, ok \in BOOLEAN : Ping(h, ok)
           \/ \E e \in Entry, on \in BOOLEAN : SetPause(e, on)
           \/ Swap
           \/ \E g \in Gen, e \in Entry : Lapse(g, e)
  BY DEF HealthNext, healthVars, Latches, Refused, Aborted, EnsureAfterError,
         CheckAfterError, Tick, OnRecovery, Decide, Rescan, Rearm, Stopped,
         Panicked, Close, CheckAfterAdmin, EnsureAfterResume, BeginReload, BuildRow,
         ReloadFails, CheckAfterSwap, EnsureAfterSwap

LEMMA PagerStep ==
    ASSUME HealthTypeOK, PagerOK, [HealthNext]_healthVars PROVE PagerOK'
  <1>0. /\ RowsOK /\ gen \in Gen /\ rows[gen] \in [Entry -> RowRec]
        /\ \A g \in Gen, f \in Entry : RowOK(rows[g][f])
    BY GenHere DEF HealthTypeOK, RowsOK, TableOK
  <1>1. CASE UNCHANGED Latches /\ UNCHANGED <<rows, gen>>
    BY <1>1, LatchKeeps
  <1>2. ASSUME NEW c \in Caller, NEW full \in BOOLEAN, Failed(c, full) PROVE PagerOK'
    <2>1. /\ calls[c].gen \in Gen /\ calls[c].on \in Entry /\ RowOK(RowOf(c))
          /\ RowOK(RecordError(RowOf(c), full))
          /\ IsEligible(RecordError(RowOf(c), full)) => IsEligible(RowOf(c))
      BY <1>2, RowOfOK, ErrorOK DEF Failed
    <2>2. /\ SetRow(calls[c].gen, calls[c].on, RecordError(RowOf(c), full))
          /\ UNCHANGED Latches /\ gen' = gen
      BY <1>2 DEF Failed
    <2>3. \A f \in Entry : IsEligible(rows'[gen][f]) => IsEligible(rows[gen][f])
      BY <1>0, <2>1, <2>2, SetRowOK DEF RowOf
    <2> QED
      BY <2>2, <2>3, LatchKeeps
  <1>3. CASE CheckPoolLiveness /\ UNCHANGED <<rows, gen>>
    BY <1>3, CheckKeeps
  <1>4. ASSUME NEW c, NEW k, NEW tried, NEW fault, Pick(c, k, tried, fault)
        PROVE  PagerOK'
    <2> DEFINE t == AskedTable(OfKind(k) \ tried)
    <2>1. Notice(t) /\ gen' = gen /\ rows' = [rows EXCEPT ![gen] = t]
      BY <1>4, PickTable
    <2>2. \A f \in Entry : IsEligible(rows'[gen'][f]) <=> IsEligible(t[f])
      BY <1>0, <2>1, AskedTableOK
    <2>3. UNCHANGED allDead /\ UNCHANGED exhausted
      BY <1>4 DEF Pick
    <2> HIDE DEF t
    <2> QED
      BY <2>1, <2>2, <2>3, NoticeKeeps
  <1>5. ASSUME NEW c \in Caller, Served(c) PROVE PagerOK'
    <2> DEFINE k == KindOfCall(c)
               dead == DeadKindsOf(rows'[gen'])
    <2>1. /\ calls[c].gen \in Gen /\ calls[c].on \in Entry
          /\ RowOK(RecordSuccess(RowOf(c)))
          /\ IsEligible(RecordSuccess(RowOf(c))) <=> IsEligible(RowOf(c))
      BY <1>5, RowOfOK, SuccessOK DEF Served
    <2>2. /\ SetRow(calls[c].gen, calls[c].on, RecordSuccess(RowOf(c)))
          /\ gen' = gen /\ allDead' = allDead /\ exhausted' = exhausted
      BY <1>5 DEF Served
    <2>3. \A f \in Entry : IsEligible(rows'[gen][f]) <=> IsEligible(rows[gen][f])
      BY <1>0, <2>1, <2>2, SetRowOK DEF RowOf
    <2>4. DeadKindsOf(rows[gen]) = dead
      BY <2>2, <2>3, SameDeadKinds
    <2>5. PICK v \in {"ok", pager[k]} : pager' = [pager EXCEPT ![k] = v]
      BY <1>5 DEF Served
    <2> HIDE DEF dead, k
    <2>6. pager' \in [Kind -> PagerVals]
      BY <2>5 DEF PagerOK, PagerVals
    <2>7. \A j \in Kind : /\ pager'[j] = "spent" => j \in exhausted'
                          /\ pager'[j] = "down" => j \in allDead' /\ j \in dead
      BY <2>2, <2>4, <2>5 DEF PagerOK, PagesOK
    <2> QED
      BY <2>6, <2>7, PagerNext DEF dead
  <1>6. ASSUME NEW c \in Caller, ClearExhausted(c) PROVE PagerOK'
    <2> DEFINE k == KindOfCall(c)
               dead == DeadKindsOf(rows'[gen'])
    <2>1. /\ exhausted' = exhausted \ {k} /\ allDead' = allDead
          /\ pager' = [pager EXCEPT ![k] = IF @ = "spent" THEN "quiet" ELSE @]
          /\ DeadKindsOf(rows[gen]) = dead
      BY <1>6 DEF ClearExhausted
    <2> HIDE DEF dead, k
    <2>2. pager' \in [Kind -> PagerVals]
      BY <2>1 DEF PagerOK, PagerVals
    <2>3. \A j \in Kind : /\ pager'[j] = "spent" => j \in exhausted'
                          /\ pager'[j] = "down" => j \in allDead' /\ j \in dead
      BY <2>1 DEF PagerOK, PagesOK
    <2> QED
      BY <2>2, <2>3, PagerNext DEF dead
  <1>7. ASSUME NEW c \in Caller, ReportKindExhausted(c) PROVE PagerOK'
    <2> DEFINE k == KindOfCall(c)
               dead == DeadKindsOf(rows'[gen'])
    <2>1. DeadKindsOf(rows[gen]) = dead /\ allDead' = allDead
      BY <1>7 DEF ReportKindExhausted
    <2>2. CASE k \in allDead \cup exhausted
      <3>1. UNCHANGED Latches /\ UNCHANGED <<rows, gen>>
        BY <1>7, <2>2 DEF ReportKindExhausted, Latches
      <3> QED
        BY <3>1, LatchKeeps
    <2>3. CASE k \notin allDead \cup exhausted
      <3>1. /\ exhausted' = exhausted \cup {k}
            /\ pager' = [pager EXCEPT ![k] = Paged(k, "spent")]
        BY <1>7, <2>3 DEF ReportKindExhausted
      <3> HIDE DEF dead, k
      <3>2. k \in Kind => Paged(k, "spent") = "spent"
        BY <2>3 DEF Paged, PagerOK, PagesOK
      <3>3. pager' \in [Kind -> PagerVals]
        BY <3>1, <3>2 DEF PagerOK, PagerVals
      <3>4. \A j \in Kind : /\ pager'[j] = "spent" => j \in exhausted'
                            /\ pager'[j] = "down" => j \in allDead' /\ j \in dead
        BY <2>1, <3>1, <3>2 DEF PagerOK, PagesOK
      <3> QED
        BY <3>3, <3>4, PagerNext DEF dead
    <2> QED
      BY <2>2, <2>3
  <1>8. ASSUME NEW h \in Runner, NEW ok \in BOOLEAN, Ping(h, ok) PROVE PagerOK'
    <2>1. PICK q \in hb[h].todo :
            /\ SetRow(q[1], q[2], MarkProbed(rows[q[1]][q[2]], ok))
            /\ Notice([rows[gen] EXCEPT ![q[2]] =
                         IF q[1] = gen THEN MarkProbed(rows[q[1]][q[2]], ok) ELSE @])
      BY <1>8 DEF Ping
    <2> DEFINE r == MarkProbed(rows[q[1]][q[2]], ok)
               t == [rows[gen] EXCEPT ![q[2]] = IF q[1] = gen THEN r ELSE @]
    <2>2. /\ q[1] \in Gen /\ q[2] \in Entry
          /\ gen' = gen /\ UNCHANGED allDead /\ UNCHANGED exhausted
      BY <1>8 DEF HealthTypeOK, RunnersOK, RunnerRec, Ping
    <2>3. RowOK(r)
      BY <1>0, <2>2, ProbedOK
    <2> HIDE DEF r
    <2>4. \A f \in Entry : rows'[gen][f] = t[f]
      BY <1>0, <2>1, <2>2, <2>3, SetRowOK DEF r
    <2> HIDE DEF t
    <2>5. Notice(t)
      BY <2>1 DEF t, r
    <2> QED
      BY <2>2, <2>4, <2>5, NoticeKeeps
  <1>9. ASSUME NEW e \in Entry, NEW on \in BOOLEAN, SetPause(e, on) PROVE PagerOK'
    <2> DEFINE t == [rows[gen] EXCEPT ![e].paused = on]
               r == [rows[gen][e] EXCEPT !.paused = on]
    <2>1. /\ SetRow(gen, e, r) /\ Notice(t) /\ gen' = gen
          /\ UNCHANGED allDead /\ UNCHANGED exhausted
      BY <1>9 DEF SetPause
    <2>2. RowOK(r)
      BY <1>0, PausedOK
    <2>3. \A f \in Entry : t[f] = IF f = e THEN r ELSE rows[gen][f]
      BY <1>0
    <2> HIDE DEF t, r
    <2>4. \A f \in Entry : rows'[gen][f] = t[f]
      BY <1>0, <2>1, <2>2, <2>3, SetRowOK
    <2> QED
      BY <2>1, <2>4, NoticeKeeps
  <1>10. CASE Swap
    <2>1. /\ gen + 1 \in Gen /\ rows'[gen'] = reload.built /\ Notice(reload.built)
          /\ UNCHANGED allDead /\ UNCHANGED exhausted
      BY <1>0, <1>10, GenDown, GenNat DEF Swap, HealthTypeOK, ReloadOK, RowsOK
    <2> QED
      BY <2>1, NoticeKeeps
  <1>11. ASSUME NEW g \in Gen, NEW e \in Entry, Lapse(g, e) PROVE PagerOK'
    <2> DEFINE r == [rows[g][e] EXCEPT !.dead = "lapsed", !.held = FALSE, !.errs = 0]
               t == [rows[gen] EXCEPT ![e].dead = IF g = gen THEN "lapsed" ELSE @]
    <2>1. /\ SetRow(g, e, r) /\ Notice(t) /\ gen' = gen
          /\ UNCHANGED allDead /\ UNCHANGED exhausted
      BY <1>11 DEF Lapse
    <2>2. RowOK(r)
      BY <1>0, <1>11, LapsedOK DEF Lapse
    <2>3. \A f \in Entry \ {e} : t[f] = rows[gen][f]
      BY <1>0
    <2>4. g = gen => (IsEligible(t[e]) <=> IsEligible(r))
      BY <1>0 DEF IsEligible, RowRec
    <2>5. g # gen => (IsEligible(t[e]) <=> IsEligible(rows[gen][e]))
      BY <1>0 DEF IsEligible, RowRec
    <2> HIDE DEF t, r
    <2>6. \A f \in Entry : rows'[gen][f] = IF gen = g /\ f = e THEN r ELSE rows[gen][f]
      BY <1>0, <2>1, <2>2, SetRowOK
    <2>7. \A f \in Entry : IsEligible(rows'[gen'][f]) <=> IsEligible(t[f])
      BY <2>1, <2>3, <2>4, <2>5, <2>6
    <2> QED
      BY <2>1, <2>7, NoticeKeeps
  <1> QED
    BY <1>1, <1>2, <1>3, <1>4, <1>5, <1>6, <1>7, <1>8, <1>9, <1>10, <1>11, PageSteps
    DEF StartCall, FailOver

-----------------------------------------------------------------------------
(* The theorems.                                                           *)

LEMMA InitHealth == HealthInit => HealthInv
  <1> SUFFICES ASSUME HealthInit PROVE HealthInv
    OBVIOUS
  <1> USE DEF HealthInit
  <1>1. gen = 0 /\ budget \in Budgets /\ budget \in [calls : Nat, shocks : Nat]
    BY HealthAssumption
  <1>2. budget.shocks \in Gen
    BY <1>1 DEF Gen
  <1>3. 0 \in Gen
    BY <1>1, <1>2, GenDown, GenNat
  <1>4. RowsOK
    <2>1. Fresh \in RowRec
      BY FreshOK DEF RowOK
    <2>2. \A g \in Gen : rows[g] = [e \in Entry |-> Fresh]
      OBVIOUS
    <2> QED
      BY <2>1, <2>2, FreshOK DEF RowsOK, TableOK
  <1>5. CallsOK
    BY <1>3 DEF CallsOK, CallRec, IdleCall
  <1>6. RunnersOK /\ \A h \in Runner : hb[h].pc = "off"
    BY DEF RunnersOK, RunnerRec, IdleRunner
  <1>7. ReloadOK
    <2>1. /\ reload.pc = "idle" /\ reload.built = NoRows
          /\ reload = [pc |-> reload.pc, keep |-> reload.keep, built |-> reload.built]
      BY DEF IdleReload
    <2>2. DOMAIN NoRows = {} /\ (Entry = {} => NoRows \in [Entry -> RowRec])
      BY DEF NoRows
    <2>3. gen + budget.shocks + (IF reload.pc = "build" THEN 1 ELSE 0) = budget.shocks
      BY <1>1, <2>1
    <2> QED
      BY <1>1, <1>2, <2>1, <2>2, <2>3 DEF ReloadOK
  <1>8. FlagOK
    BY <1>6 DEF FlagOK, Probing
  <1>9. DeadIsProbed
    <2>1. \A e \in Entry : rows[gen][e] = Fresh
      BY <1>1, <1>3
    <2> QED
      BY <2>1 DEF DeadIsProbed, HasDeadEntry, IsDead, Fresh
  <1>10. PagerOK
    BY DEF PagerOK, PagesOK
  <1> QED
    BY <1>4, <1>5, <1>6, <1>7, <1>8, <1>9, <1>10 DEF HealthInv, HealthTypeOK

\* HealthInv is an invariant of the pool's health.
THEOREM HealthInvariant == HealthSpec => []HealthInv
  <1>1. HealthInit => HealthInv
    BY InitHealth
  <1>2. HealthInv /\ [HealthNext]_healthVars => HealthInv'
    BY TypesStep, FlagStep, ProbedStep, PagerStep DEF HealthInv
  <1> QED
    BY <1>1, <1>2, PTL DEF HealthSpec

\* However Ensure, the heartbeat's exit, its re-arm and a panic under it
\* interleave, at most one goroutine probes, and the flag is up exactly while
\* one does.
THEOREM HealthOneHeartbeat == HealthSpec => []OneHeartbeat
  <1>1. FlagOK => OneHeartbeat
    <2> DEFINE P == {h \in Runner :
                   hb[h].pc \notin {"off", "rescan", "rearm", "fallen"}}
    <2> SUFFICES ASSUME FlagOK PROVE Cardinality(P) <= 1 /\ (running <=> P # {})
      BY DEF OneHeartbeat
    <2>1. running <=> P # {}
      BY DEF FlagOK, Probing
    <2>2. CASE P = {}
      BY <2>1, <2>2, FS_EmptySet
    <2>3. CASE P # {}
      <3>1. PICK h \in P : TRUE
        BY <2>3
      <3>2. P = {h}
        BY <3>1 DEF FlagOK, Probing
      <3> HIDE DEF P
      <3> QED
        BY <2>1, <3>2, FS_Singleton
    <2> QED
      BY <2>2, <2>3
  <1>2. HealthInv => OneHeartbeat
    BY <1>1 DEF HealthInv
  <1> QED
    BY <1>2, HealthInvariant, PTL

\* No start of the heartbeat is lost to a racing exit, a pause, a resume or a
\* reload: a dead entry in service has its probe running or on the way, unless
\* a panic took the heartbeat down and nothing has started it since.
THEOREM HealthDeadIsProbed == HealthSpec => []DeadIsProbed
  <1>1. HealthInv => DeadIsProbed
    BY DEF HealthInv
  <1> QED
    BY <1>1, HealthInvariant, PTL

\* The two latches together keep the pages to one per outage.
THEOREM HealthOnePage == HealthSpec => []OnePagePerOutage
  <1>1. HealthInv => OnePagePerOutage
    BY DEF HealthInv, PagerOK, PagesOK, OnePagePerOutage
  <1> QED
    BY <1>1, HealthInvariant, PTL
=============================================================================

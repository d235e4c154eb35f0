------------------------ MODULE SessionArbiterProofs ------------------------
(***************************************************************************)
(* Proofs about SessionArbiter for every set of messages and sessions,     *)
(* every cap and every retry bound.                                        *)
(***************************************************************************)
EXTENDS SessionArbiterRefinement, WellFoundedInduction, TLAPS

\* A non-empty queue has a first message: arrival stamps are naturals.
LEMMA FrontIsFirst ==
    ASSUME stamp \in [Msg -> Nat], NEW q \in SUBSET Msg, q # {}
    PROVE  Front(q) \in q /\ \A n \in q : stamp[Front(q)] <= stamp[n]
<1> DEFINE T == {stamp[m] : m \in q}
<1>1. T \subseteq Nat /\ T # {}
  OBVIOUS
<1>2. \E x \in T : \A y \in T : ~(<<y, x>> \in OpToRel(<, Nat))
  BY <1>1, NatLessThanWellFounded, WFMin, Zenon
<1>3. \E x \in T : \A y \in T : x <= y
  <2>1. ASSUME NEW x \in Nat, NEW y \in Nat, ~(<<y, x>> \in OpToRel(<, Nat))
        PROVE  x <= y
    <3>1. OpToRel(<, Nat) = {ss \in Nat \X Nat : ss[1] < ss[2]}
      BY Zenon DEF OpToRel
    <3>2. ~(<<y, x>> \in {ss \in Nat \X Nat : ss[1] < ss[2]})
      BY <2>1, <3>1, Zenon
    <3>3. QED
      BY <3>2, SMT
  <2>2. QED
    BY <1>1, <1>2, <2>1
<1>4. \E m \in q : \A n \in q : stamp[m] <= stamp[n]
  BY <1>3
<1>5. QED
  BY <1>4 DEF Front

\* The follow-up batch of a non-empty queue is a non-empty part of it.
LEMMA PickIsBatch ==
    ASSUME stamp \in [Msg -> Nat], NEW q \in SUBSET Msg, q # {}
    PROVE  pickNextDrainBatch(q) \subseteq q /\ Front(q) \in pickNextDrainBatch(q)
<1>1. Front(q) \in q
  BY FrontIsFirst
<1>2. QED
  BY <1>1 DEF pickNextDrainBatch, sameSender

\* A new goroutine, and one that moved to another phase, are of the right type.
LEMMA RunTypes ==
    ASSUME runs \subseteq Runs
    PROVE  /\ \A s \in Sid, t \in Nat, b \in SUBSET Msg, d \in BOOLEAN :
                 NewRun(s, t, b, d) \in Runs
           /\ \A r \in runs, p \in Phases : Goto(r, p) \subseteq Runs
           /\ \A r \in runs : r.sid \in Sid /\ r.token \in Nat /\ r.batch \subseteq Msg
                              /\ r.phase \in Phases /\ r.ctl \in Ctls
  BY DEF Runs, NewRun, Goto, Phases, Ctls

\* Giving a fate keeps the history well typed.
LEMMA SetFateType ==
    ASSUME fate \in [Msg -> Moving \cup Settled], NEW M, NEW f \in Moving \cup Settled
    PROVE  SetFate(M, f) \in [Msg -> Moving \cup Settled]
  BY DEF SetFate

LEMMA TypeInit == Init => TypeOK
  BY SidAssumption DEF Init, TypeOK, Moving, Settled, Routes

LEMMA TypeStep == TypeOK /\ [Next]_vars => TypeOK'
<1> SUFFICES ASSUME TypeOK, [Next]_vars
             PROVE  TypeOK'
  OBVIOUS
<1> USE DEF TypeOK, storeVars, msgVars, lockVars
<1>1. ASSUME NEW m \in Msg, Submit(m) PROVE TypeOK'
  BY <1>1 DEF Submit, Moving, Routes
<1>2. ASSUME NEW m \in Msg, ResolveSid(m) PROVE TypeOK'
  BY <1>2 DEF ResolveSid, OpenSession
<1>3. ASSUME NEW m \in Msg, ResolveFails(m) PROVE TypeOK'
  BY <1>3 DEF ResolveFails, Settled
<1>4. ASSUME NEW m \in Msg, AdmitClosing(m) PROVE TypeOK'
  BY <1>4 DEF AdmitClosing, Settled
<1>5. ASSUME NEW m \in Msg, AdmitBusy(m) PROVE TypeOK'
  BY <1>5 DEF AdmitBusy, Settled, Moving
<1>6. ASSUME NEW m \in Msg, AdmitIdle(m) PROVE TypeOK'
  <2>1. at[m] \in Sid /\ turnSeq' \in Nat /\ arrivals' \in Nat
    BY <1>6 DEF AdmitIdle
  <2>2. NewRun(at[m], turnSeq', {m}, FALSE) \in Runs
    BY <2>1 DEF NewRun, Runs, Phases, Ctls
  <2>3. QED
    BY <1>6, <2>1, <2>2 DEF AdmitIdle, Moving
<1>7. ASSUME NEW r \in runs, RecordPending(r) PROVE TypeOK'
  BY <1>7, RunTypes DEF RecordPending, Phases, WalRows
<1>8. ASSUME NEW r \in runs, RegisterCancel(r) PROVE TypeOK'
  <2>1. [r EXCEPT !.phase = "run",
                  !.ctl = IF r.sid \in closing \/ power = "stopping" THEN "cancelled" ELSE @,
                  !.pre = pending[r.sid]] \in Runs
    BY DEF Runs, Phases, Ctls
  <2>2. QED
    BY <1>8, <2>1 DEF RegisterCancel, Runs
<1>9. ASSUME NEW r \in runs, takeNudge(r) PROVE TypeOK'
  <2> DEFINE q == {m \in pending[r.sid] : KindOf[m] = "text" /\ m \notin r.pre}
  <2>1. r.sid \in Sid
    BY RunTypes
  <2>2. q \in SUBSET Msg /\ q # {}
    BY <1>9, <2>1 DEF takeNudge
  <2>3. Front(q) \in Msg
    BY <2>2, FrontIsFirst
  <2>4. QED
    BY <1>9, <2>1, <2>3 DEF takeNudge, Moving, Unqueue
<1>10. ASSUME NEW r \in runs, FinishTurn(r) PROVE TypeOK'
  BY <1>10, RunTypes DEF FinishTurn, Phases
<1>11. ASSUME NEW r \in runs, removeServedPending(r) PROVE TypeOK'
  <2>1. fate' \in [Msg -> Moving \cup Settled]
    BY <1>11 DEF removeServedPending, SetFate, Settled
  <2>2. QED
    BY <1>11, <2>1, RunTypes DEF removeServedPending, Phases
<1>12. ASSUME NEW r \in runs, drainSidAfterTurn(r) PROVE TypeOK'
  <2> DEFINE q == pending[r.sid]
             b == pickNextDrainBatch(q)
  <2>1. r.sid \in Sid /\ r.token \in Nat /\ q \in SUBSET Msg
    BY RunTypes
  <2>2. q # {} => b \in SUBSET Msg
    BY <2>1, PickIsBatch
  <2>3. fate' \in [Msg -> Moving \cup Settled]
    BY <1>12 DEF drainSidAfterTurn, SetFate, Moving, Settled
  <2>4. q # {} => NewRun(r.sid, r.token, b, q = b /\ r.sid \in dropped) \in Runs
    BY <2>1, <2>2, RunTypes
  <2>5. runs' \subseteq Runs
    BY <1>12, <2>4 DEF drainSidAfterTurn
  <2>6. pending' \in [Sid -> SUBSET Msg]
    BY <1>12, <2>1 DEF drainSidAfterTurn, Unqueue
  <2>7. dropped' \subseteq Sid /\ busy' \subseteq Sid /\ closing' \subseteq Sid
        /\ meta' \in [Sid -> Nat]
    BY <1>12, <2>1 DEF drainSidAfterTurn, LatchAfter, FreeSid, ClosingAfter
  <2>8. QED
    BY <1>12, <2>3, <2>5, <2>6, <2>7 DEF drainSidAfterTurn
<1>13. ASSUME NEW r \in runs, recoverTurn(r) PROVE TypeOK'
  <2> DEFINE q == pending[r.sid]
             b == pickNextDrainBatch(q)
  <2>1. r.sid \in Sid /\ r.token \in Nat /\ q \in SUBSET Msg
    BY RunTypes
  <2>2. q # {} => b \in SUBSET Msg
    BY <2>1, PickIsBatch
  <2>3. fate' \in [Msg -> Moving \cup Settled]
    BY <1>13 DEF recoverTurn, SetFate, Moving, Settled
  <2>4. q # {} => NewRun(r.sid, turnSeq + 1, b, q = b /\ r.sid \in dropped) \in Runs
    <3>1. turnSeq + 1 \in Nat
      OBVIOUS
    <3>2. QED
      BY <2>1, <2>2, <3>1, RunTypes, Zenon
  <2>5. runs' \subseteq Runs
    BY <1>13, <2>4 DEF recoverTurn, MayRedispatch
  <2>6. pending' \in [Sid -> SUBSET Msg] /\ nudged' \in [Sid -> SUBSET Msg]
    BY <1>13, <2>1 DEF recoverTurn, Unqueue
  <2>7. dropped' \subseteq Sid /\ busy' \subseteq Sid /\ closing' \subseteq Sid
        /\ cancels' \subseteq Sid
    BY <1>13, <2>1 DEF recoverTurn, LatchAfter, FreeSid, ClosingAfter
  <2>8. meta' \in [Sid -> Nat] /\ turnSeq' \in Nat
    BY <1>13, <2>1 DEF recoverTurn, FreeSid
  <2>9. QED
    BY <1>13, <2>3, <2>5, <2>6, <2>7, <2>8 DEF recoverTurn
<1>14. ASSUME NEW r \in runs, CancelFires(r) PROVE TypeOK'
  BY <1>14 DEF CancelFires, Runs, Ctls
<1>15. ASSUME NEW s \in Sid, slashCloseSession(s) PROVE TypeOK'
  BY <1>15 DEF slashCloseSession, Runs, Ctls
<1>16. CASE slashNew
  BY <1>16 DEF slashNew, OpenSession
<1>17. CASE Stop
  BY <1>17 DEF Stop, Runs, Ctls
<1>18. CASE Exit
  BY <1>18 DEF Exit, SetFate, Settled
<1>19. CASE RecoverPendingOnBoot
  BY <1>19 DEF RecoverPendingOnBoot
<1>20. CASE UNCHANGED vars
  BY <1>20 DEF vars
<1>21. QED
  BY <1>1, <1>2, <1>3, <1>4, <1>5, <1>6, <1>7, <1>8, <1>9, <1>10, <1>11, <1>12,
     <1>13, <1>14, <1>15, <1>16, <1>17, <1>18, <1>19, <1>20
     DEF Next, MsgStep, TurnStep, Quiescent

\* The arbiter's state is well typed in every reachable state.
THEOREM TypeCorrect == Spec => []TypeOK
  BY TypeInit, TypeStep, PTL DEF Spec

-----------------------------------------------------------------------------
\* The arbitration invariant without the type part.
ArbInv == OneTurnPerSession /\ BusyHasTurn /\ IdleIsClean /\ TurnPhases /\ DownIsEmpty

\* A step in which a goroutine becomes another goroutine of the same session
\* keeps one owning goroutine per session.
LEMMA ReplaceRun ==
    ASSUME OneTurnPerSession, NEW r \in runs, NEW n,
           n.sid = r.sid, runs' = (runs \ {r}) \cup {n},
           busy' = busy, \A s \in busy : s # r.sid => meta'[s] = meta[s],
           meta'[r.sid] = n.token
    PROVE  /\ OneTurnPerSession'
           /\ \A x \in runs' : x = n \/ (x \in runs /\ x.sid # r.sid)
           /\ \A x \in runs : \E y \in runs' : y.sid = x.sid
<1>1. \A x \in runs' : x = n \/ (x \in runs /\ x.sid # r.sid)
  BY DEF OneTurnPerSession
<1>2. \A x \in runs : \E y \in runs' : y.sid = x.sid
  OBVIOUS
<1>3. \A x \in runs' : owns(x)'
  BY <1>1 DEF OneTurnPerSession, owns
<1>4. \A x, y \in runs' : x.sid = y.sid => x = y
  BY <1>1 DEF OneTurnPerSession
<1>5. QED
  BY <1>1, <1>2, <1>3, <1>4 DEF OneTurnPerSession

\* A step in which a goroutine ends and gives its session back.
LEMMA EndRun ==
    ASSUME OneTurnPerSession, NEW r \in runs, runs' = runs \ {r},
           busy' = busy \ {r.sid}, \A s \in busy' : meta'[s] = meta[s]
    PROVE  /\ OneTurnPerSession'
           /\ \A x \in runs' : x \in runs /\ x.sid # r.sid
           /\ \A x \in runs : x.sid # r.sid => \E y \in runs' : y.sid = x.sid
<1>1. \A x \in runs' : x \in runs /\ x.sid # r.sid
  BY DEF OneTurnPerSession
<1>2. \A x \in runs' : owns(x)'
  BY <1>1 DEF OneTurnPerSession, owns
<1>3. QED
  BY <1>1, <1>2 DEF OneTurnPerSession

LEMMA ArbInit == Init => ArbInv
  BY DEF Init, ArbInv, OneTurnPerSession, BusyHasTurn, IdleIsClean, TurnPhases, DownIsEmpty, owns

LEMMA ArbStep == TypeOK /\ ArbInv /\ [Next]_vars => ArbInv'
<1> SUFFICES ASSUME TypeOK, ArbInv, [Next]_vars
             PROVE  ArbInv'
  OBVIOUS
<1> USE DEF ArbInv, storeVars, msgVars, lockVars
<1>r. ASSUME NEW r \in runs
      PROVE  /\ r.sid \in Sid /\ r.sid \in busy /\ meta[r.sid] = r.token
             /\ power # "down"
  BY <1>r DEF TypeOK, Runs, OneTurnPerSession, owns, DownIsEmpty
<1>same. ASSUME UNCHANGED <<power, runs, busy, meta, pending, nudged, dropped, closing, cancels>>
         PROVE  ArbInv'
  BY <1>same DEF OneTurnPerSession, BusyHasTurn, IdleIsClean, TurnPhases, DownIsEmpty, owns
<1>1. ASSUME NEW m \in Msg, Submit(m) PROVE ArbInv'
  BY <1>1, <1>same DEF Submit
<1>2. ASSUME NEW m \in Msg, ResolveSid(m) PROVE ArbInv'
  BY <1>2, <1>same DEF ResolveSid
<1>3. ASSUME NEW m \in Msg, ResolveFails(m) PROVE ArbInv'
  BY <1>3, <1>same DEF ResolveFails
<1>4. ASSUME NEW m \in Msg, AdmitClosing(m) PROVE ArbInv'
  BY <1>4, <1>same DEF AdmitClosing
<1>5. ASSUME NEW m \in Msg, AdmitBusy(m) PROVE ArbInv'
  <2>1. at[m] \in busy /\ UNCHANGED <<power, runs, busy, meta, nudged, closing, cancels>>
    BY <1>5 DEF AdmitBusy
  <2>2. \A s \in Sid \ busy : pending'[s] = pending[s] /\ (s \in dropped' => s \in dropped)
    BY <1>5, <2>1 DEF AdmitBusy, TypeOK
  <2>3. QED
    BY <2>1, <2>2 DEF OneTurnPerSession, BusyHasTurn, IdleIsClean, TurnPhases, DownIsEmpty, owns
<1>6. ASSUME NEW m \in Msg, AdmitIdle(m) PROVE ArbInv'
  <2> DEFINE s == at[m]
             n == NewRun(s, turnSeq', {m}, FALSE)
  <2>1. s \in Sid /\ s \notin busy /\ busy' = busy \cup {s} /\ runs' = runs \cup {n}
        /\ UNCHANGED <<power, pending, nudged, dropped, closing, cancels>> /\ power # "down"
    BY <1>6 DEF AdmitIdle, TypeOK
  <2>2. meta'[s] = turnSeq' /\ \A x \in Sid : x # s => meta'[x] = meta[x]
    BY <1>6, <2>1 DEF AdmitIdle, TypeOK
  <2>3. n.sid = s /\ n.token = turnSeq' /\ n.phase = "record"
    BY DEF NewRun
  <2>4. \A x \in runs : x.sid # s /\ x.sid \in Sid
    BY <1>r, <2>1
  <2> HIDE DEF s, n
  <2>5. OneTurnPerSession'
    <3>1. \A x \in runs' : owns(x)'
      BY <2>1, <2>2, <2>3, <2>4 DEF OneTurnPerSession, owns
    <3>2. \A x, y \in runs' : x.sid = y.sid => x = y
      BY <2>1, <2>3, <2>4 DEF OneTurnPerSession
    <3>3. QED
      BY <3>1, <3>2 DEF OneTurnPerSession
  <2>6. TurnPhases' /\ IdleIsClean'
    BY <2>1, <2>2, <2>3, <2>4 DEF TurnPhases, IdleIsClean
  <2>7. BusyHasTurn' /\ DownIsEmpty'
    BY <2>1, <2>3 DEF BusyHasTurn, DownIsEmpty
  <2>8. QED
    BY <2>5, <2>6, <2>7
<1>7. ASSUME NEW r \in runs, RecordPending(r) PROVE ArbInv'
  <2> DEFINE n == [r EXCEPT !.phase = "register"]
  <2>1. n.sid = r.sid /\ n.token = r.token /\ n.phase = "register"
    BY DEF TypeOK, Runs
  <2>2. runs' = (runs \ {r}) \cup {n} /\ r.phase = "record"
        /\ UNCHANGED <<power, busy, meta, pending, nudged, dropped, closing, cancels>>
    BY <1>7 DEF RecordPending, Goto
  <2>3. /\ OneTurnPerSession'
        /\ \A x \in runs' : x = n \/ (x \in runs /\ x.sid # r.sid)
        /\ \A x \in runs : \E y \in runs' : y.sid = x.sid
    BY <1>r, <2>1, <2>2, ReplaceRun
  <2>4. QED
    BY <1>r, <2>1, <2>2, <2>3 DEF BusyHasTurn, IdleIsClean, TurnPhases, DownIsEmpty
<1>8. ASSUME NEW r \in runs, RegisterCancel(r) PROVE ArbInv'
  <2> DEFINE n == [r EXCEPT !.phase = "run",
                            !.ctl = IF r.sid \in closing \/ power = "stopping"
                                    THEN "cancelled" ELSE @,
                            !.pre = pending[r.sid]]
  <2>1. n.sid = r.sid /\ n.token = r.token /\ n.phase = "run"
    BY DEF TypeOK, Runs
  <2>2. runs' = (runs \ {r}) \cup {n} /\ cancels' = cancels \cup {r.sid}
        /\ UNCHANGED <<power, busy, meta, pending, nudged, dropped, closing>>
    BY <1>8 DEF RegisterCancel
  <2> HIDE DEF n
  <2>3. /\ OneTurnPerSession'
        /\ \A x \in runs' : x = n \/ (x \in runs /\ x.sid # r.sid)
        /\ \A x \in runs : \E y \in runs' : y.sid = x.sid
    BY <1>r, <2>1, <2>2, ReplaceRun
  <2>4. QED
    BY <1>r, <2>1, <2>2, <2>3 DEF BusyHasTurn, IdleIsClean, TurnPhases, DownIsEmpty
<1>9. ASSUME NEW r \in runs, takeNudge(r) PROVE ArbInv'
  <2>1. r.phase = "run" /\ UNCHANGED <<power, busy, meta, runs, dropped, closing, cancels>>
    BY <1>9 DEF takeNudge
  <2>2. \A s \in Sid : s # r.sid => pending'[s] = pending[s] /\ nudged'[s] = nudged[s]
    BY <1>9 DEF takeNudge, Unqueue, TypeOK
  <2>3. \A x \in runs : x.sid = r.sid => x = r
    BY DEF OneTurnPerSession
  <2>4. QED
    BY <1>r, <2>1, <2>2, <2>3 DEF OneTurnPerSession, BusyHasTurn, IdleIsClean, TurnPhases, DownIsEmpty, owns
<1>10. ASSUME NEW r \in runs, FinishTurn(r) PROVE ArbInv'
  <2> DEFINE n == [r EXCEPT !.phase = "served"]
  <2>1. n.sid = r.sid /\ n.token = r.token /\ n.phase = "served"
    BY DEF TypeOK, Runs
  <2>2. runs' = (runs \ {r}) \cup {n} /\ cancels' = cancels \ {r.sid}
        /\ UNCHANGED <<power, busy, meta, pending, nudged, dropped, closing>>
    BY <1>10 DEF FinishTurn, Goto
  <2>3. /\ OneTurnPerSession'
        /\ \A x \in runs' : x = n \/ (x \in runs /\ x.sid # r.sid)
        /\ \A x \in runs : \E y \in runs' : y.sid = x.sid
    BY <1>r, <2>1, <2>2, ReplaceRun
  <2>4. QED
    BY <1>r, <2>1, <2>2, <2>3 DEF BusyHasTurn, IdleIsClean, TurnPhases, DownIsEmpty
<1>11. ASSUME NEW r \in runs, removeServedPending(r) PROVE ArbInv'
  <2> DEFINE n == [r EXCEPT !.phase = "drain"]
  <2>1. n.sid = r.sid /\ n.token = r.token /\ n.phase = "drain"
    BY DEF TypeOK, Runs
  <2>2. runs' = (runs \ {r}) \cup {n} /\ r.phase = "served"
        /\ UNCHANGED <<power, busy, meta, pending, dropped, closing, cancels>>
    BY <1>11 DEF removeServedPending, Goto
  <2>3. nudged'[r.sid] = {} /\ \A s \in Sid : s # r.sid => nudged'[s] = nudged[s]
    BY <1>11, <1>r DEF removeServedPending, TypeOK
  <2>4. /\ OneTurnPerSession'
        /\ \A x \in runs' : x = n \/ (x \in runs /\ x.sid # r.sid)
        /\ \A x \in runs : \E y \in runs' : y.sid = x.sid
    BY <1>r, <2>1, <2>2, ReplaceRun
  <2>5. QED
    BY <1>r, <2>1, <2>2, <2>3, <2>4 DEF BusyHasTurn, IdleIsClean, TurnPhases, DownIsEmpty
<1>12. ASSUME NEW r \in runs, drainSidAfterTurn(r) PROVE ArbInv'
  <2> DEFINE s == r.sid
             b == pickNextDrainBatch(pending[s])
             n == NewRun(s, r.token, b, pending[s] = b /\ s \in dropped)
  <2>1. r.phase = "drain" /\ owns(r) /\ UNCHANGED <<power, nudged, cancels>>
        /\ s \notin cancels /\ nudged[s] = {} /\ s \in Sid
    BY <1>12, <1>r DEF drainSidAfterTurn, owns, TurnPhases
  <2>2. CASE power = "stopping"
    <3>1. runs' = runs \ {r} /\ UNCHANGED <<pending, dropped, busy, meta, closing>>
      BY <1>12, <2>2 DEF drainSidAfterTurn
    <3>2. QED
      BY <2>1, <2>2, <3>1
         DEF OneTurnPerSession, BusyHasTurn, IdleIsClean, TurnPhases, DownIsEmpty, owns
  <2>3. CASE power # "stopping" /\ s \notin closing /\ pending[s] # {}
    <3>1. runs' = (runs \ {r}) \cup {n} /\ UNCHANGED <<busy, meta, closing>>
          /\ pending' = Unqueue(s, b) /\ dropped' \subseteq dropped
      BY <1>12, <2>1, <2>3 DEF drainSidAfterTurn, LatchAfter
    <3>2. n.sid = s /\ n.token = r.token /\ n.phase = "record"
      BY DEF NewRun
    <3>3. \A x \in Sid : x # s => pending'[x] = pending[x]
      BY <3>1 DEF Unqueue, TypeOK
    <3>4. /\ OneTurnPerSession'
          /\ \A x \in runs' : x = n \/ (x \in runs /\ x.sid # s)
          /\ \A x \in runs : \E y \in runs' : y.sid = x.sid
      BY <1>r, <3>1, <3>2, ReplaceRun
    <3>5. QED
      BY <1>r, <2>1, <3>1, <3>2, <3>3, <3>4
         DEF BusyHasTurn, IdleIsClean, TurnPhases, DownIsEmpty
  <2>4. CASE power # "stopping" /\ ~(s \notin closing /\ pending[s] # {})
    <3>1. runs' = runs \ {r} /\ FreeSid(s) /\ closing' = closing \ {s}
          /\ dropped' = dropped \ {s} /\ pending' = [pending EXCEPT ![s] = {}]
      BY <1>12, <2>1, <2>4 DEF drainSidAfterTurn, ClosingAfter
    <3>2. pending'[s] = {} /\ meta'[s] = 0 /\ busy' = busy \ {s}
          /\ \A x \in Sid : x # s => pending'[x] = pending[x] /\ meta'[x] = meta[x]
      BY <2>1, <3>1 DEF FreeSid, TypeOK
    <3>3. \A x \in busy' : meta'[x] = meta[x]
      BY <3>2 DEF TypeOK
    <3>4. /\ OneTurnPerSession'
          /\ \A x \in runs' : x \in runs /\ x.sid # s
          /\ \A x \in runs : x.sid # s => \E y \in runs' : y.sid = x.sid
      BY <3>1, <3>2, <3>3, EndRun
    <3>5. QED
      BY <1>r, <2>1, <3>1, <3>2, <3>4
         DEF BusyHasTurn, IdleIsClean, TurnPhases, DownIsEmpty
  <2>5. QED
    BY <2>2, <2>3, <2>4
<1>13. ASSUME NEW r \in runs, recoverTurn(r) PROVE ArbInv'
  <2> DEFINE s == r.sid
             b == pickNextDrainBatch(pending[s])
             n == NewRun(s, turnSeq', b, pending[s] = b /\ s \in dropped)
  <2>1. owns(r) /\ s \in Sid /\ s \in busy /\ UNCHANGED power /\ cancels' = cancels \ {s}
        /\ closing' = closing \ {s} /\ nudged' = [nudged EXCEPT ![s] = {}]
    BY <1>13, <1>r DEF recoverTurn, owns, ClosingAfter
  <2>2. nudged'[s] = {} /\ \A x \in Sid : x # s => nudged'[x] = nudged[x]
    BY <2>1 DEF TypeOK
  <2>3. CASE MayRedispatch(s)
    <3>1. runs' = (runs \ {r}) \cup {n} /\ busy' = busy
          /\ meta' = [meta EXCEPT ![s] = turnSeq']
          /\ pending' = Unqueue(s, b) /\ dropped' \subseteq dropped
      BY <1>13, <2>1, <2>3 DEF recoverTurn, LatchAfter
    <3>2. n.sid = s /\ n.token = turnSeq' /\ n.phase = "record"
      BY DEF NewRun
    <3>3. \A x \in Sid : x # s => pending'[x] = pending[x] /\ meta'[x] = meta[x]
      BY <3>1 DEF Unqueue, TypeOK
    <3>4. meta'[s] = turnSeq'
      BY <2>1, <3>1 DEF TypeOK
    <3>5. \A x \in busy : x # s => meta'[x] = meta[x]
      BY <3>3 DEF TypeOK
    <3>6. /\ OneTurnPerSession'
          /\ \A x \in runs' : x = n \/ (x \in runs /\ x.sid # s)
          /\ \A x \in runs : \E y \in runs' : y.sid = x.sid
      BY <3>1, <3>2, <3>4, <3>5, ReplaceRun
    <3>7. QED
      BY <1>r, <2>1, <2>2, <3>1, <3>2, <3>3, <3>6
         DEF BusyHasTurn, IdleIsClean, TurnPhases, DownIsEmpty
  <2>4. CASE ~MayRedispatch(s)
    <3>1. runs' = runs \ {r} /\ FreeSid(s) /\ dropped' = dropped \ {s}
          /\ pending' = Unqueue(s, pending[s])
      BY <1>13, <2>1, <2>4 DEF recoverTurn, LatchAfter
    <3>2. pending'[s] = {} /\ meta'[s] = 0 /\ busy' = busy \ {s}
          /\ \A x \in Sid : x # s => pending'[x] = pending[x] /\ meta'[x] = meta[x]
      BY <2>1, <3>1 DEF FreeSid, Unqueue, TypeOK
    <3>3. \A x \in busy' : meta'[x] = meta[x]
      BY <3>2 DEF TypeOK
    <3>4. /\ OneTurnPerSession'
          /\ \A x \in runs' : x \in runs /\ x.sid # s
          /\ \A x \in runs : x.sid # s => \E y \in runs' : y.sid = x.sid
      BY <3>1, <3>2, <3>3, EndRun
    <3>5. QED
      BY <1>r, <2>1, <2>2, <3>1, <3>2, <3>4
         DEF BusyHasTurn, IdleIsClean, TurnPhases, DownIsEmpty
  <2>5. QED
    BY <2>3, <2>4
<1>14. ASSUME NEW r \in runs, CancelFires(r) PROVE ArbInv'
  <2> DEFINE n == [r EXCEPT !.ctl = "cancelled"]
  <2>1. n.sid = r.sid /\ n.token = r.token /\ n.phase = r.phase
    BY DEF TypeOK, Runs
  <2>2. runs' = (runs \ {r}) \cup {n} /\ UNCHANGED <<power, lockVars>>
    BY <1>14 DEF CancelFires
  <2> HIDE DEF n
  <2>3. /\ OneTurnPerSession'
        /\ \A x \in runs' : x = n \/ (x \in runs /\ x.sid # r.sid)
        /\ \A x \in runs : \E y \in runs' : y.sid = x.sid
    BY <1>r, <2>1, <2>2, ReplaceRun
  <2>4. QED
    BY <1>r, <2>1, <2>2, <2>3 DEF BusyHasTurn, IdleIsClean, TurnPhases, DownIsEmpty
\* /close-session and a stop relabel goroutines: each keeps sid, token, phase.
<1>relabel. ASSUME NEW f, runs' = {f[r] : r \in runs},
                   \A r \in runs : f[r].sid = r.sid /\ f[r].token = r.token
                                  /\ f[r].phase = r.phase,
                   UNCHANGED <<busy, meta, pending, nudged, dropped, cancels>>
            PROVE  /\ OneTurnPerSession' /\ TurnPhases'
                   /\ \A x \in runs : \E y \in runs' : y.sid = x.sid
                   /\ runs = {} => runs' = {}
  BY <1>relabel DEF OneTurnPerSession, TurnPhases, owns
<1>15. ASSUME NEW s \in Sid, slashCloseSession(s) PROVE ArbInv'
  <2> DEFINE f == [r \in runs |-> IF r.sid = s /\ s \in cancels /\ r.phase = "run" /\ r.ctl = "live"
                                  THEN [r EXCEPT !.ctl = "asked"] ELSE r]
  <2>1. runs' = {f[r] : r \in runs} /\ s \in busy /\ closing' = closing \cup {s}
        /\ UNCHANGED <<power, busy, meta, pending, nudged, dropped, cancels>>
    BY <1>15 DEF slashCloseSession
  <2>2. \A r \in runs : f[r].sid = r.sid /\ f[r].token = r.token /\ f[r].phase = r.phase
    BY DEF TypeOK, Runs
  <2>3. /\ OneTurnPerSession' /\ TurnPhases'
        /\ \A x \in runs : \E y \in runs' : y.sid = x.sid
        /\ runs = {} => runs' = {}
    <3> HIDE DEF f
    <3>1. QED
      BY <2>1, <2>2, <1>relabel
  <2>4. QED
    BY <2>1, <2>3 DEF BusyHasTurn, IdleIsClean, DownIsEmpty
<1>16. CASE slashNew
  BY <1>16, <1>same DEF slashNew
<1>17. CASE Stop
  <2> DEFINE f == [r \in runs |-> IF r.phase = "run" THEN [r EXCEPT !.ctl = "cancelled"] ELSE r]
  <2>1. runs' = {f[r] : r \in runs} /\ power' = "stopping" /\ UNCHANGED lockVars
    BY <1>17 DEF Stop
  <2>2. \A r \in runs : f[r].sid = r.sid /\ f[r].token = r.token /\ f[r].phase = r.phase
    BY DEF TypeOK, Runs
  <2>3. OneTurnPerSession' /\ TurnPhases'
    <3> HIDE DEF f
    <3>1. QED
      BY <2>1, <2>2, <1>relabel
  <2>4. QED
    BY <2>1, <2>3 DEF BusyHasTurn, IdleIsClean, DownIsEmpty
<1>18. CASE Exit
  BY <1>18 DEF Exit, OneTurnPerSession, BusyHasTurn, IdleIsClean, TurnPhases, DownIsEmpty
<1>19. CASE RecoverPendingOnBoot
  BY <1>19 DEF RecoverPendingOnBoot, OneTurnPerSession, BusyHasTurn, IdleIsClean, TurnPhases, DownIsEmpty, owns
<1>20. CASE UNCHANGED vars
  BY <1>20, <1>same DEF vars
<1>21. QED
  BY <1>1, <1>2, <1>3, <1>4, <1>5, <1>6, <1>7, <1>8, <1>9, <1>10, <1>11, <1>12,
     <1>13, <1>14, <1>15, <1>16, <1>17, <1>18, <1>19, <1>20
     DEF Next, MsgStep, TurnStep, Quiescent

\* At most one turn per session, and it holds the sid: in no interleaving of
\* submits, drains, panics, closes and restarts does a second goroutine run a
\* session's turn or a turn lose its claim.
THEOREM TurnsAreExclusive == Spec => []OneTurnPerSession
<1>1. Init => TypeOK /\ ArbInv
  BY TypeInit, ArbInit
<1>2. TypeOK /\ ArbInv /\ [Next]_vars => (TypeOK /\ ArbInv)'
  BY TypeStep, ArbStep
<1>3. TypeOK /\ ArbInv => OneTurnPerSession
  BY DEF ArbInv
<1>4. QED
  BY <1>1, <1>2, <1>3, PTL DEF Spec

\* The inductive invariant holds throughout, and with it that busy sessions are
\* always worked on and idle ones leave nothing behind.
THEOREM ArbiterCorrect == Spec => []ArbiterInv
<1>1. Init => TypeOK /\ ArbInv
  BY TypeInit, ArbInit
<1>2. TypeOK /\ ArbInv /\ [Next]_vars => (TypeOK /\ ArbInv)'
  BY TypeStep, ArbStep
<1>3. TypeOK /\ ArbInv => ArbiterInv
  BY DEF ArbInv, ArbiterInv
<1>4. QED
  BY <1>1, <1>2, <1>3, PTL DEF Spec

\* An idle session never keeps a queue, a closing flag or a cancel function.
THEOREM IdleSessionsAreClean == Spec => []IdleIsClean
<1>1. ArbiterInv => IdleIsClean
  BY DEF ArbiterInv
<1>2. QED
  BY <1>1, ArbiterCorrect, PTL

\* A busy session of a serving process always has its goroutine.
THEOREM BusySessionsHaveTurns == Spec => []BusyHasTurn
<1>1. ArbiterInv => BusyHasTurn
  BY DEF ArbiterInv
<1>2. QED
  BY <1>1, ArbiterCorrect, PTL

-----------------------------------------------------------------------------
(* Where the messages are.                                                 *)

\* The batch of a turn that has been served is over.
DrainedIsOver ==
    \A r \in runs : r.phase = "drain" => \A m \in r.batch : fate[m] \in Settled

\* Arrival stamps: one message each, given on admission.
StampsOK ==
    /\ \A m \in Msg : stamp[m] <= arrivals
    /\ \A m, n \in Msg : m # n /\ stamp[m] = stamp[n] => stamp[m] = 0
    /\ \A m \in Msg : fate[m] = "queued" => stamp[m] > 0

\* The inductive invariant of the messages.
MsgInv == Conservation /\ DrainedIsOver /\ StampsOK /\ SenderOrder

\* On its way to a session, or there for the first time.
Unplaced(m) == fate[m] \in {"new", "routing"}

LEMMA PlacedIsUnsettled ==
    {"new", "routing", "queued", "nudged", "running"} \cap Settled = {}
BY DEF Settled

\* An unplaced message is in no queue, no nudge and no batch.
LEMMA UnplacedIsNowhere ==
    ASSUME TypeOK, MsgInv, NEW m \in Msg, Unplaced(m)
    PROVE  /\ \A s \in Sid : m \notin pending[s] /\ m \notin nudged[s]
           /\ \A r \in runs : m \notin r.batch
BY PlacedIsUnsettled DEF MsgInv, Conservation, DrainedIsOver, Unplaced

\* A step that takes an unplaced message somewhere else, or out.
LEMMA OutsideInv ==
    ASSUME TypeOK, MsgInv, NEW m \in Msg, Unplaced(m),
           fate' \in [Msg -> Moving \cup Settled],
           fate'[m] \notin {"queued", "nudged", "running"},
           \A n \in Msg : n # m => fate'[n] = fate[n] /\ at'[n] = at[n],
           UNCHANGED <<pending, nudged, runs, stamp, arrivals>>
    PROVE  MsgInv'
<1>1. /\ \A s \in Sid : m \notin pending[s] /\ m \notin nudged[s]
      /\ \A r \in runs : m \notin r.batch
  BY UnplacedIsNowhere
<1>2. /\ \A s \in Sid : pending[s] \subseteq Msg /\ nudged[s] \subseteq Msg
      /\ \A r \in runs : r.batch \subseteq Msg
  BY DEF TypeOK, Runs
<1>3. Conservation'
  <2>1. \A s \in Sid : \A n \in pending[s] : fate'[n] = "queued" /\ at'[n] = s
    BY <1>1, <1>2 DEF MsgInv, Conservation
  <2>2. \A s \in Sid : \A n \in nudged[s] : fate'[n] = "nudged" /\ at'[n] = s
    BY <1>1, <1>2 DEF MsgInv, Conservation
  <2>3. \A r \in runs : r.phase # "drain" =>
          \A n \in r.batch : fate'[n] = "running" /\ at'[n] = r.sid
    BY <1>1, <1>2 DEF MsgInv, Conservation
  <2>4. \A n \in Msg : fate'[n] = "queued" => n \in pending[at'[n]]
    BY DEF MsgInv, Conservation
  <2>5. \A n \in Msg : fate'[n] = "nudged" => n \in nudged[at'[n]]
    BY DEF MsgInv, Conservation
  <2>6. \A n \in Msg : fate'[n] = "running" =>
          \E r \in runs : r.phase # "drain" /\ n \in r.batch
    BY DEF MsgInv, Conservation
  <2> QED BY <2>1, <2>2, <2>3, <2>4, <2>5, <2>6 DEF Conservation
<1>4. DrainedIsOver'
  BY <1>1, <1>2 DEF MsgInv, DrainedIsOver
<1>5. StampsOK'
  BY DEF MsgInv, StampsOK
<1>6. SenderOrder'
  BY DEF MsgInv, SenderOrder, sameSender
<1> QED BY <1>3, <1>4, <1>5, <1>6 DEF MsgInv

\* A step that moves goroutines to other phases before the drain.
LEMMA RelabelInv ==
    ASSUME MsgInv, UNCHANGED <<fate, at, pending, nudged, stamp, arrivals>>,
           \A x \in runs' : \E r \in runs : /\ x.sid = r.sid /\ x.batch = r.batch
                                            /\ (x.phase = "drain" <=> r.phase = "drain"),
           \A r \in runs : \E x \in runs' : /\ x.sid = r.sid /\ x.batch = r.batch
                                            /\ (x.phase = "drain" <=> r.phase = "drain")
    PROVE  MsgInv'
<1>1. Conservation'
  <2>1. \A x \in runs' : x.phase # "drain" =>
          \A n \in x.batch : fate[n] = "running" /\ at[n] = x.sid
    BY DEF MsgInv, Conservation
  <2>2. \A n \in Msg : fate[n] = "running" =>
          \E x \in runs' : x.phase # "drain" /\ n \in x.batch
    BY DEF MsgInv, Conservation
  <2> QED BY <2>1, <2>2 DEF MsgInv, Conservation
<1>2. DrainedIsOver'
  BY DEF MsgInv, DrainedIsOver
<1>3. StampsOK'
  BY DEF MsgInv, StampsOK
<1>4. SenderOrder'
  BY DEF MsgInv, SenderOrder, sameSender
<1> QED BY <1>1, <1>2, <1>3, <1>4 DEF MsgInv

\* A message queues behind a running turn.
LEMMA EnqueueInv ==
    ASSUME TypeOK, MsgInv, NEW m \in Msg, Unplaced(m), NEW s \in Sid, at[m] = s,
           fate' = [fate EXCEPT ![m] = "queued"],
           pending' = [pending EXCEPT ![s] = @ \cup {m}],
           arrivals' = arrivals + 1, stamp' = [stamp EXCEPT ![m] = arrivals'],
           UNCHANGED <<at, nudged, runs>>
    PROVE  MsgInv'
<1>1. /\ \A x \in Sid : m \notin pending[x] /\ m \notin nudged[x]
      /\ \A r \in runs : m \notin r.batch
  BY UnplacedIsNowhere
<1>2. /\ \A x \in Sid : pending[x] \subseteq Msg /\ nudged[x] \subseteq Msg
      /\ \A r \in runs : r.batch \subseteq Msg
  BY DEF TypeOK, Runs
<1>3. /\ fate'[m] = "queued" /\ \A n \in Msg : n # m => fate'[n] = fate[n]
      /\ \A x \in Sid : pending'[x] = IF x = s THEN pending[s] \cup {m} ELSE pending[x]
  BY DEF TypeOK
<1>4. /\ stamp'[m] = arrivals + 1 /\ \A n \in Msg : n # m => stamp'[n] = stamp[n]
      /\ arrivals \in Nat /\ \A n \in Msg : stamp[n] \in Nat
  BY DEF TypeOK
<1>5. Conservation'
  <2>1. \A x \in Sid : \A n \in pending'[x] : fate'[n] = "queued" /\ at[n] = x
    BY <1>1, <1>2, <1>3 DEF MsgInv, Conservation
  <2>2. \A x \in Sid : \A n \in nudged[x] : fate'[n] = "nudged" /\ at[n] = x
    BY <1>1, <1>2, <1>3 DEF MsgInv, Conservation
  <2>3. \A r \in runs : r.phase # "drain" =>
          \A n \in r.batch : fate'[n] = "running" /\ at[n] = r.sid
    BY <1>1, <1>2, <1>3 DEF MsgInv, Conservation
  <2>4. ASSUME NEW n \in Msg, fate'[n] = "queued" PROVE n \in pending'[at[n]]
    <3>1. CASE n = m
      BY <1>3, <3>1
    <3>2. CASE n # m
      <4>1. n \in pending[at[n]]
        BY <1>3, <2>4, <3>2 DEF MsgInv, Conservation
      <4>2. CASE at[n] = s
        BY <1>3, <4>1, <4>2
      <4>3. CASE at[n] # s
        <5>1. pending'[at[n]] = pending[at[n]]
          BY <4>3 DEF TypeOK
        <5> QED BY <4>1, <5>1
      <4> QED BY <4>2, <4>3
    <3> QED BY <3>1, <3>2
  <2>5. \A n \in Msg : fate'[n] = "nudged" => n \in nudged[at[n]]
    BY <1>3 DEF MsgInv, Conservation
  <2>6. \A n \in Msg : fate'[n] = "running" =>
          \E r \in runs : r.phase # "drain" /\ n \in r.batch
    BY <1>3 DEF MsgInv, Conservation
  <2> QED BY <2>1, <2>2, <2>3, <2>4, <2>5, <2>6 DEF Conservation
<1>6. DrainedIsOver'
  BY <1>1, <1>2, <1>3 DEF MsgInv, DrainedIsOver
<1>7. StampsOK'
  <2>1. \A n \in Msg : n # m => stamp'[n] <= arrivals
    BY <1>4 DEF MsgInv, StampsOK
  <2>2. \A n \in Msg : stamp'[n] <= arrivals'
    BY <1>4, <2>1
  <2>3. \A n, k \in Msg : n # k /\ stamp'[n] = stamp'[k] => stamp'[n] = 0
    BY <1>4, <2>1 DEF MsgInv, StampsOK
  <2>4. \A n \in Msg : fate'[n] = "queued" => stamp'[n] > 0
    BY <1>3, <1>4 DEF MsgInv, StampsOK
  <2> QED BY <2>2, <2>3, <2>4 DEF StampsOK
<1>8. SenderOrder'
  <2> SUFFICES ASSUME NEW r \in runs, NEW k \in r.batch
               PROVE  /\ \A n \in r.batch : sameSender(k, n)
                      /\ \A n \in pending'[r.sid] : sameSender(k, n) => stamp'[k] < stamp'[n]
    BY DEF SenderOrder, sameSender
  <2>1. k \in Msg /\ k # m /\ r.sid \in Sid
    BY <1>1, <1>2 DEF TypeOK, Runs
  <2>2. /\ \A n \in r.batch : sameSender(k, n)
        /\ \A n \in pending[r.sid] : sameSender(k, n) => stamp[k] < stamp[n]
    BY DEF MsgInv, SenderOrder
  <2>3. stamp[k] <= arrivals /\ stamp'[k] = stamp[k] /\ stamp[k] < arrivals + 1
    BY <1>4, <2>1 DEF MsgInv, StampsOK
  <2>4. ASSUME NEW n \in pending'[r.sid], sameSender(k, n) PROVE stamp'[k] < stamp'[n]
    <3>1. CASE n = m
      BY <1>4, <2>3, <3>1
    <3>2. CASE n # m
      <4>1. n \in pending[r.sid] /\ n \in Msg
        BY <1>2, <1>3, <2>1, <2>4, <3>2
      <4> QED BY <1>4, <2>2, <2>3, <2>4, <3>2, <4>1
    <3> QED BY <3>1, <3>2
  <2> QED BY <2>2, <2>4
<1> QED BY <1>5, <1>6, <1>7, <1>8 DEF MsgInv

\* A message starts a turn of an idle session.
LEMMA AdmitIdleMsg ==
    ASSUME TypeOK, ArbInv, MsgInv, NEW m \in Msg, AdmitIdle(m)
    PROVE  MsgInv'
<1> DEFINE s == at[m]
           x == NewRun(s, turnSeq', {m}, FALSE)
<1>0. /\ s \in Sid /\ s \notin busy /\ Unplaced(m) /\ runs' = runs \cup {x}
      /\ fate' = [fate EXCEPT ![m] = "running"]
      /\ arrivals' = arrivals + 1 /\ stamp' = [stamp EXCEPT ![m] = arrivals']
      /\ UNCHANGED <<at, pending, nudged>>
  BY DEF AdmitIdle, TypeOK, Unplaced
<1>1. /\ \A z \in Sid : m \notin pending[z] /\ m \notin nudged[z]
      /\ \A r \in runs : m \notin r.batch
  BY <1>0, UnplacedIsNowhere
<1>2. /\ \A z \in Sid : pending[z] \subseteq Msg /\ nudged[z] \subseteq Msg
      /\ \A r \in runs : r.batch \subseteq Msg
  BY DEF TypeOK, Runs
<1>3. /\ fate'[m] = "running" /\ \A n \in Msg : n # m => fate'[n] = fate[n]
      /\ stamp'[m] = arrivals + 1 /\ \A n \in Msg : n # m => stamp'[n] = stamp[n]
      /\ arrivals \in Nat /\ \A n \in Msg : stamp[n] \in Nat
  BY <1>0 DEF TypeOK
<1>4. x.sid = s /\ x.batch = {m} /\ x.phase = "record" /\ pending[s] = {}
  BY <1>0 DEF NewRun, ArbInv, IdleIsClean
<1> HIDE DEF s, x
<1>5. Conservation'
  <2>1. \A z \in Sid : \A n \in pending[z] : fate'[n] = "queued" /\ at[n] = z
    BY <1>1, <1>2, <1>3 DEF MsgInv, Conservation
  <2>2. \A z \in Sid : \A n \in nudged[z] : fate'[n] = "nudged" /\ at[n] = z
    BY <1>1, <1>2, <1>3 DEF MsgInv, Conservation
  <2>3. ASSUME NEW r \in runs', r.phase # "drain", NEW n \in r.batch
        PROVE  fate'[n] = "running" /\ at[n] = r.sid
    <3>1. CASE r = x
      BY <1>3, <1>4, <2>3, <3>1 DEF s
    <3>2. CASE r \in runs
      BY <1>1, <1>2, <1>3, <2>3, <3>2 DEF MsgInv, Conservation
    <3> QED BY <1>0, <3>1, <3>2
  <2>4. \A n \in Msg : fate'[n] = "queued" => n \in pending[at[n]]
    BY <1>3 DEF MsgInv, Conservation
  <2>5. \A n \in Msg : fate'[n] = "nudged" => n \in nudged[at[n]]
    BY <1>3 DEF MsgInv, Conservation
  <2>6. \A n \in Msg : fate'[n] = "running" =>
          \E r \in runs' : r.phase # "drain" /\ n \in r.batch
    BY <1>0, <1>3, <1>4 DEF MsgInv, Conservation
  <2> QED BY <1>0, <2>1, <2>2, <2>3, <2>4, <2>5, <2>6 DEF Conservation
<1>6. DrainedIsOver'
  BY <1>0, <1>1, <1>2, <1>3, <1>4 DEF MsgInv, DrainedIsOver
<1>7. StampsOK'
  <2>1. \A n \in Msg : n # m => stamp'[n] <= arrivals
    BY <1>3 DEF MsgInv, StampsOK
  <2>2. \A n \in Msg : stamp'[n] <= arrivals'
    BY <1>0, <1>3, <2>1
  <2>3. \A n, k \in Msg : n # k /\ stamp'[n] = stamp'[k] => stamp'[n] = 0
    BY <1>3, <2>1 DEF MsgInv, StampsOK
  <2>4. \A n \in Msg : fate'[n] = "queued" => stamp'[n] > 0
    BY <1>3 DEF MsgInv, StampsOK
  <2> QED BY <2>2, <2>3, <2>4 DEF StampsOK
<1>8. SenderOrder'
  <2> SUFFICES ASSUME NEW r \in runs', NEW k \in r.batch
               PROVE  /\ \A n \in r.batch : sameSender(k, n)
                      /\ \A n \in pending[r.sid] : sameSender(k, n) => stamp'[k] < stamp'[n]
    BY <1>0 DEF SenderOrder, sameSender
  <2>1. CASE r = x
    BY <1>4, <2>1 DEF sameSender
  <2>2. CASE r \in runs
    <3>1. r.sid \in Sid /\ k \in Msg /\ k # m /\ \A n \in pending[r.sid] : n \in Msg /\ n # m
      BY <1>1, <1>2, <2>2 DEF TypeOK, Runs
    <3>2. /\ \A n \in r.batch : sameSender(k, n)
          /\ \A n \in pending[r.sid] : sameSender(k, n) => stamp[k] < stamp[n]
      BY <2>2 DEF MsgInv, SenderOrder
    <3> QED BY <1>3, <3>1, <3>2
  <2> QED BY <1>0, <2>1, <2>2
<1> QED BY <1>5, <1>6, <1>7, <1>8 DEF MsgInv

\* What session s works on: the batch of its turn and what it was nudged with.
Serving(s) == {m \in Msg : fate[m] \in {"running", "nudged"} /\ at[m] = s}

LEMMA ServingIsTurn ==
    ASSUME TypeOK, ArbInv, MsgInv, NEW r \in runs
    PROVE  Serving(r.sid) = (IF r.phase = "drain" THEN {} ELSE r.batch) \cup nudged[r.sid]
<1>1. r.sid \in Sid /\ r.batch \subseteq Msg /\ nudged[r.sid] \subseteq Msg
  BY DEF TypeOK, Runs
<1>2. \A x \in runs : x.sid = r.sid => x = r
  BY DEF ArbInv, OneTurnPerSession
<1>3. ASSUME NEW m \in Serving(r.sid)
      PROVE  m \in nudged[r.sid] \/ (r.phase # "drain" /\ m \in r.batch)
  <2>1. CASE fate[m] = "nudged"
    BY <2>1 DEF Serving, MsgInv, Conservation
  <2>2. CASE fate[m] = "running"
    <3>1. PICK x \in runs : x.phase # "drain" /\ m \in x.batch
      BY <2>2 DEF Serving, MsgInv, Conservation
    <3>2. x.sid = r.sid
      BY <3>1 DEF Serving, MsgInv, Conservation
    <3> QED BY <1>2, <3>1, <3>2
  <2> QED BY <2>1, <2>2 DEF Serving
<1>4. \A m \in nudged[r.sid] : m \in Serving(r.sid)
  BY <1>1 DEF Serving, MsgInv, Conservation
<1>5. r.phase # "drain" => \A m \in r.batch : m \in Serving(r.sid)
  BY <1>1 DEF Serving, MsgInv, Conservation
<1> QED BY <1>3, <1>4, <1>5

\* A follow-up batch is the oldest of one sender's messages.
LEMMA PickOrder ==
    ASSUME TypeOK, StampsOK, NEW q \in SUBSET Msg, q # {},
           \A m \in q : fate[m] = "queued",
           NEW m \in pickNextDrainBatch(q)
    PROVE  /\ \A n \in pickNextDrainBatch(q) : sameSender(m, n)
           /\ \A n \in q \ pickNextDrainBatch(q) : sameSender(m, n) => stamp[m] < stamp[n]
<1> DEFINE h == Front(q)
<1>1. h \in q /\ \A n \in q : stamp[h] <= stamp[n]
  BY FrontIsFirst DEF TypeOK
<1> HIDE DEF h
<1>2. CASE pickNextDrainBatch(q) = {h}
  <2>1. ASSUME NEW n \in q, n # h PROVE stamp[h] < stamp[n]
    <3>1. stamp[h] # stamp[n] /\ stamp[h] <= stamp[n]
      BY <1>1, <2>1 DEF StampsOK
    <3>2. stamp[h] \in Nat /\ stamp[n] \in Nat
      BY <1>1 DEF TypeOK
    <3> QED BY <3>1, <3>2
  <2> QED BY <1>2, <2>1 DEF sameSender
<1>3. CASE pickNextDrainBatch(q) = {n \in q : sameSender(n, h)}
  BY <1>3 DEF sameSender
<1> QED BY <1>2, <1>3 DEF pickNextDrainBatch, h

\* The turn of a session ends (or moves to its drain): what it served is over,
\* the batch B of those that wait starts, those of D are let go, and N is the
\* goroutine that goes on, if any.
TurnedOver(r, B, D, N) ==
    /\ B \subseteq pending[r.sid] /\ D \subseteq pending[r.sid]
    /\ B = {} \/ B = pickNextDrainBatch(pending[r.sid])
    /\ runs' = (runs \ {r}) \cup N
    /\ \A x \in N : /\ x.sid = r.sid
                    /\ \/ x.phase = "drain" /\ x.batch = r.batch /\ B = {} /\ D = {}
                       \/ x.phase # "drain" /\ x.batch = B
    /\ B # {} => D = {} /\ \E x \in N : x.phase # "drain" /\ x.batch = B
    /\ D = {} \/ D = pending[r.sid]
    /\ pending' = [pending EXCEPT ![r.sid] = @ \ (B \cup D)]
    /\ nudged' = [nudged EXCEPT ![r.sid] = {}]
    /\ \A m \in Msg : \/ m \in Serving(r.sid) \cup D /\ fate'[m] \in Settled
                      \/ m \in B /\ fate'[m] = "running"
                      \/ m \notin Serving(r.sid) \cup B \cup D /\ fate'[m] = fate[m]
    /\ UNCHANGED <<at, stamp, arrivals>>

LEMMA TurnoverInv ==
    ASSUME TypeOK, ArbInv, MsgInv, NEW r \in runs, NEW B, NEW D, NEW N,
           TurnedOver(r, B, D, N)
    PROVE  MsgInv'
<1> USE DEF TurnedOver
<1> DEFINE s == r.sid
<1>1. s \in Sid /\ pending[s] \subseteq Msg /\ r.batch \subseteq Msg
  BY DEF TypeOK, Runs
<1>2. /\ \A z \in Sid : pending'[z] = IF z = s THEN pending[s] \ (B \cup D) ELSE pending[z]
      /\ \A z \in Sid : nudged'[z] = IF z = s THEN {} ELSE nudged[z]
      /\ \A z \in Sid : pending[z] \subseteq Msg /\ nudged[z] \subseteq Msg
  BY <1>1 DEF TypeOK
<1>3. \A m \in B \cup D : m \in Msg /\ fate[m] = "queued" /\ at[m] = s
  BY <1>1 DEF MsgInv, Conservation
<1>4. \A x \in runs \ {r} : x.sid \in Sid /\ x.sid # s /\ x.batch \subseteq Msg
  BY DEF ArbInv, OneTurnPerSession, TypeOK, Runs
<1>5. \A m \in B : fate'[m] = "running"
  BY <1>3, PlacedIsUnsettled DEF Serving
<1>6. \A m \in Msg : at[m] # s => fate'[m] = fate[m]
  BY <1>3 DEF Serving
<1>7. \A m \in Msg : fate[m] \in Settled => fate'[m] = fate[m]
  BY <1>3, PlacedIsUnsettled DEF Serving
<1>8. \A m \in Msg : fate'[m] \in {"queued", "nudged", "running"} =>
         m \in B \/ (m \notin Serving(s) \cup D /\ fate'[m] = fate[m])
  BY PlacedIsUnsettled
<1>9. Conservation'
  <2>1. ASSUME NEW z \in Sid, NEW n \in pending'[z] PROVE fate'[n] = "queued" /\ at[n] = z
    <3>1. n \in pending[z] /\ n \in Msg /\ fate[n] = "queued" /\ at[n] = z
      BY <1>2, <2>1 DEF MsgInv, Conservation
    <3>2. n \notin B \cup D
      BY <1>2, <1>3, <2>1, <3>1
    <3> QED BY <3>1, <3>2 DEF Serving
  <2>2. ASSUME NEW z \in Sid, NEW n \in nudged'[z] PROVE fate'[n] = "nudged" /\ at[n] = z
    <3>1. z # s /\ n \in nudged[z] /\ n \in Msg /\ fate[n] = "nudged" /\ at[n] = z
      BY <1>2, <2>2 DEF MsgInv, Conservation
    <3> QED BY <1>6, <3>1
  <2>3. ASSUME NEW x \in runs', x.phase # "drain", NEW n \in x.batch
        PROVE  fate'[n] = "running" /\ at[n] = x.sid
    <3>1. CASE x \in runs \ {r}
      <4>1. n \in Msg /\ fate[n] = "running" /\ at[n] = x.sid /\ x.sid # s
        BY <1>4, <2>3, <3>1 DEF MsgInv, Conservation
      <4> QED BY <1>6, <4>1
    <3>2. CASE x \in N
      BY <1>3, <1>5, <2>3, <3>2
    <3> QED BY <3>1, <3>2
  <2>4. ASSUME NEW n \in Msg, fate'[n] = "queued" PROVE n \in pending'[at[n]]
    <3>1. n \notin B \cup D /\ fate[n] = "queued"
      BY <1>5, <1>8, <2>4
    <3>2. n \in pending[at[n]]
      BY <3>1 DEF MsgInv, Conservation
    <3>3. CASE at[n] = s
      BY <1>1, <1>2, <3>1, <3>2, <3>3
    <3>4. CASE at[n] # s
      <4>1. pending'[at[n]] = pending[at[n]]
        BY <3>4 DEF TypeOK
      <4> QED BY <3>2, <4>1
    <3> QED BY <3>3, <3>4
  <2>5. ASSUME NEW n \in Msg, fate'[n] = "nudged" PROVE n \in nudged'[at[n]]
    <3>1. n \notin Serving(s) /\ fate[n] = "nudged"
      BY <1>5, <1>8, <2>5
    <3>2. n \in nudged[at[n]] /\ at[n] # s
      BY <3>1 DEF MsgInv, Conservation, Serving
    <3>3. nudged'[at[n]] = nudged[at[n]]
      BY <3>2 DEF TypeOK
    <3> QED BY <3>2, <3>3
  <2>6. ASSUME NEW n \in Msg, fate'[n] = "running"
        PROVE  \E x \in runs' : x.phase # "drain" /\ n \in x.batch
    <3>1. CASE n \in B
      BY <3>1
    <3>2. CASE n \notin B
      <4>1. n \notin Serving(s) /\ fate[n] = "running" /\ at[n] # s
        BY <1>8, <2>6, <3>2 DEF Serving
      <4>2. PICK x \in runs : x.phase # "drain" /\ n \in x.batch
        BY <4>1 DEF MsgInv, Conservation
      <4>3. x # r
        BY <4>1, <4>2 DEF MsgInv, Conservation
      <4> QED BY <4>2, <4>3
    <3> QED BY <3>1, <3>2
  <2> QED BY <2>1, <2>2, <2>3, <2>4, <2>5, <2>6 DEF Conservation
<1>10. DrainedIsOver'
  <2> SUFFICES ASSUME NEW x \in runs', x.phase = "drain", NEW n \in x.batch
               PROVE  fate'[n] \in Settled
    BY DEF DrainedIsOver
  <2>1. CASE x \in runs \ {r}
    BY <1>4, <1>7, <2>1 DEF MsgInv, DrainedIsOver
  <2>2. CASE x \in N
    <3>1. n \in r.batch /\ n \in Msg /\ B = {} /\ D = {}
      BY <1>1, <2>2
    <3>2. CASE r.phase = "drain"
      BY <1>7, <3>1, <3>2 DEF MsgInv, DrainedIsOver
    <3>3. CASE r.phase # "drain"
      <4>1. n \in Serving(s)
        BY <3>1, <3>3, ServingIsTurn
      <4> QED BY <3>1, <4>1
    <3> QED BY <3>2, <3>3
  <2> QED BY <2>1, <2>2
<1>11. StampsOK'
  <2>1. \A n \in Msg : fate'[n] = "queued" => fate[n] = "queued"
    BY <1>5, <1>8
  <2> QED BY <2>1 DEF MsgInv, StampsOK
<1>12. SenderOrder'
  <2> SUFFICES ASSUME NEW x \in runs', NEW k \in x.batch
               PROVE  /\ \A n \in x.batch : sameSender(k, n)
                      /\ \A n \in pending'[x.sid] : sameSender(k, n) => stamp[k] < stamp[n]
    BY DEF SenderOrder, sameSender
  <2>1. CASE x \in runs \ {r}
    <3>1. pending'[x.sid] = pending[x.sid]
      BY <1>2, <1>4, <2>1
    <3> QED BY <2>1, <3>1 DEF MsgInv, SenderOrder
  <2>2. CASE x \in N /\ x.batch = r.batch
    <3>1. x.sid = s /\ pending'[s] \subseteq pending[s]
      BY <1>1, <1>2, <2>2
    <3> QED BY <2>2, <3>1 DEF MsgInv, SenderOrder
  <2>3. CASE x \in N /\ x.batch = B
    <3>1. pending[s] # {} /\ B = pickNextDrainBatch(pending[s]) /\ k \in B
      BY <2>3
    <3>2. x.sid = s /\ pending'[s] \subseteq pending[s] \ B
      BY <1>1, <1>2, <2>3
    <3>3. \A n \in pending[s] : fate[n] = "queued"
      BY <1>1 DEF MsgInv, Conservation
    <3>4. /\ \A n \in B : sameSender(k, n)
          /\ \A n \in pending[s] \ B : sameSender(k, n) => stamp[k] < stamp[n]
      <4> HIDE DEF s
      <4> QED BY <1>1, <3>1, <3>3, PickOrder DEF MsgInv
    <3> QED BY <2>3, <3>2, <3>4
  <2> QED BY <2>1, <2>2, <2>3
<1> QED BY <1>9, <1>10, <1>11, <1>12 DEF MsgInv

LEMMA RemoveServedOver ==
    ASSUME TypeOK, ArbInv, MsgInv, NEW r \in runs, removeServedPending(r)
    PROVE  \E B, D, N : TurnedOver(r, B, D, N)
<1> DEFINE n == [r EXCEPT !.phase = "drain"]
<1>1. /\ r.phase = "served" /\ runs' = (runs \ {r}) \cup {n}
      /\ nudged' = [nudged EXCEPT ![r.sid] = {}]
      /\ fate' = SetFate(r.batch \cup nudged[r.sid],
                         IF r.ctl = "cancelled" THEN "aborted" ELSE "served")
      /\ UNCHANGED <<at, stamp, arrivals, pending>>
  BY DEF removeServedPending, Goto
<1>2. n.sid = r.sid /\ n.phase = "drain" /\ n.batch = r.batch
  BY DEF TypeOK, Runs
<1>3. Serving(r.sid) = r.batch \cup nudged[r.sid]
  BY <1>1, ServingIsTurn
<1>4. \A m \in Msg : \/ m \in Serving(r.sid) \cup {} /\ fate'[m] \in Settled
                     \/ m \in {} /\ fate'[m] = "running"
                     \/ m \notin Serving(r.sid) \cup {} \cup {} /\ fate'[m] = fate[m]
  BY <1>1, <1>3 DEF SetFate, Settled
<1>5. pending' = [pending EXCEPT ![r.sid] = @ \ ({} \cup {})]
  BY <1>1 DEF TypeOK
<1> HIDE DEF n
<1>6. \A x \in {n} : /\ x.sid = r.sid
                     /\ \/ x.phase = "drain" /\ x.batch = r.batch /\ {} = {} /\ {} = {}
                        \/ x.phase # "drain" /\ x.batch = {}
  BY <1>2
<1>7. TurnedOver(r, {}, {}, {n})
  BY <1>1, <1>4, <1>5, <1>6 DEF TurnedOver
<1> QED BY <1>7

LEMMA DrainOver ==
    ASSUME TypeOK, ArbInv, MsgInv, NEW r \in runs, drainSidAfterTurn(r)
    PROVE  \E B, D, N : TurnedOver(r, B, D, N)
<1> DEFINE s == r.sid
           q == pending[s]
           b == pickNextDrainBatch(q)
           n == NewRun(s, r.token, b, q = b /\ s \in dropped)
<1>1. /\ r.phase = "drain" /\ owns(r) /\ s \in Sid /\ q \in SUBSET Msg
      /\ UNCHANGED <<at, stamp, arrivals, nudged>>
  BY DEF drainSidAfterTurn, ArbInv, OneTurnPerSession, TypeOK, Runs
<1>2. Serving(s) = {} /\ nudged[s] = {}
  BY <1>1, ServingIsTurn DEF ArbInv, TurnPhases
<1>3. nudged' = [nudged EXCEPT ![s] = {}]
  BY <1>1, <1>2 DEF TypeOK
<1>4. CASE power = "stopping"
  <2>1. runs' = (runs \ {r}) \cup {} /\ UNCHANGED <<fate, pending>>
    BY <1>4 DEF drainSidAfterTurn
  <2>2. pending' = [pending EXCEPT ![s] = @ \ ({} \cup {})]
    BY <2>1 DEF TypeOK
  <2>3. \A m \in Msg : m \notin Serving(s) \cup {} \cup {} /\ fate'[m] = fate[m]
    BY <1>2, <2>1
  <2>4. TurnedOver(r, {}, {}, {})
    BY <1>1, <1>3, <2>1, <2>2, <2>3 DEF TurnedOver
  <2> QED BY <2>4
<1>5. CASE power # "stopping" /\ s \notin closing /\ q # {}
  <2>1. /\ runs' = (runs \ {r}) \cup {n} /\ pending' = [pending EXCEPT ![s] = @ \ b]
        /\ fate' = SetFate(b, "running")
    BY <1>1, <1>5 DEF drainSidAfterTurn, Unqueue
  <2>2. b \subseteq q /\ b # {}
    BY <1>1, <1>5, PickIsBatch DEF TypeOK
  <2>3. n.sid = s /\ n.phase # "drain" /\ n.batch = b
    BY DEF NewRun
  <2>4. pending' = [pending EXCEPT ![s] = @ \ (b \cup {})]
    BY <2>1
  <2>5. \A m \in Msg : \/ m \in b /\ fate'[m] = "running"
                       \/ m \notin Serving(s) \cup b \cup {} /\ fate'[m] = fate[m]
    BY <1>2, <2>1 DEF SetFate
  <2> HIDE DEF b, n
  <2>6. \A x \in {n} : x.sid = s /\ x.phase # "drain" /\ x.batch = b
    BY <2>3
  <2>7. b = pickNextDrainBatch(pending[s])
    BY DEF b
  <2>8. TurnedOver(r, b, {}, {n})
    BY <1>1, <1>3, <2>1, <2>2, <2>4, <2>5, <2>6, <2>7 DEF TurnedOver
  <2> QED BY <2>8
<1>6. CASE power # "stopping" /\ ~(s \notin closing /\ q # {})
  <2>1. /\ runs' = (runs \ {r}) \cup {} /\ pending' = [pending EXCEPT ![s] = {}]
        /\ fate' = SetFate(q, "discarded")
    BY <1>1, <1>6 DEF drainSidAfterTurn
  <2>2. pending' = [pending EXCEPT ![s] = @ \ ({} \cup q)]
    BY <2>1
  <2>3. \A m \in Msg : \/ m \in Serving(s) \cup q /\ fate'[m] \in Settled
                       \/ m \notin Serving(s) \cup {} \cup q /\ fate'[m] = fate[m]
    BY <1>2, <2>1 DEF SetFate, Settled
  <2>4. TurnedOver(r, {}, q, {})
    BY <1>1, <1>3, <2>1, <2>2, <2>3 DEF TurnedOver
  <2> QED BY <2>4
<1> QED BY <1>4, <1>5, <1>6

LEMMA RecoverOver ==
    ASSUME TypeOK, ArbInv, MsgInv, NEW r \in runs, recoverTurn(r)
    PROVE  \E B, D, N : TurnedOver(r, B, D, N)
<1> DEFINE s == r.sid
           q == pending[s]
           b == pickNextDrainBatch(q)
           mine == IF r.phase = "run" THEN r.batch \cup nudged[s] ELSE {}
           n == NewRun(s, turnSeq', b, q = b /\ s \in dropped)
<1>1. /\ r.phase \in {"run", "drain"} /\ owns(r) /\ s \in Sid /\ q \in SUBSET Msg
      /\ UNCHANGED <<at, stamp, arrivals>>
      /\ nudged' = [nudged EXCEPT ![s] = {}]
  BY DEF recoverTurn, ArbInv, OneTurnPerSession, TypeOK, Runs
<1>2. Serving(s) = mine
  BY <1>1, ServingIsTurn DEF ArbInv, TurnPhases
<1>3. \A m \in q : m \notin mine
  <2>1. \A m \in q : fate[m] = "queued"
    BY <1>1 DEF MsgInv, Conservation
  <2> QED BY <1>2, <2>1 DEF Serving
<1>4. CASE MayRedispatch(s)
  <2>1. /\ runs' = (runs \ {r}) \cup {n} /\ pending' = [pending EXCEPT ![s] = @ \ b]
        /\ fate' = [m \in Msg |-> IF m \in mine THEN "panicked"
                                  ELSE IF m \notin q THEN fate[m]
                                  ELSE IF m \in b THEN "running" ELSE fate[m]]
    BY <1>1, <1>4 DEF recoverTurn, Unqueue
  <2>2. q # {} /\ b \subseteq q /\ b # {}
    BY <1>1, <1>4, PickIsBatch DEF TypeOK, MayRedispatch
  <2>3. n.sid = s /\ n.phase # "drain" /\ n.batch = b
    BY DEF NewRun
  <2>4. pending' = [pending EXCEPT ![s] = @ \ (b \cup {})]
    BY <2>1
  <2>5. \A m \in Msg : \/ m \in Serving(s) \cup {} /\ fate'[m] \in Settled
                       \/ m \in b /\ fate'[m] = "running"
                       \/ m \notin Serving(s) \cup b \cup {} /\ fate'[m] = fate[m]
    <3> HIDE DEF b, mine, q
    <3> QED BY <1>2, <1>3, <2>1, <2>2 DEF Settled
  <2> HIDE DEF b, n, mine
  <2>6. \A x \in {n} : x.sid = s /\ x.phase # "drain" /\ x.batch = b
    BY <2>3
  <2>7. b = pickNextDrainBatch(pending[s])
    BY DEF b
  <2>8. TurnedOver(r, b, {}, {n})
    BY <1>1, <2>1, <2>2, <2>4, <2>5, <2>6, <2>7 DEF TurnedOver
  <2> QED BY <2>8
<1>5. CASE ~MayRedispatch(s)
  <2>1. /\ runs' = (runs \ {r}) \cup {} /\ pending' = [pending EXCEPT ![s] = @ \ q]
        /\ fate' = [m \in Msg |-> IF m \in mine THEN "panicked"
                                  ELSE IF m \notin q THEN fate[m] ELSE "discarded"]
    BY <1>1, <1>5 DEF recoverTurn, Unqueue
  <2>2. pending' = [pending EXCEPT ![s] = @ \ ({} \cup q)]
    BY <2>1
  <2>3. \A m \in Msg : \/ m \in Serving(s) \cup q /\ fate'[m] \in Settled
                       \/ m \notin Serving(s) \cup {} \cup q /\ fate'[m] = fate[m]
    <3> HIDE DEF mine, q
    <3> QED BY <1>2, <2>1 DEF Settled
  <2>4. TurnedOver(r, {}, q, {})
    BY <1>1, <2>1, <2>2, <2>3 DEF TurnedOver
  <2> QED BY <2>4
<1> QED BY <1>4, <1>5

LEMMA NudgeMsg ==
    ASSUME TypeOK, ArbInv, MsgInv, NEW r \in runs, takeNudge(r)
    PROVE  MsgInv'
<1> DEFINE s == r.sid
           q == {m \in pending[s] : KindOf[m] = "text" /\ m \notin r.pre}
           f == Front(q)
<1>1. s \in Sid /\ q \in SUBSET Msg /\ q # {} /\ pending[s] \subseteq Msg
  BY DEF takeNudge, TypeOK, Runs
<1>2. f \in q
  BY <1>1, FrontIsFirst DEF TypeOK
<1>3. f \in pending[s] /\ f \in Msg /\ fate[f] = "queued" /\ at[f] = s
  BY <1>1, <1>2 DEF MsgInv, Conservation
<1>4. /\ pending' = [pending EXCEPT ![s] = @ \ {f}]
      /\ nudged' = [nudged EXCEPT ![s] = @ \cup {f}]
      /\ fate' = [fate EXCEPT ![f] = "nudged"]
      /\ UNCHANGED <<at, stamp, arrivals, runs>>
  BY DEF takeNudge, Unqueue
<1> HIDE DEF f, q
<1>5. /\ \A z \in Sid : pending'[z] = IF z = s THEN pending[s] \ {f} ELSE pending[z]
      /\ \A z \in Sid : nudged'[z] = IF z = s THEN nudged[s] \cup {f} ELSE nudged[z]
      /\ fate'[f] = "nudged" /\ \A m \in Msg : m # f => fate'[m] = fate[m]
      /\ \A z \in Sid : pending[z] \subseteq Msg /\ nudged[z] \subseteq Msg
  BY <1>1, <1>3, <1>4 DEF TypeOK
<1>6. \A x \in runs : f \notin x.batch /\ x.batch \subseteq Msg /\ x.sid \in Sid
  BY <1>3, PlacedIsUnsettled DEF MsgInv, Conservation, DrainedIsOver, TypeOK, Runs
<1>7. Conservation'
  <2>1. \A z \in Sid : \A m \in pending'[z] : fate'[m] = "queued" /\ at[m] = z
    <3> TAKE z \in Sid
    <3> TAKE m \in pending'[z]
    <3>1. m \in pending[z] /\ m \in Msg /\ fate[m] = "queued" /\ at[m] = z /\ m # f
      BY <1>3, <1>5 DEF MsgInv, Conservation
    <3> QED BY <1>5, <3>1
  <2>2. \A z \in Sid : \A m \in nudged'[z] : fate'[m] = "nudged" /\ at[m] = z
    <3> TAKE z \in Sid
    <3> TAKE m \in nudged'[z]
    <3>1. CASE m = f
      <4>1. z = s
        BY <1>3, <1>5, <3>1 DEF MsgInv, Conservation
      <4> QED BY <1>3, <1>5, <3>1, <4>1
    <3>2. CASE m # f
      <4>1. m \in nudged[z] /\ m \in Msg
        BY <1>5, <3>2
      <4> QED BY <1>5, <3>2, <4>1 DEF MsgInv, Conservation
    <3> QED BY <3>1, <3>2
  <2>3. \A x \in runs : x.phase # "drain" =>
          \A m \in x.batch : fate'[m] = "running" /\ at[m] = x.sid
    BY <1>5, <1>6 DEF MsgInv, Conservation
  <2>4. ASSUME NEW m \in Msg, fate'[m] = "queued" PROVE m \in pending'[at[m]]
    <3>1. m # f /\ m \in pending[at[m]]
      BY <1>5, <2>4 DEF MsgInv, Conservation
    <3>2. CASE at[m] = s
      BY <1>1, <1>5, <3>1, <3>2
    <3>3. CASE at[m] # s
      <4>1. pending'[at[m]] = pending[at[m]]
        BY <1>4, <3>3 DEF TypeOK
      <4> QED BY <3>1, <4>1
    <3> QED BY <3>2, <3>3
  <2>5. ASSUME NEW m \in Msg, fate'[m] = "nudged" PROVE m \in nudged'[at[m]]
    <3>1. CASE m = f
      BY <1>1, <1>3, <1>5, <3>1
    <3>2. CASE m # f
      <4>1. m \in nudged[at[m]]
        BY <1>5, <2>5, <3>2 DEF MsgInv, Conservation
      <4>2. CASE at[m] = s
        BY <1>1, <1>5, <4>1, <4>2
      <4>3. CASE at[m] # s
        <5>1. nudged'[at[m]] = nudged[at[m]]
          BY <1>4, <4>3 DEF TypeOK
        <5> QED BY <4>1, <5>1
      <4> QED BY <4>2, <4>3
    <3> QED BY <3>1, <3>2
  <2>6. \A m \in Msg : fate'[m] = "running" =>
          \E x \in runs : x.phase # "drain" /\ m \in x.batch
    BY <1>5 DEF MsgInv, Conservation
  <2> QED BY <1>4, <2>1, <2>2, <2>3, <2>4, <2>5, <2>6 DEF Conservation
<1>8. DrainedIsOver'
  BY <1>4, <1>5, <1>6 DEF MsgInv, DrainedIsOver
<1>9. StampsOK'
  BY <1>4, <1>5 DEF MsgInv, StampsOK
<1>10. SenderOrder'
  <2>1. \A x \in runs : pending'[x.sid] \subseteq pending[x.sid]
    BY <1>5, <1>6
  <2> QED BY <1>4, <2>1 DEF MsgInv, SenderOrder, sameSender
<1> QED BY <1>7, <1>8, <1>9, <1>10 DEF MsgInv

LEMMA ExitMsg ==
    ASSUME TypeOK, MsgInv, Exit
    PROVE  MsgInv'
<1>1. /\ fate' = SetFate({m \in Msg : fate[m] \in Moving \ {"new"}}, "lost") /\ runs' = {}
      /\ pending' = [s \in Sid |-> {}] /\ nudged' = [s \in Sid |-> {}]
      /\ UNCHANGED <<at, stamp, arrivals>>
  BY DEF Exit
<1>2. \A m \in Msg : fate'[m] \notin {"queued", "nudged", "running"}
  BY <1>1 DEF SetFate, Moving
<1>3. Conservation' /\ DrainedIsOver' /\ SenderOrder'
  BY <1>1, <1>2 DEF Conservation, DrainedIsOver, SenderOrder
<1>4. StampsOK'
  BY <1>1, <1>2 DEF MsgInv, StampsOK
<1> QED BY <1>3, <1>4 DEF MsgInv

LEMMA InitMsgInv == Init => MsgInv
BY DEF Init, MsgInv, Conservation, DrainedIsOver, StampsOK, SenderOrder

LEMMA MsgInvStep == TypeOK /\ ArbInv /\ MsgInv /\ [Next]_vars => MsgInv'
<1> SUFFICES ASSUME TypeOK, ArbInv, MsgInv, [Next]_vars PROVE MsgInv'
  OBVIOUS
<1> USE DEF storeVars, msgVars, lockVars
<1>t. fate' \in [Msg -> Moving \cup Settled] /\ fate \in [Msg -> Moving \cup Settled]
      /\ at \in [Msg -> Sid \cup {NoSid}]
  BY TypeStep DEF TypeOK
<1>same. ASSUME UNCHANGED <<fate, at, pending, nudged, stamp, arrivals, runs>> PROVE MsgInv'
  BY <1>same, RelabelInv
<1>one. ASSUME NEW r \in runs, NEW n, n.sid = r.sid, n.batch = r.batch,
               n.phase # "drain", r.phase # "drain", runs' = (runs \ {r}) \cup {n},
               UNCHANGED <<fate, at, pending, nudged, stamp, arrivals>>
        PROVE  MsgInv'
  <2>1. \A x \in runs' : \E y \in runs : /\ x.sid = y.sid /\ x.batch = y.batch
                                         /\ (x.phase = "drain" <=> y.phase = "drain")
    BY <1>one
  <2>2. \A y \in runs : \E x \in runs' : /\ x.sid = y.sid /\ x.batch = y.batch
                                         /\ (x.phase = "drain" <=> y.phase = "drain")
    BY <1>one
  <2> QED BY <1>one, <2>1, <2>2, RelabelInv
<1>all. ASSUME NEW f, runs' = {f[r] : r \in runs},
               \A r \in runs : f[r].sid = r.sid /\ f[r].batch = r.batch
                               /\ f[r].phase = r.phase,
               UNCHANGED <<fate, at, pending, nudged, stamp, arrivals>>
        PROVE  MsgInv'
  <2>1. \A x \in runs' : \E y \in runs : /\ x.sid = y.sid /\ x.batch = y.batch
                                         /\ (x.phase = "drain" <=> y.phase = "drain")
    BY <1>all
  <2>2. \A y \in runs : \E x \in runs' : /\ x.sid = y.sid /\ x.batch = y.batch
                                         /\ (x.phase = "drain" <=> y.phase = "drain")
    BY <1>all
  <2> QED BY <1>all, <2>1, <2>2, RelabelInv
<1>1. ASSUME NEW m \in Msg, Submit(m) PROVE MsgInv'
  <2>1. /\ Unplaced(m) /\ fate'[m] \notin {"queued", "nudged", "running"}
        /\ \A n \in Msg : n # m => fate'[n] = fate[n] /\ at'[n] = at[n]
        /\ UNCHANGED <<pending, nudged, runs, stamp, arrivals>>
    BY <1>1, <1>t DEF Submit, Unplaced
  <2> QED BY <1>t, <2>1, OutsideInv
<1>2. ASSUME NEW m \in Msg, ResolveSid(m) PROVE MsgInv'
  <2>1. /\ Unplaced(m) /\ fate'[m] \notin {"queued", "nudged", "running"}
        /\ \A n \in Msg : n # m => fate'[n] = fate[n] /\ at'[n] = at[n]
        /\ UNCHANGED <<pending, nudged, runs, stamp, arrivals>>
    BY <1>2, <1>t DEF ResolveSid, Unplaced
  <2> QED BY <1>t, <2>1, OutsideInv
<1>3. ASSUME NEW m \in Msg, ResolveFails(m) \/ AdmitClosing(m) PROVE MsgInv'
  <2>1. /\ Unplaced(m) /\ fate'[m] \notin {"queued", "nudged", "running"}
        /\ \A n \in Msg : n # m => fate'[n] = fate[n] /\ at'[n] = at[n]
        /\ UNCHANGED <<pending, nudged, runs, stamp, arrivals>>
    BY <1>3, <1>t DEF ResolveFails, AdmitClosing, Unplaced
  <2> QED BY <1>t, <2>1, OutsideInv
<1>4. ASSUME NEW m \in Msg, AdmitBusy(m) PROVE MsgInv'
  <2>1. Unplaced(m) /\ at[m] \in Sid /\ UNCHANGED <<at, nudged, runs>>
    BY <1>4 DEF AdmitBusy, Unplaced, TypeOK
  <2>2. CASE /\ fate' = [fate EXCEPT ![m] = "queued"]
             /\ pending' = [pending EXCEPT ![at[m]] = @ \cup {m}]
             /\ arrivals' = arrivals + 1 /\ stamp' = [stamp EXCEPT ![m] = arrivals']
    BY <2>1, <2>2, EnqueueInv
  <2>3. CASE /\ fate' = [fate EXCEPT ![m] = "dup"] \/ fate' = [fate EXCEPT ![m] = "full"]
             /\ UNCHANGED <<pending, stamp, arrivals>>
    <3>1. /\ fate'[m] \notin {"queued", "nudged", "running"}
          /\ \A n \in Msg : n # m => fate'[n] = fate[n] /\ at'[n] = at[n]
      BY <1>t, <2>1, <2>3
    <3> QED BY <1>t, <2>1, <2>3, <3>1, OutsideInv
  <2> QED BY <1>4, <2>2, <2>3 DEF AdmitBusy
<1>5. ASSUME NEW m \in Msg, AdmitIdle(m) PROVE MsgInv'
  BY <1>5, AdmitIdleMsg
<1>6. ASSUME NEW r \in runs, RecordPending(r) PROVE MsgInv'
  <2> DEFINE n == [r EXCEPT !.phase = "register"]
  <2>1. n.sid = r.sid /\ n.batch = r.batch /\ n.phase = "register"
    BY DEF TypeOK, Runs
  <2>2. /\ runs' = (runs \ {r}) \cup {n} /\ r.phase = "record"
        /\ UNCHANGED <<fate, at, pending, nudged, stamp, arrivals>>
    BY <1>6 DEF RecordPending, Goto
  <2> HIDE DEF n
  <2> QED BY <1>one, <2>1, <2>2
<1>7. ASSUME NEW r \in runs, RegisterCancel(r) PROVE MsgInv'
  <2> DEFINE n == [r EXCEPT !.phase = "run",
                            !.ctl = IF r.sid \in closing \/ power = "stopping"
                                    THEN "cancelled" ELSE @,
                            !.pre = pending[r.sid]]
  <2>1. n.sid = r.sid /\ n.batch = r.batch /\ n.phase = "run"
    BY DEF TypeOK, Runs
  <2>2. /\ runs' = (runs \ {r}) \cup {n} /\ r.phase = "register"
        /\ UNCHANGED <<fate, at, pending, nudged, stamp, arrivals>>
    BY <1>7 DEF RegisterCancel
  <2> HIDE DEF n
  <2> QED BY <1>one, <2>1, <2>2
<1>8. ASSUME NEW r \in runs, FinishTurn(r) PROVE MsgInv'
  <2> DEFINE n == [r EXCEPT !.phase = "served"]
  <2>1. n.sid = r.sid /\ n.batch = r.batch /\ n.phase = "served"
    BY DEF TypeOK, Runs
  <2>2. /\ runs' = (runs \ {r}) \cup {n} /\ r.phase = "run"
        /\ UNCHANGED <<fate, at, pending, nudged, stamp, arrivals>>
    BY <1>8 DEF FinishTurn, Goto
  <2> HIDE DEF n
  <2> QED BY <1>one, <2>1, <2>2
<1>9. ASSUME NEW r \in runs, CancelFires(r) PROVE MsgInv'
  <2> DEFINE n == [r EXCEPT !.ctl = "cancelled"]
  <2>1. n.sid = r.sid /\ n.batch = r.batch /\ n.phase = r.phase
    BY DEF TypeOK, Runs
  <2>2. /\ runs' = (runs \ {r}) \cup {n} /\ r.phase = "run"
        /\ UNCHANGED <<fate, at, pending, nudged, stamp, arrivals>>
    BY <1>9 DEF CancelFires
  <2> HIDE DEF n
  <2> QED BY <1>one, <2>1, <2>2
<1>10. ASSUME NEW r \in runs, takeNudge(r) PROVE MsgInv'
  BY <1>10, NudgeMsg
<1>11. ASSUME NEW r \in runs,
              removeServedPending(r) \/ drainSidAfterTurn(r) \/ recoverTurn(r)
       PROVE  MsgInv'
  <2>1. \E B, D, N : TurnedOver(r, B, D, N)
    BY <1>11, RemoveServedOver, DrainOver, RecoverOver
  <2> QED BY <2>1, TurnoverInv
<1>12. ASSUME NEW s \in Sid, slashCloseSession(s) PROVE MsgInv'
  <2> DEFINE f == [r \in runs |-> IF r.sid = s /\ s \in cancels /\ r.phase = "run" /\ r.ctl = "live"
                                  THEN [r EXCEPT !.ctl = "asked"] ELSE r]
  <2>1. runs' = {f[r] : r \in runs} /\ UNCHANGED <<fate, at, pending, nudged, stamp, arrivals>>
    BY <1>12 DEF slashCloseSession
  <2>2. \A r \in runs : f[r].sid = r.sid /\ f[r].batch = r.batch /\ f[r].phase = r.phase
    BY DEF TypeOK, Runs
  <2> HIDE DEF f
  <2> QED BY <1>all, <2>1, <2>2
<1>13. CASE Stop
  <2> DEFINE f == [r \in runs |-> IF r.phase = "run" THEN [r EXCEPT !.ctl = "cancelled"] ELSE r]
  <2>1. runs' = {f[r] : r \in runs} /\ UNCHANGED <<fate, at, pending, nudged, stamp, arrivals>>
    BY <1>13 DEF Stop
  <2>2. \A r \in runs : f[r].sid = r.sid /\ f[r].batch = r.batch /\ f[r].phase = r.phase
    BY DEF TypeOK, Runs
  <2> HIDE DEF f
  <2> QED BY <1>all, <2>1, <2>2
<1>14. CASE Exit
  BY <1>14, ExitMsg
<1>15. CASE slashNew \/ RecoverPendingOnBoot \/ UNCHANGED vars
  BY <1>15, <1>same DEF slashNew, RecoverPendingOnBoot, vars
<1> QED BY <1>1, <1>2, <1>3, <1>4, <1>5, <1>6, <1>7, <1>8, <1>9, <1>10, <1>11, <1>12,
           <1>13, <1>14, <1>15
        DEF Next, MsgStep, TurnStep, Quiescent

\* The arbiter's whole invariant.
FullInv == TypeOK /\ ArbInv /\ MsgInv

\* Types, arbitration and the whereabouts of every message hold throughout.
THEOREM ArbiterInvariant == Spec => []FullInv
<1>1. Init => FullInv
  BY TypeInit, ArbInit, InitMsgInv DEF FullInv
<1>2. FullInv /\ [Next]_vars => FullInv'
  BY TypeStep, ArbStep, MsgInvStep DEF FullInv
<1> QED BY <1>1, <1>2, PTL DEF Spec

\* An accepted message is in exactly one place, and the place agrees with its
\* history: submit, drain, takeNudge, recoverTurn and close neither lose nor
\* duplicate one.
THEOREM MessagesAreConserved == Spec => []Conservation
<1>1. FullInv => Conservation
  BY DEF FullInv, MsgInv
<1> QED BY <1>1, ArbiterInvariant, PTL

\* pickNextDrainBatch never mixes senders nor overtakes an older message of
\* the same sender, whatever was queued, nudged and redispatched before.
THEOREM SendersAreServedInOrder == Spec => []SenderOrder
<1>1. FullInv => SenderOrder
  BY DEF FullInv, MsgInv
<1> QED BY <1>1, ArbiterInvariant, PTL

-----------------------------------------------------------------------------
(* The write-ahead rows.                                                   *)

LEMMA WalStep ==
    ASSUME ~StoreMayFail, FullInv, WalMirrorsTurns, [Next]_vars
    PROVE  WalMirrorsTurns'
<1> SUFFICES ASSUME power' = "up" PROVE WalMirrorsTurns'
  BY DEF WalMirrorsTurns
<1> USE DEF storeVars, msgVars, lockVars
<1>i. TypeOK /\ ArbInv /\ MsgInv
  BY DEF FullInv
<1>r. \A r \in runs : /\ r.sid \in Sid /\ r.batch \subseteq Msg
                      /\ r.phase # "drain" => \A m \in r.batch : fate[m] = "running" /\ at[m] = r.sid
                      /\ \A x \in runs : x.sid = r.sid => x = r
  BY <1>i DEF TypeOK, Runs, MsgInv, Conservation, ArbInv, OneTurnPerSession
<1>boot. CASE RecoverPendingOnBoot
  BY <1>boot, <1>i DEF RecoverPendingOnBoot, WalMirrorsTurns, ArbInv, DownIsEmpty
<1> SUFFICES ASSUME ~RecoverPendingOnBoot PROVE WalMirrorsTurns'
  BY <1>boot
<1>up. power = "up"
  BY <1>i DEF Next, MsgStep, TurnStep, Submit, ResolveSid, ResolveFails, AdmitClosing, AdmitBusy,
         AdmitIdle, RecordPending, RegisterCancel, FinishTurn, removeServedPending,
         drainSidAfterTurn, takeNudge, recoverTurn, CancelFires, slashCloseSession,
         slashNew, Stop, Exit, Quiescent, vars
<1>w. /\ \A r \in runs : r.phase \in {"register", "run", "served"} =>
            \A m \in r.batch : Internal(m) \/ m \in wal
      /\ \A m \in wal : m \in Msg /\ fate[m] \in {"running", "panicked"}
      /\ ~Faulty
  BY <1>up, <1>i DEF WalMirrorsTurns, Faulty, TypeOK
<1>keep. ASSUME wal' = wal, \A m \in wal : fate'[m] \in {"running", "panicked"},
                \A x \in runs' : x.phase \in {"register", "run", "served"} =>
                    \E r \in runs : /\ r.phase \in {"register", "run", "served"}
                                    /\ x.batch = r.batch
         PROVE  WalMirrorsTurns'
  BY <1>keep, <1>w DEF WalMirrorsTurns, Internal
<1>1. ASSUME NEW m \in Msg, Submit(m) \/ MsgStep(m) PROVE WalMirrorsTurns'
  <2>1. /\ Unplaced(m) /\ wal' = wal
        /\ \A n \in Msg : n # m => fate'[n] = fate[n]
        /\ \A x \in runs' : x \in runs \/ x.phase = "record"
    <3>1. CASE AdmitIdle(m)
      BY <3>1, <1>i DEF AdmitIdle, NewRun, Unplaced, TypeOK
    <3>2. CASE ~AdmitIdle(m)
      BY <1>1, <3>2, <1>i DEF MsgStep, Submit, ResolveSid, ResolveFails, AdmitClosing,
                              AdmitBusy, Unplaced, TypeOK
    <3> QED BY <3>1, <3>2
  <2>2. \A n \in wal : n # m
    BY <2>1, <1>w DEF Unplaced
  <2> QED BY <2>1, <2>2, <1>w, <1>keep
<1>2. ASSUME NEW r \in runs, RecordPending(r) PROVE WalMirrorsTurns'
  <2> DEFINE n == [r EXCEPT !.phase = "register"]
  <2>1. n.batch = r.batch /\ n.phase = "register"
    BY <1>i DEF TypeOK, Runs
  <2>2. /\ runs' = (runs \ {r}) \cup {n} /\ r.phase = "record"
        /\ wal' = wal \cup WalRows(r.batch) /\ fate' = fate
    BY <1>2, <1>w DEF RecordPending, Goto
  <2> HIDE DEF n
  <2>3. \A m \in wal' : fate'[m] \in {"running", "panicked"}
    BY <2>2, <1>r, <1>w DEF WalRows
  <2>4. \A m \in r.batch : Internal(m) \/ m \in wal'
    BY <2>2 DEF WalRows
  <2> QED BY <2>1, <2>2, <2>3, <2>4, <1>w DEF WalMirrorsTurns, Internal
<1>3. ASSUME NEW r \in runs, RegisterCancel(r) \/ FinishTurn(r) PROVE WalMirrorsTurns'
  <2>1. /\ wal' = wal /\ fate' = fate /\ r.phase \in {"register", "run"}
        /\ \E n : n.batch = r.batch /\ runs' = (runs \ {r}) \cup {n}
    <3>1. CASE RegisterCancel(r)
      <4> DEFINE n == [r EXCEPT !.phase = "run",
                                !.ctl = IF r.sid \in closing \/ power = "stopping"
                                        THEN "cancelled" ELSE @,
                                !.pre = pending[r.sid]]
      <4>1. n.batch = r.batch
        BY <1>i DEF TypeOK, Runs
      <4>2. /\ wal' = wal /\ fate' = fate /\ r.phase \in {"register", "run"}
            /\ runs' = (runs \ {r}) \cup {n}
        BY <3>1 DEF RegisterCancel
      <4> HIDE DEF n
      <4> QED BY <4>1, <4>2
    <3>2. CASE FinishTurn(r)
      <4> DEFINE n == [r EXCEPT !.phase = "served"]
      <4>1. n.batch = r.batch
        BY <1>i DEF TypeOK, Runs
      <4>2. /\ wal' = wal /\ fate' = fate /\ r.phase \in {"register", "run"}
            /\ runs' = (runs \ {r}) \cup {n}
        BY <3>2 DEF FinishTurn, Goto
      <4> HIDE DEF n
      <4> QED BY <4>1, <4>2
    <3> QED BY <1>3, <3>1, <3>2
  <2> QED BY <2>1, <1>w, <1>keep
<1>4. ASSUME NEW r \in runs, CancelFires(r) PROVE WalMirrorsTurns'
  <2> DEFINE n == [r EXCEPT !.ctl = "cancelled"]
  <2>1. n.batch = r.batch
    BY <1>i DEF TypeOK, Runs
  <2>2. runs' = (runs \ {r}) \cup {n} /\ wal' = wal /\ fate' = fate /\ r.phase = "run"
    BY <1>4 DEF CancelFires
  <2> HIDE DEF n
  <2> QED BY <2>1, <2>2, <1>w, <1>keep
<1>5. ASSUME NEW r \in runs, removeServedPending(r) PROVE WalMirrorsTurns'
  <2> DEFINE n == [r EXCEPT !.phase = "drain"]
             S == r.batch \cup nudged[r.sid]
  <2>1. /\ runs' = (runs \ {r}) \cup {n} /\ r.phase = "served" /\ wal' = wal \ S
        /\ fate' = SetFate(S, IF r.ctl = "cancelled" THEN "aborted" ELSE "served")
    BY <1>5 DEF removeServedPending, Goto, RowsToClear
  <2>2. n.phase = "drain"
    BY <1>i DEF TypeOK, Runs
  <2>3. S = Serving(r.sid)
    BY <2>1, <1>i, ServingIsTurn
  <2> HIDE DEF n, S
  <2>4. \A m \in wal' : fate'[m] \in {"running", "panicked"}
    BY <2>1, <1>w DEF SetFate
  <2>5. ASSUME NEW x \in runs', x.phase \in {"register", "run", "served"}, NEW m \in x.batch
        PROVE  Internal(m) \/ m \in wal'
    <3>1. x \in runs /\ x # r
      BY <2>1, <2>2, <2>5
    <3>2. at[m] # r.sid /\ (Internal(m) \/ m \in wal)
      BY <3>1, <2>5, <1>r, <1>w
    <3>3. m \notin S
      BY <2>3, <3>2 DEF Serving
    <3> QED BY <2>1, <3>2, <3>3
  <2> QED BY <2>4, <2>5 DEF WalMirrorsTurns, Internal
<1>6. ASSUME NEW r \in runs, drainSidAfterTurn(r) PROVE WalMirrorsTurns'
  <2>1. /\ wal' = wal
        /\ \A m \in Msg : m \notin pending[r.sid] => fate'[m] = fate[m]
    <3>1. pending[r.sid] # {} => pickNextDrainBatch(pending[r.sid]) \subseteq pending[r.sid]
      BY <1>i, <1>r, PickIsBatch DEF TypeOK
    <3> QED BY <1>6, <3>1 DEF drainSidAfterTurn, SetFate
  <2>2. \A x \in runs' : x \in runs \/ x.phase = "record"
    BY <1>6 DEF drainSidAfterTurn, NewRun
  <2>3. \A m \in wal : m \notin pending[r.sid]
    BY <1>w, <1>r, <1>i DEF MsgInv, Conservation
  <2> QED BY <2>1, <2>2, <2>3, <1>w, <1>keep
<1>7. ASSUME NEW r \in runs, recoverTurn(r) PROVE WalMirrorsTurns'
  <2>1. /\ wal' = wal
        /\ \A m \in Msg : m \notin pending[r.sid] => fate'[m] \in {fate[m], "panicked"}
    BY <1>7 DEF recoverTurn, SetFate
  <2>2. \A x \in runs' : x \in runs \/ x.phase = "record"
    BY <1>7 DEF recoverTurn, NewRun
  <2>3. \A m \in wal : m \notin pending[r.sid]
    BY <1>w, <1>r, <1>i DEF MsgInv, Conservation
  <2> QED BY <2>1, <2>2, <2>3, <1>w, <1>keep
<1>8. ASSUME NEW r \in runs, takeNudge(r) PROVE WalMirrorsTurns'
  <2> DEFINE q == {m \in pending[r.sid] : KindOf[m] = "text" /\ m \notin r.pre}
  <2>1. q \in SUBSET Msg /\ q # {}
    BY <1>8, <1>r, <1>i DEF takeNudge, TypeOK
  <2>2. Front(q) \in q
    BY <2>1, <1>i, FrontIsFirst DEF TypeOK
  <2>3. fate[Front(q)] = "queued"
    BY <2>2, <1>r, <1>i DEF MsgInv, Conservation
  <2>4. wal' = wal /\ runs' = runs /\ fate' = [fate EXCEPT ![Front(q)] = "nudged"]
    BY <1>8 DEF takeNudge
  <2> HIDE DEF q
  <2>5. \A m \in wal : fate'[m] = fate[m]
    BY <2>3, <2>4, <1>w, <1>i DEF TypeOK
  <2> QED BY <2>4, <2>5, <1>w, <1>keep
<1>9. ASSUME NEW s \in Sid, slashCloseSession(s) PROVE WalMirrorsTurns'
  <2> DEFINE f == [r \in runs |-> IF r.sid = s /\ s \in cancels /\ r.phase = "run" /\ r.ctl = "live"
                                  THEN [r EXCEPT !.ctl = "asked"] ELSE r]
  <2>1. runs' = {f[r] : r \in runs} /\ wal' = wal /\ fate' = fate
    BY <1>9 DEF slashCloseSession
  <2>2. \A r \in runs : f[r].batch = r.batch /\ f[r].phase = r.phase
    BY <1>i DEF TypeOK, Runs
  <2> HIDE DEF f
  <2> QED BY <2>1, <2>2, <1>w, <1>keep
<1>10. CASE slashNew \/ UNCHANGED vars
  BY <1>10, <1>w, <1>keep DEF slashNew, vars
<1>11. CASE Stop \/ Exit
  BY <1>11 DEF Stop, Exit
<1> QED BY <1>1, <1>2, <1>3, <1>4, <1>5, <1>6, <1>7, <1>8, <1>9, <1>10, <1>11
        DEF Next, TurnStep, Quiescent

\* With a working store, the pending rows of a serving process are those of
\* its running and panicked turns, and every human message of a turn past its
\* recordPending has one until removeServedPending.
THEOREM WalIsExact == ~StoreMayFail => (Spec => []WalMirrorsTurns)
<1> SUFFICES ASSUME ~StoreMayFail PROVE Spec => []WalMirrorsTurns
  OBVIOUS
<1>1. Init => WalMirrorsTurns
  BY DEF Init, WalMirrorsTurns
<1>2. FullInv /\ WalMirrorsTurns /\ [Next]_vars => WalMirrorsTurns'
  BY WalStep
<1> QED BY <1>1, <1>2, ArbiterInvariant, PTL DEF Spec

-----------------------------------------------------------------------------
(* What a step may not do.                                                 *)

\* No step starts a turn on a session that /close-session is ending: not the
\* admission, not the drain, not the redispatch after a panic.
THEOREM ClosingSessionsStartNothing == Spec => ClosingStartsNothing
<1>1. FullInv /\ [Next]_vars =>
         [\A r \in runs' \ runs : r.phase = "record" => r.sid \notin closing]_vars
  <2> SUFFICES ASSUME FullInv, Next, NEW x \in runs' \ runs, x.phase = "record"
               PROVE  x.sid \notin closing
    OBVIOUS
  <2> USE DEF storeVars, msgVars, lockVars
  <2>t. runs \subseteq Runs
    BY DEF FullInv, TypeOK
  <2>1. ASSUME NEW m \in Msg, Submit(m) \/ MsgStep(m) PROVE x.sid \notin closing
    <3>1. CASE AdmitIdle(m)
      BY <3>1 DEF AdmitIdle, NewRun
    <3>2. CASE ~AdmitIdle(m)
      BY <2>1, <3>2 DEF MsgStep, Submit, ResolveSid, ResolveFails, AdmitClosing, AdmitBusy
    <3> QED BY <3>1, <3>2
  <2>2. ASSUME NEW r \in runs,
               \/ RecordPending(r) \/ FinishTurn(r) \/ removeServedPending(r)
        PROVE  x.sid \notin closing
    <3>1. \E p \in {"register", "served", "drain"} : x = [r EXCEPT !.phase = p]
      BY <2>2 DEF RecordPending, FinishTurn, removeServedPending, Goto
    <3> QED BY <3>1, <2>t DEF Runs
  <2>3. ASSUME NEW r \in runs, RegisterCancel(r) \/ CancelFires(r) PROVE x.sid \notin closing
    <3>1. CASE RegisterCancel(r)
      <4>1. x = [r EXCEPT !.phase = "run",
                          !.ctl = IF r.sid \in closing \/ power = "stopping"
                                  THEN "cancelled" ELSE @,
                          !.pre = pending[r.sid]]
        BY <3>1 DEF RegisterCancel
      <4> QED BY <4>1, <2>t DEF Runs
    <3>2. CASE CancelFires(r)
      <4>1. x = [r EXCEPT !.ctl = "cancelled"] /\ r.phase = "run"
        BY <3>2 DEF CancelFires
      <4> QED BY <4>1, <2>t DEF Runs
    <3> QED BY <2>3, <3>1, <3>2
  <2>4. ASSUME NEW r \in runs, drainSidAfterTurn(r) PROVE x.sid \notin closing
    BY <2>4 DEF drainSidAfterTurn, NewRun
  <2>5. ASSUME NEW r \in runs, recoverTurn(r) PROVE x.sid \notin closing
    BY <2>5 DEF recoverTurn, NewRun, MayRedispatch
  <2>6. ASSUME NEW r \in runs, takeNudge(r) PROVE x.sid \notin closing
    BY <2>6 DEF takeNudge
  <2>7. ASSUME NEW s \in Sid, slashCloseSession(s) PROVE x.sid \notin closing
    <3>1. PICK r \in runs : x = [r EXCEPT !.ctl = "asked"] /\ r.phase = "run"
      BY <2>7 DEF slashCloseSession
    <3> QED BY <3>1, <2>t DEF Runs
  <2>8. CASE Stop
    <3>1. PICK r \in runs : x = [r EXCEPT !.ctl = "cancelled"] /\ r.phase = "run"
      BY <2>8 DEF Stop
    <3> QED BY <3>1, <2>t DEF Runs
  <2>9. CASE slashNew \/ Exit \/ RecoverPendingOnBoot \/ Quiescent
    BY <2>9 DEF slashNew, Exit, RecoverPendingOnBoot, Quiescent, vars
  <2> QED BY <2>1, <2>2, <2>3, <2>4, <2>5, <2>6, <2>7, <2>8, <2>9 DEF Next, TurnStep
<1> QED BY <1>1, ArbiterInvariant, PTL DEF Spec, ClosingStartsNothing

\* The overflow latch is cleared only by a turn that announces it or with the
\* session itself (drainSidAfterTurn, recoverTurn).
THEOREM OverflowIsAnnounced == Spec => OverflowAnnounced
<1>1. FullInv /\ [Next]_vars =>
         [\A s \in dropped \ dropped' :
             s \notin busy' \/ \E r \in runs' : r.sid = s /\ r.drops]_vars
  <2> SUFFICES ASSUME FullInv, Next, NEW s \in dropped \ dropped'
               PROVE  s \notin busy' \/ \E r \in runs' : r.sid = s /\ r.drops
    OBVIOUS
  <2> USE DEF storeVars, msgVars, lockVars
  <2>0. \A r \in runs : owns(r)
    BY DEF FullInv, ArbInv, OneTurnPerSession
  <2>1. ASSUME NEW m \in Msg, Submit(m) \/ MsgStep(m) PROVE FALSE
    BY <2>1 DEF MsgStep, Submit, ResolveSid, ResolveFails, AdmitClosing, AdmitBusy, AdmitIdle
  <2>2. ASSUME NEW r \in runs,
               \/ RecordPending(r) \/ FinishTurn(r) \/ removeServedPending(r)
               \/ RegisterCancel(r) \/ CancelFires(r) \/ takeNudge(r)
        PROVE  FALSE
    BY <2>2 DEF RecordPending, FinishTurn, removeServedPending, RegisterCancel, CancelFires,
                takeNudge
  <2>3. ASSUME NEW r \in runs, drainSidAfterTurn(r)
        PROVE  s \notin busy' \/ \E x \in runs' : x.sid = s /\ x.drops
    <3> DEFINE q == pending[r.sid]
               b == pickNextDrainBatch(q)
               n == NewRun(r.sid, r.token, b, q = b /\ r.sid \in dropped)
    <3>1. CASE power = "stopping" \/ ~owns(r)
      BY <2>3, <3>1 DEF drainSidAfterTurn
    <3>2. CASE power # "stopping" /\ owns(r) /\ r.sid \notin closing /\ q # {}
      <4>1. runs' = (runs \ {r}) \cup {n} /\ dropped' = LatchAfter(r.sid, q, b)
        BY <2>3, <3>2 DEF drainSidAfterTurn
      <4>2. s = r.sid /\ q = b
        BY <4>1 DEF LatchAfter
      <4>3. n.sid = r.sid /\ n.drops = (q = b /\ r.sid \in dropped)
        BY DEF NewRun
      <4> HIDE DEF n, b, q
      <4> QED BY <4>1, <4>2, <4>3
    <3>3. CASE power # "stopping" /\ owns(r) /\ ~(r.sid \notin closing /\ q # {})
      BY <2>3, <3>3 DEF drainSidAfterTurn, FreeSid
    <3> QED BY <3>1, <3>2, <3>3
  <2>4. ASSUME NEW r \in runs, recoverTurn(r)
        PROVE  s \notin busy' \/ \E x \in runs' : x.sid = s /\ x.drops
    <3> DEFINE q == pending[r.sid]
               b == pickNextDrainBatch(q)
               n == NewRun(r.sid, turnSeq', b, q = b /\ r.sid \in dropped)
    <3>1. CASE MayRedispatch(r.sid)
      <4>1. runs' = (runs \ {r}) \cup {n} /\ dropped' = LatchAfter(r.sid, q, b)
        BY <2>4, <2>0, <3>1 DEF recoverTurn
      <4>2. s = r.sid /\ q = b
        BY <4>1 DEF LatchAfter
      <4>3. n.sid = r.sid /\ n.drops = (q = b /\ r.sid \in dropped)
        BY DEF NewRun
      <4> HIDE DEF n, b, q
      <4> QED BY <4>1, <4>2, <4>3
    <3>2. CASE ~MayRedispatch(r.sid)
      <4>1. busy' = busy \ {r.sid} /\ dropped' = dropped \ {r.sid}
        BY <2>4, <2>0, <3>2 DEF recoverTurn, FreeSid, LatchAfter
      <4> QED BY <4>1
    <3> QED BY <3>1, <3>2
  <2>5. CASE \/ slashNew \/ Stop \/ RecoverPendingOnBoot \/ Quiescent
             \/ \E z \in Sid : slashCloseSession(z)
    BY <2>5 DEF slashNew, Stop, RecoverPendingOnBoot, Quiescent, slashCloseSession, vars
  <2>6. CASE Exit
    BY <2>6 DEF Exit
  <2> QED BY <2>1, <2>2, <2>3, <2>4, <2>5, <2>6 DEF Next, TurnStep
<1> QED BY <1>1, ArbiterInvariant, PTL DEF Spec, OverflowAnnounced

-----------------------------------------------------------------------------
(* The arbiter implements the serial service.                              *)

\* A message that a session holds is at that session, and no turn is empty.
PlacesOK ==
    /\ \A m \in Msg : fate[m] \in {"queued", "nudged", "running"} => at[m] \in Sid
    /\ \A r \in runs : r.batch # {}

LEMMA PlacesStep == FullInv /\ PlacesOK /\ [Next]_vars => PlacesOK'
<1> SUFFICES ASSUME FullInv, PlacesOK, [Next]_vars PROVE PlacesOK'
  OBVIOUS
<1> USE DEF storeVars, msgVars, lockVars
<1>i. TypeOK /\ ArbInv /\ MsgInv
  BY DEF FullInv
<1>t. /\ fate \in [Msg -> Moving \cup Settled] /\ at \in [Msg -> Sid \cup {NoSid}]
      /\ \A r \in runs : r.sid \in Sid /\ pending[r.sid] \in SUBSET Msg
      /\ stamp \in [Msg -> Nat]
  BY <1>i DEF TypeOK, Runs
<1>same. ASSUME UNCHANGED <<fate, at>>,
                \A x \in runs' : \E r \in runs : x.batch = r.batch
         PROVE  PlacesOK'
  BY <1>same DEF PlacesOK
<1>1. ASSUME NEW m \in Msg, Submit(m) \/ ResolveSid(m) \/ ResolveFails(m) \/ AdmitClosing(m)
      PROVE  PlacesOK'
  <2>1. /\ fate'[m] \notin {"queued", "nudged", "running"} /\ runs' = runs
        /\ \A n \in Msg : n # m => fate'[n] = fate[n] /\ at'[n] = at[n]
    BY <1>1, <1>t DEF Submit, ResolveSid, ResolveFails, AdmitClosing
  <2> QED BY <2>1 DEF PlacesOK
<1>2. ASSUME NEW m \in Msg, AdmitBusy(m) PROVE PlacesOK'
  <2>1. /\ at[m] \in Sid /\ at' = at /\ runs' = runs
        /\ \A n \in Msg : n # m => fate'[n] = fate[n]
    BY <1>2, <1>t DEF AdmitBusy
  <2> QED BY <2>1 DEF PlacesOK
<1>3. ASSUME NEW m \in Msg, AdmitIdle(m) PROVE PlacesOK'
  <2>1. /\ at[m] \in Sid /\ at' = at
        /\ \A n \in Msg : n # m => fate'[n] = fate[n]
        /\ \A x \in runs' : x \in runs \/ x.batch = {m}
    BY <1>3, <1>t DEF AdmitIdle, NewRun
  <2> QED BY <2>1 DEF PlacesOK
<1>4. ASSUME NEW r \in runs,
             \/ RecordPending(r) \/ FinishTurn(r) \/ CancelFires(r) \/ RegisterCancel(r)
      PROVE  PlacesOK'
  <2>1. UNCHANGED <<fate, at>>
    BY <1>4 DEF RecordPending, FinishTurn, CancelFires, RegisterCancel
  <2>2. ASSUME NEW x \in runs' PROVE \E y \in runs : x.batch = y.batch
    <3>1. CASE x \in runs
      BY <3>1
    <3>2. CASE x \notin runs
      <4>1. \/ x = [r EXCEPT !.phase = "register"]
            \/ x = [r EXCEPT !.phase = "served"]
            \/ x = [r EXCEPT !.ctl = "cancelled"]
            \/ x = [r EXCEPT !.phase = "run",
                             !.ctl = IF r.sid \in closing \/ power = "stopping"
                                     THEN "cancelled" ELSE @,
                             !.pre = pending[r.sid]]
        BY <1>4, <3>2 DEF RecordPending, FinishTurn, CancelFires, RegisterCancel, Goto
      <4>2. x.batch = r.batch
        BY <4>1, <1>i DEF TypeOK, Runs
      <4> QED BY <4>2
    <3> QED BY <3>1, <3>2
  <2> QED BY <2>1, <2>2, <1>same
<1>5. ASSUME NEW r \in runs,
             removeServedPending(r) \/ drainSidAfterTurn(r) \/ recoverTurn(r)
      PROVE  PlacesOK'
  <2>1. PICK B, D, N : TurnedOver(r, B, D, N)
    BY <1>5, <1>i, RemoveServedOver, DrainOver, RecoverOver
  <2>2. \A x \in runs' : x.batch # {}
    <3>1. CASE removeServedPending(r)
      <4>1. \A x \in runs' : x \in runs \/ x = [r EXCEPT !.phase = "drain"]
        BY <3>1 DEF removeServedPending, Goto
      <4>2. [r EXCEPT !.phase = "drain"].batch = r.batch
        BY <1>i DEF TypeOK, Runs
      <4> QED BY <4>1, <4>2 DEF PlacesOK
    <3>2. CASE drainSidAfterTurn(r)
      <4>1. \A x \in runs' : x \in runs \/ (/\ pending[r.sid] # {}
                                            /\ x.batch = pickNextDrainBatch(pending[r.sid]))
        BY <3>2 DEF drainSidAfterTurn, NewRun
      <4> QED BY <4>1, <1>t, PickIsBatch DEF PlacesOK
    <3>3. CASE recoverTurn(r)
      <4>1. \A x \in runs' : x \in runs \/ (/\ pending[r.sid] # {}
                                            /\ x.batch = pickNextDrainBatch(pending[r.sid]))
        BY <3>3 DEF recoverTurn, NewRun, MayRedispatch
      <4> QED BY <4>1, <1>t, PickIsBatch DEF PlacesOK
    <3> QED BY <1>5, <3>1, <3>2, <3>3
  <2>3. \A m \in B : m \in Msg /\ at[m] = r.sid
    BY <2>1, <1>t, <1>i DEF TurnedOver, MsgInv, Conservation
  <2>4. /\ at' = at
        /\ \A m \in Msg : fate'[m] \in {"queued", "nudged", "running"} => at[m] \in Sid
    BY <2>1, <2>3, <1>t, PlacedIsUnsettled DEF TurnedOver, PlacesOK
  <2> QED BY <2>2, <2>4 DEF PlacesOK
<1>6. ASSUME NEW r \in runs, takeNudge(r) PROVE PlacesOK'
  <2> DEFINE q == {m \in pending[r.sid] : KindOf[m] = "text" /\ m \notin r.pre}
  <2>1. q \in SUBSET Msg /\ q # {} /\ q \subseteq pending[r.sid]
    BY <1>6, <1>t DEF takeNudge
  <2>2. Front(q) \in q
    BY <2>1, <1>t, FrontIsFirst
  <2>3. Front(q) \in Msg /\ at[Front(q)] \in Sid
    BY <2>1, <2>2, <1>t, <1>i DEF MsgInv, Conservation
  <2>4. runs' = runs /\ at' = at /\ fate' = [fate EXCEPT ![Front(q)] = "nudged"]
    BY <1>6 DEF takeNudge
  <2> HIDE DEF q
  <2> QED BY <2>3, <2>4, <1>t DEF PlacesOK
<1>7. ASSUME NEW s \in Sid, slashCloseSession(s) PROVE PlacesOK'
  <2>1. \A r \in runs : [r EXCEPT !.ctl = "asked"].batch = r.batch
    BY <1>i DEF TypeOK, Runs
  <2>2. /\ UNCHANGED <<fate, at>>
        /\ \A x \in runs' : \E r \in runs : x = r \/ x = [r EXCEPT !.ctl = "asked"]
    BY <1>7 DEF slashCloseSession
  <2> QED BY <2>1, <2>2, <1>same
<1>8. CASE Stop
  <2>1. \A r \in runs : [r EXCEPT !.ctl = "cancelled"].batch = r.batch
    BY <1>i DEF TypeOK, Runs
  <2>2. /\ UNCHANGED <<fate, at>>
        /\ \A x \in runs' : \E r \in runs : x = r \/ x = [r EXCEPT !.ctl = "cancelled"]
    BY <1>8 DEF Stop
  <2> QED BY <2>1, <2>2, <1>same
<1>9. CASE Exit
  BY <1>9 DEF Exit, SetFate, Moving, PlacesOK
<1>10. CASE slashNew \/ RecoverPendingOnBoot \/ UNCHANGED vars
  BY <1>10, <1>same DEF slashNew, RecoverPendingOnBoot, vars
<1> QED BY <1>1, <1>2, <1>3, <1>4, <1>5, <1>6, <1>7, <1>8, <1>9, <1>10
        DEF Next, MsgStep, TurnStep, Quiescent

\* The messages that are over.
Over == {m \in Msg : fate[m] \in Settled}

\* A message that waits for a session, or is not there yet, is elsewhere for
\* the serial service.
LEMMA UnplacedIsElsewhere ==
    ASSUME TypeOK, MsgInv, NEW m \in Msg, Unplaced(m)
    PROVE  m \in Service!Elsewhere
<1>1. \A s \in Sid : m \notin pending[s]
  BY UnplacedIsNowhere
<1>2. m \notin Over /\ \A s \in Sid : m \notin ServingOf[s]
  BY PlacedIsUnsettled DEF Over, ServingOf, Unplaced
<1> QED BY <1>1, <1>2 DEF Service!Elsewhere, Over

\* The serial service's view of a step that leaves its variables alone.
LEMMA StutterRefines ==
    ASSUME UNCHANGED pending,
           \A m \in Msg : /\ fate'[m] \in Settled <=> fate[m] \in Settled
                          /\ (fate'[m] \in {"running", "nudged"} \/ fate[m] \in {"running", "nudged"})
                             => fate'[m] \in {"running", "nudged"} /\ fate[m] \in {"running", "nudged"}
                                /\ at'[m] = at[m]
    PROVE  UNCHANGED Service!vars
<1>1. ServingOf' = ServingOf
  BY DEF ServingOf
<1>2. Over' = Over
  BY DEF Over
<1> QED BY <1>1, <1>2 DEF Service!vars, Over

\* A step that takes an unplaced message elsewhere is a refusal or a stutter.
LEMMA OutsideRefines ==
    ASSUME TypeOK, MsgInv, NEW m \in Msg, Unplaced(m),
           fate'[m] \notin {"queued", "nudged", "running"},
           \A n \in Msg : n # m => fate'[n] = fate[n] /\ at'[n] = at[n],
           UNCHANGED pending
    PROVE  [Service!Next]_(Service!vars)
<1>1. ServingOf' = ServingOf
  BY DEF ServingOf, Unplaced
<1>2. CASE fate'[m] \in Settled
  <2>1. Over' = Over \cup {m}
    BY <1>2 DEF Over
  <2>2. m \in Service!Elsewhere
    BY UnplacedIsElsewhere
  <2>3. Service!Refuse(m)
    BY <1>1, <2>1, <2>2 DEF Service!Refuse, Over
  <2> QED BY <2>3 DEF Service!Next
<1>3. CASE fate'[m] \notin Settled
  <2>1. Over' = Over
    BY <1>3, PlacedIsUnsettled DEF Over, Unplaced
  <2> QED BY <1>1, <2>1 DEF Service!vars, Over
<1> QED BY <1>2, <1>3

\* Queueing, starting and nudging are the steps of the same name.
LEMMA AdmitBusyRefines ==
    ASSUME FullInv, NEW m \in Msg, AdmitBusy(m)
    PROVE  [Service!Next]_(Service!vars)
<1>i. TypeOK /\ MsgInv /\ fate \in [Msg -> Moving \cup Settled]
  BY DEF FullInv, TypeOK
<1>1. Unplaced(m) /\ at[m] \in Sid /\ at' = at
  BY <1>i DEF AdmitBusy, Unplaced, TypeOK
<1>2. CASE /\ fate' = [fate EXCEPT ![m] = "queued"]
           /\ pending' = [pending EXCEPT ![at[m]] = @ \cup {m}]
  <2>1. ServingOf' = ServingOf
    BY <1>i, <1>1, <1>2 DEF ServingOf, Unplaced
  <2>2. Over' = Over
    BY <1>i, <1>1, <1>2, PlacedIsUnsettled DEF Over, Unplaced
  <2>3. m \in Service!Elsewhere
    BY <1>i, <1>1, UnplacedIsElsewhere
  <2>4. Service!Enqueue(m, at[m])
    BY <1>2, <2>1, <2>2, <2>3 DEF Service!Enqueue, Over
  <2> QED BY <1>1, <2>4 DEF Service!Next
<1>3. CASE /\ fate' = [fate EXCEPT ![m] = "dup"] \/ fate' = [fate EXCEPT ![m] = "full"]
           /\ UNCHANGED pending
  <2>1. /\ fate'[m] \notin {"queued", "nudged", "running"}
        /\ \A n \in Msg : n # m => fate'[n] = fate[n] /\ at'[n] = at[n]
    BY <1>i, <1>1, <1>3
  <2> QED BY <1>i, <1>1, <1>3, <2>1, OutsideRefines
<1> QED BY <1>2, <1>3 DEF AdmitBusy

LEMMA AdmitIdleRefines ==
    ASSUME FullInv, NEW m \in Msg, AdmitIdle(m)
    PROVE  Service!Next
<1> DEFINE s == at[m]
<1>i. TypeOK /\ ArbInv /\ MsgInv /\ fate \in [Msg -> Moving \cup Settled]
  BY DEF FullInv, TypeOK
<1>1. /\ Unplaced(m) /\ s \in Sid /\ s \notin busy /\ UNCHANGED <<at, pending>>
      /\ fate' = [fate EXCEPT ![m] = "running"]
  BY <1>i DEF AdmitIdle, Unplaced, TypeOK
<1>2. ServingOf[s] = {}
  <2>1. nudged[s] = {}
    BY <1>1, <1>i DEF ArbInv, IdleIsClean
  <2>2. \A r \in runs : r.sid # s
    BY <1>1, <1>i DEF ArbInv, OneTurnPerSession, owns
  <2>3. ASSUME NEW n \in Msg, fate[n] \in {"running", "nudged"}, at[n] = s PROVE FALSE
    <3>1. CASE fate[n] = "nudged"
      BY <2>1, <2>3, <3>1, <1>i DEF MsgInv, Conservation
    <3>2. CASE fate[n] = "running"
      BY <2>2, <2>3, <3>2, <1>i DEF MsgInv, Conservation
    <3> QED BY <2>3, <3>1, <3>2
  <2> QED BY <1>1, <2>3 DEF ServingOf
<1>3. ServingOf' = [ServingOf EXCEPT ![s] = {m}]
  <2>1. \A n \in Msg : n # m => fate'[n] = fate[n]
    BY <1>1, <1>i
  <2>2. fate'[m] = "running" /\ fate[m] \notin {"running", "nudged"}
    BY <1>1, <1>i DEF Unplaced
  <2>3. \A z \in Sid : ServingOf'[z] = IF z = s THEN {m} ELSE ServingOf[z]
    BY <1>1, <1>2, <2>1, <2>2 DEF ServingOf
  <2> QED BY <1>1, <2>3 DEF ServingOf
<1>4. Over' = Over
  BY <1>i, <1>1, PlacedIsUnsettled DEF Over, Unplaced
<1>5. m \in Service!Elsewhere
  BY <1>i, <1>1, UnplacedIsElsewhere
<1>6. Service!Begin(m, s)
  BY <1>1, <1>2, <1>3, <1>4, <1>5 DEF Service!Begin, Over
<1> QED BY <1>1, <1>6 DEF Service!Next

LEMMA NudgeRefines ==
    ASSUME FullInv, PlacesOK, NEW r \in runs, takeNudge(r)
    PROVE  Service!Next
<1> DEFINE s == r.sid
           q == {m \in pending[s] : KindOf[m] = "text" /\ m \notin r.pre}
           f == Front(q)
<1>i. TypeOK /\ ArbInv /\ MsgInv /\ fate \in [Msg -> Moving \cup Settled]
  BY DEF FullInv, TypeOK
<1>1. s \in Sid /\ q \in SUBSET Msg /\ q # {} /\ pending[s] \subseteq Msg /\ r.phase = "run"
  BY <1>i DEF takeNudge, TypeOK, Runs
<1>2. f \in q
  BY <1>i, <1>1, FrontIsFirst DEF TypeOK
<1>3. f \in pending[s] /\ f \in Msg /\ fate[f] = "queued" /\ at[f] = s
  BY <1>1, <1>2, <1>i DEF MsgInv, Conservation
<1>4. /\ pending' = [pending EXCEPT ![s] = @ \ {f}]
      /\ fate' = [fate EXCEPT ![f] = "nudged"] /\ at' = at
  BY DEF takeNudge, Unqueue
<1> HIDE DEF f, q
<1>5. ServingOf[s] # {}
  <2>1. r.batch # {} /\ r.batch \subseteq Msg
    BY <1>i DEF PlacesOK, TypeOK, Runs
  <2>2. \A m \in r.batch : fate[m] = "running" /\ at[m] = s
    BY <1>1, <1>i DEF MsgInv, Conservation
  <2> QED BY <1>1, <2>1, <2>2 DEF ServingOf
<1>6. ServingOf' = [ServingOf EXCEPT ![s] = @ \cup {f}]
  <2>1. \A z \in Sid : ServingOf'[z] = IF z = s THEN ServingOf[s] \cup {f} ELSE ServingOf[z]
    BY <1>i, <1>1, <1>3, <1>4 DEF ServingOf
  <2> QED BY <2>1 DEF ServingOf
<1>7. Over' = Over
  BY <1>i, <1>3, <1>4, PlacedIsUnsettled DEF Over
<1>8. Service!Pull(f, s)
  BY <1>3, <1>4, <1>5, <1>6, <1>7 DEF Service!Pull, Over
<1> QED BY <1>1, <1>3, <1>8 DEF Service!Next

\* The end of a turn, with or without a follow-up batch, is a turnover; the
\* end of a closing session abandons its queue.
LEMMA TurnedOverRefines ==
    ASSUME FullInv, NEW r \in runs, NEW B, NEW D, NEW N, TurnedOver(r, B, D, N)
    PROVE  Service!Next
<1> DEFINE s == r.sid
<1>i. TypeOK /\ ArbInv /\ MsgInv
  BY DEF FullInv
<1>1. s \in Sid /\ pending[s] \subseteq Msg
  BY <1>i DEF TypeOK, Runs
<1>2. /\ B \subseteq pending[s] /\ D \subseteq pending[s] /\ at' = at
      /\ pending' = [pending EXCEPT ![s] = @ \ (B \cup D)]
      /\ B # {} => D = {}
      /\ D = {} \/ D = pending[s]
      /\ \A m \in Msg : \/ m \in Serving(s) \cup D /\ fate'[m] \in Settled
                        \/ m \in B /\ fate'[m] = "running"
                        \/ m \notin Serving(s) \cup B \cup D /\ fate'[m] = fate[m]
  BY DEF TurnedOver
<1>3. \A m \in pending[s] : m \in Msg /\ fate[m] = "queued" /\ at[m] = s
  BY <1>1, <1>i DEF MsgInv, Conservation
<1> HIDE DEF s
<1>4. ServingOf' = [ServingOf EXCEPT ![s] = B]
  <2>1. ASSUME NEW z \in Sid, NEW m \in Msg
        PROVE  m \in ServingOf'[z] <=> m \in IF z = s THEN B ELSE ServingOf[z]
    BY <1>2, <1>3, PlacedIsUnsettled DEF ServingOf, Serving
  <2>2. \A z \in Sid : ServingOf'[z] \subseteq Msg /\ ServingOf[z] \subseteq Msg /\ B \subseteq Msg
    BY <1>2, <1>3 DEF ServingOf
  <2>3. \A z \in Sid : ServingOf'[z] = IF z = s THEN B ELSE ServingOf[z]
    BY <2>1, <2>2
  <2> QED BY <2>3 DEF ServingOf
<1>5. Over' = Over \cup ServingOf[s] \cup D
  <2>1. ServingOf[s] = Serving(s)
    BY <1>1 DEF ServingOf, Serving, s
  <2>2. ASSUME NEW m \in Msg
        PROVE  fate'[m] \in Settled <=> fate[m] \in Settled \/ m \in Serving(s) \cup D
    BY <1>2, <1>3, PlacedIsUnsettled DEF Serving
  <2>3. \A m \in Serving(s) \cup D : m \in Msg
    BY <1>2, <1>3 DEF Serving
  <2> QED BY <2>1, <2>2, <2>3 DEF Over
<1>6. s \in Sid
  BY <1>1 DEF s
<1>7. CASE D = {}
  <2>1. Service!Turnover(s, B)
    BY <1>2, <1>4, <1>5, <1>7 DEF Service!Turnover, Over
  <2> QED BY <1>2, <1>6, <2>1 DEF Service!Next
<1>8. CASE D # {}
  <2>1. B = {} /\ D = pending[s] /\ pending' = [pending EXCEPT ![s] = {}]
    BY <1>2, <1>8
  <2>2. Service!Abandon(s)
    BY <1>4, <1>5, <2>1 DEF Service!Abandon, Over
  <2> QED BY <1>6, <2>2 DEF Service!Next
<1> QED BY <1>7, <1>8

\* The end of the process ends whatever was under way.
LEMMA ExitRefines ==
    ASSUME FullInv, PlacesOK, Exit
    PROVE  Service!Next
<1> DEFINE M == {m \in Msg : fate[m] = "routing"}
           W == UNION {pending[s] \cup ServingOf[s] : s \in Sid}
<1>i. TypeOK /\ MsgInv /\ fate \in [Msg -> Moving \cup Settled]
  BY DEF FullInv, TypeOK
<1>1. /\ pending' = [s \in Sid |-> {}]
      /\ \A m \in Msg : fate'[m] = IF fate[m] \in Moving \ {"new"} THEN "lost" ELSE fate[m]
  BY DEF Exit, SetFate
<1>2. ServingOf' = [s \in Sid |-> {}]
  BY <1>1 DEF ServingOf, Moving
<1>3. M \in SUBSET Service!Elsewhere
  BY <1>i, UnplacedIsElsewhere DEF Unplaced
<1>4. \A m \in Msg : m \in W <=> fate[m] \in {"queued", "running", "nudged"}
  <2>1. ASSUME NEW m \in Msg, m \in W PROVE fate[m] \in {"queued", "running", "nudged"}
    BY <2>1, <1>i DEF ServingOf, MsgInv, Conservation
  <2>2. ASSUME NEW m \in Msg, fate[m] \in {"queued", "running", "nudged"} PROVE m \in W
    <3>1. at[m] \in Sid
      BY <2>2 DEF PlacesOK
    <3>2. m \in pending[at[m]] \cup ServingOf[at[m]]
      BY <2>2, <3>1, <1>i DEF ServingOf, MsgInv, Conservation
    <3> QED BY <3>1, <3>2
  <2> QED BY <2>1, <2>2
<1>5. W \subseteq Msg
  BY <1>i DEF ServingOf, TypeOK
<1> HIDE DEF W
<1>6. Over' = Over \cup M \cup W
  <2>1. \A m \in Msg : fate'[m] \in Settled <=> fate[m] \in Settled \/ m \in M \cup W
    BY <1>1, <1>4, <1>i DEF Settled, Moving
  <2> QED BY <1>5, <2>1 DEF Over
<1> HIDE DEF M
<1>7. Service!Reset
  BY <1>1, <1>2, <1>3, <1>6 DEF Service!Reset, Over, W
<1> QED BY <1>7 DEF Service!Next

LEMMA RefinementInit == Init => Service!Init
<1> SUFFICES ASSUME Init PROVE Service!Init
  OBVIOUS
<1>1. pending = [s \in Sid |-> {}] /\ \A m \in Msg : fate[m] = "new"
  BY DEF Init
<1>2. ServingOf = [s \in Sid |-> {}]
  BY <1>1 DEF ServingOf
<1>3. Over = {}
  BY <1>1, PlacedIsUnsettled DEF Over
<1> QED BY <1>1, <1>2, <1>3 DEF Service!Init, Over

LEMMA RefinementStep ==
    FullInv /\ PlacesOK /\ [Next]_vars => [Service!Next]_(Service!vars)
<1> SUFFICES ASSUME FullInv, PlacesOK, [Next]_vars PROVE [Service!Next]_(Service!vars)
  OBVIOUS
<1> USE DEF storeVars, msgVars, lockVars
<1>i. TypeOK /\ ArbInv /\ MsgInv
  BY DEF FullInv
<1>t. fate \in [Msg -> Moving \cup Settled] /\ at \in [Msg -> Sid \cup {NoSid}]
  BY <1>i DEF TypeOK
<1>same. ASSUME UNCHANGED <<fate, at, pending>> PROVE UNCHANGED Service!vars
  BY <1>same, StutterRefines
<1>1. ASSUME NEW m \in Msg, Submit(m) \/ ResolveSid(m) \/ ResolveFails(m) \/ AdmitClosing(m)
      PROVE  [Service!Next]_(Service!vars)
  <2>1. /\ Unplaced(m) /\ fate'[m] \notin {"queued", "nudged", "running"}
        /\ \A n \in Msg : n # m => fate'[n] = fate[n] /\ at'[n] = at[n]
        /\ UNCHANGED pending
    BY <1>1, <1>t DEF Submit, ResolveSid, ResolveFails, AdmitClosing, Unplaced
  <2> QED BY <1>i, <2>1, OutsideRefines
<1>2. ASSUME NEW m \in Msg, AdmitBusy(m) \/ AdmitIdle(m) PROVE [Service!Next]_(Service!vars)
  BY <1>2, AdmitBusyRefines, AdmitIdleRefines
<1>3. ASSUME NEW r \in runs,
             \/ RecordPending(r) \/ FinishTurn(r) \/ CancelFires(r) \/ RegisterCancel(r)
      PROVE  [Service!Next]_(Service!vars)
  BY <1>3, <1>same DEF RecordPending, FinishTurn, CancelFires, RegisterCancel
<1>4. ASSUME NEW r \in runs,
             removeServedPending(r) \/ drainSidAfterTurn(r) \/ recoverTurn(r)
      PROVE  [Service!Next]_(Service!vars)
  <2>1. PICK B, D, N : TurnedOver(r, B, D, N)
    BY <1>4, <1>i, RemoveServedOver, DrainOver, RecoverOver
  <2> QED BY <2>1, TurnedOverRefines
<1>5. ASSUME NEW r \in runs, takeNudge(r) PROVE [Service!Next]_(Service!vars)
  BY <1>5, NudgeRefines
<1>6. ASSUME NEW s \in Sid, slashCloseSession(s) PROVE [Service!Next]_(Service!vars)
  BY <1>6, <1>same DEF slashCloseSession
<1>7. CASE Exit
  BY <1>7, ExitRefines
<1>8. CASE slashNew \/ Stop \/ RecoverPendingOnBoot \/ UNCHANGED vars
  BY <1>8, <1>same DEF slashNew, Stop, RecoverPendingOnBoot, vars
<1> QED BY <1>1, <1>2, <1>3, <1>4, <1>5, <1>6, <1>7, <1>8
        DEF Next, MsgStep, TurnStep, Quiescent

\* Every behaviour of the arbiter, with its locks, retries, nudges, panics,
\* closes and crashes, is a behaviour of the serial service: one batch at a
\* time per session, a message worked on at most once and never again.
THEOREM ArbiterImplementsSerialSessions == Spec => ImplementsSerialSessions
<1>1. Init => PlacesOK
  BY DEF Init, PlacesOK
<1>2. Spec => []PlacesOK
  BY <1>1, PlacesStep, ArbiterInvariant, PTL DEF Spec
<1>3. Init => Service!Init
  BY RefinementInit
<1>4. FullInv /\ PlacesOK /\ [Next]_vars => [Service!Next]_(Service!vars)
  BY RefinementStep
<1> QED BY <1>2, <1>3, <1>4, ArbiterInvariant, PTL
        DEF Spec, ImplementsSerialSessions, Service!Spec
=============================================================================

-------------------------- MODULE ArrangementProofs --------------------------
(***************************************************************************)
(* Two facts about the arrangement engine, for any definitions, stages,    *)
(* members, slots and bounds: nobody is woken into two turns, and a closed *)
(* definition is settled.                                                  *)
(*                                                                         *)
(* The first rests on the cooldown: a woken turn that is not registered    *)
(* yet is covered by its scope's stamp, or is the one drainOne is about to *)
(* stamp.  The second rests on what calls under way may do behind a closed *)
(* definition: once a completion has counted no live item, or a cancel has *)
(* closed the definition, only a call that started earlier (an Inject, the *)
(* kickoff of Define, the selector's requeue) adds a runnable item, and    *)
(* until a cancel has parked the items it is under way or marked halfway.  *)
(***************************************************************************)
EXTENDS Arrangement, FiniteSetTheorems, WellFoundedInduction, TLAPS

TurnPC == {"free", "woken", "pull", "work", "route", "deliver", "complete"}
RealStatus == Live \cup {"done", "cancelled"}
ItemFields == {"st", "arr", "role", "prio", "by", "old"}
TurnFields == {"pc", "who", "arr", "role", "item", "st"}

\* A row of the item table, with the definitions d.
ItemOK(x, d) ==
    /\ DOMAIN x = ItemFields
    /\ x.prio \in 0 .. MaxPrio
    /\ \/ x.st \in {"none", "gone"} /\ x.arr = None
       \/ x.st \in RealStatus /\ x.arr \in Arr /\ d[x.arr] # "none"

ItemsOK ==
    /\ defs \in [Arr -> DefStatus]
    /\ items = [i \in Item |-> items[i]]
    /\ \A i \in Item : ItemOK(items[i], defs)

\* A woken turn.
TurnOK(x, d) ==
    /\ DOMAIN x = TurnFields
    /\ x.pc \in TurnPC
    /\ x.pc = "free" => x.who = None
    /\ x.pc # "free" => x.arr \in Arr /\ d[x.arr] # "none"
    /\ x.pc = "route" => x.st \in RealStatus

TurnsOK ==
    /\ turn = [t \in Slot |-> turn[t]]
    /\ \A t \in Slot : TurnOK(turn[t], defs)

\* A call under way; past InsertDef its definition is there, or was.
CallOp == {"define", "kickoff", "rollback", "delete", "inject", "cancel"}
CallFields == {"id", "op", "arr", "role", "prio"}
CallOK(c) ==
    /\ DOMAIN c = CallFields
    /\ c.op \in CallOp /\ c.arr \in Arr /\ c.prio \in 0 .. MaxPrio
    /\ c.op # "define" => defs[c.arr] # "none"

CallsOK == \A c \in calls : CallOK(c)

\* A turn about to close its definition has left nothing live in it.
CompleteOK ==
    \A t \in Slot : turn[t].pc = "complete" =>
        \A i \in Item \ late : items[i].arr = turn[t].arr => items[i].st \notin Live

\* The definition a has no live item.
NothingLive(a) == \A i \in Item : items[i].arr = a => items[i].st \notin Live

StoreInv == ItemsOK /\ TurnsOK /\ CallsOK /\ CompleteOK /\ ClosedIsSettled

\* Who is woken and not registered yet is cooling, or about to be stamped.
WakesCool ==
    \A t \in Slot : turn[t].pc = "woken" /\ turn[t].who # None =>
        turn[t].who \in cooling \cup {drain}

WakeInv == WakesCool /\ OneWakePerMember

ArrInv == StoreInv /\ WakeInv

-----------------------------------------------------------------------------
(* First and last numbers.                                                 *)

LEMMA Smallest ==
    ASSUME NEW D \in SUBSET Nat, D # {}
    PROVE  \E x \in D : \A y \in D : x <= y
<1>1. \E x \in D : \A y \in D : ~ (<<y, x>> \in OpToRel(<, Nat))
  BY NatLessThanWellFounded, WFMin, Zenon
<1>2. ASSUME NEW x \in Nat, NEW y \in Nat, ~ (<<y, x>> \in OpToRel(<, Nat))
      PROVE  x <= y
  <2>1. OpToRel(<, Nat) = {ss \in Nat \X Nat : ss[1] < ss[2]}
    BY Zenon DEF OpToRel
  <2>2. ~ (<<y, x>> \in {ss \in Nat \X Nat : ss[1] < ss[2]})
    BY <1>2, <2>1, Zenon
  <2> QED BY <2>2, SMT
<1> QED BY <1>1, <1>2

LEMMA Greatest ==
    ASSUME NEW n \in Nat, NEW D \in SUBSET (0 .. n), D # {}
    PROVE  \E x \in D : \A y \in D : y <= x
<1> DEFINE E == {n - x : x \in D}
<1>1. E \in SUBSET Nat /\ E # {}
  <2>1. \A x \in D : n - x \in Nat
    OBVIOUS
  <2> QED BY <2>1
<1>2. \E x \in E : \A y \in E : x <= y
  <2> HIDE DEF E
  <2> QED BY <1>1, Smallest
<1>3. PICK x \in D : \A y \in D : n - x <= n - y
  BY <1>2
<1>4. \A y \in D : y <= x
  BY <1>3
<1> QED BY <1>4

LEMMA ItemsAreNumbers == MaxItems \in Nat /\ Item \subseteq Nat /\ MaxPrio \in Nat
BY ArrangementAssumption DEF Item

\* The row InsertItem takes has never been used.
LEMMA MinIsUnborn ==
    ASSUME Unborn # {}
    PROVE  Min(Unborn) \in Unborn /\ Min(Unborn) \in Item
<1>1. Unborn \in SUBSET Nat
  BY ItemsAreNumbers DEF Unborn
<1>2. \E x \in Unborn : \A y \in Unborn : x <= y
  BY <1>1, Smallest
<1>3. Min(Unborn) \in Unborn
  BY <1>2 DEF Min
<1> QED BY <1>3 DEF Unborn

\* ClaimTop finds a queued item of the bucket when there is one.
LEMMA TopIsQueued ==
    ASSUME ItemsOK, NEW a, NEW r, Bucket(a, r, "queued") # {}
    PROVE  Top(a, r) \in Bucket(a, r, "queued")
<1> DEFINE B == Bucket(a, r, "queued")
           P == {items[i].prio : i \in B}
<1>1. \A i \in B : i \in Item /\ i \in Nat /\ items[i].prio \in 0 .. MaxPrio
  BY ItemsAreNumbers DEF Bucket, Of, ItemsOK, ItemOK
<1>2. PICK p \in P : \A q \in P : q <= p
  <2>1. P \in SUBSET (0 .. MaxPrio) /\ P # {}
    BY <1>1
  <2> HIDE DEF P
  <2> QED BY <2>1, Greatest, ItemsAreNumbers
<1> DEFINE F == {i \in B : items[i].prio = p}
<1>3. PICK i \in F : \A j \in F : i <= j
  <2>1. F \in SUBSET Nat /\ F # {}
    BY <1>1
  <2> HIDE DEF F
  <2> QED BY <2>1, Smallest
<1>4. \A j \in B : \/ items[i].prio > items[j].prio
                   \/ items[i].prio = items[j].prio /\ i <= j
  <2> TAKE j \in B
  <2>1. items[j].prio <= p /\ items[j].prio \in Nat /\ p \in Nat
    BY <1>1, <1>2, ItemsAreNumbers
  <2>2. items[j].prio = p => j \in F
    OBVIOUS
  <2> QED BY <1>3, <2>1, <2>2
<1>5. \E x \in B : \A j \in B : \/ items[x].prio > items[j].prio
                                \/ items[x].prio = items[j].prio /\ x <= j
  BY <1>3, <1>4
<1> HIDE DEF B
<1> QED BY <1>5 DEF Top, B

-----------------------------------------------------------------------------
(* Steps of one shape.                                                     *)

\* One turn goes on or ends; or the turns stay.
LEMMA TurnStepTypes ==
    ASSUME TurnsOK, NEW t \in Slot, NEW e, Turn(t, e), TurnOK(e, defs'),
           \A a \in Arr : defs[a] # "none" => defs'[a] # "none"
    PROVE  /\ TurnsOK'
           /\ \A u \in Slot : turn'[u] = IF u = t THEN e ELSE turn[u]
<1>1. turn' = [turn EXCEPT ![t] = e]
  BY DEF Turn
<1>2. /\ turn' = [u \in Slot |-> turn'[u]]
      /\ \A u \in Slot : turn'[u] = IF u = t THEN e ELSE turn[u]
  <2>1. DOMAIN turn = Slot
    BY DEF TurnsOK
  <2> QED BY <1>1, <2>1
<1>3. ASSUME NEW u \in Slot PROVE TurnOK(turn'[u], defs')
  <2>1. CASE u = t
    BY <1>2, <2>1
  <2>2. CASE u # t
    <3>1. turn'[u] = turn[u] /\ TurnOK(turn[u], defs)
      BY <1>2, <2>2 DEF TurnsOK
    <3> QED BY <3>1 DEF TurnOK
  <2> QED BY <2>1, <2>2
<1> QED BY <1>2, <1>3 DEF TurnsOK

LEMMA TurnsKept ==
    ASSUME TurnsOK, UNCHANGED turn,
           \A a \in Arr : defs[a] # "none" => defs'[a] # "none"
    PROVE  TurnsOK'
BY DEF TurnsOK, TurnOK

LEMMA FreeIsTurn == \A d : TurnOK(Free, d)
BY DEF TurnOK, Free, TurnPC, TurnFields

\* How a row may change while no definition and no call does: a live one goes
\* on, runnable only if it was; or a row goes.
ItemMoves(i) ==
    \/ items'[i] = items[i]
    \/ /\ items[i].st \in Live /\ items'[i].arr = items[i].arr
       /\ items'[i].st \in Runnable => items[i].st \in Runnable
    \/ items'[i].st = "gone" /\ items'[i].arr = None

\* How a turn may change then: it starts completing only a definition with
\* nothing live.
TurnMoves(t) ==
    turn'[t].pc = "complete" =>
        \/ turn[t].pc = "complete" /\ turn'[t].arr = turn[t].arr
        \/ NothingLive(turn'[t].arr)

\* How the calls may change: a cancel that is given up leaves its mark.
CallsMove ==
    /\ \A c \in calls' \ calls : CallOK(c)'
    /\ \A c \in calls : c.op = "cancel" => c \in calls' \/ c.arr \in half'

LEMMA CallsStand ==
    ASSUME UNCHANGED calls
    PROVE  CallsMove
BY DEF CallsMove

LEMMA StoreMoves ==
    ASSUME StoreInv, UNCHANGED <<defs, late, half>>, CallsMove,
           items' = [i \in Item |-> items'[i]],
           \A i \in Item : ItemMoves(i) /\ ItemOK(items'[i], defs),
           TurnsOK', \A t \in Slot : TurnMoves(t)
    PROVE  StoreInv'
<1>1. ItemsOK'
  BY DEF StoreInv, ItemsOK
<1>2. \A i \in Item : items'[i].arr # None => items[i].arr = items'[i].arr
  BY DEF ItemMoves
<1>3. CallsOK'
  <2>1. ASSUME NEW c \in calls PROVE CallOK(c)'
    BY DEF StoreInv, CallsOK, CallOK
  <2> QED BY <2>1 DEF CallsOK, CallsMove
<1>4. CompleteOK'
  <2> SUFFICES ASSUME NEW t \in Slot, turn'[t].pc = "complete",
                      NEW i \in Item \ late, items'[i].arr = turn'[t].arr
               PROVE  items'[i].st \notin Live
    BY DEF CompleteOK
  <2>1. \/ turn[t].pc = "complete" /\ turn'[t].arr = turn[t].arr
        \/ NothingLive(turn'[t].arr)
    BY DEF TurnMoves
  <2>2. turn'[t].arr \in Arr /\ turn'[t].arr # None
    BY ArrangementAssumption DEF TurnsOK, TurnOK
  <2>3. items[i].arr = turn'[t].arr
    BY <1>2, <2>2
  <2>4. items[i].st \notin Live
    BY <2>1, <2>3 DEF StoreInv, CompleteOK, NothingLive
  <2> QED BY <2>4 DEF ItemMoves, Live
<1>5. ClosedIsSettled'
  <2> SUFFICES ASSUME NEW i \in Item \ late, items'[i].arr # None
               PROVE  /\ defs[items'[i].arr] = "done" => items'[i].st \notin Live
                      /\ defs[items'[i].arr] = "cancelled" /\ items'[i].st \in Runnable =>
                            \/ items'[i].arr \in half
                            \/ \E c \in calls' : c.op = "cancel" /\ c.arr = items'[i].arr
    BY DEF ClosedIsSettled
  <2>1. items[i].arr = items'[i].arr
    BY <1>2
  <2>2. /\ defs[items[i].arr] = "done" => items[i].st \notin Live
        /\ defs[items[i].arr] = "cancelled" /\ items[i].st \in Runnable =>
              \/ items[i].arr \in half
              \/ \E c \in calls : c.op = "cancel" /\ c.arr = items[i].arr
    BY <2>1 DEF StoreInv, ClosedIsSettled
  <2>3. /\ items'[i].st \in Live => items[i].st \in Live
        /\ items'[i].st \in Runnable => items[i].st \in Runnable
    BY DEF ItemMoves, Live, Runnable
  <2> QED BY <2>1, <2>2, <2>3 DEF CallsMove
<1> QED BY <1>1, <1>3, <1>4, <1>5 DEF StoreInv

\* The same with the table untouched.
LEMMA StoreKept ==
    ASSUME StoreInv, UNCHANGED <<defs, items, calls, late, half>>,
           TurnsOK', \A t \in Slot : TurnMoves(t)
    PROVE  StoreInv'
<1>1. /\ items' = [i \in Item |-> items'[i]]
      /\ \A i \in Item : ItemMoves(i) /\ ItemOK(items'[i], defs)
  BY DEF StoreInv, ItemsOK, ItemMoves
<1> QED BY <1>1, CallsStand, StoreMoves

\* A turn that goes on for the same member, or ends, wakes nobody.
LEMMA WakesKept ==
    ASSUME TurnsOK, WakeInv, UNCHANGED <<cooling, drain>>, NEW t \in Slot, NEW e,
           \A u \in Slot : turn'[u] = IF u = t THEN e ELSE turn[u],
           e.who \in {None, turn[t].who}, e.pc # "woken"
    PROVE  WakeInv'
<1>1. \A u \in Slot : turn'[u].pc = "woken" => turn'[u] = turn[u]
  OBVIOUS
<1>2. \A u \in Slot : turn'[u].who \in {None, turn[u].who}
  OBVIOUS
<1>3. WakesCool'
  BY <1>1 DEF WakeInv, WakesCool
<1>4. OneWakePerMember'
  BY <1>2 DEF WakeInv, OneWakePerMember
<1> QED BY <1>3, <1>4 DEF WakeInv

LEMMA WakesSame ==
    ASSUME WakeInv, UNCHANGED <<turn, cooling, drain>>
    PROVE  WakeInv'
BY DEF WakeInv, WakesCool, OneWakePerMember

\* A turn goes on short of a completion, or ends.
LEMMA TurnGoesOn ==
    ASSUME ArrInv, NEW t \in Slot, NEW e, Turn(t, e), UNCHANGED <<defs, cooling, drain>>,
           \/ e = Free
           \/ /\ TurnOK(e, defs) /\ turn[t].pc # "free"
              /\ e.arr = turn[t].arr /\ e.who = turn[t].who
              /\ e.pc # "woken" /\ (e.pc = "complete" => NothingLive(e.arr))
    PROVE  TurnsOK' /\ (\A u \in Slot : TurnMoves(u)) /\ WakeInv'
<1>1. TurnsOK
  BY DEF ArrInv, StoreInv
<1>2. TurnOK(e, defs') /\ \A a \in Arr : defs[a] # "none" => defs'[a] # "none"
  BY FreeIsTurn
<1>3. TurnsOK' /\ \A u \in Slot : turn'[u] = IF u = t THEN e ELSE turn[u]
  BY <1>1, <1>2, TurnStepTypes
<1>4. /\ e.who \in {None, turn[t].who} /\ e.pc # "woken"
      /\ e.pc = "complete" => NothingLive(e.arr)
  BY DEF Free
<1>5. ASSUME NEW u \in Slot PROVE TurnMoves(u)
  BY <1>3, <1>4 DEF TurnMoves, Free
<1>6. WakeInv'
  BY <1>1, <1>3, <1>4, WakesKept DEF ArrInv
<1> QED BY <1>3, <1>5, <1>6

-----------------------------------------------------------------------------
(* A woken turn's actions.                                                 *)

\* Which fields a turn changes keeps it a turn.
LEMMA TurnGoesTo ==
    ASSUME NEW x, NEW d, TurnOK(x, d), x.pc # "free",
           NEW p \in TurnPC \ {"free", "route"}
    PROVE  LET e == [x EXCEPT !.pc = p]
           IN  TurnOK(e, d) /\ e.pc = p /\ e.arr = x.arr /\ e.who = x.who
BY DEF TurnOK, TurnFields

LEMMA TurnClaims ==
    ASSUME NEW x, NEW d, TurnOK(x, d), x.pc # "free", NEW i
    PROVE  LET e == [x EXCEPT !.pc = "work", !.item = i]
           IN  TurnOK(e, d) /\ e.pc = "work" /\ e.arr = x.arr /\ e.who = x.who
BY DEF TurnOK, TurnFields, TurnPC

\* So for a row.
LEMMA ItemEdits ==
    ASSUME NEW x, NEW d, ItemOK(x, d), x.st \in RealStatus, NEW y,
           DOMAIN y = DOMAIN x, y.st \in RealStatus, y.arr = x.arr, y.prio = x.prio
    PROVE  ItemOK(y, d)
BY DEF ItemOK, RealStatus, Live

LEMMA PlainTurnInv ==
    ASSUME ArrInv, NEW t \in Slot, StartTurn(t) \/ Abandon(t) \/ DeliverFails(t)
    PROVE  ArrInv'
<1>1. TurnOK(turn[t], defs) /\ UNCHANGED <<defs, items, calls, late, half, cooling, drain>>
  BY DEF ArrInv, StoreInv, TurnsOK, StartTurn, Abandon, DeliverFails, storeVars,
         wakeVars, ghostVars
<1> DEFINE e == IF StartTurn(t) THEN [turn[t] EXCEPT !.pc = "pull"] ELSE Free
<1>2. Turn(t, e)
  BY DEF StartTurn, Abandon, DeliverFails, EndTurn
<1>3. \/ e = Free
      \/ /\ TurnOK(e, defs) /\ turn[t].pc # "free"
         /\ e.arr = turn[t].arr /\ e.who = turn[t].who
         /\ e.pc \notin {"complete", "woken"}
  <2>1. CASE StartTurn(t)
    <3>1. turn[t].pc # "free" /\ "pull" \in TurnPC \ {"free", "route"}
      BY <2>1 DEF StartTurn, At, TurnPC
    <3>2. e = [turn[t] EXCEPT !.pc = "pull"]
      BY <2>1
    <3> HIDE DEF e
    <3> QED BY <1>1, <3>1, <3>2, TurnGoesTo
  <2>2. CASE ~StartTurn(t)
    BY <2>2
  <2> QED BY <2>1, <2>2
<1> HIDE DEF e
<1>4. TurnsOK' /\ (\A u \in Slot : TurnMoves(u)) /\ WakeInv'
  BY <1>1, <1>2, <1>3, TurnGoesOn
<1>5. StoreInv'
  BY <1>1, <1>4, StoreKept DEF ArrInv
<1> QED BY <1>4, <1>5 DEF ArrInv

LEMMA SubmitInv ==
    ASSUME ArrInv, NEW t \in Slot, Submit(t)
    PROVE  ArrInv'
<1>1. /\ TurnOK(turn[t], defs) /\ turn[t].pc # "free"
      /\ UNCHANGED <<defs, items, calls, late, half, cooling, drain>>
  BY DEF ArrInv, StoreInv, TurnsOK, Submit, At, storeVars, wakeVars, ghostVars
<1>2. \/ EndTurn(t)
      \/ \E r, s : s \in RealStatus /\ SubmitTo(t, <<r, s>>)
  <2>1. /\ Forward(items[turn[t].item].role)[2] \in RealStatus
        /\ Back(items[turn[t].item].role)[2] \in RealStatus
    BY DEF Forward, Back, RealStatus, Live
  <2>2. "cancelled" \in RealStatus /\ "parked" \in RealStatus
    BY DEF RealStatus, Live
  <2>3. /\ Forward(items[turn[t].item].role) =
             <<Forward(items[turn[t].item].role)[1], Forward(items[turn[t].item].role)[2]>>
        /\ Back(items[turn[t].item].role) =
             <<Back(items[turn[t].item].role)[1], Back(items[turn[t].item].role)[2]>>
    BY DEF Forward, Back
  <2> QED BY <2>1, <2>2, <2>3, Zenon DEF Submit
<1>3. \E e : /\ Turn(t, e)
             /\ \/ e = Free
                \/ /\ TurnOK(e, defs) /\ turn[t].pc # "free"
                   /\ e.arr = turn[t].arr /\ e.who = turn[t].who
                   /\ e.pc \notin {"complete", "woken"}
  <2>1. CASE EndTurn(t)
    BY <2>1 DEF EndTurn
  <2>2. CASE \E r, s : s \in RealStatus /\ SubmitTo(t, <<r, s>>)
    <3>1. PICK r, s : s \in RealStatus /\ SubmitTo(t, <<r, s>>)
      BY <2>2
    <3> DEFINE e == [turn[t] EXCEPT !.pc = "route", !.role = r, !.st = s]
    <3>2. Turn(t, e)
      BY <3>1 DEF SubmitTo
    <3>3. TurnOK(e, defs) /\ e.pc = "route" /\ e.arr = turn[t].arr /\ e.who = turn[t].who
      BY <1>1, <3>1 DEF TurnOK, TurnFields, TurnPC
    <3> HIDE DEF e
    <3> QED BY <1>1, <3>2, <3>3
  <2> QED BY <1>2, <2>1, <2>2
<1>4. TurnsOK' /\ (\A u \in Slot : TurnMoves(u)) /\ WakeInv'
  BY <1>1, <1>3, TurnGoesOn
<1>5. StoreInv'
  BY <1>1, <1>4, StoreKept DEF ArrInv
<1> QED BY <1>4, <1>5 DEF ArrInv

\* One row changes its status and some other fields.
LEMMA OneItemMoves ==
    ASSUME ItemsOK, NEW i, NEW x, items' = [items EXCEPT ![i] = x],
           i \in Item =>
              /\ ItemOK(x, defs) /\ items[i].st \in Live /\ x.arr = items[i].arr
              /\ x.st \in Runnable => items[i].st \in Runnable
    PROVE  /\ items' = [j \in Item |-> items'[j]]
           /\ \A j \in Item : ItemMoves(j) /\ ItemOK(items'[j], defs)
<1>1. DOMAIN items = Item
  BY DEF ItemsOK
<1>2. /\ items' = [j \in Item |-> items'[j]]
      /\ \A j \in Item : items'[j] = IF j = i THEN x ELSE items[j]
  BY <1>1
<1>3. ASSUME NEW j \in Item PROVE ItemMoves(j) /\ ItemOK(items'[j], defs)
  <2>1. CASE j = i
    BY <1>2, <2>1 DEF ItemMoves
  <2>2. CASE j # i
    BY <1>2, <2>2 DEF ItemMoves, ItemsOK
  <2> QED BY <2>1, <2>2
<1> QED BY <1>2, <1>3

LEMMA PullInv ==
    ASSUME ArrInv, NEW t \in Slot, Pull(t)
    PROVE  ArrInv'
<1> DEFINE a == turn[t].arr
           r == turn[t].role
           i == Top(a, r)
<1>1. /\ TurnOK(turn[t], defs) /\ turn[t].pc # "free" /\ ItemsOK
      /\ UNCHANGED <<defs, calls, late, half, cooling, drain>>
  BY DEF ArrInv, StoreInv, TurnsOK, Pull, At, wakeVars, ghostVars
<1>2. CASE EndTurn(t) /\ UNCHANGED items
  <2>1. TurnsOK' /\ (\A u \in Slot : TurnMoves(u)) /\ WakeInv'
    BY <1>1, <1>2, TurnGoesOn DEF EndTurn
  <2>2. StoreInv'
    BY <1>1, <1>2, <2>1, StoreKept DEF ArrInv
  <2> QED BY <2>1, <2>2 DEF ArrInv
<1>3. CASE /\ Bucket(a, r, "queued") # {}
           /\ items' = [items EXCEPT ![i] =
                           [@ EXCEPT !.st = "in_flight", !.by = turn[t].who]]
           /\ Turn(t, [turn[t] EXCEPT !.pc = "work", !.item = i])
  <2>1. i \in Item /\ items[i].st = "queued"
    BY <1>1, <1>3, TopIsQueued DEF Bucket, Of
  <2> DEFINE x == [items[i] EXCEPT !.st = "in_flight", !.by = turn[t].who]
             e == [turn[t] EXCEPT !.pc = "work", !.item = i]
  <2>2. ItemOK(items[i], defs)
    BY <1>1, <2>1 DEF ItemsOK
  <2>3. items' = [items EXCEPT ![i] = x]
    BY <1>3
  <2>4. TurnOK(e, defs) /\ e.pc = "work" /\ e.arr = turn[t].arr /\ e.who = turn[t].who
    BY <1>1, TurnClaims
  <2>5. Turn(t, e)
    BY <1>3
  <2> HIDE DEF i, e
  <2>6. ItemOK(x, defs) /\ x.arr = items[i].arr
    <3>1. items[i].st \in RealStatus /\ "in_flight" \in RealStatus
      BY <2>1 DEF RealStatus, Live
    <3>2. DOMAIN x = DOMAIN items[i] /\ x.st = "in_flight" /\ x.arr = items[i].arr
          /\ x.prio = items[i].prio
      BY <2>2 DEF ItemOK, ItemFields
    <3> HIDE DEF x
    <3> QED BY <2>2, <3>1, <3>2, ItemEdits
  <2> HIDE DEF x
  <2>7. /\ items' = [j \in Item |-> items'[j]]
        /\ \A j \in Item : ItemMoves(j) /\ ItemOK(items'[j], defs)
    BY <1>1, <2>1, <2>3, <2>6, OneItemMoves DEF Live, Runnable
  <2>8. TurnsOK' /\ (\A u \in Slot : TurnMoves(u)) /\ WakeInv'
    BY <1>1, <2>4, <2>5, TurnGoesOn
  <2>9. StoreInv'
    BY <1>1, <2>7, <2>8, CallsStand, StoreMoves DEF ArrInv
  <2> QED BY <2>8, <2>9 DEF ArrInv
<1> QED BY <1>2, <1>3 DEF Pull

LEMMA RouteInv ==
    ASSUME ArrInv, NEW t \in Slot, RouteItem(t)
    PROVE  ArrInv'
<1> DEFINE i == turn[t].item
<1>1. /\ TurnOK(turn[t], defs) /\ turn[t].pc = "route" /\ ItemsOK
      /\ UNCHANGED <<defs, calls, late, half, cooling, drain>>
  BY DEF ArrInv, StoreInv, TurnsOK, RouteItem, At, wakeVars, ghostVars
<1>2. \E e : /\ Turn(t, e)
             /\ \/ e = Free
                \/ /\ TurnOK(e, defs) /\ turn[t].pc # "free"
                   /\ e.arr = turn[t].arr /\ e.who = turn[t].who
                   /\ e.pc \notin {"complete", "woken"}
  <2>1. CASE EndTurn(t)
    BY <2>1 DEF EndTurn
  <2>2. CASE Turn(t, [turn[t] EXCEPT !.pc = "deliver"])
    <3> DEFINE e == [turn[t] EXCEPT !.pc = "deliver"]
    <3>1. "deliver" \in TurnPC \ {"free", "route"}
      BY DEF TurnPC
    <3>2. TurnOK(e, defs) /\ e.pc = "deliver" /\ e.arr = turn[t].arr /\ e.who = turn[t].who
      BY <1>1, <3>1, TurnGoesTo
    <3> HIDE DEF e
    <3> QED BY <1>1, <2>2, <3>2 DEF e
  <2> QED BY <2>1, <2>2 DEF RouteItem
<1>3. TurnsOK' /\ (\A u \in Slot : TurnMoves(u)) /\ WakeInv'
  BY <1>1, <1>2, TurnGoesOn
<1>4. /\ items' = [j \in Item |-> items'[j]]
      /\ \A j \in Item : ItemMoves(j) /\ ItemOK(items'[j], defs)
  <2>1. CASE UNCHANGED items
    BY <1>1, <2>1 DEF ItemsOK, ItemMoves
  <2>2. CASE /\ MayRoute(t)
             /\ items' = [items EXCEPT ![i] =
                             [@ EXCEPT !.st = turn[t].st, !.role = turn[t].role,
                                       !.by = None, !.old = FALSE]]
    <3> DEFINE x == [items[i] EXCEPT !.st = turn[t].st, !.role = turn[t].role,
                                     !.by = None, !.old = FALSE]
    <3>1. items[i].st = "in_flight" /\ turn[t].st \in RealStatus
      BY <1>1, <2>2 DEF MayRoute, TurnOK
    <3>2. items' = [items EXCEPT ![i] = x]
      BY <2>2
    <3> HIDE DEF i
    <3>3. ASSUME i \in Item PROVE ItemOK(x, defs) /\ x.arr = items[i].arr
      <4>1. ItemOK(items[i], defs)
        BY <1>1, <3>3 DEF ItemsOK
      <4>2. items[i].st \in RealStatus
        BY <3>1 DEF RealStatus, Live
      <4>3. DOMAIN x = DOMAIN items[i] /\ x.st = turn[t].st /\ x.arr = items[i].arr
            /\ x.prio = items[i].prio
        BY <4>1 DEF ItemOK, ItemFields
      <4> HIDE DEF x
      <4> QED BY <3>1, <4>1, <4>2, <4>3, ItemEdits
    <3> HIDE DEF x
    <3> QED BY <1>1, <3>1, <3>2, <3>3, OneItemMoves DEF Live, Runnable
  <2> QED BY <2>1, <2>2 DEF RouteItem
<1>5. StoreInv'
  BY <1>1, <1>3, <1>4, CallsStand, StoreMoves DEF ArrInv
<1> QED BY <1>3, <1>5 DEF ArrInv

LEMMA DeliverInv ==
    ASSUME ArrInv, NEW t \in Slot, Deliver(t)
    PROVE  ArrInv'
<1> DEFINE a == turn[t].arr
           L == {i \in Of(a) : items[i].st \in Live}
<1>1. /\ TurnOK(turn[t], defs) /\ turn[t].pc # "free"
      /\ UNCHANGED <<defs, items, calls, late, half, cooling, drain>>
  BY DEF ArrInv, StoreInv, TurnsOK, Deliver, At, storeVars, wakeVars, ghostVars
<1>2. ASSUME CountLiveForDef(a) = 0 PROVE NothingLive(a)
  <2>1. IsFiniteSet(L)
    <3>1. IsFiniteSet(Item)
      BY FS_Interval, ItemsAreNumbers DEF Item
    <3>2. L \subseteq Item
      BY DEF Of
    <3> QED BY <3>1, <3>2, FS_Subset
  <2>2. Cardinality(L) = 0
    BY <1>2 DEF CountLiveForDef
  <2>3. L = {}
    <3> HIDE DEF L
    <3> QED BY <2>1, <2>2, FS_EmptySet
  <2> QED BY <2>3 DEF NothingLive, Of
<1>3. \E e : /\ Turn(t, e)
             /\ \/ e = Free
                \/ /\ TurnOK(e, defs) /\ turn[t].pc # "free"
                   /\ e.arr = turn[t].arr /\ e.who = turn[t].who
                   /\ e.pc # "woken" /\ (e.pc = "complete" => NothingLive(e.arr))
  <2>1. CASE EndTurn(t)
    BY <2>1 DEF EndTurn
  <2>2. CASE CountLiveForDef(a) = 0 /\ Turn(t, [turn[t] EXCEPT !.pc = "complete"])
    <3> DEFINE e == [turn[t] EXCEPT !.pc = "complete"]
    <3>1. "complete" \in TurnPC \ {"free", "route"}
      BY DEF TurnPC
    <3>2. TurnOK(e, defs) /\ e.pc = "complete" /\ e.arr = turn[t].arr /\ e.who = turn[t].who
      BY <1>1, <3>1, TurnGoesTo
    <3>3. Turn(t, e)
      BY <2>2
    <3> HIDE DEF e
    <3> QED BY <1>1, <1>2, <2>2, <3>2, <3>3
  <2> QED BY <2>1, <2>2 DEF Deliver
<1>4. TurnsOK' /\ (\A u \in Slot : TurnMoves(u)) /\ WakeInv'
  BY <1>1, <1>3, TurnGoesOn
<1>5. StoreInv'
  BY <1>1, <1>4, StoreKept DEF ArrInv
<1> QED BY <1>4, <1>5 DEF ArrInv

-----------------------------------------------------------------------------
(* Definitions and calls.                                                  *)

\* How a definition may change while the items stay: it begins, it goes, or it
\* closes with what may be left of it.
DefMoves(a) ==
    \/ defs'[a] = defs[a]
    \/ defs[a] = "none" /\ defs'[a] = "started"
    \/ defs'[a] = "gone"
    \/ /\ defs[a] = "started" /\ defs'[a] \in {"done", "cancelled"}
       /\ defs'[a] = "done" =>
             \A i \in Item \ late : items[i].arr = a => items[i].st \notin Live
       /\ defs'[a] = "cancelled" =>
             \/ \A i \in Item \ late : items[i].arr = a => items[i].st \notin Runnable
             \/ \E c \in calls' : c.op = "cancel" /\ c.arr = a

LEMMA DefsMove ==
    ASSUME StoreInv, UNCHANGED <<items, late>>, half \subseteq half',
           defs' = [a \in Arr |-> defs'[a]], \A a \in Arr : DefMoves(a), CallsMove,
           TurnsOK', \A t \in Slot : TurnMoves(t)
    PROVE  StoreInv'
<1>1. defs \in [Arr -> DefStatus]
  BY DEF StoreInv, ItemsOK
<1>2. /\ \A a \in Arr : defs'[a] \in DefStatus
      /\ \A a \in Arr : defs[a] # "none" => defs'[a] # "none"
  BY <1>1 DEF DefMoves, DefStatus
<1>3. ItemsOK'
  <2>1. defs' \in [Arr -> DefStatus]
    BY <1>2
  <2>2. ASSUME NEW i \in Item PROVE ItemOK(items'[i], defs')
    <3>1. ItemOK(items[i], defs)
      BY DEF StoreInv, ItemsOK
    <3> QED BY <1>2, <3>1 DEF ItemOK
  <2> QED BY <2>1, <2>2 DEF StoreInv, ItemsOK
<1>4. CallsOK'
  <2> SUFFICES ASSUME NEW c \in calls' PROVE CallOK(c)'
    BY DEF CallsOK
  <2>1. CASE c \in calls
    <3>1. CallOK(c)
      BY <2>1 DEF StoreInv, CallsOK
    <3> QED BY <1>2, <3>1 DEF CallOK
  <2>2. CASE c \notin calls
    BY <2>2 DEF CallsMove
  <2> QED BY <2>1, <2>2
<1>5. CompleteOK'
  <2> SUFFICES ASSUME NEW t \in Slot, turn'[t].pc = "complete",
                      NEW i \in Item \ late, items[i].arr = turn'[t].arr
               PROVE  items[i].st \notin Live
    BY DEF CompleteOK
  <2> QED BY DEF TurnMoves, NothingLive, StoreInv, CompleteOK
<1>6. ClosedIsSettled'
  <2> SUFFICES ASSUME NEW i \in Item \ late, items[i].arr # None
               PROVE  /\ defs'[items[i].arr] = "done" => items[i].st \notin Live
                      /\ defs'[items[i].arr] = "cancelled" /\ items[i].st \in Runnable =>
                            \/ items[i].arr \in half'
                            \/ \E c \in calls' : c.op = "cancel" /\ c.arr = items[i].arr
    BY DEF ClosedIsSettled
  <2>1. items[i].arr \in Arr
    BY DEF StoreInv, ItemsOK, ItemOK
  <2>2. CASE defs'[items[i].arr] = defs[items[i].arr]
    <3>1. /\ defs[items[i].arr] = "done" => items[i].st \notin Live
          /\ defs[items[i].arr] = "cancelled" /\ items[i].st \in Runnable =>
                \/ items[i].arr \in half
                \/ \E c \in calls : c.op = "cancel" /\ c.arr = items[i].arr
      BY DEF StoreInv, ClosedIsSettled
    <3> QED BY <2>2, <3>1 DEF CallsMove
  <2>3. CASE defs'[items[i].arr] # defs[items[i].arr]
    BY <2>1, <2>3 DEF DefMoves
  <2> QED BY <2>2, <2>3
<1> QED BY <1>3, <1>4, <1>5, <1>6 DEF StoreInv

LEMMA TurnsStand ==
    ASSUME UNCHANGED turn
    PROVE  \A t \in Slot : TurnMoves(t)
BY DEF TurnMoves

LEMMA CompleteDefInv ==
    ASSUME ArrInv, NEW t \in Slot, CompleteDef(t)
    PROVE  ArrInv'
<1> DEFINE a == turn[t].arr
<1>1. /\ StoreInv /\ TurnsOK /\ WakeInv /\ turn[t].pc = "complete" /\ Turn(t, Free)
      /\ UNCHANGED <<items, calls, late, half, cooling, drain>>
      /\ defs' = IF defs[a] = "started" THEN [defs EXCEPT ![a] = "done"] ELSE defs
  BY DEF ArrInv, StoreInv, CompleteDef, At, EndTurn, wakeVars, ghostVars
<1>2. a \in Arr /\ defs \in [Arr -> DefStatus]
  BY <1>1 DEF StoreInv, ItemsOK, TurnsOK, TurnOK
<1>3. /\ defs' = [b \in Arr |-> defs'[b]]
      /\ \A b \in Arr : \/ defs'[b] = defs[b]
                        \/ b = a /\ defs[b] = "started" /\ defs'[b] = "done"
  BY <1>1, <1>2
<1>4. ASSUME NEW b \in Arr PROVE DefMoves(b)
  <2>1. CASE defs'[b] = defs[b]
    BY <2>1 DEF DefMoves
  <2>2. CASE b = a /\ defs[b] = "started" /\ defs'[b] = "done"
    <3>1. \A i \in Item \ late : items[i].arr = b => items[i].st \notin Live
      BY <1>1, <2>2 DEF StoreInv, CompleteOK
    <3> QED BY <2>2, <3>1 DEF DefMoves
  <2> QED BY <1>3, <2>1, <2>2
<1>5. CallsMove
  BY <1>1 DEF CallsMove
<1>6. TurnsOK' /\ \A u \in Slot : turn'[u] = IF u = t THEN Free ELSE turn[u]
  <2>1. \A b \in Arr : defs[b] # "none" => defs'[b] # "none"
    BY <1>3
  <2> QED BY <1>1, <2>1, FreeIsTurn, TurnStepTypes
<1>7. \A u \in Slot : TurnMoves(u)
  BY <1>6 DEF TurnMoves, Free
<1>8. WakeInv'
  BY <1>1, <1>6, WakesKept DEF Free
<1>9. StoreInv'
  BY <1>1, <1>3, <1>4, <1>5, <1>6, <1>7, DefsMove
<1> QED BY <1>8, <1>9 DEF ArrInv

\* A step of definitions and calls alone.
LEMMA CallsOnly ==
    ASSUME ArrInv, UNCHANGED <<items, turn, cooling, drain, late>>, half \subseteq half',
           defs' = [a \in Arr |-> defs'[a]], \A a \in Arr : DefMoves(a), CallsMove
    PROVE  ArrInv'
<1>1. \A a \in Arr : defs[a] # "none" => defs'[a] # "none"
  BY DEF DefMoves
<1>2. TurnsOK'
  BY <1>1, TurnsKept DEF ArrInv, StoreInv
<1>3. StoreInv'
  BY <1>2, TurnsStand, DefsMove DEF ArrInv
<1>4. WakeInv'
  BY WakesSame DEF ArrInv
<1> QED BY <1>3, <1>4 DEF ArrInv

LEMMA DefsAre ==
    ASSUME ArrInv
    PROVE  defs \in [Arr -> DefStatus]
BY DEF ArrInv, StoreInv, ItemsOK

\* A call enters, goes on, or ends.
LEMMA CallEnters ==
    ASSUME NEW op \in CallOp, NEW a \in Arr, NEW r, NEW p \in 0 .. MaxPrio,
           NewCall(op, a, r, p), op # "define" => defs'[a] # "none"
    PROVE  /\ calls \subseteq calls' /\ \A c \in calls' \ calls : CallOK(c)'
           /\ \E c \in calls' : c.op = op /\ c.arr = a
<1>0. PICK k : calls' = calls \cup {[id |-> k, op |-> op, arr |-> a, role |-> r, prio |-> p]}
  BY Zenon DEF NewCall
<1> DEFINE c == [id |-> k, op |-> op, arr |-> a, role |-> r, prio |-> p]
<1>1. calls' = calls \cup {c}
  BY <1>0
<1>2. DOMAIN c = CallFields /\ c.op = op /\ c.arr = a /\ c.prio = p
  BY DEF CallFields
<1> HIDE DEF c
<1>3. CallOK(c)'
  BY <1>2 DEF CallOK
<1> QED BY <1>1, <1>2, <1>3

LEMMA CallProceeds ==
    ASSUME CallsOK, NEW c \in calls, NEW op \in CallOp, CallGoes(c, op),
           op # "define" => defs'[c.arr] # "none"
    PROVE  /\ \A d \in calls' \ calls : CallOK(d)'
           /\ \A d \in calls : d # c => d \in calls'
<1> DEFINE e == [c EXCEPT !.op = op]
<1>1. calls' = (calls \ {c}) \cup {e}
  BY DEF CallGoes
<1>2. CallOK(c)
  BY DEF CallsOK
<1>3. DOMAIN e = CallFields /\ e.op = op /\ e.arr = c.arr /\ e.prio = c.prio
  BY <1>2 DEF CallOK, CallFields
<1> HIDE DEF e
<1>4. CallOK(e)'
  BY <1>2, <1>3 DEF CallOK
<1> QED BY <1>1, <1>4

LEMMA DefineInv ==
    ASSUME ArrInv, NEW a \in Arr, Define(a)
    PROVE  ArrInv'
<1>1. /\ UNCHANGED <<items, turn, cooling, drain, late, defs>> /\ half \subseteq half'
      /\ NewCall("define", a, 1, 0)
  BY DEF Define, wakeVars, ghostVars, storeVars
<1>2. /\ defs' = [b \in Arr |-> defs'[b]] /\ \A b \in Arr : DefMoves(b)
  BY <1>1, DefsAre DEF DefMoves
<1>3. "define" \in CallOp /\ 0 \in 0 .. MaxPrio
  BY ItemsAreNumbers DEF CallOp
<1>4. CallsMove
  BY <1>1, <1>3, CallEnters DEF CallsMove
<1> QED BY <1>1, <1>2, <1>4, CallsOnly

LEMMA InsertDefInv ==
    ASSUME ArrInv, NEW c \in calls, InsertDef(c)
    PROVE  ArrInv'
<1>1. /\ UNCHANGED <<items, turn, cooling, drain, late>> /\ half \subseteq half'
      /\ c.op = "define" /\ defs[c.arr] = "none"
      /\ defs' = [defs EXCEPT ![c.arr] = "started"] /\ CallGoes(c, "kickoff")
  BY DEF InsertDef, Calling, wakeVars, ghostVars
<1>2. CallsOK /\ c.arr \in Arr
  BY DEF ArrInv, StoreInv, CallsOK, CallOK
<1>3. /\ defs' = [b \in Arr |-> defs'[b]]
      /\ \A b \in Arr : defs'[b] = IF b = c.arr THEN "started" ELSE defs[b]
  BY <1>1, DefsAre
<1>4. \A b \in Arr : DefMoves(b)
  BY <1>1, <1>3 DEF DefMoves
<1>5. "kickoff" \in CallOp /\ defs'[c.arr] # "none"
  BY <1>2, <1>3 DEF CallOp
<1>6. CallsMove
  BY <1>1, <1>2, <1>5, CallProceeds DEF CallsMove
<1> QED BY <1>1, <1>3, <1>4, <1>6, CallsOnly

LEMMA InjectInv ==
    ASSUME ArrInv, NEW a \in Arr, NEW r \in Role, NEW p \in 0 .. MaxPrio, Inject(a, r, p)
    PROVE  ArrInv'
<1>1. /\ UNCHANGED <<items, turn, cooling, drain, late, defs>> /\ half \subseteq half'
      /\ defs[a] = "started" /\ NewCall("inject", a, r, p)
  BY DEF Inject, wakeVars, ghostVars, storeVars
<1>2. /\ defs' = [b \in Arr |-> defs'[b]] /\ \A b \in Arr : DefMoves(b)
  BY <1>1, DefsAre DEF DefMoves
<1>3. "inject" \in CallOp /\ defs'[a] # "none"
  BY <1>1 DEF CallOp
<1>4. CallsMove
  BY <1>1, <1>3, CallEnters DEF CallsMove
<1> QED BY <1>1, <1>2, <1>4, CallsOnly

LEMMA CancelInv ==
    ASSUME ArrInv, NEW a \in Arr, Cancel(a)
    PROVE  ArrInv'
<1>1. /\ UNCHANGED <<items, turn, cooling, drain, late>> /\ half \subseteq half'
      /\ defs[a] \in {"started", "done", "cancelled"}
      /\ defs' = IF defs[a] = "started" THEN [defs EXCEPT ![a] = "cancelled"] ELSE defs
      /\ NewCall("cancel", a, 1, 0)
  BY DEF Cancel, CancelDef, wakeVars, ghostVars
<1>2. /\ defs' = [b \in Arr |-> defs'[b]]
      /\ \A b \in Arr : \/ defs'[b] = defs[b]
                        \/ b = a /\ defs[b] = "started" /\ defs'[b] = "cancelled"
  BY <1>1, DefsAre
<1>3. "cancel" \in CallOp /\ 0 \in 0 .. MaxPrio /\ defs'[a] # "none"
  BY <1>1, <1>2, ItemsAreNumbers DEF CallOp
<1>4. /\ calls \subseteq calls' /\ \A c \in calls' \ calls : CallOK(c)'
      /\ \E c \in calls' : c.op = "cancel" /\ c.arr = a
  BY <1>1, <1>3, CallEnters
<1>5. \A b \in Arr : DefMoves(b)
  BY <1>2, <1>4 DEF DefMoves
<1>6. CallsMove
  BY <1>4 DEF CallsMove
<1> QED BY <1>1, <1>2, <1>5, <1>6, CallsOnly

\* The call ends without having done anything more, or goes to its rollback.
LEMMA CallFailsInv ==
    ASSUME ArrInv, NEW c \in calls, InsertFails(c) \/ KickoffFails(c) \/ RollbackFails(c)
    PROVE  ArrInv'
<1>1. /\ UNCHANGED <<items, turn, cooling, drain, late, defs>> /\ half \subseteq half'
      /\ c.op \in {"define", "inject", "kickoff", "rollback", "delete"}
      /\ CallEnds(c) \/ (c.op = "kickoff" /\ CallGoes(c, "rollback"))
  BY DEF InsertFails, KickoffFails, RollbackFails, Calling, wakeVars, ghostVars, storeVars
<1>2. CallsOK /\ CallOK(c)
  BY DEF ArrInv, StoreInv, CallsOK
<1>3. /\ defs' = [b \in Arr |-> defs'[b]] /\ \A b \in Arr : DefMoves(b)
  BY <1>1, DefsAre DEF DefMoves
<1>4. CASE CallEnds(c)
  <2>1. CallsMove
    BY <1>1, <1>4 DEF CallsMove, CallEnds
  <2> QED BY <1>1, <1>3, <2>1, CallsOnly
<1>5. CASE c.op = "kickoff" /\ CallGoes(c, "rollback")
  <2>1. "rollback" \in CallOp /\ defs'[c.arr] # "none"
    BY <1>1, <1>2, <1>5 DEF CallOp, CallOK
  <2>2. CallsMove
    BY <1>2, <1>5, <2>1, CallProceeds DEF CallsMove
  <2> QED BY <1>1, <1>3, <2>2, CallsOnly
<1> QED BY <1>1, <1>4, <1>5

LEMMA DeleteDefInv ==
    ASSUME ArrInv, NEW c \in calls, DeleteDef(c)
    PROVE  ArrInv'
<1>1. /\ UNCHANGED <<items, turn, cooling, drain, late>> /\ half \subseteq half'
      /\ c.op = "delete" /\ calls' = calls \ {c}
      /\ defs' = [defs EXCEPT ![c.arr] = "gone"]
  BY DEF DeleteDef, Calling, CallEnds, wakeVars, ghostVars
<1>2. /\ defs' = [b \in Arr |-> defs'[b]]
      /\ \A b \in Arr : defs'[b] = defs[b] \/ defs'[b] = "gone"
  BY <1>1, DefsAre
<1>3. \A b \in Arr : DefMoves(b)
  BY <1>2 DEF DefMoves
<1>4. CallsMove
  BY <1>1 DEF CallsMove
<1> QED BY <1>1, <1>2, <1>3, <1>4, CallsOnly

LEMMA CancelFailsInv ==
    ASSUME ArrInv, NEW c \in calls, CancelFails(c)
    PROVE  ArrInv'
<1>1. /\ UNCHANGED <<items, turn, cooling, drain, late, defs>> /\ half' = half \cup {c.arr}
      /\ calls' = calls \ {c}
  BY DEF CancelFails, CallEnds, wakeVars, storeVars
<1>2. /\ defs' = [b \in Arr |-> defs'[b]] /\ \A b \in Arr : DefMoves(b)
  BY <1>1, DefsAre DEF DefMoves
<1>3. CallsMove
  BY <1>1 DEF CallsMove
<1> QED BY <1>1, <1>2, <1>3, CallsOnly

LEMMA CloseStalledInv ==
    ASSUME ArrInv, NEW a \in Arr, CloseStalledDefs(a)
    PROVE  ArrInv'
<1>1. /\ UNCHANGED <<items, turn, cooling, drain, late, calls>> /\ half \subseteq half'
      /\ defs[a] = "started" /\ defs' = [defs EXCEPT ![a] = "cancelled"]
      /\ \A c \in calls : c.arr # a
      /\ \A i \in Item : items[i].arr = a => items[i].st \notin Runnable
  BY DEF CloseStalledDefs, Calm, Of, wakeVars, ghostVars
<1>2. /\ defs' = [b \in Arr |-> defs'[b]]
      /\ \A b \in Arr : defs'[b] = IF b = a THEN "cancelled" ELSE defs[b]
  BY <1>1, DefsAre
<1>3. \A b \in Arr : DefMoves(b)
  BY <1>1, <1>2 DEF DefMoves
<1>4. CallsMove
  BY <1>1 DEF CallsMove
<1> QED BY <1>1, <1>2, <1>3, <1>4, CallsOnly

-----------------------------------------------------------------------------
(* Items added, parked, requeued and pruned.                               *)

\* A call inserts its item; one that comes behind a closing is late.
LEMMA InsertInv ==
    ASSUME ArrInv, NEW c \in calls, c.op \in {"kickoff", "inject"}, calls' = calls \ {c},
           InsertItem(c.arr, c.role, c.prio),
           UNCHANGED <<defs, turn, cooling, drain, half>>, late \subseteq late',
           Closing(c.arr) => Min(Unborn) \in late'
    PROVE  ArrInv'
<1> DEFINE m == Min(Unborn)
           x == [NoItem EXCEPT !.st = "queued", !.arr = c.arr, !.role = c.role,
                               !.prio = c.prio]
<1>1. m \in Item /\ items[m].st = "none" /\ items' = [items EXCEPT ![m] = x]
  <2>1. Unborn # {} /\ items' = [items EXCEPT ![m] = x]
    BY DEF InsertItem
  <2>2. m \in Unborn
    BY <2>1, MinIsUnborn
  <2> QED BY <2>1, <2>2 DEF Unborn
<1>2. CallOK(c) /\ c.arr \in Arr /\ defs[c.arr] # "none" /\ c.prio \in 0 .. MaxPrio
  BY DEF ArrInv, StoreInv, CallsOK, CallOK
<1>3. ItemOK(x, defs) /\ x.arr = c.arr
  <2>1. DOMAIN x = ItemFields /\ x.st = "queued" /\ x.arr = c.arr /\ x.prio = c.prio
    BY DEF NoItem, ItemFields
  <2> HIDE DEF x
  <2> QED BY <1>2, <2>1 DEF ItemOK, RealStatus, Live
<1> HIDE DEF m, x
<1>4. /\ items' = [i \in Item |-> items'[i]]
      /\ \A i \in Item : items'[i] = IF i = m THEN x ELSE items[i]
  BY <1>1 DEF ArrInv, StoreInv, ItemsOK
<1>5. ItemsOK'
  BY <1>3, <1>4 DEF ArrInv, StoreInv, ItemsOK
<1>6. TurnsOK'
  BY TurnsKept DEF ArrInv, StoreInv
<1>7. CallsOK'
  BY DEF ArrInv, StoreInv, CallsOK, CallOK
<1>8. \/ m \in late'
      \/ /\ defs[c.arr] = "started"
         /\ \A t \in Slot : turn[t].pc = "complete" => turn[t].arr # c.arr
  BY DEF Closing, m
<1>9. CompleteOK'
  <2> SUFFICES ASSUME NEW t \in Slot, turn[t].pc = "complete",
                      NEW i \in Item \ late', items'[i].arr = turn[t].arr
               PROVE  items'[i].st \notin Live
    BY DEF CompleteOK
  <2>1. i # m
    BY <1>3, <1>4, <1>8
  <2> QED BY <1>4, <2>1 DEF ArrInv, StoreInv, CompleteOK
<1>10. ClosedIsSettled'
  <2> SUFFICES ASSUME NEW i \in Item \ late', items'[i].arr # None
               PROVE  /\ defs[items'[i].arr] = "done" => items'[i].st \notin Live
                      /\ defs[items'[i].arr] = "cancelled" /\ items'[i].st \in Runnable =>
                            \/ items'[i].arr \in half
                            \/ \E d \in calls' : d.op = "cancel" /\ d.arr = items'[i].arr
    BY DEF ClosedIsSettled
  <2>1. CASE i = m
    BY <1>3, <1>4, <1>8, <2>1
  <2>2. CASE i # m
    <3>1. items'[i] = items[i] /\ i \in Item \ late
      BY <1>4, <2>2
    <3>2. /\ defs[items[i].arr] = "done" => items[i].st \notin Live
          /\ defs[items[i].arr] = "cancelled" /\ items[i].st \in Runnable =>
                \/ items[i].arr \in half
                \/ \E d \in calls : d.op = "cancel" /\ d.arr = items[i].arr
      BY <3>1 DEF ArrInv, StoreInv, ClosedIsSettled
    <3>3. \A d \in calls : d.op = "cancel" => d \in calls'
      OBVIOUS
    <3> QED BY <3>1, <3>2, <3>3
  <2> QED BY <2>1, <2>2
<1>11. WakeInv'
  BY WakesSame DEF ArrInv
<1> QED BY <1>5, <1>6, <1>7, <1>9, <1>10, <1>11 DEF ArrInv, StoreInv

LEMMA CallInsertsInv ==
    ASSUME ArrInv, NEW c \in calls, Kickoff(c) \/ InjectItem(c)
    PROVE  ArrInv'
<1>1. /\ c.op \in {"kickoff", "inject"} /\ calls' = calls \ {c}
      /\ InsertItem(c.arr, c.role, c.prio)
      /\ UNCHANGED <<defs, turn, cooling, drain, half>>
      /\ late' = IF Closing(c.arr) THEN late \cup {Min(Unborn)} ELSE late
  BY DEF Kickoff, InjectItem, CallInserts, Calling, CallEnds, wakeVars
<1>2. late \subseteq late' /\ (Closing(c.arr) => Min(Unborn) \in late')
  BY <1>1
<1> QED BY <1>1, <1>2, InsertInv

LEMMA CancelLiveInv ==
    ASSUME ArrInv, NEW c \in calls, CancelLive(c)
    PROVE  ArrInv'
<1>1. /\ c.op = "cancel" /\ calls' = calls \ {c} /\ half' = half \ {c.arr}
      /\ UNCHANGED <<defs, turn, cooling, drain, late>>
      /\ items' = [i \in Item |-> IF items[i].arr = c.arr /\ Cancels(i)
                                  THEN [items[i] EXCEPT !.st = "cancelled"]
                                  ELSE items[i]]
  BY DEF CancelLive, Calling, CallEnds, wakeVars
<1>2. /\ items' = [i \in Item |-> items'[i]]
      /\ \A i \in Item : \/ items'[i] = items[i] /\ ~(items[i].arr = c.arr /\ Cancels(i))
                         \/ /\ items[i].st \in Runnable /\ items[i].arr = c.arr
                            /\ items'[i] = [items[i] EXCEPT !.st = "cancelled"]
  BY <1>1 DEF Cancels
<1>3. ASSUME NEW i \in Item
      PROVE  /\ ItemOK(items'[i], defs) /\ items'[i].arr = items[i].arr
             /\ \/ items'[i] = items[i] /\ ~(items[i].arr = c.arr /\ Cancels(i))
                \/ items'[i].st = "cancelled"
  <2>1. ItemOK(items[i], defs)
    BY DEF ArrInv, StoreInv, ItemsOK
  <2>2. CASE items'[i] = items[i] /\ ~(items[i].arr = c.arr /\ Cancels(i))
    BY <2>1, <2>2
  <2>3. CASE /\ items[i].st \in Runnable /\ items[i].arr = c.arr
             /\ items'[i] = [items[i] EXCEPT !.st = "cancelled"]
    <3>1. items[i].st \in RealStatus /\ "cancelled" \in RealStatus
      BY <2>3 DEF Runnable, RealStatus, Live
    <3>2. /\ DOMAIN items'[i] = DOMAIN items[i] /\ items'[i].st = "cancelled"
          /\ items'[i].arr = items[i].arr /\ items'[i].prio = items[i].prio
      BY <2>1, <2>3 DEF ItemOK, ItemFields
    <3> QED BY <2>1, <3>1, <3>2, ItemEdits
  <2> QED BY <1>2, <2>2, <2>3
<1>4. ItemsOK'
  BY <1>1, <1>2, <1>3 DEF ArrInv, StoreInv, ItemsOK
<1>5. TurnsOK'
  BY <1>1, TurnsKept DEF ArrInv, StoreInv
<1>6. CallsOK'
  <2> SUFFICES ASSUME NEW d \in calls, d # c PROVE CallOK(d)'
    BY <1>1 DEF CallsOK
  <2>1. CallOK(d)
    BY DEF ArrInv, StoreInv, CallsOK
  <2> QED BY <1>1, <2>1 DEF CallOK
<1>7. CompleteOK'
  <2> SUFFICES ASSUME NEW t \in Slot, turn[t].pc = "complete",
                      NEW i \in Item \ late, items'[i].arr = turn[t].arr
               PROVE  items'[i].st \notin Live
    BY <1>1 DEF CompleteOK
  <2>1. items[i].st \notin Live
    BY <1>3 DEF ArrInv, StoreInv, CompleteOK
  <2> QED BY <1>3, <2>1 DEF Live
<1>8. ClosedIsSettled'
  <2> SUFFICES ASSUME NEW i \in Item \ late, items'[i].arr # None
               PROVE  /\ defs[items'[i].arr] = "done" => items'[i].st \notin Live
                      /\ defs[items'[i].arr] = "cancelled" /\ items'[i].st \in Runnable =>
                            \/ items'[i].arr \in half'
                            \/ \E d \in calls' : d.op = "cancel" /\ d.arr = items'[i].arr
    BY <1>1 DEF ClosedIsSettled
  <2>1. /\ defs[items[i].arr] = "done" => items[i].st \notin Live
        /\ defs[items[i].arr] = "cancelled" /\ items[i].st \in Runnable =>
              \/ items[i].arr \in half
              \/ \E d \in calls : d.op = "cancel" /\ d.arr = items[i].arr
    BY <1>3 DEF ArrInv, StoreInv, ClosedIsSettled
  <2>2. CASE items'[i].st = "cancelled"
    BY <2>2 DEF Live, Runnable
  <2>3. CASE items'[i] = items[i] /\ ~(items[i].arr = c.arr /\ Cancels(i))
    <3>1. items[i].st \in Runnable => items[i].arr # c.arr
      BY <2>3 DEF Cancels
    <3>2. \A d \in calls : d.arr # c.arr => d \in calls'
      BY <1>1
    <3> QED BY <1>1, <2>1, <2>3, <3>1, <3>2
  <2> QED BY <1>3, <2>2, <2>3
<1>9. WakeInv'
  BY <1>1, WakesSame DEF ArrInv
<1> QED BY <1>4, <1>5, <1>6, <1>7, <1>8, <1>9 DEF ArrInv, StoreInv

\* The rows of some buckets change their status.
LEMMA RestatusItems ==
    ASSUME ItemsOK, NEW bs, NEW s \in Live, NEW n \in Live, items' = Restatus(bs, s, n)
    PROVE  /\ items' = [i \in Item |-> items'[i]]
           /\ \A i \in Item :
                 /\ ItemOK(items'[i], defs) /\ items'[i].arr = items[i].arr
                 /\ \/ items'[i] = items[i]
                    \/ /\ items[i].st = s /\ <<items[i].arr, items[i].role>> \in bs
                       /\ items'[i].st = n
<1>1. /\ items' = [i \in Item |-> items'[i]]
      /\ \A i \in Item : \/ items'[i] = items[i]
                         \/ /\ items[i].st = s /\ <<items[i].arr, items[i].role>> \in bs
                            /\ items'[i] = [items[i] EXCEPT !.st = n]
  BY DEF Restatus
<1>2. ASSUME NEW i \in Item
      PROVE  /\ ItemOK(items'[i], defs) /\ items'[i].arr = items[i].arr
             /\ \/ items'[i] = items[i]
                \/ /\ items[i].st = s /\ <<items[i].arr, items[i].role>> \in bs
                   /\ items'[i].st = n
  <2>1. ItemOK(items[i], defs)
    BY DEF ItemsOK
  <2>2. CASE items'[i] = items[i]
    BY <2>1, <2>2
  <2>3. CASE /\ items[i].st = s /\ <<items[i].arr, items[i].role>> \in bs
             /\ items'[i] = [items[i] EXCEPT !.st = n]
    <3>1. items[i].st \in RealStatus /\ n \in RealStatus
      BY <2>3 DEF RealStatus
    <3>2. /\ DOMAIN items'[i] = DOMAIN items[i] /\ items'[i].st = n
          /\ items'[i].arr = items[i].arr /\ items'[i].prio = items[i].prio
      BY <2>1, <2>3 DEF ItemOK, ItemFields
    <3> QED BY <2>1, <2>3, <3>1, <3>2, ItemEdits
  <2> QED BY <1>1, <2>2, <2>3
<1> QED BY <1>1, <1>2

\* A step that only moves rows.
LEMMA RowsOnly ==
    ASSUME ArrInv, UNCHANGED <<defs, calls, late, half, turn, cooling, drain>>,
           items' = [i \in Item |-> items'[i]],
           \A i \in Item : ItemMoves(i) /\ ItemOK(items'[i], defs)
    PROVE  ArrInv'
<1>1. TurnsOK'
  BY TurnsKept DEF ArrInv, StoreInv
<1>2. StoreInv'
  BY <1>1, TurnsStand, CallsStand, StoreMoves DEF ArrInv
<1>3. WakeInv'
  BY WakesSame DEF ArrInv
<1> QED BY <1>2, <1>3 DEF ArrInv

LEMMA ServeInv ==
    ASSUME ArrInv, ServeBuckets
    PROVE  ArrInv'
<1>1. PICK bs : items' = Restatus(bs, "queued", "unmet")
  BY Zenon DEF ServeBuckets
<1>2. UNCHANGED <<defs, calls, late, half, turn, cooling, drain>>
  BY DEF ServeBuckets, ghostVars
<1>3. /\ items' = [i \in Item |-> items'[i]]
      /\ \A i \in Item :
            /\ ItemOK(items'[i], defs) /\ items'[i].arr = items[i].arr
            /\ \/ items'[i] = items[i]
               \/ items[i].st = "queued" /\ items'[i].st = "unmet"
  <2>1. "queued" \in Live /\ "unmet" \in Live
    BY DEF Live
  <2> QED BY <1>1, <2>1, RestatusItems DEF ArrInv, StoreInv
<1>4. \A i \in Item : ItemMoves(i)
  BY <1>3 DEF ItemMoves, Live, Runnable
<1> QED BY <1>2, <1>3, <1>4, RowsOnly

LEMMA RequeueUnmetInv ==
    ASSUME ArrInv, RequeueUnmet
    PROVE  ArrInv'
<1>1. /\ items' = Restatus(Heals, "unmet", "queued")
      /\ late' = late \cup {i \in Item : /\ items[i].st = "unmet"
                                         /\ <<items[i].arr, items[i].role>> \in Heals
                                         /\ Closing(items[i].arr)}
      /\ UNCHANGED <<defs, calls, half, turn, cooling, drain>>
  BY DEF RequeueUnmet, wakeVars
<1>2. /\ items' = [i \in Item |-> items'[i]]
      /\ \A i \in Item :
            /\ ItemOK(items'[i], defs) /\ items'[i].arr = items[i].arr
            /\ \/ items'[i] = items[i]
               \/ /\ items[i].st = "unmet" /\ <<items[i].arr, items[i].role>> \in Heals
                  /\ items'[i].st = "queued"
  <2>1. "queued" \in Live /\ "unmet" \in Live
    BY DEF Live
  <2> QED BY <1>1, <2>1, RestatusItems DEF ArrInv, StoreInv
<1>3. \A i \in Item \ late' : i \notin late /\ (items'[i] = items[i] \/ ~Closing(items[i].arr))
  BY <1>1, <1>2
<1>4. ItemsOK'
  BY <1>1, <1>2 DEF ArrInv, StoreInv, ItemsOK
<1>5. TurnsOK'
  BY <1>1, TurnsKept DEF ArrInv, StoreInv
<1>6. CallsOK'
  <2> SUFFICES ASSUME NEW d \in calls PROVE CallOK(d)'
    BY <1>1 DEF CallsOK
  <2>1. CallOK(d)
    BY DEF ArrInv, StoreInv, CallsOK
  <2> QED BY <1>1, <2>1 DEF CallOK
<1>7. CompleteOK'
  <2> SUFFICES ASSUME NEW t \in Slot, turn[t].pc = "complete",
                      NEW i \in Item \ late', items'[i].arr = turn[t].arr
               PROVE  items'[i].st \notin Live
    BY <1>1 DEF CompleteOK
  <2>1. items'[i] = items[i] /\ i \notin late
    BY <1>2, <1>3 DEF Closing
  <2> QED BY <2>1 DEF ArrInv, StoreInv, CompleteOK
<1>8. ClosedIsSettled'
  <2> SUFFICES ASSUME NEW i \in Item \ late', items'[i].arr # None
               PROVE  /\ defs[items'[i].arr] = "done" => items'[i].st \notin Live
                      /\ defs[items'[i].arr] = "cancelled" /\ items'[i].st \in Runnable =>
                            \/ items'[i].arr \in half
                            \/ \E d \in calls : d.op = "cancel" /\ d.arr = items'[i].arr
    BY <1>1 DEF ClosedIsSettled
  <2>1. CASE items'[i] = items[i]
    BY <1>3, <2>1 DEF ArrInv, StoreInv, ClosedIsSettled
  <2>2. CASE ~Closing(items[i].arr)
    BY <1>2, <2>2 DEF Closing
  <2> QED BY <1>3, <2>1, <2>2
<1>9. WakeInv'
  BY <1>1, WakesSame DEF ArrInv
<1> QED BY <1>4, <1>5, <1>6, <1>7, <1>8, <1>9 DEF ArrInv, StoreInv

LEMMA RequeueInFlightInv ==
    ASSUME ArrInv, NEW x, RequeueInFlight(x)
    PROVE  ArrInv'
<1> DEFINE i == x[1]
           y == [items[i] EXCEPT !.st = "queued", !.by = None, !.old = FALSE]
<1>1. /\ UNCHANGED <<defs, calls, late, half, turn, cooling, drain>>
      /\ items' = items \/ (items[i].st = "in_flight" /\ items' = [items EXCEPT ![i] = y])
  BY DEF RequeueInFlight, Requeues, wakeVars, ghostVars
<1>2. ItemsOK
  BY DEF ArrInv, StoreInv
<1>3. /\ items' = [j \in Item |-> items'[j]]
      /\ \A j \in Item : ItemMoves(j) /\ ItemOK(items'[j], defs)
  <2>1. CASE items' = items
    BY <1>2, <2>1 DEF ItemsOK, ItemMoves
  <2>2. CASE items[i].st = "in_flight" /\ items' = [items EXCEPT ![i] = y]
    <3> HIDE DEF i
    <3>1. ASSUME i \in Item
          PROVE  ItemOK(y, defs) /\ y.st = "queued" /\ y.arr = items[i].arr
      <4>1. ItemOK(items[i], defs)
        BY <1>2, <3>1 DEF ItemsOK
      <4>2. items[i].st \in RealStatus /\ "queued" \in RealStatus
        BY <2>2 DEF RealStatus, Live
      <4>3. /\ DOMAIN y = DOMAIN items[i] /\ y.st = "queued" /\ y.arr = items[i].arr
            /\ y.prio = items[i].prio
        BY <4>1 DEF ItemOK, ItemFields
      <4> HIDE DEF y
      <4> QED BY <4>1, <4>2, <4>3, ItemEdits
    <3> HIDE DEF y
    <3> QED BY <1>2, <2>2, <3>1, OneItemMoves DEF Live, Runnable
  <2> QED BY <1>1, <2>1, <2>2
<1> QED BY <1>1, <1>3, RowsOnly

LEMMA ExpireInv ==
    ASSUME ArrInv, NEW i \in Item, Expire(i)
    PROVE  ArrInv'
<1> DEFINE y == [items[i] EXCEPT !.old = TRUE]
<1>1. /\ UNCHANGED <<defs, calls, late, half, turn, cooling, drain>>
      /\ items[i].st = "in_flight" /\ items' = [items EXCEPT ![i] = y]
  BY DEF Expire, wakeVars, ghostVars
<1>2. ItemsOK /\ ItemOK(items[i], defs)
  BY DEF ArrInv, StoreInv, ItemsOK
<1>3. ItemOK(y, defs) /\ y.st = "in_flight" /\ y.arr = items[i].arr
  <2>1. items[i].st \in RealStatus
    BY <1>1 DEF RealStatus, Live
  <2>2. /\ DOMAIN y = DOMAIN items[i] /\ y.st = items[i].st /\ y.arr = items[i].arr
        /\ y.prio = items[i].prio
    BY <1>2 DEF ItemOK, ItemFields
  <2> HIDE DEF y
  <2> QED BY <1>1, <1>2, <2>1, <2>2, ItemEdits
<1> HIDE DEF y
<1>4. /\ items' = [j \in Item |-> items'[j]]
      /\ \A j \in Item : ItemMoves(j) /\ ItemOK(items'[j], defs)
  BY <1>1, <1>2, <1>3, OneItemMoves DEF Live, Runnable
<1> QED BY <1>1, <1>4, RowsOnly

\* A pruned row.
LEMMA GoneIsItem ==
    /\ \A d : ItemOK(Gone, d)
    /\ Gone.st = "gone" /\ Gone.arr = None
<1>1. 0 \in 0 .. MaxPrio
  BY ItemsAreNumbers
<1> QED BY <1>1 DEF Gone, NoItem, ItemOK, ItemFields

LEMMA PruneTerminalInv ==
    ASSUME ArrInv, NEW i \in Item, PruneTerminal(i)
    PROVE  ArrInv'
<1>1. /\ UNCHANGED <<defs, calls, late, half, turn, cooling, drain>>
      /\ items' = [items EXCEPT ![i] = Gone]
  BY DEF PruneTerminal, wakeVars, ghostVars
<1>2. ItemOK(Gone, defs) /\ Gone.st = "gone" /\ Gone.arr = None
  BY GoneIsItem
<1>3. /\ items' = [j \in Item |-> items'[j]]
      /\ \A j \in Item : items'[j] = IF j = i THEN Gone ELSE items[j]
  BY <1>1 DEF ArrInv, StoreInv, ItemsOK
<1>4. \A j \in Item : ItemMoves(j) /\ ItemOK(items'[j], defs)
  BY <1>2, <1>3 DEF ItemMoves, ArrInv, StoreInv, ItemsOK
<1> QED BY <1>1, <1>3, <1>4, RowsOnly

LEMMA PruneDefsInv ==
    ASSUME ArrInv, NEW a \in Arr, PruneTerminalDefs(a)
    PROVE  ArrInv'
<1>1. /\ defs' = [defs EXCEPT ![a] = "gone"]
      /\ items' = [i \in Item |-> IF i \in Of(a) THEN Gone ELSE items[i]]
      /\ UNCHANGED <<calls, late, half, turn, cooling, drain>>
      /\ \A c \in calls : c.arr # a
      /\ \A t \in Slot : turn[t].arr # a
  BY DEF PruneTerminalDefs, Calm, wakeVars, ghostVars
<1>2. \A d : ItemOK(Gone, d) /\ Gone.st = "gone" /\ Gone.arr = None
  BY GoneIsItem
<1>3. /\ defs' \in [Arr -> DefStatus]
      /\ \A b \in Arr : defs'[b] = IF b = a THEN "gone" ELSE defs[b]
  BY <1>1, DefsAre DEF DefStatus
<1>4. /\ items' = [i \in Item |-> items'[i]]
      /\ \A i \in Item : \/ items'[i] = Gone
                         \/ items'[i] = items[i] /\ items[i].arr # a
  BY <1>1 DEF Of
<1>5. ItemsOK'
  <2>1. ASSUME NEW i \in Item PROVE ItemOK(items'[i], defs')
    <3>1. CASE items'[i] = Gone
      BY <1>2, <3>1
    <3>2. CASE items'[i] = items[i] /\ items[i].arr # a
      <4>1. ItemOK(items[i], defs)
        BY DEF ArrInv, StoreInv, ItemsOK
      <4> QED BY <1>3, <3>2, <4>1 DEF ItemOK
    <3> QED BY <1>4, <3>1, <3>2
  <2> QED BY <1>3, <1>4, <2>1 DEF ItemsOK
<1>6. TurnsOK'
  BY <1>1, <1>3, TurnsKept DEF ArrInv, StoreInv
<1>7. CallsOK'
  <2> SUFFICES ASSUME NEW c \in calls PROVE CallOK(c)'
    BY <1>1 DEF CallsOK
  <2>1. CallOK(c) /\ c.arr # a
    BY <1>1 DEF ArrInv, StoreInv, CallsOK
  <2>2. c.arr \in Arr /\ c.arr # None /\ defs'[c.arr] = defs[c.arr]
    BY <1>3, <2>1, ArrangementAssumption DEF CallOK
  <2> QED BY <1>1, <2>1, <2>2 DEF CallOK
<1>8. CompleteOK'
  <2> SUFFICES ASSUME NEW t \in Slot, turn[t].pc = "complete",
                      NEW i \in Item \ late, items'[i].arr = turn[t].arr
               PROVE  items'[i].st \notin Live
    BY <1>1 DEF CompleteOK
  <2>1. CASE items'[i] = Gone
    BY <1>2, <2>1 DEF Live
  <2>2. CASE items'[i] = items[i]
    BY <2>2 DEF ArrInv, StoreInv, CompleteOK
  <2> QED BY <1>4, <2>1, <2>2
<1>9. ClosedIsSettled'
  <2> SUFFICES ASSUME NEW i \in Item \ late, items'[i].arr # None
               PROVE  /\ defs'[items'[i].arr] = "done" => items'[i].st \notin Live
                      /\ defs'[items'[i].arr] = "cancelled" /\ items'[i].st \in Runnable =>
                            \/ items'[i].arr \in half
                            \/ \E c \in calls : c.op = "cancel" /\ c.arr = items'[i].arr
    BY <1>1 DEF ClosedIsSettled
  <2>1. items'[i] = items[i] /\ items[i].arr # a
    BY <1>2, <1>4
  <2>2. items[i].arr \in Arr
    BY <2>1 DEF ArrInv, StoreInv, ItemsOK, ItemOK
  <2>3. defs'[items'[i].arr] = defs[items[i].arr]
    BY <1>3, <2>1, <2>2
  <2> QED BY <2>1, <2>3 DEF ArrInv, StoreInv, ClosedIsSettled
<1>10. WakeInv'
  BY <1>1, WakesSame DEF ArrInv
<1> QED BY <1>5, <1>6, <1>7, <1>8, <1>9, <1>10 DEF ArrInv, StoreInv

\* The rollback of Define deletes whatever items the definition has.
LEMMA DeleteItemsInv ==
    ASSUME ArrInv, NEW c \in calls, DeleteItems(c)
    PROVE  ArrInv'
<1>1. /\ UNCHANGED <<defs, late, half, turn, cooling, drain>>
      /\ c.op = "rollback" /\ CallGoes(c, "delete")
      /\ items' = [i \in Item |-> IF i \in Of(c.arr) THEN Gone ELSE items[i]]
  BY DEF DeleteItems, Calling, wakeVars, ghostVars
<1>2. /\ items' = [i \in Item |-> items'[i]]
      /\ \A i \in Item : items'[i] = Gone \/ items'[i] = items[i]
  BY <1>1
<1>3. \A i \in Item : ItemMoves(i) /\ ItemOK(items'[i], defs)
  BY <1>2, GoneIsItem DEF ItemMoves, ArrInv, StoreInv, ItemsOK
<1>4. CallsMove
  <2>1. CallsOK /\ CallOK(c)
    BY DEF ArrInv, StoreInv, CallsOK
  <2>2. "delete" \in CallOp /\ defs'[c.arr] # "none"
    BY <1>1, <2>1 DEF CallOp, CallOK
  <2> QED BY <1>1, <2>1, <2>2, CallProceeds DEF CallsMove
<1>5. TurnsOK'
  BY <1>1, TurnsKept DEF ArrInv, StoreInv
<1>6. StoreInv'
  BY <1>1, <1>2, <1>3, <1>4, <1>5, TurnsStand, StoreMoves DEF ArrInv
<1>7. WakeInv'
  BY <1>1, WakesSame DEF ArrInv
<1> QED BY <1>6, <1>7 DEF ArrInv

-----------------------------------------------------------------------------
(* Wakes, the environment, and the theorems.                               *)

\* A wake goes out only to a scope that runs nothing and does not cool, so no
\* other turn, registered or not, has it.
LEMMA DrainInv ==
    ASSUME ArrInv, DrainOne
    PROVE  ArrInv'
<1> DEFINE w == Head(pushQ)
           t == CHOOSE u \in Slot : At(u, "free")
           e == [Free EXCEPT !.pc = "woken", !.who = w.who, !.arr = w.arr,
                             !.role = w.role]
<1>1. /\ UNCHANGED <<defs, items, calls, late, half, cooling>> /\ drain = None
      /\ \/ UNCHANGED <<turn, drain>>
         \/ /\ ~Drops(w.who) /\ StillDue(w) /\ \E u \in Slot : At(u, "free")
            /\ Turn(t, e) /\ drain' = w.who
  BY DEF DrainOne, storeVars, ghostVars
<1>2. CASE UNCHANGED <<turn, drain>>
  <2>1. TurnsOK'
    BY <1>1, <1>2, TurnsKept DEF ArrInv, StoreInv
  <2>2. StoreInv'
    BY <1>1, <1>2, <2>1, TurnsStand, StoreKept DEF ArrInv
  <2>3. WakeInv'
    BY <1>1, <1>2, WakesSame DEF ArrInv
  <2> QED BY <2>2, <2>3 DEF ArrInv
<1>3. CASE /\ ~Drops(w.who) /\ StillDue(w) /\ \E u \in Slot : At(u, "free")
           /\ Turn(t, e) /\ drain' = w.who
  <2>1. t \in Slot /\ turn[t].pc = "free"
    BY <1>3 DEF At
  <2>2. PICK i \in Item : items[i].arr = w.arr /\ items[i].st = "queued"
    BY <1>3 DEF StillDue, Bucket, Of
  <2>3. w.arr \in Arr /\ defs[w.arr] # "none"
    BY <2>2 DEF ArrInv, StoreInv, ItemsOK, ItemOK
  <2>4. DOMAIN e = TurnFields /\ e.pc = "woken" /\ e.who = w.who /\ e.arr = w.arr
    BY DEF Free, TurnFields
  <2> HIDE DEF e, t, w
  <2>5. TurnOK(e, defs')
    BY <1>1, <2>3, <2>4 DEF TurnOK, TurnPC
  <2>6. TurnsOK' /\ \A u \in Slot : turn'[u] = IF u = t THEN e ELSE turn[u]
    BY <1>1, <1>3, <2>1, <2>5, TurnStepTypes DEF ArrInv, StoreInv
  <2>7. \A u \in Slot : TurnMoves(u)
    BY <2>2, <2>4, <2>6 DEF TurnMoves
  <2>8. StoreInv'
    BY <1>1, <2>6, <2>7, StoreKept DEF ArrInv
  <2>9. WakesCool'
    <3> SUFFICES ASSUME NEW u \in Slot, turn'[u].pc = "woken", turn'[u].who # None
                 PROVE  turn'[u].who \in cooling' \cup {drain'}
      BY DEF WakesCool
    <3>1. CASE u = t
      BY <1>3, <2>4, <2>6, <3>1
    <3>2. CASE u # t
      <4>1. turn[u].who \in cooling \cup {drain}
        BY <2>6, <3>2 DEF ArrInv, WakeInv, WakesCool
      <4> QED BY <1>1, <2>6, <3>2, <4>1
    <3> QED BY <3>1, <3>2
  <2>10. ASSUME NEW u \in Slot, u # t, w.who # None PROVE turn[u].who # w.who
    <3> SUFFICES ASSUME turn[u].who = w.who PROVE FALSE
      OBVIOUS
    <3>1. turn[u].pc # "free"
      BY <2>10 DEF ArrInv, StoreInv, TurnsOK, TurnOK
    <3>2. ~Running(w.who) /\ w.who \notin cooling
      BY <1>3 DEF Drops
    <3>3. turn[u].pc = "woken"
      BY <3>1, <3>2 DEF Running
    <3>4. turn[u].who \in cooling \cup {drain}
      BY <2>10, <3>3 DEF ArrInv, WakeInv, WakesCool
    <3> QED BY <1>1, <2>10, <3>2, <3>4
  <2>11. OneWakePerMember'
    <3> SUFFICES ASSUME NEW u \in Slot, NEW v \in Slot, u # v, turn'[u].who # None,
                        turn'[u].who = turn'[v].who
                 PROVE  FALSE
      BY DEF OneWakePerMember
    <3>1. CASE u # t /\ v # t
      BY <2>6, <3>1 DEF ArrInv, WakeInv, OneWakePerMember
    <3>2. CASE u = t
      BY <2>4, <2>6, <2>10, <3>2
    <3>3. CASE v = t
      BY <2>4, <2>6, <2>10, <3>3
    <3> QED BY <3>1, <3>2, <3>3
  <2> QED BY <2>8, <2>9, <2>11 DEF ArrInv, WakeInv
<1> QED BY <1>1, <1>2, <1>3

\* The other steps touch neither the tables, nor the calls, nor the turns.
LEMMA ElsewhereInv ==
    ASSUME ArrInv, UNCHANGED <<defs, items, calls, turn, late, half>>,
           \/ UNCHANGED <<cooling, drain>>
           \/ Stamp
           \/ \E m \in Member : CoolDown(m)
    PROVE  ArrInv'
<1>1. TurnsOK'
  BY TurnsKept DEF ArrInv, StoreInv
<1>2. StoreInv'
  BY <1>1, TurnsStand, StoreKept DEF ArrInv
<1>3. OneWakePerMember'
  BY DEF ArrInv, WakeInv, OneWakePerMember
<1>4. WakesCool'
  <2> SUFFICES ASSUME NEW t \in Slot, turn[t].pc = "woken", turn[t].who # None
               PROVE  turn[t].who \in cooling' \cup {drain'}
    BY DEF WakesCool
  <2>1. turn[t].who \in cooling \cup {drain}
    BY DEF ArrInv, WakeInv, WakesCool
  <2>2. CASE UNCHANGED <<cooling, drain>>
    BY <2>1, <2>2
  <2>3. CASE Stamp
    BY <2>1, <2>3 DEF Stamp
  <2>4. ASSUME NEW m \in Member, CoolDown(m) PROVE turn[t].who \in cooling' \cup {drain'}
    BY <2>1, <2>4 DEF CoolDown
  <2> QED BY <2>2, <2>3, <2>4
<1> QED BY <1>2, <1>3, <1>4 DEF ArrInv, WakeInv

\* After a crash there is no call and no turn, and cancels are marked.
LEMMA CrashInv ==
    ASSUME ArrInv, Crash
    PROVE  ArrInv'
<1>1. /\ UNCHANGED <<defs, items, late>> /\ calls' = {}
      /\ half' = half \cup {c.arr : c \in {d \in calls : d.op = "cancel"}}
      /\ turn' = [t \in Slot |-> Free]
  BY DEF Crash, storeVars
<1>2. /\ half \subseteq half'
      /\ \A c \in calls : c.op = "cancel" => c.arr \in half'
  BY <1>1
<1>3. TurnsOK'
  BY <1>1, FreeIsTurn DEF TurnsOK
<1>4. \A t \in Slot : TurnMoves(t)
  BY <1>1 DEF TurnMoves, Free
<1>5. CallsMove
  BY <1>1, <1>2 DEF CallsMove
<1>6. defs' = [a \in Arr |-> defs'[a]] /\ \A a \in Arr : DefMoves(a)
  BY <1>1, DefsAre DEF DefMoves
<1>7. StoreInv'
  BY <1>1, <1>2, <1>3, <1>4, <1>5, <1>6, DefsMove DEF ArrInv
<1>8. WakeInv'
  BY <1>1 DEF WakeInv, WakesCool, OneWakePerMember, Free
<1> QED BY <1>7, <1>8 DEF ArrInv

LEMMA InitArrInv == Init => ArrInv
<1> SUFFICES ASSUME Init PROVE ArrInv
  OBVIOUS
<1>1. ItemsOK
  <2>1. defs \in [Arr -> DefStatus]
    BY DEF Init, DefStatus
  <2>2. \A d : ItemOK(NoItem, d)
    <3>1. 0 \in 0 .. MaxPrio
      BY ItemsAreNumbers
    <3> QED BY <3>1 DEF NoItem, ItemOK, ItemFields
  <2> QED BY <2>1, <2>2 DEF Init, ItemsOK
<1>2. TurnsOK
  BY FreeIsTurn DEF Init, TurnsOK
<1>3. CallsOK
  BY DEF Init, CallsOK
<1>4. CompleteOK
  BY DEF Init, CompleteOK, Free
<1>5. ClosedIsSettled
  BY DEF Init, ClosedIsSettled, NoItem
<1>6. WakeInv
  BY DEF Init, WakeInv, WakesCool, OneWakePerMember, Free
<1> QED BY <1>1, <1>2, <1>3, <1>4, <1>5, <1>6 DEF ArrInv, StoreInv

LEMMA NextArrInv == ArrInv /\ [Next]_vars => ArrInv'
<1> SUFFICES ASSUME ArrInv, [Next]_vars PROVE ArrInv'
  OBVIOUS
<1>1. ASSUME NEW a \in Arr,
             Define(a) \/ Cancel(a) \/ CloseStalledDefs(a) \/ PruneTerminalDefs(a)
      PROVE  ArrInv'
  BY <1>1, DefineInv, CancelInv, CloseStalledInv, PruneDefsInv
<1>2. ASSUME NEW a \in Arr, NEW r \in Role, NEW p \in 0 .. MaxPrio, Inject(a, r, p)
      PROVE  ArrInv'
  BY <1>2, InjectInv
<1>3. ASSUME NEW c \in calls,
             \/ InsertDef(c) \/ Kickoff(c) \/ InjectItem(c)
             \/ DeleteItems(c) \/ DeleteDef(c) \/ CancelLive(c)
             \/ InsertFails(c) \/ KickoffFails(c) \/ RollbackFails(c)
             \/ CancelFails(c)
      PROVE  ArrInv'
  BY <1>3, InsertDefInv, CallInsertsInv, DeleteItemsInv, DeleteDefInv, CancelLiveInv,
     CallFailsInv, CancelFailsInv
<1>4. ASSUME NEW t \in Slot, TurnStep(t) \/ Abandon(t) \/ DeliverFails(t)
      PROVE  ArrInv'
  BY <1>4, PlainTurnInv, PullInv, SubmitInv, RouteInv, DeliverInv, CompleteDefInv
     DEF TurnStep
<1>5. ASSUME NEW x, RequeueInFlight(x) PROVE ArrInv'
  BY <1>5, RequeueInFlightInv
<1>6. CASE ServeBuckets \/ RequeueUnmet
  BY <1>6, ServeInv, RequeueUnmetInv
<1>7. CASE DrainOne
  BY <1>7, DrainInv
<1>8. CASE \/ StaleInFlight \/ ScanFails \/ RoundFails \/ EmitFails
           \/ LoseService \/ RestoreService \/ UNCHANGED vars
  <2>1. UNCHANGED <<defs, items, calls, turn, late, half, cooling, drain>>
    BY <1>8 DEF StaleInFlight, ScanFails, RoundFails, EmitFails, LoseService,
                RestoreService, vars, storeVars, wakeVars, ghostVars
  <2> QED BY <2>1, ElsewhereInv
<1>9. CASE Stamp \/ \E m \in Member : CoolDown(m)
  <2>1. UNCHANGED <<defs, items, calls, turn, late, half>>
    BY <1>9 DEF Stamp, CoolDown, storeVars, ghostVars
  <2> QED BY <1>9, <2>1, ElsewhereInv
<1>10. ASSUME NEW i \in Item, Expire(i) \/ PruneTerminal(i) PROVE ArrInv'
  BY <1>10, ExpireInv, PruneTerminalInv
<1>11. CASE Crash
  BY <1>11, CrashInv
<1> QED BY <1>1, <1>2, <1>3, <1>4, <1>5, <1>6, <1>7, <1>8, <1>9, <1>10, <1>11
        DEF Next, CallStep, SelectorStep, DrainerStep

\* The inductive invariant: rows, turns and calls are well formed and belong
\* to definitions that were inserted, a completion that has counted finds
\* nothing live but what came late, a closed definition is settled, and an
\* unregistered wake is covered by the cooldown or by the stamp about to be set.
THEOREM ArrangementInvariant == Spec => []ArrInv
BY InitArrInv, NextArrInv, PTL DEF Spec

\* A closed definition has no live item (done) and no runnable one
\* (cancelled), but for items of older calls (an Inject, a kickoff, a requeue
\* past its check) and cancels that stopped halfway, with any number of calls
\* interleaved and a Define rolled back at any point:
\* CountLiveForDef and CompleteDef, CancelDef and CancelLive are separate
\* statements that everything else interleaves with.
THEOREM ArrangementClosedIsSettled == Spec => []ClosedIsSettled
<1>1. ArrInv => ClosedIsSettled
  BY DEF ArrInv, StoreInv
<1> QED BY <1>1, ArrangementInvariant, PTL

\* No member is woken into two turns at once (drainOne's checks of the busy
\* registry and of lastNudged, although a wake registers busy late and is
\* stamped only after the emit).
THEOREM ArrangementOneWake == Spec => []OneWakePerMember
<1>1. ArrInv => OneWakePerMember
  BY DEF ArrInv, WakeInv
<1> QED BY <1>1, ArrangementInvariant, PTL
=============================================================================

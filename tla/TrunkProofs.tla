---------------------------- MODULE TrunkProofs ----------------------------
(***************************************************************************)
(* Proofs about the trunk's life cycle, for any module graph.              *)
(***************************************************************************)
EXTENDS Trunk, FiniteSetTheorems, SequenceTheorems, TLAPS

Injective(s) == \A i, j \in DOMAIN s : s[i] = s[j] => i = j

\* The sort places no module twice: what is queued or placed has no providers
\* outstanding, and only modules that still have one are queued.
SortInv ==
    /\ Injective(order) /\ Injective(queue)
    /\ \A i \in DOMAIN order, j \in DOMAIN queue : order[i] # queue[j]
    /\ \A i \in DOMAIN order : indeg[order[i]] <= 0
    /\ \A i \in DOMAIN queue : indeg[queue[i]] <= 0
    /\ phase = "new" => queue = <<>> /\ order = <<>>

\* The stack of started modules: those running, once each, in placed order,
\* each after the modules it needs.
StackInv ==
    /\ running = {started[i] : i \in DOMAIN started}
    /\ Injective(started)
    /\ phase \in {"new", "sorting"} => started = <<>>
    /\ phase = "starting" =>
          \A i \in DOMAIN started : \E j \in DOMAIN order : j < at /\ started[i] = order[j]
    /\ \A i \in DOMAIN started : \A c \in needs[started[i]] :
          \E j \in DOMAIN started : j < i /\ c \in provides[started[j]]

\* Registry, errors and sweeps by phase.
PhaseInv ==
    /\ phase \in {"new", "sorting"} => caps = {}
    /\ CapsAreBacked
    /\ phase = "unwinding" => err # "none"
    /\ NothingLeftBehind
    /\ sweep # NoModule => phase \in {"up", "draining"} /\ sweep \in running

IInv == TypeOK /\ SortInv /\ StackInv /\ PhaseInv

----------------------------------------------------------------------------

\* A listing of modules in registration order is a sequence without repetition.
LEMMA ListingsAreInjective ==
    ASSUME NEW S \in SUBSET Module, NEW l \in Listings(S)
    PROVE  /\ l \in Seq(Module) /\ Injective(l)
           /\ \A i \in DOMAIN l : l[i] \in S
  <1> DEFINE n == Cardinality(S)
  <1>1. IsFiniteSet(S) /\ n \in Nat
    BY ModsAssumption, FS_Subset, FS_CardinalityType
  <1> HIDE DEF n
  <1>2. l \in [1 .. n -> S]
    BY DEF Listings, n
  <1>3. \A m \in Module : Place(m) \in DOMAIN Mods
    BY ModsAssumption DEF Place
  <1>4. \A m \in Module : Place(m) \in Nat
    BY <1>3, ModsAssumption
  <1>5. ASSUME NEW i \in 1 .. n, NEW j \in 1 .. n, i < j PROVE l[i] # l[j]
    <2>1. Place(l[i]) < Place(l[j])
      BY <1>5 DEF Listings, n
    <2>2. Place(l[i]) \in Nat
      BY <1>2, <1>4
    <2> QED
      BY <2>1, <2>2
  <1>6. Injective(l)
    BY <1>1, <1>2, <1>5 DEF Injective
  <1> QED
    BY <1>1, <1>2, <1>6

LEMMA InitInv == Init => IInv
  <1> SUFFICES ASSUME Init PROVE IInv
    OBVIOUS
  <1> USE DEF Init
  <1>1. TypeOK
    BY DEF TypeOK, Phases, Errors
  <1>2. SortInv
    BY DEF SortInv, Injective
  <1>3. StackInv
    BY DEF StackInv, Injective
  <1>4. PhaseInv
    BY DEF PhaseInv, CapsAreBacked, NothingLeftBehind
  <1> QED
    BY <1>1, <1>2, <1>3, <1>4 DEF IInv

----------------------------------------------------------------------------
(* The sort                                                                *)

LEMMA StartStep == ASSUME IInv, Start PROVE IInv'
  <1> USE DEF IInv
  <1>1. CASE BadDeclaration
    <2>1. /\ phase' = "failed" /\ err' = "declaration"
          /\ UNCHANGED <<declVars, topoVars, at, caps, started, running, sweep>>
      BY <1>1 DEF Start
    <2>2. phase = "new" /\ started = <<>> /\ running = {}
      BY DEF Start, StackInv
    <2>3. TypeOK'
      BY <2>1 DEF TypeOK, Phases, Errors, declVars, topoVars
    <2>4. SortInv'
      BY <2>1 DEF SortInv, Injective, declVars, topoVars
    <2>5. StackInv'
      BY <2>1, <2>2 DEF StackInv, Injective, declVars, topoVars
    <2>6. PhaseInv'
      BY <2>1, <2>2 DEF PhaseInv, CapsAreBacked, NothingLeftBehind, declVars
    <2> QED
      BY <2>3, <2>4, <2>5, <2>6
  <1>2. CASE ~BadDeclaration
    <2> DEFINE S == {m \in Module : ProvidersOf(m) = {}}
    <2>1. /\ phase' = "sorting" /\ queue' \in Listings(S)
          /\ indeg' = [m \in Module |-> Cardinality(ProvidersOf(m))]
          /\ UNCHANGED <<declVars, order, at, caps, started, running, err, sweep>>
      BY <1>2 DEF Start
    <2>2. phase = "new" /\ order = <<>> /\ started = <<>> /\ caps = {}
      BY DEF Start, StackInv, SortInv, PhaseInv
    <2>3. \A m \in Module : Cardinality(ProvidersOf(m)) \in Nat
      <3>1. \A m \in Module : ProvidersOf(m) \subseteq Module
        BY DEF ProvidersOf
      <3> QED
        BY <3>1, ModsAssumption, FS_Subset, FS_CardinalityType
    <2>4. queue' \in Seq(Module) /\ Injective(queue') /\ \A i \in DOMAIN queue' : queue'[i] \in S
      BY <2>1, ListingsAreInjective
    <2>5. \A m \in S : indeg'[m] = 0
      BY <2>1, FS_EmptySet
    <2> HIDE DEF S
    <2>6. TypeOK'
      BY <2>1, <2>3, <2>4 DEF TypeOK, Phases, declVars
    <2>7. SortInv'
      <3>1. \A i \in DOMAIN queue' : indeg'[queue'[i]] = 0
        BY <2>4, <2>5
      <3>2. order' = <<>> /\ DOMAIN order' = {}
        BY <2>1, <2>2
      <3>3. Injective(order)'
        BY <3>2 DEF Injective
      <3>4. Injective(queue)'
        BY <2>4 DEF Injective
      <3> QED
        BY <2>1, <3>1, <3>2, <3>3, <3>4 DEF SortInv
    <2>8. StackInv'
      BY <2>1, <2>2 DEF StackInv, Injective, declVars
    <2>9. PhaseInv'
      BY <2>1, <2>2 DEF PhaseInv, CapsAreBacked, NothingLeftBehind, declVars
    <2> QED
      BY <2>6, <2>7, <2>8, <2>9
  <1> QED
    BY <1>1, <1>2

LEMMA DequeueStep == ASSUME IInv, Dequeue PROVE IInv'
  <1> USE DEF IInv
  <1> DEFINE m == Head(queue)
  <1>1. PICK l \in Listings(FreedBy(m)) : queue' = Tail(queue) \o l
    BY DEF Dequeue
  <1>2. /\ phase = "sorting" /\ queue # <<>> /\ order' = Append(order, m)
        /\ indeg' = [d \in Module |-> IF Feeds(m, d) THEN indeg[d] - 1 ELSE indeg[d]]
        /\ UNCHANGED <<declVars, phase, at, caps, started, running, err, sweep>>
    BY DEF Dequeue
  <1>3. /\ queue \in Seq(Module) /\ order \in Seq(Module) /\ m \in Module
        /\ m = queue[1] /\ Len(queue) \in Nat /\ Len(queue) >= 1 /\ Len(order) \in Nat
    BY <1>2 DEF TypeOK
  <1>4. /\ l \in Seq(Module) /\ Injective(l)
        /\ \A i \in DOMAIN l : Feeds(m, l[i]) /\ indeg[l[i]] = 1
    <2>1. FreedBy(m) \in SUBSET Module
      BY DEF FreedBy
    <2> HIDE DEF m
    <2> QED
      BY <2>1, ListingsAreInjective DEF FreedBy
  <1>5. \A d \in Module : /\ indeg[d] \in Int /\ indeg'[d] \in Int /\ indeg'[d] <= indeg[d]
                          /\ Feeds(m, d) => indeg'[d] = indeg[d] - 1
    BY <1>2 DEF TypeOK
  <1> HIDE DEF m
  <1>6. /\ order' \in Seq(Module) /\ DOMAIN order' = 1 .. Len(order) + 1
        /\ DOMAIN order = 1 .. Len(order)
        /\ order'[Len(order) + 1] = m
        /\ \A i \in 1 .. Len(order) : order'[i] = order[i]
    BY <1>2, <1>3
  <1> DEFINE k == Len(queue) - 1
  <1>7. /\ queue' \in Seq(Module) /\ DOMAIN queue' = 1 .. k + Len(l)
        /\ DOMAIN queue = 1 .. k + 1 /\ DOMAIN l = 1 .. Len(l) /\ Len(l) \in Nat
        /\ k \in Nat
        /\ \A i \in 1 .. k : queue'[i] = queue[i + 1]
        /\ \A i \in k + 1 .. k + Len(l) : queue'[i] = l[i - k]
    <2> DEFINE t == Tail(queue)
    <2>1. /\ t \in Seq(Module) /\ Len(t) = k /\ k \in Nat
          /\ \A i \in 1 .. k : t[i] = queue[i + 1]
      BY <1>3
    <2>2. queue' = t \o l
      BY <1>1
    <2>3. Len(l) \in Nat /\ DOMAIN l = 1 .. Len(l) /\ DOMAIN queue = 1 .. k + 1
      BY <1>3, <1>4
    <2> HIDE DEF t, k
    <2>4. /\ queue' \in Seq(Module) /\ Len(queue') = k + Len(l)
          /\ \A i \in 1 .. k + Len(l) : queue'[i] = IF i <= k THEN t[i] ELSE l[i - k]
      BY <1>4, <2>1, <2>2, ConcatProperties
    <2>5. DOMAIN queue' = 1 .. k + Len(l)
      BY <2>4
    <2>6. \A i \in 1 .. k : queue'[i] = queue[i + 1]
      BY <2>1, <2>3, <2>4
    <2>7. \A i \in k + 1 .. k + Len(l) : queue'[i] = l[i - k]
      BY <2>1, <2>3, <2>4
    <2> QED
      BY <2>1, <2>3, <2>4, <2>5, <2>6, <2>7
  <1> HIDE DEF k
  <1>8. \A i \in 1 .. Len(order) : order[i] \in Module /\ order[i] # m /\ indeg[order[i]] <= 0
    <2>1. 1 \in DOMAIN queue
      BY <1>7
    <2>2. \A i \in DOMAIN order : order[i] # m /\ indeg[order[i]] <= 0
      BY <1>3, <2>1 DEF SortInv
    <2>3. \A i \in 1 .. Len(order) : order[i] \in Module
      BY <1>3
    <2> QED
      BY <1>6, <2>2, <2>3
  <1>9. \A i \in 1 .. k : /\ queue[i + 1] \in Module /\ queue[i + 1] # m
                          /\ indeg[queue[i + 1]] <= 0
    <2>1. \A i \in 1 .. k : i + 1 \in DOMAIN queue /\ i + 1 # 1 /\ 1 \in DOMAIN queue
      BY <1>7
    <2> QED
      BY <1>3, <2>1 DEF SortInv, Injective
  <1>10. indeg[m] <= 0
    BY <1>3, <1>7 DEF SortInv
  <1>11. TypeOK'
    <2>1. indeg' \in [Module -> Int]
      BY <1>2 DEF TypeOK
    <2> QED
      BY <1>2, <1>6, <1>7, <2>1 DEF TypeOK, declVars
  <1>12. Injective(order)'
    <2>1. ASSUME NEW i \in DOMAIN order', NEW j \in DOMAIN order', order'[i] = order'[j]
          PROVE  i = j
      <3>1. CASE i \in 1 .. Len(order) /\ j \in 1 .. Len(order)
        BY <1>6, <2>1, <3>1 DEF SortInv, Injective
      <3>2. CASE i = Len(order) + 1 \/ j = Len(order) + 1
        BY <1>3, <1>6, <1>8, <2>1, <3>2
      <3> QED
        BY <1>3, <1>6, <3>1, <3>2
    <2> QED
      BY <2>1 DEF Injective
  <1>13. Injective(queue)'
    <2>1. ASSUME NEW i \in DOMAIN queue', NEW j \in DOMAIN queue', queue'[i] = queue'[j]
          PROVE  i = j
      <3>1. CASE i \in 1 .. k /\ j \in 1 .. k
        <4>1. queue[i + 1] = queue[j + 1] /\ i + 1 \in DOMAIN queue /\ j + 1 \in DOMAIN queue
          BY <1>7, <2>1, <3>1
        <4>2. i + 1 = j + 1
          BY <4>1 DEF SortInv, Injective
        <4> QED
          BY <1>7, <3>1, <4>2
      <3>2. CASE i \in k + 1 .. k + Len(l) /\ j \in k + 1 .. k + Len(l)
        <4>1. l[i - k] = l[j - k] /\ i - k \in DOMAIN l /\ j - k \in DOMAIN l
          BY <1>7, <2>1, <3>2
        <4>2. i - k = j - k
          BY <1>4, <4>1 DEF Injective
        <4> QED
          BY <1>7, <3>2, <4>2
      <3>3. ASSUME NEW a \in 1 .. k, NEW b \in k + 1 .. k + Len(l) PROVE queue'[a] # queue'[b]
        <4>1. b - k \in DOMAIN l /\ queue'[b] = l[b - k] /\ queue'[a] = queue[a + 1]
          BY <1>7
        <4> QED
          BY <1>4, <1>9, <4>1
      <3> QED
        BY <1>7, <2>1, <3>1, <3>2, <3>3
    <2> QED
      BY <2>1 DEF Injective
  <1>14. \A i \in DOMAIN queue' : queue'[i] \in Module /\ indeg'[queue'[i]] <= 0
    <2>1. ASSUME NEW i \in 1 .. k PROVE queue'[i] \in Module /\ indeg'[queue'[i]] <= 0
      BY <1>5, <1>7, <1>9
    <2>2. ASSUME NEW i \in k + 1 .. k + Len(l)
          PROVE queue'[i] \in Module /\ indeg'[queue'[i]] <= 0
      <3>1. i - k \in DOMAIN l /\ queue'[i] = l[i - k]
        BY <1>7
      <3>2. l[i - k] \in Module
        BY <1>4, <3>1
      <3> QED
        BY <1>4, <1>5, <3>1, <3>2
    <2> QED
      BY <1>7, <2>1, <2>2
  <1>15. \A i \in DOMAIN order' : order'[i] \in Module /\ indeg'[order'[i]] <= 0
    <2>1. ASSUME NEW i \in 1 .. Len(order) PROVE order'[i] \in Module /\ indeg'[order'[i]] <= 0
      BY <1>5, <1>6, <1>8
    <2>2. m \in Module /\ indeg'[m] <= 0
      BY <1>3, <1>5, <1>10
    <2> QED
      BY <1>3, <1>6, <2>1, <2>2
  <1>16. \A i \in DOMAIN order', j \in DOMAIN queue' : order'[i] # queue'[j]
    <2>1. ASSUME NEW i \in DOMAIN order', NEW j \in 1 .. k PROVE order'[i] # queue'[j]
      <3>1. queue'[j] = queue[j + 1] /\ j + 1 \in DOMAIN queue
        BY <1>7
      <3>2. \A h \in 1 .. Len(order) : order[h] # queue[j + 1]
        BY <1>6, <3>1 DEF SortInv
      <3> QED
        BY <1>3, <1>6, <1>9, <3>1, <3>2
    <2>2. ASSUME NEW i \in DOMAIN order', NEW j \in k + 1 .. k + Len(l)
          PROVE order'[i] # queue'[j]
      <3>1. j - k \in DOMAIN l /\ queue'[j] = l[j - k] /\ indeg[l[j - k]] = 1
        BY <1>4, <1>7
      <3>2. indeg[order'[i]] <= 0
        BY <1>3, <1>6, <1>8, <1>10
      <3> QED
        BY <3>1, <3>2
    <2> QED
      BY <1>7, <2>1, <2>2
  <1>17. SortInv'
    BY <1>2, <1>12, <1>13, <1>14, <1>15, <1>16 DEF SortInv
  <1>18. StackInv'
    BY <1>2 DEF StackInv, Injective, declVars
  <1>19. PhaseInv'
    BY <1>2 DEF PhaseInv, CapsAreBacked, NothingLeftBehind, declVars
  <1> QED
    BY <1>11, <1>17, <1>18, <1>19

LEMMA SortedStep == ASSUME IInv, Sorted PROVE IInv'
  <1> USE DEF IInv
  <1>1. /\ phase = "sorting"
        /\ UNCHANGED <<declVars, topoVars, at, caps, started, running, sweep>>
        /\ \/ phase' = "starting" /\ err' = err
           \/ phase' = "failed" /\ err' = "cycle"
    BY DEF Sorted
  <1>2. started = <<>> /\ running = {} /\ caps = {}
    BY <1>1 DEF StackInv, PhaseInv
  <1>3. TypeOK'
    BY <1>1 DEF TypeOK, Phases, Errors, declVars, topoVars
  <1>4. SortInv'
    BY <1>1 DEF SortInv, Injective, topoVars
  <1>5. StackInv'
    BY <1>1, <1>2 DEF StackInv, Injective, declVars, topoVars
  <1>6. PhaseInv'
    BY <1>1, <1>2 DEF PhaseInv, CapsAreBacked, NothingLeftBehind, declVars
  <1> QED
    BY <1>3, <1>4, <1>5, <1>6

----------------------------------------------------------------------------
(* The start loop                                                          *)

\* What the loop does after a module: it goes on, or it aborts with a reason.
LoopGoesOn(e) == \/ at' = at + 1 /\ UNCHANGED <<phase, err>>
                 \/ UNCHANGED at /\ phase' = "unwinding" /\ err' = e

LEMMA SkipUnmetStep == ASSUME IInv, SkipUnmet PROVE IInv'
  <1> USE DEF IInv
  <1>1. /\ phase = "starting" /\ LoopGoesOn("unmet")
        /\ UNCHANGED <<declVars, topoVars, caps, started, running, sweep>>
    BY DEF SkipUnmet, SkipOrAbort, Continue, Abort, LoopGoesOn
  <1>2. TypeOK'
    BY <1>1 DEF TypeOK, Phases, Errors, declVars, topoVars, LoopGoesOn
  <1>3. SortInv'
    BY <1>1 DEF SortInv, Injective, topoVars, LoopGoesOn
  <1>4. StackInv'
    <2>1. phase' = "starting" => at' = at + 1
      BY <1>1 DEF LoopGoesOn
    <2>2. phase' = "starting" => \A i \in DOMAIN started :
              \E j \in DOMAIN order : j < at' /\ started[i] = order[j]
      BY <1>1, <2>1 DEF StackInv, TypeOK
    <2> QED
      BY <1>1, <2>2 DEF StackInv, Injective, declVars, topoVars, LoopGoesOn
  <1>5. PhaseInv'
    BY <1>1 DEF PhaseInv, CapsAreBacked, NothingLeftBehind, declVars, LoopGoesOn
  <1> QED
    BY <1>2, <1>3, <1>4, <1>5

LEMMA StartSucceedsStep ==
    ASSUME IInv, NEW r \in SUBSET Cap, StartSucceeds(r) PROVE IInv'
  <1> USE DEF IInv
  <1> DEFINE m == order[at]
             n == Len(started)
  <1>1. /\ phase = "starting" /\ at <= Len(order)
        /\ needs[m] \subseteq caps /\ r \subseteq provides[m]
        /\ caps' = caps \cup r /\ started' = Append(started, m)
        /\ running' = running \cup {m} /\ LoopGoesOn("unregistered")
        /\ UNCHANGED <<declVars, topoVars, sweep>>
    BY DEF StartSucceeds, SkipOrAbort, Continue, Abort, LoopGoesOn
  <1>2. at \in DOMAIN order /\ m \in Module
    BY <1>1 DEF TypeOK
  <1> HIDE DEF m
  <1>3. /\ started' \in Seq(Module) /\ n \in Nat
        /\ DOMAIN started = 1 .. n /\ DOMAIN started' = 1 .. n + 1
        /\ started'[n + 1] = m
        /\ \A i \in 1 .. n : started'[i] = started[i]
    BY <1>1, <1>2 DEF TypeOK
  <1> HIDE DEF n
  <1>4. \A i \in 1 .. n : started[i] # m
    <2>1. ASSUME NEW i \in 1 .. n PROVE started[i] # m
      <3>1. PICK j \in DOMAIN order : j < at /\ started[i] = order[j]
        BY <1>1, <1>3 DEF StackInv
      <3>2. j # at
        BY <3>1 DEF TypeOK
      <3> QED
        BY <1>2, <3>1, <3>2 DEF SortInv, Injective, m
    <2> QED
      BY <2>1
  <1>5. TypeOK'
    <2>1. caps' \subseteq Cap /\ running' \subseteq Module
      BY <1>1, <1>2 DEF TypeOK
    <2> QED
      BY <1>1, <1>3, <2>1 DEF TypeOK, Phases, Errors, declVars, topoVars, LoopGoesOn
  <1>6. SortInv'
    BY <1>1 DEF SortInv, Injective, topoVars, LoopGoesOn
  <1>7. StackInv'
    <2>1. running' = {started'[i] : i \in DOMAIN started'}
      <3>1. running = {started[i] : i \in 1 .. n}
        BY <1>3 DEF StackInv
      <3>2. \A x : x \in running' <=> \E i \in 1 .. n + 1 : x = started'[i]
        BY <1>1, <1>3, <3>1
      <3> QED
        BY <1>3, <3>2
    <2>2. Injective(started)'
      <3>1. ASSUME NEW i \in 1 .. n + 1, NEW j \in 1 .. n + 1, started'[i] = started'[j]
            PROVE  i = j
        <4>1. CASE i \in 1 .. n /\ j \in 1 .. n
          BY <1>3, <3>1, <4>1 DEF StackInv, Injective
        <4>2. CASE i = n + 1 \/ j = n + 1
          BY <1>3, <1>4, <3>1, <4>2
        <4> QED
          BY <1>3, <4>1, <4>2
      <3> QED
        BY <1>3, <3>1 DEF Injective
    <2>3. phase' \notin {"new", "sorting"}
      BY <1>1 DEF LoopGoesOn
    <2>4. ASSUME phase' = "starting", NEW i \in 1 .. n + 1
          PROVE  \E j \in DOMAIN order : j < at' /\ started'[i] = order[j]
      <3>1. at' = at + 1 /\ at \in Nat
        BY <1>1, <2>4 DEF LoopGoesOn, TypeOK
      <3>2. CASE i = n + 1
        BY <1>2, <1>3, <3>1, <3>2 DEF m
      <3>3. CASE i \in 1 .. n
        <4>1. PICK j \in DOMAIN order : j < at /\ started[i] = order[j]
          BY <1>1, <1>3, <3>3 DEF StackInv
        <4>2. j < at + 1
          BY <3>1, <4>1 DEF TypeOK
        <4> QED
          BY <1>3, <3>1, <3>3, <4>1, <4>2
      <3> QED
        BY <1>3, <3>2, <3>3
    <2>5. ASSUME NEW i \in 1 .. n + 1, NEW c \in needs[started'[i]]
          PROVE  \E j \in 1 .. n + 1 : j < i /\ c \in provides[started'[j]]
      <3>1. CASE i \in 1 .. n
        <4>1. PICK j \in 1 .. n : j < i /\ c \in provides[started[j]]
          BY <1>3, <2>5, <3>1 DEF StackInv
        <4> QED
          BY <1>3, <4>1
      <3>2. CASE i = n + 1
        <4>1. c \in caps
          BY <1>1, <1>3, <2>5, <3>2
        <4>2. PICK p \in running : c \in provides[p]
          BY <1>1, <4>1 DEF PhaseInv, CapsAreBacked
        <4>3. PICK j \in 1 .. n : p = started[j]
          BY <1>3, <4>2 DEF StackInv
        <4> QED
          BY <1>3, <3>2, <4>2, <4>3
      <3> QED
        BY <1>3, <3>1, <3>2
    <2>6. provides' = provides /\ needs' = needs /\ order' = order
      BY <1>1 DEF declVars, topoVars
    <2> QED
      BY <1>3, <2>1, <2>2, <2>3, <2>4, <2>5, <2>6 DEF StackInv
  <1>8. PhaseInv'
    <2>1. provides' = provides /\ sweep' = sweep
      BY <1>1 DEF declVars
    <2>2. \A c \in caps' : \E p \in running' : c \in provides'[p]
      BY <1>1, <2>1 DEF PhaseInv, CapsAreBacked
    <2>3. phase' \notin {"new", "sorting", "failed", "down"} /\ sweep' = NoModule
      BY <1>1, <2>1 DEF PhaseInv, LoopGoesOn
    <2>4. phase' = "unwinding" => err' # "none"
      BY <1>1 DEF LoopGoesOn
    <2> QED
      BY <2>2, <2>3, <2>4 DEF PhaseInv, CapsAreBacked, NothingLeftBehind
  <1> QED
    BY <1>5, <1>6, <1>7, <1>8

LEMMA StartFailsStep ==
    ASSUME IInv, NEW r \in SUBSET Cap, StartFails(r) PROVE IInv'
  <1> USE DEF IInv
  <1> DEFINE m == order[at]
  <1>1. /\ phase = "starting" /\ at <= Len(order)
        /\ r \subseteq provides[m] /\ caps' = caps \cup r
        /\ UNCHANGED <<declVars, topoVars, started, running, sweep>>
    BY DEF StartFails
  <1>2. \/ at' = at + 1 /\ UNCHANGED <<phase, err>> /\ ~Leaks(m, r)
        \/ at' = at /\ phase' = "unwinding" /\ err' \in {"leak", "start"}
    BY DEF StartFails, SkipOrAbort, Continue, Abort
  <1> HIDE DEF m
  <1>3. phase' = "starting" => caps' = caps
    BY <1>1, <1>2 DEF Leaks
  <1>4. TypeOK'
    <2>1. caps' \subseteq Cap
      BY <1>1 DEF TypeOK
    <2> QED
      BY <1>1, <1>2, <2>1 DEF TypeOK, Phases, Errors, declVars, topoVars
  <1>5. SortInv'
    BY <1>1, <1>2 DEF SortInv, Injective, topoVars
  <1>6. StackInv'
    <2>1. phase' = "starting" => \A i \in DOMAIN started :
              \E j \in DOMAIN order : j < at' /\ started[i] = order[j]
      BY <1>1, <1>2 DEF StackInv, TypeOK
    <2> QED
      BY <1>1, <1>2, <2>1 DEF StackInv, Injective, declVars, topoVars
  <1>7. PhaseInv'
    BY <1>1, <1>2, <1>3 DEF PhaseInv, CapsAreBacked, NothingLeftBehind, declVars
  <1> QED
    BY <1>4, <1>5, <1>6, <1>7

----------------------------------------------------------------------------
(* Stopping                                                                *)

LEMMA StopModuleStep == ASSUME IInv, StopModule PROVE IInv'
  <1> USE DEF IInv
  <1> DEFINE n == Len(started) - 1
  <1>1. /\ phase \in {"unwinding", "stopping"} /\ started # <<>>
        /\ running' = running \ {started[Len(started)]}
        /\ started' = SubSeq(started, 1, Len(started) - 1)
        /\ UNCHANGED <<declVars, phase, topoVars, at, caps, err, sweep>>
    BY DEF StopModule, StopLast
  <1>2. n \in Nat /\ DOMAIN started = 1 .. n + 1 /\ Len(started) = n + 1
    BY <1>1 DEF TypeOK
  <1>3. \A i \in 1 .. n + 1 : started[i] \in Module
    BY <1>2 DEF TypeOK
  <1> HIDE DEF n
  <1>4. /\ started' \in Seq(Module) /\ Len(started') = n
        /\ \A i \in 1 .. n : started'[i] = started[i]
    <2>1. started' = SubSeq(started, 1, n) /\ n \in Int /\ 1 \in Int
      BY <1>1, <1>2
    <2>2. \A i \in 1 .. n : started[i] \in Module
      BY <1>2, <1>3
    <2>3. /\ SubSeq(started, 1, n) \in Seq(Module)
          /\ Len(SubSeq(started, 1, n)) = IF 1 <= n THEN n - 1 + 1 ELSE 0
          /\ \A i \in 1 .. n - 1 + 1 : SubSeq(started, 1, n)[i] = started[1 + i - 1]
      BY <2>1, <2>2, SubSeqProperties
    <2>4. \A i \in 1 .. n : i \in 1 .. n - 1 + 1 /\ 1 + i - 1 = i
      BY <1>2
    <2> QED
      BY <1>2, <2>1, <2>3, <2>4
  <1>5. DOMAIN started' = 1 .. n
    BY <1>4
  <1>6. \A i \in 1 .. n : started[i] # started[n + 1]
    <2>1. \A i \in 1 .. n : i \in DOMAIN started /\ n + 1 \in DOMAIN started /\ i # n + 1
      BY <1>2
    <2> QED
      BY <2>1 DEF StackInv, Injective
  <1>7. TypeOK'
    BY <1>1, <1>4 DEF TypeOK, declVars, topoVars
  <1>8. SortInv'
    BY <1>1 DEF SortInv, Injective, topoVars
  <1>9. StackInv'
    <2>1. running' = {started'[i] : i \in DOMAIN started'}
      <3>1. \A x : x \in running <=> \E i \in 1 .. n + 1 : x = started[i]
        BY <1>2 DEF StackInv
      <3>2. \A x : x \in running' <=> \E i \in 1 .. n : x = started[i]
        <4>1. \A x : x \in running' <=> x \in running /\ x # started[n + 1]
          BY <1>1, <1>2
        <4>2. \A i : i \in 1 .. n + 1 <=> i \in 1 .. n \/ i = n + 1
          BY <1>2
        <4> QED
          BY <1>6, <3>1, <4>1, <4>2
      <3> QED
        BY <1>4, <1>5, <3>2
    <2>2. \A i \in 1 .. n : i \in 1 .. n + 1
      BY <1>2
    <2>3. Injective(started)'
      BY <1>2, <1>4, <1>5, <2>2 DEF StackInv, Injective
    <2>4. ASSUME NEW i \in 1 .. n, NEW c \in needs[started'[i]]
          PROVE  \E j \in 1 .. n : j < i /\ c \in provides[started'[j]]
      <3>1. PICK j \in 1 .. n + 1 : j < i /\ c \in provides[started[j]]
        BY <1>2, <1>4, <2>2, <2>4 DEF StackInv
      <3>2. j \in 1 .. n
        BY <1>2, <3>1
      <3> QED
        BY <1>4, <3>1, <3>2
    <2>5. /\ provides' = provides /\ needs' = needs
          /\ phase' \notin {"new", "sorting", "starting"}
      BY <1>1 DEF declVars
    <2> QED
      BY <1>5, <2>1, <2>3, <2>4, <2>5 DEF StackInv
  <1>10. PhaseInv'
    BY <1>1 DEF PhaseInv, CapsAreBacked, NothingLeftBehind, declVars
  <1> QED
    BY <1>7, <1>8, <1>9, <1>10

\* The steps that touch neither the sort nor the stack.
LEMMA OtherSteps ==
    ASSUME IInv, Serve \/ Stopped \/ Stop \/ Drained \/ Sweep \/ SweepEnds
    PROVE  IInv'
  <1> USE DEF IInv
  <1>1. /\ UNCHANGED <<declVars, topoVars, at, caps, started, running, err>>
        /\ phase' = phase \/ phase' \in {"up", "failed", "down", "draining", "stopping"}
    BY DEF Serve, Stopped, Stop, Drained, Sweep, SweepEnds
  <1>2. SortInv'
    BY <1>1 DEF SortInv, Injective, topoVars
  <1>3. StackInv'
    BY <1>1 DEF StackInv, Injective, declVars, topoVars
  <1>4. TypeOK'
    <2>1. sweep' \in Module \cup {NoModule}
      BY DEF Serve, Stopped, Stop, Drained, Sweep, SweepEnds, TypeOK
    <2> QED
      BY <1>1, <2>1 DEF TypeOK, Phases, declVars, topoVars
  <1>5. PhaseInv'
    <2>1. CASE Serve
      BY <2>1 DEF Serve, PhaseInv, CapsAreBacked, NothingLeftBehind, declVars
    <2>2. CASE Stopped
      <3>1. running = {}
        BY <2>2 DEF Stopped, StackInv
      <3> QED
        BY <2>2, <3>1 DEF Stopped, PhaseInv, CapsAreBacked, NothingLeftBehind, declVars
    <2>3. CASE Stop
      BY <2>3 DEF Stop, PhaseInv, CapsAreBacked, NothingLeftBehind, declVars
    <2>4. CASE Drained
      BY <2>4 DEF Drained, HousekeeperStopped, PhaseInv, CapsAreBacked,
                  NothingLeftBehind, declVars
    <2>5. CASE Sweep
      BY <2>5 DEF Sweep, PhaseInv, CapsAreBacked, NothingLeftBehind, declVars
    <2>6. CASE SweepEnds
      BY <2>6 DEF SweepEnds, PhaseInv, CapsAreBacked, NothingLeftBehind, declVars
    <2> QED
      BY <2>1, <2>2, <2>3, <2>4, <2>5, <2>6
  <1> QED
    BY <1>2, <1>3, <1>4, <1>5

LEMMA StepInv == ASSUME IInv, [Next]_vars PROVE IInv'
  <1>1. CASE Start
    BY <1>1, StartStep
  <1>2. CASE Dequeue
    BY <1>2, DequeueStep
  <1>3. CASE Sorted
    BY <1>3, SortedStep
  <1>4. CASE SkipUnmet
    BY <1>4, SkipUnmetStep
  <1>5. CASE \E r \in SUBSET Cap : StartSucceeds(r)
    BY <1>5, StartSucceedsStep
  <1>6. CASE \E r \in SUBSET Cap : StartFails(r)
    BY <1>6, StartFailsStep
  <1>7. CASE StopModule
    BY <1>7, StopModuleStep
  <1>8. CASE Serve \/ Stopped \/ Stop \/ Drained \/ Sweep \/ SweepEnds
    BY <1>8, OtherSteps
  <1>9. CASE UNCHANGED vars
    BY <1>9 DEF vars, declVars, topoVars, IInv, TypeOK, SortInv, StackInv, PhaseInv,
                Injective, CapsAreBacked, NothingLeftBehind
  <1> QED
    BY <1>1, <1>2, <1>3, <1>4, <1>5, <1>6, <1>7, <1>8, <1>9 DEF Next, Boot, Shutdown

----------------------------------------------------------------------------
(* The theorems                                                            *)

\* The inductive invariant holds in every reachable state.
THEOREM TrunkInv == Spec => []IInv
  BY InitInv, StepInv, PTL DEF Spec

\* Every variable keeps its type.
THEOREM TrunkTypes == Spec => []TypeOK
  <1>1. IInv => TypeOK
    BY DEF IInv
  <1> QED
    BY TrunkInv, <1>1, PTL

\* Whatever the module graph, the failures, the skips and the point at which the
\* boot is abandoned or the process stopped, Start and Stop never leave a running
\* module without a running provider of each capability it needs.
THEOREM ProvidersOutlive == Spec => []DependenciesOutlive
  <1>1. IInv => DependenciesOutlive
    <2> SUFFICES ASSUME IInv, NEW m \in running, NEW c \in needs[m]
                 PROVE  \E p \in running : c \in provides[p]
      BY DEF DependenciesOutlive
    <2>1. PICK i \in DOMAIN started : m = started[i]
      BY DEF IInv, StackInv
    <2>2. PICK j \in DOMAIN started : c \in provides[started[j]]
      BY <2>1 DEF IInv, StackInv
    <2> QED
      BY <2>2 DEF IInv, StackInv
  <1> QED
    BY TrunkInv, <1>1, PTL

\* While the trunk starts modules and while it serves, no capability of a module
\* whose Start failed is in the registry.
THEOREM RegistryIsBacked == Spec => []CapsAreBacked
  <1>1. IInv => CapsAreBacked
    BY DEF IInv, PhaseInv
  <1> QED
    BY TrunkInv, <1>1, PTL

\* A failed boot has unwound every module and has a reason; a finished Stop has
\* stopped every module.
THEOREM BootUnwinds == Spec => []NothingLeftBehind
  <1>1. IInv => NothingLeftBehind
    BY DEF IInv, PhaseInv
  <1> QED
    BY TrunkInv, <1>1, PTL

\* Housekeeping tasks run only against running modules.
THEOREM SweepsAreSafe == Spec => []SweepsOnLiveModules
  <1>1. IInv => SweepsOnLiveModules
    BY DEF IInv, PhaseInv, SweepsOnLiveModules
  <1> QED
    BY TrunkInv, <1>1, PTL
----------------------------------------------------------------------------
(* The sort is Kahn's algorithm                                            *)

Placed == {order[i] : i \in DOMAIN order}
Queued == {queue[i] : i \in DOMAIN queue}

\* A module's in-degree counts its unplaced providers.
CountInv == \A d \in Module : indeg[d] = Cardinality(ProvidersOf(d) \ Placed)

\* Every module whose count is down to zero is placed or queued.
ReadyInv == \A d \in Module : indeg[d] = 0 => d \in Placed \cup Queued

\* A placed module comes after its providers.
OrderInv == \A j \in DOMAIN order : \A p \in Module : Feeds(p, order[j]) =>
                \E i \in DOMAIN order : i < j /\ order[i] = p

KahnInv ==
    /\ err = "declaration" => phase = "failed"
    /\ phase # "new" /\ err # "declaration" => CountInv /\ ReadyInv
    /\ OrderInv
    /\ phase \in {"starting", "up"} => Len(order) = Len(Mods)
    /\ err = "cycle" => Cyclic

\* What a step that leaves the declarations and the sort alone keeps.
LEMMA SortFrame ==
    ASSUME UNCHANGED <<provides, needs, indeg, queue, order>>
    PROVE  /\ CountInv' = CountInv /\ ReadyInv' = ReadyInv
           /\ OrderInv' = OrderInv /\ Cyclic' = Cyclic
  <1>1. CountInv' = CountInv
    BY DEF CountInv, ProvidersOf, Feeds, Placed
  <1>2. ReadyInv' = ReadyInv
    BY DEF ReadyInv, Placed, Queued
  <1>3. OrderInv' = OrderInv
    BY DEF OrderInv, Feeds
  <1>4. Cyclic' = Cyclic
    BY DEF Cyclic, Feeds
  <1> QED
    BY <1>1, <1>2, <1>3, <1>4

\* A sequence of modules without repetition is as long as the set it lists.
LEMMA ListedOnce ==
    ASSUME NEW s \in Seq(Module), Injective(s)
    PROVE  Cardinality({s[i] : i \in DOMAIN s}) = Len(s)
  <1> DEFINE R == {s[i] : i \in DOMAIN s}
  <1>1. Len(s) \in Nat /\ DOMAIN s = 1 .. Len(s)
    OBVIOUS
  <1>2. s \in [1 .. Len(s) -> R]
    BY <1>1
  <1>3. s \in Bijection(1 .. Len(s), R)
    BY <1>1, <1>2 DEF Injective, Bijection, Injection, Surjection, IsInjective
  <1>4. ExistsBijection(1 .. Len(s), R)
    BY <1>3 DEF ExistsBijection
  <1> QED
    BY <1>1, <1>4, FS_CountingElements

\* A listing of S lists all of S.
LEMMA ListingsAreComplete ==
    ASSUME NEW S \in SUBSET Module, NEW l \in Listings(S)
    PROVE  S = {l[i] : i \in DOMAIN l}
  <1> DEFINE R == {l[i] : i \in DOMAIN l}
  <1>1. IsFiniteSet(S) /\ Cardinality(S) \in Nat
    BY ModsAssumption, FS_Subset, FS_CardinalityType
  <1>2. /\ l \in Seq(Module) /\ Injective(l)
        /\ \A i \in DOMAIN l : l[i] \in S
    BY ListingsAreInjective
  <1>3. Len(l) = Cardinality(S)
    BY <1>1 DEF Listings
  <1>4. R \in SUBSET S
    BY <1>2
  <1>5. Cardinality(R) = Cardinality(S)
    BY <1>2, <1>3, ListedOnce
  <1> QED
    BY <1>1, <1>4, <1>5, FS_Subset

\* The registration order lists every module.
LEMMA ModsListsModules == Len(Mods) = Cardinality(Module)
  <1>1. Module = {Mods[i] : i \in DOMAIN Mods}
    BY ModsAssumption
  <1>2. Injective(Mods)
    BY ModsAssumption DEF Injective
  <1> QED
    BY <1>1, <1>2, ModsAssumption, ListedOnce

\* The order is complete exactly when it is as long as the registration order.
LEMMA AllPlaced ==
    ASSUME TypeOK, SortInv
    PROVE  Len(order) = Len(Mods) <=> Placed = Module
  <1>1. Placed \in SUBSET Module
    BY DEF TypeOK, Placed
  <1>2. Cardinality(Placed) = Len(order)
    BY ListedOnce DEF TypeOK, SortInv, Placed
  <1> QED
    BY <1>1, <1>2, ModsListsModules, ModsAssumption, FS_Subset

\* Modules placed after all their providers contain no cycle: the first placed of
\* a set has its providers before it.
LEMMA PlacedIsAcyclic ==
    ASSUME TypeOK, KahnInv, Placed = Module
    PROVE  ~Cyclic
  <1> SUFFICES ASSUME NEW S \in SUBSET Module, S # {},
                      \A m \in S : \E p \in S : Feeds(p, m)
               PROVE  FALSE
    BY DEF Cyclic
  <1> DEFINE T == {i \in DOMAIN order : order[i] \in S}
  <1>0. order \in Seq(Module) /\ DOMAIN order = 1 .. Len(order)
    BY DEF TypeOK
  <1>1. T \subseteq Nat /\ T # {}
    <2>1. PICK m \in S : TRUE
      OBVIOUS
    <2>2. PICK i \in DOMAIN order : order[i] = m
      BY DEF Placed
    <2> QED
      BY <1>0, <2>1, <2>2
  <1>2. \E x \in T : \A y \in T : ~(<<y, x>> \in OpToRel(<, Nat))
    BY <1>1, NatLessThanWellFounded, WFMin, Zenon
  <1>3. ASSUME NEW x \in Nat, NEW y \in Nat, ~(<<y, x>> \in OpToRel(<, Nat))
        PROVE  x <= y
    <2>1. OpToRel(<, Nat) = {ss \in Nat \X Nat : ss[1] < ss[2]}
      BY Zenon DEF OpToRel
    <2>2. ~(<<y, x>> \in {ss \in Nat \X Nat : ss[1] < ss[2]})
      BY <1>3, <2>1, Zenon
    <2> QED
      BY <2>2, SMT
  <1>4. PICK j \in T : \A i \in T : j <= i
    BY <1>1, <1>2, <1>3
  <1>5. PICK p \in S : Feeds(p, order[j])
    OBVIOUS
  <1>6. PICK i \in DOMAIN order : i < j /\ order[i] = p
    BY <1>5 DEF KahnInv, OrderInv
  <1>7. i \in T
    BY <1>6
  <1> QED
    BY <1>1, <1>4, <1>6, <1>7

LEMMA KahnInit == Init => KahnInv
  BY DEF Init, KahnInv, OrderInv

\* Start counts every provider and queues the modules that have none.
LEMMA KahnStart == ASSUME IInv, KahnInv, Start PROVE KahnInv'
  <1> USE DEF IInv
  <1>1. phase = "new" /\ order = <<>> /\ err # "declaration"
    BY DEF Start, SortInv, KahnInv
  <1>2. CASE BadDeclaration
    <2>1. /\ UNCHANGED <<provides, needs, indeg, queue, order>>
          /\ phase' = "failed" /\ err' = "declaration"
      BY <1>2 DEF Start, declVars, topoVars
    <2> QED
      BY <2>1, SortFrame DEF KahnInv
  <1>3. CASE ~BadDeclaration
    <2> DEFINE S == {m \in Module : ProvidersOf(m) = {}}
    <2>1. /\ phase' = "sorting" /\ order' = <<>> /\ err' = err
          /\ queue' \in Listings(S)
          /\ indeg' = [m \in Module |-> Cardinality(ProvidersOf(m))]
          /\ provides' = provides /\ needs' = needs
      BY <1>1, <1>3 DEF Start, declVars
    <2>2. S = Queued'
      BY <2>1, ListingsAreComplete DEF Queued
    <2>3. Placed' = {}
      BY <2>1 DEF Placed
    <2>4. ASSUME NEW d \in Module
          PROVE  /\ indeg'[d] = Cardinality(ProvidersOf(d) \ Placed')
                 /\ indeg'[d] = 0 => d \in S
      <3>1. IsFiniteSet(ProvidersOf(d))
        BY ModsAssumption, FS_Subset DEF ProvidersOf
      <3>2. ProvidersOf(d) \ Placed' = ProvidersOf(d)
        BY <2>3
      <3> QED
        BY <2>1, <3>1, <3>2, FS_EmptySet
    <2> HIDE DEF S
    <2>5. CountInv'
      <3>1. \A d : {p \in Module : provides'[p] \cap needs'[d] # {}} = ProvidersOf(d)
        BY <2>1 DEF ProvidersOf, Feeds
      <3> QED
        BY <2>4, <3>1 DEF CountInv, ProvidersOf, Feeds
    <2>6. ReadyInv'
      BY <2>2, <2>4 DEF ReadyInv
    <2>7. OrderInv'
      BY <2>1 DEF OrderInv
    <2> QED
      BY <1>1, <2>1, <2>5, <2>6, <2>7 DEF KahnInv, Cyclic, Feeds
  <1> QED
    BY <1>2, <1>3

\* A dequeued module has no unplaced provider; placing it takes one from the count
\* of each module it feeds, and the ones that come to zero are queued.
LEMMA KahnDequeue == ASSUME IInv, KahnInv, Dequeue PROVE KahnInv'
  <1> USE DEF IInv
  <1> DEFINE m == Head(queue)
  <1>1. PICK l \in Listings(FreedBy(m)) : queue' = Tail(queue) \o l
    BY DEF Dequeue
  <1>2. /\ phase = "sorting" /\ queue # <<>> /\ order' = Append(order, m)
        /\ indeg' = [d \in Module |-> IF Feeds(m, d) THEN indeg[d] - 1 ELSE indeg[d]]
        /\ UNCHANGED <<provides, needs, phase, err>>
    BY DEF Dequeue, declVars
  <1>3. /\ queue \in Seq(Module) /\ order \in Seq(Module) /\ m \in Module
        /\ m = queue[1] /\ 1 \in DOMAIN queue /\ Len(order) \in Nat
    BY <1>2 DEF TypeOK
  <1>4. /\ FreedBy(m) = {l[i] : i \in DOMAIN l} /\ l \in Seq(Module)
    <2>1. FreedBy(m) \in SUBSET Module
      BY DEF FreedBy
    <2> HIDE DEF m
    <2> QED
      BY <2>1, ListingsAreComplete, ListingsAreInjective
  <1>5. m \notin Placed
    BY <1>3 DEF SortInv, Placed
  <1>6. indeg[m] <= 0
    BY <1>3 DEF SortInv
  <1>7. err # "declaration"
    BY <1>2 DEF KahnInv
  <1>8. Queued \subseteq {m} \cup Queued'
    <2> DEFINE t == Tail(queue)
    <2>1. t \in Seq(Module) /\ queue' = t \o l
      BY <1>1, <1>3
    <2>2. ASSUME NEW i \in DOMAIN queue PROVE queue[i] = m \/ queue[i] \in Queued'
      <3>1. CASE i = 1
        BY <1>3, <3>1
      <3>2. CASE i # 1
        <4>1. /\ i - 1 \in 1 .. Len(t) /\ t[i - 1] = queue[i]
              /\ Len(t) \in Nat /\ Len(l) \in Nat
          BY <1>3, <1>4, <3>2
        <4> HIDE DEF t
        <4>2. i - 1 \in DOMAIN queue' /\ queue'[i - 1] = t[i - 1]
          BY <1>4, <2>1, <4>1, ConcatProperties
        <4> QED
          BY <4>1, <4>2 DEF Queued
      <3> QED
        BY <3>1, <3>2
    <2> QED
      BY <2>2 DEF Queued
  <1>9. FreedBy(m) \subseteq Queued'
    <2> DEFINE t == Tail(queue)
    <2>1. t \in Seq(Module) /\ queue' = t \o l
      BY <1>1, <1>3
    <2> HIDE DEF t
    <2>2. ASSUME NEW i \in DOMAIN l PROVE l[i] \in Queued'
      <3>1. /\ Len(t) \in Nat /\ Len(l) \in Nat /\ i \in 1 .. Len(l)
        BY <1>4, <2>1
      <3>2. i + Len(t) \in DOMAIN queue' /\ queue'[i + Len(t)] = l[i]
        BY <1>4, <2>1, <3>1, ConcatProperties
      <3> QED
        BY <3>2 DEF Queued
    <2> QED
      BY <1>4, <2>2
  <1> HIDE DEF m
  <1>10. /\ DOMAIN order' = 1 .. Len(order) + 1 /\ DOMAIN order = 1 .. Len(order)
         /\ order'[Len(order) + 1] = m
         /\ \A i \in 1 .. Len(order) : order'[i] = order[i]
    BY <1>2, <1>3
  <1>11. Placed' = Placed \cup {m}
    <2>1. Placed' \subseteq Placed \cup {m}
      <3>1. ASSUME NEW i \in DOMAIN order' PROVE order'[i] \in Placed \cup {m}
        <4>1. i \in DOMAIN order \/ i = Len(order) + 1
          BY <1>3, <1>10
        <4> QED
          BY <1>10, <4>1 DEF Placed
      <3> QED
        BY <3>1 DEF Placed
    <2>2. Placed \subseteq Placed'
      <3>1. ASSUME NEW i \in DOMAIN order PROVE order[i] \in Placed'
        <4>1. i \in DOMAIN order' /\ order'[i] = order[i]
          BY <1>3, <1>10
        <4> QED
          BY <4>1 DEF Placed
      <3> QED
        BY <3>1 DEF Placed
    <2>3. m \in Placed'
      <3>1. Len(order) + 1 \in DOMAIN order'
        BY <1>3, <1>10
      <3> QED
        BY <1>10, <3>1 DEF Placed
    <2> QED
      BY <2>1, <2>2, <2>3
  <1>12. /\ \A d : {p \in Module : provides'[p] \cap needs'[d] # {}} = ProvidersOf(d)
         /\ Cyclic' = Cyclic
    BY <1>2 DEF Feeds, ProvidersOf, Cyclic
  <1>13. \A d \in Module : IsFiniteSet(ProvidersOf(d) \ Placed)
    BY ModsAssumption, FS_Subset DEF ProvidersOf
  <1>14. ASSUME NEW d \in Module
         PROVE  /\ indeg'[d] = Cardinality(ProvidersOf(d) \ Placed')
                /\ indeg'[d] = 0 => d \in Placed' \cup Queued'
    <2> DEFINE U == ProvidersOf(d) \ Placed
    <2>1. /\ indeg[d] = Cardinality(U) /\ indeg[d] \in Int
          /\ indeg[d] = 0 => d \in Placed \cup Queued
      BY <1>2, <1>7 DEF KahnInv, CountInv, ReadyInv, TypeOK
    <2>2. ProvidersOf(d) \ Placed' = U \ {m}
      BY <1>11
    <2>3. m \in U <=> Feeds(m, d)
      BY <1>3, <1>5 DEF ProvidersOf
    <2>4. IsFiniteSet(U)
      BY <1>13
    <2> HIDE DEF U
    <2>5. Cardinality(U \ {m}) = IF m \in U THEN Cardinality(U) - 1 ELSE Cardinality(U)
      BY <2>4, FS_RemoveElement
    <2>6. indeg'[d] = IF Feeds(m, d) THEN indeg[d] - 1 ELSE indeg[d]
      BY <1>2
    <2>7. indeg'[d] = Cardinality(ProvidersOf(d) \ Placed')
      BY <2>1, <2>2, <2>3, <2>5, <2>6
    <2>8. ASSUME indeg'[d] = 0 PROVE d \in Placed' \cup Queued'
      <3>1. CASE Feeds(m, d)
        <4>1. indeg[d] = 1
          BY <2>1, <2>6, <2>8, <3>1
        <4>2. d \in FreedBy(m)
          BY <3>1, <4>1 DEF FreedBy
        <4> QED
          BY <1>9, <4>2 DEF m
      <3>2. CASE ~Feeds(m, d)
        <4>1. d \in Placed \cup Queued
          BY <2>1, <2>6, <2>8, <3>2
        <4> QED
          BY <1>8, <1>11, <4>1 DEF m
      <3> QED
        BY <3>1, <3>2
    <2> QED
      BY <2>7, <2>8
  <1>15. ProvidersOf(m) \subseteq Placed
    <2> DEFINE U == ProvidersOf(m) \ Placed
    <2>1. indeg[m] = Cardinality(U)
      BY <1>2, <1>3, <1>7 DEF KahnInv, CountInv
    <2>2. IsFiniteSet(U)
      BY <1>3, <1>13
    <2> HIDE DEF U
    <2>3. Cardinality(U) \in Nat /\ (Cardinality(U) = 0 => U = {})
      BY <2>2, FS_CardinalityType, FS_EmptySet
    <2>4. Cardinality(U) <= 0
      BY <1>6, <2>1 DEF m
    <2>5. U = {}
      BY <2>3, <2>4
    <2> QED
      BY <2>5 DEF U
  <1>16. ASSUME NEW j \in DOMAIN order', NEW p \in Module, Feeds(p, order'[j])
         PROVE  \E i \in DOMAIN order' : i < j /\ order'[i] = p
    <2>1. CASE j \in DOMAIN order
      <3>1. PICK i \in DOMAIN order : i < j /\ order[i] = p
        BY <1>10, <1>16, <2>1 DEF KahnInv, OrderInv
      <3>2. i \in DOMAIN order' /\ order'[i] = p
        BY <1>3, <1>10, <3>1
      <3> QED
        BY <3>1, <3>2
    <2>2. CASE j = Len(order) + 1
      <3>1. PICK i \in DOMAIN order : order[i] = p
        BY <1>10, <1>15, <1>16, <2>2 DEF Placed, ProvidersOf
      <3>2. i \in DOMAIN order' /\ order'[i] = p /\ i < j
        BY <1>3, <1>10, <2>2, <3>1
      <3> QED
        BY <3>2
    <2> QED
      BY <1>3, <1>10, <2>1, <2>2
  <1>17. CountInv'
    BY <1>12, <1>14 DEF CountInv, ProvidersOf, Feeds
  <1>18. ReadyInv'
    BY <1>14 DEF ReadyInv
  <1>19. OrderInv'
    BY <1>2, <1>16 DEF OrderInv, Feeds
  <1> QED
    BY <1>2, <1>7, <1>12, <1>17, <1>18, <1>19 DEF KahnInv

\* With nothing queued, the modules left over each have a provider left over.
LEMMA KahnSorted == ASSUME IInv, KahnInv, Sorted PROVE KahnInv'
  <1> USE DEF IInv
  <1>1. /\ phase = "sorting" /\ queue = <<>> /\ err # "declaration"
        /\ UNCHANGED <<provides, needs, indeg, queue, order>>
    BY DEF Sorted, KahnInv, declVars, topoVars
  <1>2. /\ CountInv' /\ ReadyInv' /\ OrderInv' /\ Cyclic' = Cyclic
    BY <1>1, SortFrame DEF KahnInv
  <1>3. CASE Len(order) = Len(Mods)
    BY <1>1, <1>2, <1>3 DEF Sorted, KahnInv
  <1>4. CASE Len(order) # Len(Mods)
    <2> DEFINE S == Module \ Placed
    <2>1. S # {}
      <3>1. Placed \subseteq Module
        BY DEF TypeOK, Placed
      <3> QED
        BY <1>4, <3>1, AllPlaced
    <2>2. ASSUME NEW d \in S PROVE \E p \in S : Feeds(p, d)
      <3>1. indeg[d] # 0
        BY <1>1, <2>2 DEF KahnInv, ReadyInv, Queued
      <3>2. ProvidersOf(d) \ Placed # {}
        BY <1>1, <2>2, <3>1, FS_EmptySet DEF KahnInv, CountInv
      <3> QED
        BY <3>2 DEF ProvidersOf
    <2>3. Cyclic
      BY <2>1, <2>2 DEF Cyclic
    <2>4. phase' = "failed" /\ err' = "cycle"
      BY <1>4 DEF Sorted
    <2> QED
      BY <1>1, <1>2, <2>3, <2>4 DEF KahnInv
  <1> QED
    BY <1>3, <1>4

LEMMA KahnStep == ASSUME IInv, KahnInv, [Next]_vars PROVE KahnInv'
  <1>1. CASE Start
    BY <1>1, KahnStart
  <1>2. CASE Dequeue
    BY <1>2, KahnDequeue
  <1>3. CASE Sorted
    BY <1>3, KahnSorted
  <1>4. CASE ~(Start \/ Dequeue \/ Sorted)
    <2>1. /\ UNCHANGED <<provides, needs, indeg, queue, order>>
          /\ \/ UNCHANGED <<phase, err>>
             \/ phase # "new" /\ phase' = "up" /\ phase = "starting" /\ err' = err
             \/ phase = "starting" /\ phase' = "unwinding"
                  /\ err' \notin {"cycle", "declaration"}
             \/ /\ phase' \in {"failed", "down", "draining", "stopping"}
                /\ phase \notin {"new", "failed"} /\ err' = err
      BY <1>4 DEF Next, Boot, Shutdown, SkipUnmet, StartSucceeds, StartFails, Serve,
                  StopModule, Stopped, Stop, Drained, Sweep, SweepEnds, SkipOrAbort,
                  Continue, Abort, vars, declVars, topoVars
    <2> QED
      BY <2>1, SortFrame DEF KahnInv
  <1> QED
    BY <1>1, <1>2, <1>3, <1>4

\* For every module graph: when modules are started, the graph is acyclic and every
\* module is placed once, after all its providers; a boot that reports a cycle
\* has one.
THEOREM TrunkSortIsCorrect == Spec => []SortIsCorrect
  <1>1. IInv /\ KahnInv => SortIsCorrect
    <2> SUFFICES ASSUME IInv, KahnInv PROVE SortIsCorrect
      OBVIOUS
    <2> USE DEF IInv
    <2>1. ASSUME phase \in {"starting", "up"}
          PROVE  ~Cyclic /\ Len(order) = Cardinality(Module)
      BY <2>1, AllPlaced, PlacedIsAcyclic, ModsListsModules DEF KahnInv
    <2>2. ASSUME NEW i \in DOMAIN order, NEW j \in DOMAIN order,
                 order[i] = order[j] \/ Feeds(order[i], order[j])
          PROVE  i <= j
      <3>1. i \in Nat /\ j \in Nat /\ order[i] \in Module
        BY DEF TypeOK
      <3>2. CASE order[i] = order[j]
        BY <3>1, <3>2 DEF SortInv, Injective
      <3>3. CASE Feeds(order[i], order[j])
        <4>1. PICK k \in DOMAIN order : k < j /\ order[k] = order[i]
          BY <3>1, <3>3 DEF KahnInv, OrderInv
        <4>2. k = i
          BY <4>1 DEF SortInv, Injective
        <4> QED
          BY <3>1, <4>1, <4>2
      <3> QED
        BY <2>2, <3>2, <3>3
    <2> QED
      BY <2>1, <2>2 DEF SortIsCorrect, KahnInv
  <1> QED
    BY InitInv, StepInv, KahnInit, KahnStep, <1>1, PTL DEF Spec
=============================================================================

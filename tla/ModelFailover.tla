---------------------------- MODULE ModelFailover ----------------------------
(***************************************************************************)
(* The failover driver of the model pool (leaf/model: failover, pick, the  *)
(* concurrency slots and the bounded wait queue) for the requests of one   *)
(* kind.  A request walks the entries in rank order, skips the saturated   *)
(* ones, waits for a saturated entry it asked for rather than take a       *)
(* lesser one, and fails over when an attempt errs.  Whether an entry is   *)
(* eligible changes at any time (module ModelHealth says how).             *)
(***************************************************************************)
EXTENDS Naturals, Sequences, FiniteSetsExt, SequencesExt

CONSTANTS
    Model,          \* enabled entries of the kind
    Tags,           \* the tags of each entry
    Priority,       \* the declared priority of each entry
    Slots,          \* concurrency of each entry (every entry is limited here)
    queueDepthFactor,   \* depth of the queue per slot (2 in the code)
    Rules,          \* tag-fallback rules: a sequence of [tags, to]
    Req,            \* requests
    Requires,       \* required tags of each request
    Pinned,         \* the entry a request is pinned to, or NoPin
    NoPin,
    MaxRetries,     \* bound: busy retries of one attempt
    MaxTurns        \* bound: changes of an entry's health

ASSUME FailoverAssumption ==
    /\ IsFiniteSet(Req) /\ IsFiniteSet(Model)
    /\ Slots \in [Model -> Nat \ {0}]
    /\ queueDepthFactor \in Nat \ {0}
    /\ Pinned \in [Req -> Model \cup {NoPin}] /\ NoPin \notin Model
    /\ MaxRetries \in Nat /\ MaxTurns \in Nat

maxFallbackHops == 8

VARIABLES
    eligible,       \* entries pick may choose
    inFlight,       \* slots taken at each entry
    queueDepth,     \* requests admitted to the wait queue
    queueFull,      \* the latch behind the queue-full page
    req,            \* what each request is doing
    turns           \* health changes left

failoverVars == <<eligible, inFlight, queueDepth, queueFull, req, turns>>

NewReq == [pc |-> "pick", tried |-> {}, saturated |-> {}, failed |-> {},
           on |-> NoPin, waits |-> {}, last |-> FALSE, retries |-> 0]

FailoverInit ==
    /\ eligible = Model
    /\ inFlight = [e \in Model |-> 0]
    /\ queueDepth = 0 /\ queueFull = FALSE
    /\ req = [r \in Req |-> NewReq]
    /\ turns = MaxTurns

-----------------------------------------------------------------------------
(* Tag fallback.                                                           *)

\* The first rule whose tags are all required, applied; the set itself when
\* there is none.
applyFirstRule(requires) ==
    LET fits == {i \in 1 .. Len(Rules) :
                   /\ Rules[i].tags # {} /\ Rules[i].to # {}
                   /\ Rules[i].tags \subseteq requires}
        i    == CHOOSE n \in fits : \A m \in fits : n <= m
    IN  IF fits = {} THEN requires
        ELSE (requires \ Rules[i].tags) \cup Rules[i].to

\* The tag sets a request may be served under, best first: no set twice, at
\* most maxFallbackHops after the first.
fallbackChain(requires) ==
    LET grow(chain, n) ==
          LET next == applyFirstRule(Last(chain))
          IN  IF requires = {} \/ Contains(chain, next) THEN chain
              ELSE Append(chain, next)
    IN  FoldLeft(grow, <<requires>>, [n \in 1 .. maxFallbackHops |-> n])

ChainOf == [r \in Req |-> fallbackChain(Requires[r])]

Carries(e, tags) == tags \subseteq Tags[e]

Wanted(r) == {e \in Model : Carries(e, Requires[r])}

\* Highest priority, then lowest load (no tag is preferred here); cache
\* affinity and name, which decide among the rest, are left open.
Best(ready) ==
    {e \in ready : \A f \in ready :
        \/ Priority[e] > Priority[f]
        \/ Priority[e] = Priority[f] /\ inFlight[e] <= inFlight[f]}

\* The entries not tried yet that may serve a request under a set of tags.
Ready(tags, tried) == {e \in eligible \ tried : Carries(e, tags)}

\* What pick may return: the best of the entries that carry the required tags
\* or, with none of them ready, of those that carry the first link down the
\* chain for which one is.
pick(r, tried) ==
    LET chain == ChainOf[r]
        hops  == {i \in 2 .. Len(chain) : Ready(chain[i], tried) # {}}
        first == CHOOSE i \in hops : \A j \in hops : i <= j
    IN  IF Ready(Requires[r], tried) # {} THEN Best(Ready(Requires[r], tried))
        ELSE IF hops = {} THEN {} ELSE Best(Ready(chain[first], tried))

-----------------------------------------------------------------------------
(* Slots and the wait queue.                                               *)

Free(e) == inFlight[e] < Slots[e]

\* The slots of all entries, each on its own.
AllSlots == UNION {{e} \X (1 .. Slots[e]) : e \in Model}

queueCapacity == queueDepthFactor * Cardinality(AllSlots)

QueueHasRoom == queueDepth < queueCapacity

\* The request joins the queue for a slot of any of the rows.
EnterQueue(r, rows) ==
    /\ queueDepth' = queueDepth + 1
    /\ req' = [req EXCEPT ![r].pc = "wait", ![r].waits = rows]
    /\ UNCHANGED <<eligible, inFlight, queueFull, turns>>

Take(e) == inFlight' = [inFlight EXCEPT ![e] = @ + 1]
Release(r) == inFlight' = [inFlight EXCEPT ![req[r].on] = @ - 1]

End(r) == [NewReq EXCEPT !.pc = "done"]

-----------------------------------------------------------------------------
(* The driver.                                                             *)

\* An attempt that may still fail over (last = FALSE), or the end of the line.
Attempting(r, e, last) ==
    [req[r] EXCEPT !.pc = "attempt", !.on = e, !.last = last, !.waits = {}]

\* A pinned request never spills: it takes a slot of its entry or queues.
StartPinned(r) ==
    LET e == Pinned[r]
    IN  /\ req[r].pc = "pick" /\ e # NoPin
        /\ \/ /\ e \notin eligible
              /\ req' = [req EXCEPT ![r] = End(r)]
              /\ UNCHANGED <<eligible, inFlight, queueDepth, queueFull, turns>>
           \/ /\ e \in eligible /\ Free(e)
              /\ Take(e)
              /\ req' = [req EXCEPT ![r] = Attempting(r, e, TRUE)]
              /\ UNCHANGED <<eligible, queueDepth, queueFull, turns>>
           \/ /\ e \in eligible /\ ~Free(e) /\ QueueHasRoom
              /\ EnterQueue(r, {e})
           \/ /\ e \in eligible /\ ~Free(e) /\ ~QueueHasRoom
              /\ queueFull' = TRUE
              /\ req' = [req EXCEPT ![r] = End(r)]
              /\ UNCHANGED <<eligible, inFlight, queueDepth, turns>>

Busy(r) == req[r].saturated \cap eligible

\* Nothing is left to try: wait for any saturated entry that is still
\* eligible, or fail.
LastResort(r) ==
    /\ req[r].pc = "pick" /\ Pinned[r] = NoPin
    /\ pick(r, req[r].tried) = {}
    /\ \/ Busy(r) # {} /\ QueueHasRoom /\ EnterQueue(r, Busy(r))
       \/ /\ Busy(r) # {} /\ ~QueueHasRoom
          /\ queueFull' = TRUE
          /\ req' = [req EXCEPT ![r] = End(r)]
          /\ UNCHANGED <<eligible, inFlight, queueDepth, turns>>
       \/ /\ Busy(r) = {}
          /\ req' = [req EXCEPT ![r] = End(r)]
          /\ UNCHANGED <<eligible, inFlight, queueDepth, queueFull, turns>>

\* Mutant: a busy entry counts as one that failed.
NoBusyPrimary(r) == {}

\* pick offers a lesser entry while entries the request asked for are merely
\* busy: wait for one of those.
BusyPrimary(r) == Busy(r) \cap Wanted(r)

WaitForPrimary(r) ==
    /\ req[r].pc = "pick" /\ Pinned[r] = NoPin
    /\ \E e \in pick(r, req[r].tried) : e \notin Wanted(r)
    /\ BusyPrimary(r) # {} /\ QueueHasRoom
    /\ EnterQueue(r, BusyPrimary(r))

\* Is there anywhere to fail over to after e?
HasFallback(r, e) ==
    \/ pick(r, req[r].tried \cup {e}) # {}
    \/ Busy(r) \ {e} # {}

\* Take a slot of the entry pick offers, or note it as saturated.  A lesser
\* entry is only taken with no busy entry of the wanted ones to wait for, or
\* with their queue full.
TryEntry(r, e) ==
    /\ req[r].pc = "pick" /\ Pinned[r] = NoPin
    /\ e \in pick(r, req[r].tried)
    /\ LET full == e \notin Wanted(r) /\ BusyPrimary(r) # {}
       IN  /\ full => ~QueueHasRoom
           /\ queueFull' = (queueFull \/ full)
           /\ IF Free(e)
              THEN /\ Take(e)
                   /\ req' = [req EXCEPT ![r] =
                        Attempting(r, e, ~HasFallback(r, e))]
              ELSE /\ req' = [req EXCEPT ![r].tried = @ \cup {e},
                                         ![r].saturated = @ \cup {e}]
                   /\ UNCHANGED inFlight
    /\ UNCHANGED <<eligible, queueDepth, turns>>

\* A slot frees: the waiter takes it, leaves the queue, and has nowhere else
\* to go (tried = Model marks the attempt as final).
GetSlot(r, e) ==
    /\ req[r].pc = "wait" /\ e \in req[r].waits /\ Free(e)
    /\ Take(e)
    /\ queueDepth' = queueDepth - 1
    /\ req' = [req EXCEPT ![r] = [Attempting(r, e, TRUE) EXCEPT !.tried = Model]]
    /\ UNCHANGED <<eligible, queueFull, turns>>

\* Mutant: a cancelled wait keeps its place in the queue.
CancelKeepsPlace(r) ==
    /\ req[r].pc = "wait"
    /\ req' = [req EXCEPT ![r] = End(r)]
    /\ UNCHANGED <<eligible, inFlight, queueDepth, queueFull, turns>>

CancelWait(r) ==
    /\ req[r].pc = "wait"
    /\ queueDepth' = queueDepth - 1
    /\ req' = [req EXCEPT ![r] = End(r)]
    /\ UNCHANGED <<eligible, inFlight, queueFull, turns>>

-----------------------------------------------------------------------------
(* Attempts.                                                               *)

Final(r) == Pinned[r] # NoPin \/ req[r].tried = Model

\* A served call re-arms the page.
clearQueueFull == queueFull' = FALSE

Answered(r) ==
    /\ req[r].pc = "attempt"
    /\ Release(r)
    /\ clearQueueFull
    /\ req' = [req EXCEPT ![r] = End(r)]
    /\ UNCHANGED <<eligible, queueDepth, turns>>

\* The backend says it is busy and there is nowhere else to go: wait and try
\* the same entry again, holding the slot.
BusyRetry(r) ==
    /\ req[r].pc = "attempt" /\ req[r].last /\ req[r].retries < MaxRetries
    /\ req' = [req EXCEPT ![r].retries = @ + 1]
    /\ UNCHANGED <<eligible, inFlight, queueDepth, queueFull, turns>>

\* Mutant: the failed entry may be picked again.
ErrsForgets(r) ==
    /\ req[r].pc = "attempt"
    /\ Release(r)
    /\ req' = [req EXCEPT ![r] =
          IF Final(r) THEN End(r)
          ELSE [req[r] EXCEPT !.pc = "pick", !.on = NoPin, !.last = FALSE,
                              !.retries = 0, !.failed = @ \cup {req[r].on}]]
    /\ UNCHANGED <<eligible, queueDepth, queueFull, turns>>

\* The attempt errs: on to the next entry, unless this was the last resort.
Errs(r) ==
    /\ req[r].pc = "attempt"
    /\ Release(r)
    /\ req' = [req EXCEPT ![r] =
          IF Final(r) THEN End(r)
          ELSE [req[r] EXCEPT !.pc = "pick", !.on = NoPin, !.last = FALSE,
                              !.retries = 0, !.tried = @ \cup {req[r].on},
                              !.failed = @ \cup {req[r].on}]]
    /\ UNCHANGED <<eligible, queueDepth, queueFull, turns>>

\* The caller cancels, the prompt overflows the window, or the stream was
\* already shown: back to the caller without failover.
Surfaces(r) ==
    /\ req[r].pc = "attempt"
    /\ Release(r)
    /\ req' = [req EXCEPT ![r] = End(r)]
    /\ UNCHANGED <<eligible, queueDepth, queueFull, turns>>

\* An entry dies, is paused, or comes back.
HealthTurns(e) ==
    /\ turns > 0 /\ turns' = turns - 1
    /\ eligible' = IF e \in eligible THEN eligible \ {e} ELSE eligible \cup {e}
    /\ UNCHANGED <<inFlight, queueDepth, queueFull, req>>

Step(r) ==
    \/ StartPinned(r) \/ LastResort(r) \/ WaitForPrimary(r)
    \/ \E e \in Model : TryEntry(r, e)
    \/ Answered(r) \/ BusyRetry(r) \/ Errs(r) \/ Surfaces(r)

FailoverNext ==
    \/ \E r \in Req : Step(r) \/ CancelWait(r) \/ \E e \in Model : GetSlot(r, e)
    \/ \E e \in Model : HealthTurns(e)

\* Attempts end (the provider's hard timeout), callers run, and a channel
\* hands freed slots to its waiters in turn.
FailoverFair ==
    \A r \in Req : /\ WF_failoverVars(Step(r))
                   /\ SF_failoverVars(\E e \in Model : GetSlot(r, e))

FailoverSpec ==
    FailoverInit /\ [][FailoverNext]_failoverVars /\ FailoverFair

-----------------------------------------------------------------------------
(* Properties.                                                             *)

\* Every slot taken is held by an attempt and every place in the queue by a
\* request that waits, on every way out: success, error, failover, cancelled
\* wait, full queue.
NothingLeaks ==
    /\ queueDepth = Cardinality({r \in Req : req[r].pc = "wait"})
    /\ \A e \in Model : inFlight[e] =
          Cardinality({r \in Req : req[r].pc = "attempt" /\ req[r].on = e})
    /\ queueDepth <= queueCapacity

\* The entries a request has turned to: it is served by one, waits for some, or
\* found them full and keeps them as its last resort.
TurnedTo(r) ==
    req[r].saturated \cup req[r].waits \cup ({req[r].on} \ {NoPin})

\* A request turns to an entry without the tags it requires only when each
\* entry that has them failed it or cannot be picked at that moment, or their
\* queue has no room: never because they are merely busy.
NoSilentDowngrade ==
    [][\A r \in Req : Pinned[r] = NoPin =>
         \A e \in TurnedTo(r)' \ TurnedTo(r) :
            \/ e \in Wanted(r)
            \/ ~QueueHasRoom
            \/ Wanted(r) \cap eligible \subseteq req[r].failed]_failoverVars

\* Every request ends.
RequestsEnd == <>(\A r \in Req : req[r].pc = "done")
=============================================================================

------------------------------- MODULE TurnLoop -------------------------------
(***************************************************************************)
(* The turn core (leaf/turn): one turn of a session runs rounds of model   *)
(* call and tool dispatch until a door ends it.  The transcript in the     *)
(* message store outlives the turn, a crash and a restart; everything else *)
(* is the turn's own.  Both drivers are here: the regular one, and the     *)
(* looping one, whose quiet sink holds pictures until the turn ends and    *)
(* whose deliveries an advisor reviews.                                    *)
(*                                                                         *)
(* Texts are the names of their kinds.  What the model answers, what tools *)
(* return and what the judges say is left open.  The sub-turns (advisor,   *)
(* arbiter) are their verdicts; the prompt's steering layers are left out. *)
(***************************************************************************)
EXTENDS Naturals, Integers, Sequences, SequencesExt, FiniteSets

CONSTANTS
    Batches,            \* the batches of tool calls an answer may carry: each
                        \* a sequence of [tool, arg]
    loopCap,            \* rounds of one attempt (40 regular, 500 looping)
    staleMax,           \* rounds without progress (loopBudget + budgetGrace)
    sameArgsMax, sameFailMax, maxBloatTrips,
    maxRubricRetries, maxReviewRetries,
    historyReplayCap,   \* rows replayed while the session has no summary
    Budgets             \* bound: a behaviour is limited to the turns, the
                        \* rounds and the shocks (cancels, crashes, panics,
                        \* store and delivery errors, compactions, nudges)
                        \* of one of these

ASSUME TurnAssumption ==
    /\ loopCap \in Nat \ {0} /\ staleMax \in Nat \ {0}
    /\ historyReplayCap \in Nat \ {0}
    /\ \A b \in Batches : b \in Seq(Range(b))
    /\ {sameArgsMax, sameFailMax, maxBloatTrips, maxRubricRetries,
        maxReviewRetries} \subseteq Nat
    /\ Budgets \subseteq [turns : Nat, rounds : Nat, shocks : Nat, spent : {0}]

VARIABLES
    hist,       \* the session's rows in the message store
    pc,         \* where the turn is
    mode,       \* which driver runs it
    cancelled,  \* the turn's context is dead
    st,         \* turnState
    round,      \* the round: replay in hand, messages sent, calls, results,
                \* and the reply on its way to the store and the sink
    sink,       \* what the sink received
    world,      \* what became of the last attempt of each call in the turn
    budget      \* turns, rounds and shocks left, and shocks spent

turnVars == <<hist, pc, mode, cancelled, st, round, sink, world, budget>>

SideEffect(tool) == tool = "send"
Delivers(tool) == tool = "send"
Tool == {call.tool : call \in UNION {Range(b) : b \in Batches}}
Key == {<<call.tool, call.arg>> : call \in UNION {Range(b) : b \in Batches}}

Row(role, ids) == [role |-> role, ids |-> ids]

NewState ==
    [exit |-> "none", iter |-> 0, limit |-> loopCap, progress |-> -1,
     key |-> <<>>, same |-> 0, fails |-> [t \in Tool |-> 0],
     bloat |-> 0, strip |-> FALSE, nudged |-> FALSE,
     sideEffectFails |-> {}, armed |-> FALSE, rubricRetries |-> 0,
     produced |-> FALSE, reviewRetries |-> 0, concern |-> FALSE]

NewSink == [finished |-> 0, text |-> "", footer |-> FALSE, ok |-> TRUE,
            held |-> 0, outcome |-> "none"]

\* A reply in finalizeTurn: how its turn is booked when it is delivered and
\* when it is not; raw: it goes to the sink as given to Run; onTurn: its row is
\* written on the turn's own context; cut: that context had died by the write.
NoReply == [text |-> "", footer |-> FALSE, outcome |-> "none", failed |-> "none",
            raw |-> FALSE, onTurn |-> FALSE, cut |-> FALSE]

NoRound == [replay |-> <<>>, inHand |-> FALSE, calls |-> <<>>, ids |-> <<>>,
            results |-> <<>>, saved |-> 0, reply |-> NoReply]

TurnInit ==
    /\ hist = <<>> /\ pc = "idle" /\ mode = "regular" /\ cancelled = FALSE
    /\ st = NewState /\ round = NoRound /\ sink = NewSink
    /\ world = [k \in Key |-> "never"]
    /\ budget \in Budgets

\* n disturbances happen.
Shocks(n) ==
    /\ budget.shocks >= n
    /\ budget' = [budget EXCEPT !.shocks = @ - n, !.spent = @ + n]

Goes(ok) == IF ok THEN 0 ELSE 1

-----------------------------------------------------------------------------
(* The transcript.                                                         *)

\* Once there is a summary the replay starts at it; before that it is the last
\* historyReplayCap rows, wherever that cut falls.  (A compaction keeps the
\* rows it summarised in the table, out of any replay's reach.)
GetReplay ==
    IF (hist # <<>> /\ hist[1].role = "summary") \/ Len(hist) <= historyReplayCap
    THEN hist
    ELSE SubSeq(hist, Len(hist) - historyReplayCap + 1, Len(hist))

IdsOf(rows) == UNION {Range(rows[i].ids) : i \in 1 .. Len(rows)}

\* The ids of the rows of one role among rows, up to the n-th.
IdsIn(rows, role, n) ==
    UNION {Range(rows[i].ids) : i \in {j \in 1 .. n : rows[j].role = role}}

\* Pairs of numbers in lexicographic order.
Upto(S, p) == {q \in S : q[1] < p[1] \/ (q[1] = p[1] /\ q[2] <= p[2])}
InOrder(S) ==
    [k \in 1 .. Cardinality(S) |-> CHOOSE p \in S : Cardinality(Upto(S, p)) = k]

\* Tool rows whose call is not in the replay before them go.
dropOrphanToolRows(rows) ==
    LET keep == {i \in 1 .. Len(rows) :
                   rows[i].role = "tool" => Range(rows[i].ids) \subseteq IdsIn(rows, "calls", i)}
        kept == InOrder({<<i, 0>> : i \in keep})
    IN  [k \in 1 .. Len(kept) |-> rows[kept[k][1]]]

\* Mutant: calls without a result are sent as they are.
leaveOrphanCalls(rows) == rows

\* The places of a mended replay: <<i, 0>> is the row i, <<i, j>> the missing
\* result of its j-th call, the first with that id.
Lost(rows, i) ==
    {j \in 1 .. Len(rows[i].ids) :
        /\ rows[i].role = "calls"
        /\ rows[i].ids[j] \notin IdsIn(rows, "tool", Len(rows)) \cup IdsIn(rows, "calls", i - 1)
        /\ \A k \in 1 .. j - 1 : rows[i].ids[k] # rows[i].ids[j]}
Places(rows) == UNION {{i} \X ({0} \cup Lost(rows, i)) : i \in 1 .. Len(rows)}

\* Calls without a result row get an "interrupted" one right behind them.
repairOrphanToolCalls(rows) ==
    LET places == InOrder(Places(rows))
    IN  [k \in 1 .. Len(places) |->
            LET i == places[k][1]
                j == places[k][2]
            IN  IF j = 0 THEN rows[i] ELSE Row("tool", <<rows[i].ids[j]>>)]

Messages(replay) == repairOrphanToolCalls(dropOrphanToolRows(replay))

\* The compaction of everything before the cut, which backs off the results of
\* a tool round to the calls they belong to; 0 when all of it is recent.
splitForCompaction(rows, cut) ==
    LET heads == {i \in 1 .. cut : rows[i].role # "tool"}
    IN  IF heads = {} THEN 0 ELSE CHOOSE i \in heads : \A j \in heads : j <= i

Compacted(rows, cut) ==
    <<Row("summary", <<>>)>> \o SubSeq(rows, splitForCompaction(rows, cut), Len(rows))

Compactable(rows) == {cut \in 2 .. Len(rows) : splitForCompaction(rows, cut) > 1}

\* Ids for the calls of a batch, unique in the whole replay: dedupeCalls makes
\* such ids for the calls that have none; the backends' own are taken at their
\* word.
FreshIds(n) ==
    LET used == IdsOf(hist)
        free == (1 .. n + Cardinality(used)) \ used
    IN  [k \in 1 .. n |-> InOrder({<<i, 0>> : i \in free})[k][1]]

-----------------------------------------------------------------------------
(* The doors.  Every way out of a turn ends in one Finish.                 *)

flushPictures(s) == [s EXCEPT !.held = 0]

\* Finish on the sink as given to Run.
Finish(s, text, footer, ok) ==
    [s EXCEPT !.finished = @ + 1, !.text = text, !.footer = footer, !.ok = ok]

\* Finish on the driver's sink: the looping driver's releases its pictures
\* first.
DriverFinish(text, footer, ok) == Finish(flushPictures(sink), text, footer, ok)

Ends(s, outcome) ==
    /\ sink' = [s EXCEPT !.outcome = outcome]
    /\ pc' = "done" /\ round' = [NoRound EXCEPT !.reply.cut = round.reply.cut]
    /\ UNCHANGED <<mode, cancelled, world>>

\* How the drivers book a round that erred, by the context as it is by then.
Erred == IF cancelled THEN "cancelled" ELSE "error"
Booked(outcome) == IF outcome = "erred" THEN Erred ELSE outcome

\* finalizeTurn looks at the context once: alive, the reply's row is written on
\* it; dead, on one of its own, as the salvage's always is.  outcome and failed
\* are how the caller books the reply, delivered or not.
finalizeTurn(text, footer, outcome, failed) ==
    /\ round' = [NoRound EXCEPT !.reply =
                    [text |-> text, footer |-> footer, outcome |-> outcome,
                     failed |-> failed, raw |-> pc = "salvage",
                     onTurn |-> pc # "salvage" /\ ~cancelled, cut |-> FALSE]]
    /\ pc' = "store"
    /\ UNCHANGED <<hist, mode, cancelled, sink, world, budget>>

\* Mutant: the reply is stored on the turn's own context, dead or not.
TurnContextDied(r) == cancelled

\* The turn's context was alive when finalizeTurn looked and died before the
\* write.
ContextDied(r) == r.onTurn /\ cancelled

\* The reply's row is written; an error is logged, and the reply goes out.
StoreReply ==
    LET r == round.reply
    IN  /\ pc = "store" /\ pc' = "finish"
        /\ \E stored \in BOOLEAN :
              /\ ContextDied(r) => ~stored
              /\ Shocks(Goes(stored \/ ContextDied(r)))
              /\ hist' = IF stored THEN Append(hist, Row(r.text, <<>>)) ELSE hist
        /\ round' = [round EXCEPT !.reply.cut = r.onTurn /\ cancelled]
        /\ UNCHANGED <<mode, cancelled, st, sink, world>>

FinishOf(r, ok) ==
    IF r.raw THEN Finish(sink, r.text, r.footer, ok)
    ELSE DriverFinish(r.text, r.footer, ok)

FinishReply ==
    LET r == round.reply
    IN  /\ pc = "finish"
        /\ \E ok \in BOOLEAN :
              /\ Shocks(Goes(ok))
              /\ Ends(FinishOf(r, ok), Booked(IF ok THEN r.outcome ELSE r.failed))
        /\ UNCHANGED <<hist, st>>

\* Finish with nothing to show; whether that arrives is only logged.
Release(s, outcome) ==
    \E ok \in BOOLEAN :
        /\ Shocks(Goes(ok))
        /\ Ends(Finish(s, "", FALSE, ok), outcome)
        /\ UNCHANGED hist

releaseSink(outcome) == Release(flushPictures(sink), outcome)

\* A notice that is shown and not stored.
Notice(text) ==
    \E ok \in BOOLEAN :
        /\ Shocks(1 + Goes(ok))
        /\ Ends(DriverFinish(text, FALSE, ok), "error")
        /\ UNCHANGED hist

sideEffectFooter == st.sideEffectFails # {}

-----------------------------------------------------------------------------
(* Run's prelude.                                                          *)

StartTurn(m) ==
    /\ pc \in {"idle", "done"} /\ budget.turns > 0
    /\ budget' = [budget EXCEPT !.turns = @ - 1]
    /\ pc' = "persist" /\ mode' = m /\ cancelled' = FALSE
    /\ st' = NewState /\ round' = NoRound /\ sink' = NewSink
    /\ world' = [k \in Key |-> "never"]
    /\ UNCHANGED hist

persistUserRows ==
    /\ pc = "persist"
    /\ \/ cancelled /\ releaseSink("cancelled") /\ UNCHANGED st
       \/ ~cancelled /\ Notice("persist_fail") /\ UNCHANGED st
       \/ /\ ~cancelled
          /\ hist' = Append(hist, Row("user", <<>>))
          /\ pc' = "top"
          /\ UNCHANGED <<mode, cancelled, st, round, sink, world, budget>>

-----------------------------------------------------------------------------
(* The loop top.                                                           *)

\* The loop is left when its rounds are spent, then on a dead context, then on
\* the exit a round has left behind.
LoopTop ==
    /\ pc = "top"
    /\ LET spent == st.iter >= st.limit
       IN  /\ st' = IF ~spent /\ cancelled THEN [st EXCEPT !.exit = "cancelled"] ELSE st
           /\ pc' = IF spent \/ cancelled \/ st.exit # "none" THEN "leave" ELSE "compress"
    /\ UNCHANGED <<hist, mode, cancelled, round, sink, world, budget>>

InHand(rows) == round' = [NoRound EXCEPT !.replay = rows, !.inHand = TRUE]

\* Read the replay; summarise its head when it has outgrown the window, and read
\* again.  On a dead context, or a failed read, the round will read for itself.
maybeCompressInPlace ==
    /\ pc = "compress" /\ pc' = "nudge"
    /\ \/ /\ ~cancelled
          /\ InHand(GetReplay)
          /\ UNCHANGED <<hist, budget>>
       \/ /\ ~cancelled /\ Shocks(1)
          /\ \E cut \in Compactable(GetReplay) : hist' = Compacted(GetReplay, cut)
          /\ InHand(hist') \/ round' = NoRound
       \/ /\ cancelled \/ budget.shocks > 0
          /\ Shocks(Goes(cancelled))
          /\ round' = NoRound
          /\ UNCHANGED hist
    /\ UNCHANGED <<mode, cancelled, st, sink, world>>

staleRounds == st.iter - st.progress

\* A dry progress budget ends the turn; a message that came in while the turn
\* ran is folded in, once per turn, as a user row.  When the row cannot be
\* stored it still reaches this round, provided the replay is in hand.
foldUserNudge ==
    LET told == Append(round.replay, Row("user", <<>>))
    IN  /\ pc = "nudge"
        /\ \/ /\ staleRounds >= staleMax
              /\ st' = [st EXCEPT !.exit = "stuck"] /\ pc' = "leave"
              /\ UNCHANGED <<hist, round, budget>>
           \/ /\ staleRounds < staleMax
              /\ pc' = "build"
              /\ UNCHANGED <<hist, st, round, budget>>
           \/ /\ staleRounds < staleMax /\ ~st.nudged
              /\ st' = [st EXCEPT !.nudged = TRUE] /\ pc' = "build"
              /\ \E stored \in BOOLEAN :
                    /\ cancelled => ~stored
                    /\ Shocks(1 + Goes(cancelled \/ stored))
                    /\ hist' = IF stored THEN Append(hist, Row("user", <<>>)) ELSE hist
              /\ round' = IF round.inHand THEN [round EXCEPT !.replay = told] ELSE round
        /\ UNCHANGED <<mode, cancelled, sink, world>>

\* A round without a replay in hand reads it: on a dead context it leaves in
\* silence, on a failed read with a notice rather than answer from nothing.
buildMessages ==
    /\ pc = "build"
    /\ \/ /\ round.inHand \/ ~cancelled
          /\ round' = [round EXCEPT !.replay =
                         Messages(IF round.inHand THEN @ ELSE GetReplay)]
          /\ pc' = "model"
          /\ budget.rounds > 0 /\ budget' = [budget EXCEPT !.rounds = @ - 1]
          /\ UNCHANGED <<hist, mode, cancelled, st, sink, world>>
       \/ ~round.inHand /\ cancelled /\ releaseSink("cancelled") /\ UNCHANGED st
       \/ ~round.inHand /\ ~cancelled /\ Notice("persist_fail") /\ UNCHANGED st

-----------------------------------------------------------------------------
(* The model's answer.                                                     *)

NextRound(s) ==
    /\ st' = [s EXCEPT !.iter = @ + 1]
    /\ pc' = "top" /\ round' = NoRound
    /\ UNCHANGED <<mode, cancelled, sink, world>>

Empty == pc = "model" /\ NextRound(st) /\ UNCHANGED <<hist, budget>>

\* Caught in the stream or in the finished reply: discarded, straight to the
\* salvage.
handleDegenerate ==
    /\ pc = "model"
    /\ NextRound([st EXCEPT !.exit = "degenerate"])
    /\ UNCHANGED <<hist, budget>>

\* Too much packed into one call's arguments: ask for less, then strip the tools.
handleBloat ==
    /\ pc = "model" /\ ~st.strip /\ ~cancelled
    /\ NextRound([st EXCEPT !.bloat = @ + 1,
                            !.strip = st.bloat + 1 > maxBloatTrips])
    /\ UNCHANGED <<hist, budget>>

\* The prompt does not fit: summarise and try again, or own up (a context that
\* dies meanwhile fails the summary).
Oversized ==
    /\ pc = "model"
    /\ \/ /\ ~cancelled /\ Shocks(1)
          /\ \E cut \in Compactable(GetReplay) : hist' = Compacted(GetReplay, cut)
          /\ NextRound(st)
       \/ /\ UNCHANGED st
          /\ finalizeTurn("context_too_long", FALSE, "degraded", "degraded")

\* The call fails; shown says that part of the answer had reached the user.
ModelFails(shown) ==
    /\ pc = "model" /\ UNCHANGED st
    /\ shown => mode = "regular" /\ ~st.armed
    /\ \/ shown /\ finalizeTurn("partial", FALSE, "erred", "erred")
       \/ ~shown /\ cancelled /\ releaseSink(Erred)
       \/ ~shown /\ ~cancelled /\ finalizeTurn("model_unavailable", FALSE, "erred", "erred")

FinalText ==
    /\ pc = "model" /\ pc' = "gate"
    /\ round' = NoRound
    /\ UNCHANGED <<hist, mode, cancelled, st, sink, world, budget>>

CallsTools(b) ==
    /\ pc = "model" /\ ~st.strip
    /\ pc' = "calls"
    /\ round' = [NoRound EXCEPT !.calls = b]
    /\ UNCHANGED <<hist, mode, cancelled, st, sink, world, budget>>

-----------------------------------------------------------------------------
(* The final reply and its gates.                                          *)

\* Mutant: the redo is granted and not counted.
RedoUncounted(s) == NextRound([st EXCEPT !.progress = st.iter,
                                         !.limit = st.iter + 1 + loopCap])

\* The loop's limit moves with every redo: a fresh attempt, a fresh budget.
Redo(s) == NextRound([s EXCEPT !.progress = st.iter,
                               !.limit = st.iter + 1 + loopCap])

finalReply == finalizeTurn("final", sideEffectFooter, "final", "erred")

\* pass is the verdict after the arbiter's second opinion; a judge that cannot
\* be reached or understood passes.
rubricGate(pass) ==
    LET s == [st EXCEPT !.rubricRetries = @ + 1]
    IN  /\ pc = "gate" /\ st.armed
        /\ \/ pass /\ finalReply /\ UNCHANGED st
           \/ /\ ~pass /\ s.rubricRetries <= maxRubricRetries
              /\ Redo(s)
              /\ UNCHANGED <<hist, budget>>
           \/ /\ ~pass /\ s.rubricRetries > maxRubricRetries
              /\ st' = s
              /\ finalizeTurn("rubric_fail", sideEffectFooter, "degraded", "erred")

\* Without a rubric a looping turn that has changed something is reviewed by
\* the advisor: past the cap the delivery goes out with the objection.
advisorReviewGate(pass) ==
    LET s == [st EXCEPT !.reviewRetries = @ + 1]
        reviewed == mode = "looping" /\ st.produced
    IN  /\ pc = "gate" /\ ~st.armed
        /\ ~reviewed => pass
        /\ \/ /\ pass
              /\ st' = [st EXCEPT !.concern = @ /\ ~reviewed]
              /\ finalReply
           \/ /\ ~pass /\ s.reviewRetries <= maxReviewRetries
              /\ Redo(s)
              /\ UNCHANGED <<hist, budget>>
           \/ /\ ~pass /\ s.reviewRetries > maxReviewRetries
              /\ st' = [s EXCEPT !.concern = TRUE]
              /\ finalReply

-----------------------------------------------------------------------------
(* A tool round.                                                           *)

\* The calls are stored before any of them runs; when they cannot be, nothing
\* runs and the turn ends with a notice, stored if the store will have it.
appendAssistantCalls ==
    /\ pc = "calls"
    /\ \/ /\ ~cancelled
          /\ round' = [round EXCEPT !.ids = FreshIds(Len(round.calls))]
          /\ hist' = Append(hist, Row("calls", round'.ids))
          /\ pc' = "dispatch"
          /\ UNCHANGED <<mode, cancelled, st, sink, world, budget>>
       \/ \E stored, ok \in BOOLEAN :
             /\ cancelled => ~stored
             /\ ~cancelled => budget.shocks > 0
             /\ Shocks(Goes(cancelled) + Goes(cancelled \/ stored) + Goes(ok))
             /\ hist' = IF stored THEN Append(hist, Row("persist_fail", <<>>)) ELSE hist
             /\ Ends(DriverFinish("persist_fail", FALSE, ok), Erred)
             /\ UNCHANGED st

\* "new": a result the tool had not returned before; "again": the same call
\* and the same result as before; "fail": an error, a panic contained, an
\* unknown tool, or skipped because the turn was cancelled.
Outcome(tool) ==
    IF tool \in {"ask", "hush"} THEN {"new", "fail"} ELSE {"new", "again", "fail"}

\* The calls of a batch behind the first n of it that are the call k; and
\* whether the last of some calls failed: a batch may ask for the same twice.
Repeats(calls, n, k) ==
    {i \in n + 1 .. Len(calls) : <<calls[i].tool, calls[i].arg>> = k}
LastFails(is, res) ==
    \E i \in is : res[i] = "fail" /\ \A j \in is : j <= i

\* The tools run; results come in the order of the calls, whatever order they
\* ran in.  A dead context runs nothing.
dispatchAll ==
    /\ pc = "dispatch" /\ pc' = "results"
    /\ LET n == Len(round.calls)
       IN  \E res \in [1 .. n -> {"new", "again", "fail"}] :
              /\ \A i \in 1 .. n :
                    /\ res[i] \in Outcome(round.calls[i].tool)
                    /\ cancelled => res[i] = "fail"
              /\ round' = [round EXCEPT !.results = res]
              /\ world' = [k \in Key |->
                    LET mine == Repeats(round.calls, 0, k)
                    IN  IF mine = {} THEN world[k]
                        ELSE IF LastFails(mine, res) THEN "failed" ELSE "done"]
              /\ sink' = [sink EXCEPT !.held = @ + Cardinality(
                    {i \in 1 .. n : /\ mode = "looping" /\ res[i] # "fail"
                                    /\ round.calls[i].tool = "paint"})]
    /\ UNCHANGED <<hist, mode, cancelled, st, budget>>

\* Mutant: any success of a tool clears the failures of its other calls too.
RecordClearsTool(call, res) ==
    LET key == <<call.tool, call.arg>>
    IN  IF res = "fail"
        THEN [st EXCEPT !.fails[call.tool] = @ + 1,
                        !.sideEffectFails =
                           IF SideEffect(call.tool) THEN @ \cup {key} ELSE @]
        ELSE [st EXCEPT !.armed = @ \/ call.tool = "view",
                        !.sideEffectFails = {}]

\* Progress, guards, side effects and the rubric a viewed skill arms.
recordToolOutcome(call, res) ==
    LET key  == <<call.tool, call.arg>>
        side == SideEffect(call.tool)
        same == IF key = st.key THEN st.same + 1 ELSE 1
        exit(now) == IF st.exit = "none" /\ now THEN "stuck" ELSE st.exit
    IN  IF res = "fail"
        THEN [st EXCEPT
                !.sideEffectFails = IF side THEN @ \cup {key} ELSE @,
                !.key = <<>>, !.same = 0,
                !.fails[call.tool] = @ + 1,
                !.exit = exit(st.fails[call.tool] + 1 > sameFailMax)]
        ELSE [st EXCEPT
                !.sideEffectFails = @ \ {key},
                !.produced = @ \/ side \/ Delivers(call.tool),
                !.progress = IF res = "new" \/ Delivers(call.tool) THEN st.iter ELSE @,
                !.key = key, !.same = same,
                !.fails[call.tool] = 0,
                !.exit = exit(same > sameArgsMax),
                !.armed = @ \/ call.tool = "view"]

\* The next result row is stored (once more after a lock), and counted whether
\* or not that worked.
pipelineAndPersist ==
    LET i == round.saved + 1
    IN  /\ pc = "results" /\ i <= Len(round.calls)
        /\ \/ /\ ~cancelled
              /\ hist' = Append(hist, Row("tool", <<round.ids[i]>>))
              /\ UNCHANGED budget
           \/ /\ cancelled \/ budget.shocks > 0
              /\ Shocks(Goes(cancelled))
              /\ UNCHANGED hist
        /\ st' = recordToolOutcome(round.calls[i], round.results[i])
        /\ round' = [round EXCEPT !.saved = i]
        /\ UNCHANGED <<pc, mode, cancelled, sink, world>>

Exits ==
    SelectSeq([i \in 1 .. Len(round.calls) |->
                 IF round.results[i] = "fail" THEN "none" ELSE round.calls[i].tool],
              LAMBDA t : t \in {"ask", "hush"})

\* All rows are stored: the first tool that asked to end the turn does, with
\* its reply or in silence; otherwise the next round.
toolRoundEnds ==
    /\ pc = "results" /\ round.saved = Len(round.calls)
    /\ \/ /\ Exits = <<>>
          /\ NextRound(st)
          /\ UNCHANGED <<hist, budget>>
       \/ /\ Exits # <<>> /\ Head(Exits) = "hush"
          /\ releaseSink("process")
          /\ UNCHANGED st
       \/ /\ Exits # <<>> /\ Head(Exits) = "ask"
          /\ finalizeTurn("exit", sideEffectFooter, "process", "erred")
          /\ UNCHANGED st

-----------------------------------------------------------------------------
(* The teardown the drivers share.                                         *)

\* Mutant: the looping driver returns without releasing its pictures.
LeaveHolding ==
    /\ pc = "leave"
    /\ \/ /\ st.exit = "cancelled"
          /\ Release(sink, "cancelled")
          /\ UNCHANGED st
       \/ /\ st.exit # "cancelled"
          /\ st' = [st EXCEPT !.exit = IF @ = "none" THEN "iter_cap" ELSE @]
          /\ pc' = "salvage"
          /\ UNCHANGED <<hist, mode, cancelled, round, sink, world, budget>>

\* The driver's deferred flush, then the cancel door or the salvage.
LeaveLoop ==
    /\ pc = "leave"
    /\ \/ /\ st.exit = "cancelled"
          /\ releaseSink("cancelled")
          /\ UNCHANGED st
       \/ /\ st.exit # "cancelled"
          /\ st' = [st EXCEPT !.exit = IF @ = "none" THEN "iter_cap" ELSE @]
          /\ pc' = "salvage"
          /\ sink' = flushPictures(sink)
          /\ UNCHANGED <<hist, mode, cancelled, round, world, budget>>

\* A model's brief, judged once when a rubric is armed; without a model the
\* list of the tools that ran, or the stock line.
salvage(text) ==
    /\ pc = "salvage" /\ UNCHANGED st
    /\ text = "rubric_fail" => st.armed
    /\ finalizeTurn(text, sideEffectFooter, "degraded", "degraded")

-----------------------------------------------------------------------------
(* What befalls a turn.                                                    *)

Running == pc \notin {"idle", "done"}

Cancel ==
    /\ Running /\ ~cancelled /\ cancelled' = TRUE
    /\ Shocks(1)
    /\ UNCHANGED <<hist, pc, mode, st, round, sink, world>>

\* A panic unwinds through the driver's deferred flush to Run's backstop.
Panic ==
    /\ Running
    /\ \E ok \in BOOLEAN :
          /\ Shocks(1 + Goes(ok))
          /\ Ends(Finish(flushPictures(sink), "internal_error", FALSE, ok), "error")
    /\ UNCHANGED <<hist, st>>

Crash ==
    /\ Running /\ Shocks(1)
    /\ pc' = "idle" /\ mode' = "regular" /\ cancelled' = FALSE
    /\ st' = NewState /\ round' = NoRound /\ sink' = NewSink
    /\ world' = [k \in Key |-> "never"]
    /\ UNCHANGED hist

TurnNext ==
    \/ \E m \in {"regular", "looping"} : StartTurn(m)
    \/ persistUserRows \/ LoopTop \/ maybeCompressInPlace \/ foldUserNudge
    \/ buildMessages
    \/ Empty \/ handleDegenerate \/ handleBloat \/ Oversized \/ FinalText
    \/ \E shown \in BOOLEAN : ModelFails(shown)
    \/ \E b \in Batches : CallsTools(b)
    \/ \E pass \in BOOLEAN : rubricGate(pass) \/ advisorReviewGate(pass)
    \/ appendAssistantCalls \/ dispatchAll \/ pipelineAndPersist \/ toolRoundEnds
    \/ LeaveLoop
    \/ \E text \in {"salvage", "brief", "rubric_fail"} : salvage(text)
    \/ StoreReply \/ FinishReply
    \/ Cancel \/ Panic \/ Crash

TurnSpec == TurnInit /\ [][TurnNext]_turnVars

-----------------------------------------------------------------------------
(* Properties.                                                             *)

\* Whatever ends a turn (a reply, a tool's exit, silence, an error, a cancel,
\* a spent budget, a panic), its sink is finished exactly once, no picture
\* stays held behind, and a turn booked as answered was delivered, whatever it
\* had to say.
SettledAtEnd ==
    pc = "done" =>
        /\ sink.finished = 1 /\ sink.held = 0
        /\ sink.outcome \in {"final", "process"} => sink.ok \/ sink.text = ""

\* Behind a row of calls come the results of just these calls, one each, and a
\* result comes nowhere else.
WellFormed(rows) ==
    /\ \A i \in 1 .. Len(rows) : rows[i].role = "calls" =>
          LET block == i + 1 .. i + Len(rows[i].ids)
          IN  /\ block \subseteq 1 .. Len(rows)
              /\ \A k \in block : rows[k].role = "tool" /\ Len(rows[k].ids) = 1
              /\ {rows[k].ids[1] : k \in block} = Range(rows[i].ids)
    /\ \A i \in 1 .. Len(rows) : rows[i].role = "tool" =>
          \E j \in 1 .. i - 1 : rows[j].role = "calls" /\ i <= j + Len(rows[j].ids)

\* The messages sent to the model pair every call with its results: crashes
\* between the rows, lost rows, cancelled turns, compactions and the replay's
\* cut all leave holes that the rebuild mends.
ReplayWellFormed == pc = "model" => WellFormed(round.replay)

SideEffectFailed == \E k \in Key : SideEffect(k[1]) /\ world[k] = "failed"

\* A reply that speaks for the turn (final, tool exit, salvage, rubric failure)
\* carries the footer exactly when a side effect failed and the same call was
\* not made to succeed later, however many rounds, redos and exits lie between.
AnswersDisclose ==
    pc = "done" /\ sink.text \in {"final", "exit", "salvage", "brief", "rubric_fail"}
        => sink.footer = SideEffectFailed

\* Nothing but a cancel has happened.
Undisturbed == budget.spent = Goes(~cancelled)

\* Without disturbances other than cancels, the transcript ends in what the
\* user was shown: a context that died before finalizeTurn looked at it never
\* leaves a reply that was delivered out of the history, whichever door the
\* reply took and whatever happens behind the look.  Exempt are the reply whose
\* context died between that look and the write on it (ShownIsStored is about
\* that one), the notice that a row could not be stored, which is not stored by
\* design, and silence, which leaves no row.
HistoryMatches ==
    /\ pc = "done" /\ Undisturbed /\ ~round.reply.cut
    /\ sink.text \notin {"", "persist_fail"}
    => Last(hist).role = sink.text

\* What gets finished and what gets stored always agree, in the words of the
\* comment on finalizeTurn: also when the context dies behind its look at it.
ShownIsStored ==
    /\ pc = "done" /\ Undisturbed
    /\ sink.text \notin {"", "persist_fail"}
    => Last(hist).role = sink.text

\* A turn comes to an end however its judges rule: the gates that grant redos
\* move the loop's limit, one after the other where a rubric is armed between
\* two reviews, and its rounds stay within one cap per redo that a gate of the
\* turn's driver may grant.
RoundsAreBounded ==
    LET redos == maxRubricRetries + IF mode = "looping" THEN maxReviewRetries ELSE 0
    IN  st.iter <= loopCap * (1 + redos)
=============================================================================

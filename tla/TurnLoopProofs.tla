--------------------------- MODULE TurnLoopProofs ---------------------------
(***************************************************************************)
(* What holds of every turn, for any batches of calls, any caps and        *)
(* budgets and any number of turns and crashes: the sink is settled when a *)
(* turn ends, the answers disclose what failed, the transcript ends in     *)
(* what the user was shown, what the model is sent pairs every call with   *)
(* its result, and the rounds stay within what the gates may grant.        *)
(*                                                                         *)
(* The invariant says how far the turn is.  The sink is not finished       *)
(* before the turn is done, and past the driver's flush it holds no        *)
(* picture.  The failures the turn remembers are those of the world,       *)
(* except, while results are being recorded, for the calls whose last      *)
(* result is still to come.  A reply on its way carries the footer the     *)
(* world calls for, and between its row and its delivery that row is the   *)
(* last one, unless the context it was to be written on had died.          *)
(* Disturbances are never fewer than cancels.                              *)
(*                                                                         *)
(* A second invariant, on top of it, is about the transcript: every stored *)
(* result stands right behind its calls and the results stored before it.  *)
(* A replay's cut can sever results only at its head, a compaction none;   *)
(* so the rebuild has to drop leading rows and to fill gaps, and where a   *)
(* row ends up is counted: its rank among the places of the mended replay. *)
(*                                                                         *)
(* A third bounds the rounds: the limit moves by at most one cap per redo  *)
(* counted, a round runs below it, and a redo is counted before it starts. *)
(***************************************************************************)
EXTENDS TurnLoop, FiniteSetTheorems, SequenceTheorems, WellFoundedInduction, TLAPS

-----------------------------------------------------------------------------
(* The invariant.                                                          *)

PCs == {"idle", "persist", "top", "compress", "nudge", "build", "model", "gate",
        "calls", "dispatch", "results", "leave", "salvage", "store", "finish", "done"}

\* A reply is on its way to the store and the sink.
Replying == {"store", "finish"}

Exit == {"none", "cancelled", "stuck", "degenerate", "iter_cap"}

Speaking == {"final", "exit", "salvage", "brief", "rubric_fail"}
Shown == Speaking \cup {"context_too_long", "partial", "model_unavailable"}
Text == Shown \cup {"", "persist_fail", "internal_error"}
Result == {"none", "final", "process", "degraded", "cancelled", "error"}

StateType ==
    [exit : Exit, iter : Nat, limit : Nat, progress : Int,
     key : Key \cup {<<>>}, same : Nat, fails : [Tool -> Nat],
     bloat : Nat, strip : BOOLEAN, nudged : BOOLEAN,
     sideEffectFails : SUBSET Key, armed : BOOLEAN, rubricRetries : Nat,
     produced : BOOLEAN, reviewRetries : Nat, concern : BOOLEAN]

SinkType == [finished : Nat, text : Text, footer : BOOLEAN, ok : BOOLEAN,
             held : Nat, outcome : Result]

ReplyType == [text : Shown, footer : BOOLEAN,
              outcome : {"final", "process", "degraded", "erred"},
              failed : {"degraded", "erred"},
              raw : BOOLEAN, onTurn : BOOLEAN, cut : BOOLEAN]

BudgetType == [turns : Nat, rounds : Nat, shocks : Nat, spent : Nat]

\* The transcript is a sequence of some rows.
HistOK == \E R : hist \in Seq(R)

\* Everything but the transcript and the turn's own state.
FrameOK ==
    /\ pc \in PCs
    /\ mode \in {"regular", "looping"}
    /\ cancelled \in BOOLEAN
    /\ sink \in SinkType
    /\ world \in [Key -> {"never", "done", "failed"}]
    /\ budget \in BudgetType
    /\ DOMAIN round = DOMAIN NoRound

\* The round while it has calls.
RoundOK ==
    /\ pc \in {"calls", "dispatch", "results"} => round.calls \in Batches
    /\ pc \in {"calls", "dispatch"} => round.saved = 0
    /\ pc = "results" =>
          /\ round.saved \in 0 .. Len(round.calls)
          /\ round.results \in [1 .. Len(round.calls) -> {"new", "again", "fail"}]

SinkOK ==
    /\ pc # "done" => sink.finished = 0
    /\ pc = "salvage" => sink.held = 0

SpentOK == budget.spent >= Goes(~cancelled)

FailedKeys == {k \in Key : SideEffect(k[1]) /\ world[k] = "failed"}

\* The failures the turn remembers, while the results are recorded.
RecordingOK ==
    \A k \in Key :
        LET pending == Repeats(round.calls, round.saved, k)
        IN  /\ k \in st.sideEffectFails => SideEffect(k[1])
            /\ SideEffect(k[1]) /\ pending = {} =>
                  (k \in st.sideEffectFails <=> world[k] = "failed")
            /\ SideEffect(k[1]) /\ pending # {} =>
                  (LastFails(pending, round.results) <=> world[k] = "failed")

FailsOK ==
    /\ pc = "results" => RecordingOK
    /\ pc \notin {"results", "store", "finish", "done"} =>
          st.sideEffectFails = FailedKeys

\* The reply on its way.
ReplyOK ==
    pc \in Replying =>
        /\ round.reply \in ReplyType
        /\ round.reply.text \in Speaking => round.reply.footer = SideEffectFailed
        /\ round.reply.raw => sink.held = 0
        /\ pc = "finish" /\ Undisturbed /\ ~round.reply.cut =>
              Last(hist).role = round.reply.text

TurnInv ==
    /\ HistOK /\ FrameOK /\ st \in StateType
    /\ RoundOK /\ SinkOK /\ SpentOK /\ FailsOK /\ ReplyOK
    /\ SettledAtEnd /\ AnswersDisclose /\ HistoryMatches

-----------------------------------------------------------------------------
(* The transcript stays a sequence.                                        *)

\* A set of numbers from 1 to n that is not empty has a greatest one.
LEMMA GreatestBelow ==
    ASSUME NEW n \in Nat, NEW I \in SUBSET (1 .. n), I # {}
    PROVE  \E i \in I : \A j \in I : j <= i
<1> DEFINE D == {n - i : i \in I}
<1>1. D \subseteq Nat /\ D # {}
  <2>1. \A i \in I : n - i \in Nat
    OBVIOUS
  <2> QED BY <2>1
<1>2. \E x \in D : \A y \in D : ~ (<<y, x>> \in OpToRel(<, Nat))
  <2> HIDE DEF D
  <2> QED BY <1>1, NatLessThanWellFounded, WFMin, Zenon
<1>3. \E x \in D : \A y \in D : x <= y
  <2>1. ASSUME NEW x \in Nat, NEW y \in Nat, ~ (<<y, x>> \in OpToRel(<, Nat))
        PROVE  x <= y
    <3>1. OpToRel(<, Nat) = {ss \in Nat \X Nat : ss[1] < ss[2]}
      BY Zenon DEF OpToRel
    <3>2. ~ (<<y, x>> \in {ss \in Nat \X Nat : ss[1] < ss[2]})
      BY <2>1, <3>1, Zenon
    <3> QED BY <3>2, SMT
  <2> HIDE DEF D
  <2> QED BY <1>1, <1>2, <2>1
<1>4. PICK i \in I : \A j \in I : n - i <= n - j
  BY <1>3
<1>5. \A j \in I : j <= i
  BY <1>4
<1> QED BY <1>5

\* What a replay reads is a sequence.
LEMMA ReplayIsSeq ==
    ASSUME NEW R, hist \in Seq(R)
    PROVE  GetReplay \in Seq(R)
<1>1. historyReplayCap \in Nat \ {0}
  BY TurnAssumption
<1> QED BY <1>1 DEF GetReplay

\* What a compaction keeps starts at a row that is no result.
LEMMA SplitAtHead ==
    ASSUME NEW R, NEW rows \in Seq(R), NEW cut \in Compactable(rows)
    PROVE  /\ splitForCompaction(rows, cut) \in 2 .. Len(rows)
           /\ rows[splitForCompaction(rows, cut)].role # "tool"
<1> DEFINE heads == {i \in 1 .. cut : rows[i].role # "tool"}
           from == splitForCompaction(rows, cut)
<1>1. cut \in 2 .. Len(rows) /\ from > 1 /\ Len(rows) \in Nat
  BY DEF Compactable
<1>2. heads # {}
  BY <1>1 DEF splitForCompaction
<1>3. \E i \in heads : \A j \in heads : j <= i
  <2>1. heads \in SUBSET (1 .. cut) /\ cut \in Nat
    BY <1>1
  <2> HIDE DEF heads
  <2> QED BY <1>2, <2>1, GreatestBelow
<1>4. from \in heads
  <2>1. from = CHOOSE i \in heads : \A j \in heads : j <= i
    BY <1>2 DEF splitForCompaction
  <2> HIDE DEF heads, from
  <2> QED BY <1>3, <2>1
<1> QED BY <1>1, <1>4

\* A compaction leaves a sequence.
LEMMA CompactionIsSeq ==
    ASSUME NEW R, NEW rows \in Seq(R), NEW cut \in Compactable(rows)
    PROVE  \E Q : Compacted(rows, cut) \in Seq(Q)
<1> DEFINE from == splitForCompaction(rows, cut)
           tail == SubSeq(rows, from, Len(rows))
<1>1. from \in 2 .. Len(rows) /\ Len(rows) \in Nat
  BY SplitAtHead
<1> HIDE DEF from
<1>2. tail \in Seq(R)
  BY <1>1
<1> HIDE DEF tail
<1>3. <<Row("summary", <<>>)>> \o tail \in Seq(R \cup {Row("summary", <<>>)})
  BY <1>2
<1> QED BY <1>3 DEF Compacted, tail, from

\* The ways an action changes the transcript.
LEMMA HistSame ==
    ASSUME HistOK, UNCHANGED hist
    PROVE  HistOK'
BY DEF HistOK

LEMMA HistAppended ==
    ASSUME HistOK, NEW row, hist' = Append(hist, row)
    PROVE  HistOK' /\ Last(hist') = row
<1>1. PICK R : hist \in Seq(R)
  BY DEF HistOK
<1>2. Append(hist, row) \in Seq(R \cup {row})
  BY <1>1
<1>3. hist' \in Seq(R \cup {row})
  BY <1>2
<1>4. Last(hist') = row
  BY <1>1 DEF Last
<1> QED BY <1>3, <1>4 DEF HistOK

LEMMA HistCompacted ==
    ASSUME HistOK, NEW cut \in Compactable(GetReplay),
           hist' = Compacted(GetReplay, cut)
    PROVE  HistOK'
<1>1. PICK R : hist \in Seq(R)
  BY DEF HistOK
<1>2. GetReplay \in Seq(R)
  BY <1>1, ReplayIsSeq
<1>3. \E Q : Compacted(GetReplay, cut) \in Seq(Q)
  BY <1>2, CompactionIsSeq
<1> QED BY <1>3 DEF HistOK

-----------------------------------------------------------------------------
(* Steps of one shape.                                                     *)

\* A disturbance is spent.
LEMMA ShocksStep ==
    ASSUME budget \in BudgetType, NEW n \in Nat, Shocks(n)
    PROVE  /\ budget' \in BudgetType
           /\ budget'.spent = budget.spent + n
<1>1. /\ budget.shocks \in Nat /\ budget.spent \in Nat
      /\ budget.shocks - n \in Nat /\ budget.spent + n \in Nat
  BY DEF BudgetType, Shocks
<1>2. budget' = [budget EXCEPT !.shocks = budget.shocks - n,
                               !.spent = budget.spent + n]
  BY DEF Shocks
<1> QED BY <1>1, <1>2 DEF BudgetType

\* Short of a cancel, what is spent only has to grow.
LEMMA SpentGrows ==
    ASSUME SpentOK, budget \in BudgetType, budget' \in BudgetType,
           budget'.spent >= budget.spent, UNCHANGED cancelled
    PROVE  SpentOK'
BY DEF SpentOK, BudgetType, Goes

\* A step of a turn that goes on.
LEMMA Continues ==
    ASSUME TurnInv, st.sideEffectFails = FailedKeys,
           pc' \in PCs \ {"idle", "done", "results", "salvage", "dispatch", "calls",
                          "store", "finish"},
           pc # "done", DOMAIN round' = DOMAIN NoRound,
           UNCHANGED <<mode, cancelled, sink, world>>,
           st' \in StateType, st'.sideEffectFails = st.sideEffectFails,
           HistOK', budget' \in BudgetType, budget'.spent >= budget.spent
    PROVE  TurnInv'
<1>1. FrameOK'
  BY DEF TurnInv, FrameOK
<1>2. RoundOK' /\ SinkOK'
  BY DEF TurnInv, RoundOK, SinkOK
<1>3. SpentOK'
  BY SpentGrows DEF TurnInv, FrameOK
<1>4. FailsOK'
  <2>1. FailedKeys' = FailedKeys
    BY DEF FailedKeys
  <2> QED BY <2>1 DEF FailsOK
<1>5. ReplyOK' /\ SettledAtEnd' /\ AnswersDisclose' /\ HistoryMatches'
  BY DEF ReplyOK, Replying, SettledAtEnd, AnswersDisclose, HistoryMatches
<1> QED BY <1>1, <1>2, <1>3, <1>4, <1>5 DEF TurnInv

\* A step that ends a turn.
LEMMA Ended ==
    ASSUME TurnInv, pc \notin {"idle", "done"},
           NEW s \in SinkType, s.finished = 1, s.held = 0,
           NEW outcome \in Result,
           outcome \in {"final", "process"} => s.ok \/ s.text = "",
           Ends(s, outcome),
           st' \in StateType, HistOK', budget' \in BudgetType,
           budget'.spent >= budget.spent,
           /\ budget'.spent = Goes(~cancelled) /\ ~round.reply.cut
           /\ s.text \notin {"", "persist_fail"}
           => Last(hist').role = s.text,
           s.text \in Speaking => s.footer = SideEffectFailed
    PROVE  TurnInv'
<1>1. /\ sink' \in SinkType
      /\ sink'.finished = 1 /\ sink'.held = 0 /\ sink'.text = s.text
      /\ sink'.footer = s.footer /\ sink'.ok = s.ok /\ sink'.outcome = outcome
  BY DEF SinkType, Ends
<1>2. /\ pc' = "done" /\ DOMAIN round' = DOMAIN NoRound
      /\ round'.reply.cut = round.reply.cut
      /\ UNCHANGED <<mode, cancelled, world>>
  BY DEF Ends, NoRound, NoReply
<1>3. FrameOK'
  BY <1>1, <1>2 DEF TurnInv, FrameOK, PCs
<1>4. RoundOK' /\ SinkOK' /\ FailsOK' /\ ReplyOK'
  BY <1>2 DEF RoundOK, SinkOK, FailsOK, ReplyOK, Replying
<1>5. SpentOK'
  BY <1>2, SpentGrows DEF TurnInv, FrameOK
<1>6. SettledAtEnd'
  BY <1>1 DEF SettledAtEnd
<1>7. AnswersDisclose'
  <2>1. SideEffectFailed' = SideEffectFailed
    BY <1>2 DEF SideEffectFailed
  <2> QED BY <1>1, <2>1 DEF AnswersDisclose, Speaking
<1>8. HistoryMatches'
  BY <1>1, <1>2 DEF HistoryMatches, Undisturbed
<1> QED BY <1>3, <1>4, <1>5, <1>6, <1>7, <1>8 DEF TurnInv

\* What every Finish leaves of a sink that was still open.
Closed(s, text, footer, ok) ==
    /\ s \in SinkType /\ s.finished = 1 /\ s.held = 0
    /\ s.text = text /\ s.footer = footer /\ s.ok = ok

LEMMA FinishSettles ==
    ASSUME NEW s \in SinkType, s.finished = 0, s.held = 0,
           NEW text \in Text, NEW footer \in BOOLEAN, NEW ok \in BOOLEAN
    PROVE  Closed(Finish(s, text, footer, ok), text, footer, ok)
<1> DEFINE f == [s EXCEPT !.finished = 1, !.text = text, !.footer = footer, !.ok = ok]
<1>1. Finish(s, text, footer, ok) = f
  BY DEF Finish
<1>2. f \in SinkType
  BY DEF SinkType
<1>3. f.finished = 1 /\ f.held = 0 /\ f.text = text
  BY DEF SinkType
<1>4. f.footer = footer /\ f.ok = ok
  BY DEF SinkType
<1> HIDE DEF f
<1> QED BY <1>1, <1>2, <1>3, <1>4 DEF Closed

LEMMA FlushEmpties ==
    ASSUME sink \in SinkType
    PROVE  /\ flushPictures(sink) \in SinkType
           /\ flushPictures(sink).held = 0
           /\ flushPictures(sink).finished = sink.finished
BY DEF SinkType, flushPictures

\* A running turn's sink is open, and emptied by the flush.
LEMMA OpenSink ==
    ASSUME TurnInv, pc # "done"
    PROVE  /\ sink \in SinkType /\ sink.finished = 0
           /\ flushPictures(sink) \in SinkType
           /\ flushPictures(sink).held = 0 /\ flushPictures(sink).finished = 0
BY FlushEmpties DEF TurnInv, FrameOK, SinkOK

LEMMA DriverSettles ==
    ASSUME TurnInv, pc # "done",
           NEW text \in Text, NEW footer \in BOOLEAN, NEW ok \in BOOLEAN
    PROVE  Closed(DriverFinish(text, footer, ok), text, footer, ok)
<1> DEFINE s == flushPictures(sink)
<1>1. s \in SinkType /\ s.held = 0 /\ s.finished = 0
  BY OpenSink
<1>2. DriverFinish(text, footer, ok) = Finish(s, text, footer, ok)
  BY DEF DriverFinish
<1> HIDE DEF s
<1> QED BY <1>1, <1>2, FinishSettles

\* A reply sets out.
LEMMA FinalStep ==
    ASSUME TurnInv, pc \notin {"idle", "done"}, st' \in StateType,
           NEW text \in Shown, NEW footer \in BOOLEAN,
           NEW outcome \in {"final", "process", "degraded", "erred"},
           NEW failed \in {"degraded", "erred"},
           text \in Speaking => footer = SideEffectFailed,
           finalizeTurn(text, footer, outcome, failed)
    PROVE  TurnInv'
<1> DEFINE raw == pc = "salvage"
           onTurn == pc # "salvage" /\ ~cancelled
           r == [text |-> text, footer |-> footer, outcome |-> outcome,
                 failed |-> failed, raw |-> raw, onTurn |-> onTurn, cut |-> FALSE]
<1>1. /\ round' = [NoRound EXCEPT !.reply = r] /\ pc' = "store"
      /\ UNCHANGED <<hist, mode, cancelled, sink, world, budget>>
  BY DEF finalizeTurn
<1>2. raw \in BOOLEAN /\ onTurn \in BOOLEAN /\ FALSE \in BOOLEAN
  BY Zenon
<1>3. raw => sink.held = 0
  BY DEF TurnInv, SinkOK
<1> HIDE DEF raw, onTurn
<1>4. r \in ReplyType /\ r.text = text /\ r.footer = footer /\ r.raw = raw
  BY <1>2 DEF ReplyType
<1> HIDE DEF r
<1>5. DOMAIN round' = DOMAIN NoRound /\ round'.reply = r
  BY <1>1 DEF NoRound
<1>6. HistOK' /\ FrameOK' /\ SpentOK'
  BY <1>1, <1>5, HistSame DEF TurnInv, FrameOK, PCs, SpentOK
<1>7. RoundOK' /\ SinkOK' /\ FailsOK'
  BY <1>1 DEF TurnInv, RoundOK, SinkOK, FailsOK
<1>8. ReplyOK'
  <2>1. SideEffectFailed' = SideEffectFailed
    BY <1>1 DEF SideEffectFailed
  <2> QED BY <1>1, <1>3, <1>4, <1>5, <2>1 DEF ReplyOK, Replying
<1>9. SettledAtEnd' /\ AnswersDisclose' /\ HistoryMatches'
  BY <1>1 DEF SettledAtEnd, AnswersDisclose, HistoryMatches
<1> QED BY <1>6, <1>7, <1>8, <1>9 DEF TurnInv

\* Its row is written, or lost with the context or to an error.
LEMMA StoreInv ==
    ASSUME TurnInv, StoreReply
    PROVE  TurnInv'
<1> DEFINE r == round.reply
           c == r.onTurn /\ cancelled
<1>1. /\ pc = "store" /\ pc' = "finish"
      /\ round' = [round EXCEPT !.reply.cut = c]
      /\ UNCHANGED <<mode, cancelled, st, sink, world>>
  BY DEF StoreReply
<1>2. PICK stored \in BOOLEAN :
        /\ c => ~stored
        /\ Shocks(Goes(stored \/ c))
        /\ hist' = IF stored THEN Append(hist, Row(r.text, <<>>)) ELSE hist
  BY Zenon DEF StoreReply, ContextDied
<1>3. /\ r \in ReplyType
      /\ r.text \in Speaking => r.footer = SideEffectFailed
      /\ r.raw => sink.held = 0
  BY <1>1 DEF TurnInv, ReplyOK, Replying
<1>4. c \in BOOLEAN
  BY Zenon
<1> HIDE DEF c
<1>5. DOMAIN round' = DOMAIN NoRound /\ round'.reply = [r EXCEPT !.cut = c]
  BY <1>1 DEF TurnInv, FrameOK, NoRound
<1>6. /\ round'.reply \in ReplyType /\ round'.reply.cut = c
      /\ round'.reply.text = r.text /\ round'.reply.footer = r.footer
      /\ round'.reply.raw = r.raw
  <2> HIDE DEF r
  <2> QED BY <1>3, <1>4, <1>5 DEF ReplyType
<1>7. Goes(stored \/ c) \in {0, 1} /\ (~stored /\ ~c => Goes(stored \/ c) = 1)
  BY DEF Goes
<1>8. budget' \in BudgetType /\ budget'.spent = budget.spent + Goes(stored \/ c)
  BY <1>2, <1>7, ShocksStep DEF TurnInv, FrameOK
<1>9. budget.spent \in Nat /\ budget.spent >= Goes(~cancelled) /\ Goes(~cancelled) \in Nat
  BY DEF TurnInv, FrameOK, BudgetType, SpentOK, Goes
<1>10. budget'.spent >= budget.spent
  BY <1>7, <1>8, <1>9
<1>11. HistOK' /\ (stored => Last(hist') = Row(r.text, <<>>))
  <2>1. CASE stored
    BY <1>2, <2>1, HistAppended DEF TurnInv
  <2>2. CASE ~stored
    BY <1>2, <2>2, HistSame DEF TurnInv
  <2> QED BY <2>1, <2>2
<1>12. budget'.spent = Goes(~cancelled) /\ ~c => Last(hist').role = r.text
  <2>1. CASE stored
    BY <1>11, <2>1 DEF Row
  <2>2. CASE ~stored
    BY <1>7, <1>8, <1>9, <2>2
  <2> QED BY <2>1, <2>2
<1>13. FrameOK' /\ SpentOK' /\ st' \in StateType
  BY <1>1, <1>5, <1>8, <1>10, SpentGrows DEF TurnInv, FrameOK, PCs
<1>14. RoundOK' /\ SinkOK' /\ FailsOK'
  BY <1>1 DEF TurnInv, RoundOK, SinkOK, FailsOK
<1>15. ReplyOK'
  <2>1. SideEffectFailed' = SideEffectFailed
    BY <1>1 DEF SideEffectFailed
  <2>2. Undisturbed' => budget'.spent = Goes(~cancelled)
    BY <1>1 DEF Undisturbed
  <2> HIDE DEF r
  <2> QED BY <1>1, <1>3, <1>6, <1>12, <2>1, <2>2 DEF ReplyOK, Replying
<1>16. SettledAtEnd' /\ AnswersDisclose' /\ HistoryMatches'
  BY <1>1 DEF SettledAtEnd, AnswersDisclose, HistoryMatches
<1> QED BY <1>11, <1>13, <1>14, <1>15, <1>16 DEF TurnInv

\* It is delivered, or not: then it is no answer.
LEMMA FinishInv ==
    ASSUME TurnInv, FinishReply
    PROVE  TurnInv'
<1> DEFINE r == round.reply
<1>1. pc = "finish" /\ UNCHANGED <<hist, st>>
  BY DEF FinishReply
<1>2. PICK ok \in BOOLEAN :
        /\ Shocks(Goes(ok))
        /\ Ends(FinishOf(r, ok), Booked(IF ok THEN r.outcome ELSE r.failed))
  BY Zenon DEF FinishReply
<1> DEFINE s == FinishOf(r, ok)
           o == Booked(IF ok THEN r.outcome ELSE r.failed)
<1>3. /\ r \in ReplyType
      /\ r.text \in Speaking => r.footer = SideEffectFailed
      /\ r.raw => sink.held = 0
      /\ Undisturbed /\ ~r.cut => Last(hist).role = r.text
  BY <1>1 DEF TurnInv, ReplyOK, Replying
<1>4. r.text \in Text /\ r.footer \in BOOLEAN /\ r.raw \in BOOLEAN
  BY <1>3 DEF ReplyType, Text
<1>5. /\ s \in SinkType /\ s.finished = 1 /\ s.held = 0
      /\ s.text = r.text /\ s.footer = r.footer /\ s.ok = ok
  <2>1. sink \in SinkType /\ sink.finished = 0
    BY <1>1 DEF TurnInv, FrameOK, SinkOK
  <2>2. CASE r.raw
    BY <1>3, <1>4, <2>1, <2>2, FinishSettles DEF FinishOf, Closed
  <2>3. CASE ~r.raw
    BY <1>1, <1>4, <2>3, DriverSettles DEF FinishOf, Closed
  <2> QED BY <2>2, <2>3
<1>6. o \in Result /\ (o \in {"final", "process"} => ok)
  BY <1>3 DEF ReplyType, Booked, Erred, Result
<1>7. Ends(s, o)
  BY <1>2
<1>8. Goes(ok) \in {0, 1}
  BY DEF Goes
<1>9. budget' \in BudgetType /\ budget'.spent = budget.spent + Goes(ok)
  BY <1>2, <1>8, ShocksStep DEF TurnInv, FrameOK
<1>10. budget.spent \in Nat /\ budget.spent >= Goes(~cancelled) /\ Goes(~cancelled) \in Nat
  BY DEF TurnInv, FrameOK, BudgetType, SpentOK, Goes
<1>11. budget'.spent >= budget.spent
  BY <1>8, <1>9, <1>10
<1>12. HistOK' /\ st' \in StateType
  BY <1>1, HistSame DEF TurnInv
<1>13. /\ budget'.spent = Goes(~cancelled) /\ ~round.reply.cut
       => Last(hist').role = r.text
  <2>1. budget'.spent = Goes(~cancelled) => Undisturbed
    BY <1>8, <1>9, <1>10 DEF Undisturbed
  <2> QED BY <1>1, <1>3, <2>1
<1> HIDE DEF s, o
<1> QED BY <1>1, <1>3, <1>5, <1>6, <1>7, <1>9, <1>11, <1>12, <1>13, Ended

\* Silence.
LEMMA ReleaseStep ==
    ASSUME TurnInv, pc \notin {"idle", "done"}, st' \in StateType,
           NEW outcome \in Result, releaseSink(outcome)
    PROVE  TurnInv'
<1>0. pc # "done" /\ "" \in Text /\ FALSE \in BOOLEAN
  BY DEF Text
<1>1. PICK ok \in BOOLEAN :
        /\ Shocks(Goes(ok))
        /\ Ends(DriverFinish("", FALSE, ok), outcome)
        /\ UNCHANGED hist
  BY Zenon DEF releaseSink, Release, DriverFinish
<1> DEFINE s == DriverFinish("", FALSE, ok)
<1>2. /\ s \in SinkType /\ s.finished = 1 /\ s.held = 0
      /\ s.text = "" /\ s.footer = FALSE
  <2>1. Closed(s, "", FALSE, ok)
    BY <1>0, DriverSettles, Zenon
  <2> QED BY <2>1, Zenon DEF Closed
<1>3. Ends(s, outcome)
  BY <1>1
<1> HIDE DEF s
<1>4. Goes(ok) \in Nat
  BY DEF Goes
<1>5. /\ budget' \in BudgetType /\ budget'.spent = budget.spent + Goes(ok)
      /\ budget.spent \in Nat
  BY <1>1, <1>4, ShocksStep DEF TurnInv, FrameOK, BudgetType
<1>6. budget'.spent >= budget.spent
  BY <1>4, <1>5
<1>7. HistOK'
  BY <1>1, HistSame DEF TurnInv
<1> QED BY <1>2, <1>3, <1>5, <1>6, <1>7, Ended DEF Speaking

\* A notice that is shown, and stored only where it says so.
LEMMA NoticeStep ==
    ASSUME TurnInv, pc \notin {"idle", "done"}, st' \in StateType, HistOK',
           NEW ok \in BOOLEAN, NEW outcome \in Result,
           outcome \notin {"final", "process"}, NEW n \in Nat, Shocks(n),
           Ends(DriverFinish("persist_fail", FALSE, ok), outcome)
    PROVE  TurnInv'
<1> DEFINE s == DriverFinish("persist_fail", FALSE, ok)
<1>0. pc # "done" /\ "persist_fail" \in Text /\ TRUE \in BOOLEAN /\ FALSE \in BOOLEAN
  BY DEF Text
<1>1. /\ s \in SinkType /\ s.finished = 1 /\ s.held = 0
      /\ s.text = "persist_fail" /\ s.footer = FALSE /\ s.ok = ok
  <2>1. Closed(s, "persist_fail", FALSE, ok)
    BY <1>0, DriverSettles, Zenon
  <2> QED BY <2>1, Zenon DEF Closed
<1>2. Ends(s, outcome)
  OBVIOUS
<1> HIDE DEF s
<1>3. budget' \in BudgetType /\ budget'.spent = budget.spent + n /\ budget.spent \in Nat
  BY ShocksStep DEF TurnInv, FrameOK, BudgetType
<1>4. budget'.spent >= budget.spent
  BY <1>3
<1> QED BY <1>1, <1>2, <1>3, <1>4, Ended DEF Speaking

-----------------------------------------------------------------------------
(* The failures a turn remembers.                                          *)

\* Outside the recording of results they are the world's.
LEMMA FailsKnown ==
    ASSUME TurnInv, pc \notin {"store", "finish", "done"},
           pc = "results" => round.saved = Len(round.calls)
    PROVE  st.sideEffectFails = FailedKeys
<1>1. CASE pc # "results"
  BY <1>1 DEF TurnInv, FailsOK
<1>2. CASE pc = "results"
  <2>1. RecordingOK /\ round.saved = Len(round.calls) /\ round.saved \in Nat
    BY <1>2 DEF TurnInv, FailsOK, RoundOK
  <2>2. \A k : Repeats(round.calls, round.saved, k) = {}
    BY <2>1 DEF Repeats
  <2>3. st.sideEffectFails \subseteq Key
    BY DEF TurnInv, StateType
  <2>4. ASSUME NEW k \in Key
        PROVE  k \in st.sideEffectFails <=> k \in FailedKeys
    BY <2>1, <2>2, Zenon DEF RecordingOK, FailedKeys
  <2>5. FailedKeys \subseteq Key
    BY DEF FailedKeys
  <2> QED BY <2>3, <2>4, <2>5
<1> QED BY <1>1, <1>2

\* So the footer tells the truth.
LEMMA FooterTells ==
    ASSUME st.sideEffectFails = FailedKeys
    PROVE  sideEffectFooter \in BOOLEAN /\ sideEffectFooter = SideEffectFailed
<1>1. sideEffectFooter <=> SideEffectFailed
  BY DEF sideEffectFooter, FailedKeys, SideEffectFailed
<1>2. sideEffectFooter \in BOOLEAN /\ SideEffectFailed \in BOOLEAN
  BY Zenon DEF sideEffectFooter, SideEffectFailed
<1> QED BY <1>1, <1>2, Zenon

LEMMA ErredIsNoAnswer == Erred \in Result /\ Erred \notin {"final", "process"}
BY DEF Erred, Result

\* A fresh turn.
LEMMA FreshState ==
    /\ NewState \in StateType /\ NewState.sideEffectFails = {}
    /\ NewSink \in SinkType /\ NewSink.finished = 0 /\ NewSink.held = 0
<1>1. loopCap \in Nat
  BY TurnAssumption
<1>2. NewState \in StateType /\ NewState.sideEffectFails = {}
  BY <1>1 DEF NewState, StateType, Exit
<1>3. NewSink \in SinkType /\ NewSink.finished = 0 /\ NewSink.held = 0
  BY DEF NewSink, SinkType, Text, Result
<1> QED BY <1>2, <1>3

-----------------------------------------------------------------------------
(* The actions.                                                            *)

\* A start and a crash begin from nothing but the transcript.
LEMMA FreshStep ==
    ASSUME HistOK, pc' \in {"idle", "persist"}, mode' \in {"regular", "looping"},
           cancelled' = FALSE, st' = NewState, round' = NoRound, sink' = NewSink,
           world' = [k \in Key |-> "never"], budget' \in BudgetType, UNCHANGED hist
    PROVE  TurnInv'
<1>1. HistOK'
  BY HistSame
<1>2. FrameOK'
  BY FreshState DEF FrameOK, PCs
<1>3. st' \in StateType /\ RoundOK' /\ SinkOK'
  BY FreshState DEF RoundOK, SinkOK
<1>4. SpentOK'
  BY DEF SpentOK, Goes, BudgetType
<1>5. FailsOK'
  <2>1. FailedKeys' = {}
    BY DEF FailedKeys
  <2> QED BY <2>1, FreshState DEF FailsOK
<1>6. ReplyOK' /\ SettledAtEnd' /\ AnswersDisclose' /\ HistoryMatches'
  BY DEF ReplyOK, Replying, SettledAtEnd, AnswersDisclose, HistoryMatches
<1> QED BY <1>1, <1>2, <1>3, <1>4, <1>5, <1>6 DEF TurnInv

LEMMA StartTurnInv ==
    ASSUME TurnInv, NEW m \in {"regular", "looping"}, StartTurn(m)
    PROVE  TurnInv'
<1>1. budget' \in BudgetType
  <2>1. budget \in BudgetType /\ budget.turns - 1 \in Nat
    BY DEF TurnInv, FrameOK, BudgetType, StartTurn
  <2>2. budget' = [budget EXCEPT !.turns = budget.turns - 1]
    BY DEF StartTurn
  <2> QED BY <2>1, <2>2 DEF BudgetType
<1> QED BY <1>1, FreshStep DEF StartTurn, TurnInv

LEMMA CrashInv ==
    ASSUME TurnInv, Crash
    PROVE  TurnInv'
<1>1. budget' \in BudgetType
  BY ShocksStep DEF Crash, TurnInv, FrameOK
<1> QED BY <1>1, FreshStep DEF Crash, TurnInv

LEMMA CancelInv ==
    ASSUME TurnInv, Cancel
    PROVE  TurnInv'
<1>1. /\ cancelled' = TRUE /\ UNCHANGED <<hist, pc, mode, st, round, sink, world>>
      /\ pc \notin {"idle", "done"}
  BY DEF Cancel, Running
<1>2. budget' \in BudgetType /\ budget'.spent = budget.spent + 1
  BY ShocksStep DEF Cancel, TurnInv, FrameOK
<1>3. budget.spent \in Nat
  BY DEF TurnInv, FrameOK, BudgetType
<1>4. HistOK'
  BY <1>1, HistSame DEF TurnInv
<1>5. FrameOK'
  BY <1>1, <1>2 DEF TurnInv, FrameOK
<1>6. st' \in StateType /\ RoundOK' /\ SinkOK'
  BY <1>1 DEF TurnInv, RoundOK, SinkOK
<1>7. SpentOK'
  BY <1>1, <1>2, <1>3 DEF SpentOK, Goes
<1>8. FailsOK'
  <2>1. FailedKeys' = FailedKeys
    BY <1>1 DEF FailedKeys
  <2>2. RecordingOK => RecordingOK'
    BY <1>1 DEF RecordingOK
  <2> QED BY <1>1, <2>1, <2>2 DEF TurnInv, FailsOK
<1>9. SettledAtEnd' /\ AnswersDisclose' /\ HistoryMatches'
  BY <1>1 DEF SettledAtEnd, AnswersDisclose, HistoryMatches
<1>10. ReplyOK'
  <2>1. SideEffectFailed' = SideEffectFailed
    BY <1>1 DEF SideEffectFailed
  <2>2. Undisturbed' => Undisturbed
    BY <1>2, <1>3 DEF Undisturbed, Goes, Cancel
  <2> QED BY <1>1, <2>1, <2>2 DEF TurnInv, ReplyOK
<1> QED BY <1>4, <1>5, <1>6, <1>7, <1>8, <1>9, <1>10 DEF TurnInv

LEMMA PanicInv ==
    ASSUME TurnInv, Panic
    PROVE  TurnInv'
<1>1. /\ pc \notin {"idle", "done"} /\ UNCHANGED <<hist, st>>
  BY DEF Panic, Running
<1>2. PICK ok \in BOOLEAN :
        /\ Shocks(1 + Goes(ok))
        /\ Ends(Finish(flushPictures(sink), "internal_error", FALSE, ok), "error")
  BY Zenon DEF Panic
<1> DEFINE s == DriverFinish("internal_error", FALSE, ok)
<1>3. pc # "done" /\ "internal_error" \in Text /\ FALSE \in BOOLEAN /\ "error" \in Result
  BY <1>1 DEF Text, Result
<1>4. /\ s \in SinkType /\ s.finished = 1 /\ s.held = 0
      /\ s.text = "internal_error" /\ s.footer = FALSE /\ s.ok = ok
  <2>1. Closed(s, "internal_error", FALSE, ok)
    BY <1>3, DriverSettles, Zenon
  <2> QED BY <2>1, Zenon DEF Closed
<1>5. Ends(s, "error")
  BY <1>2 DEF DriverFinish
<1> HIDE DEF s
<1>6. Goes(ok) \in Nat
  BY DEF Goes
<1>7. budget' \in BudgetType /\ budget'.spent = budget.spent + (1 + Goes(ok))
  BY <1>2, <1>6, ShocksStep DEF TurnInv, FrameOK
<1>8. budget.spent \in Nat /\ budget.spent >= Goes(~cancelled) /\ Goes(~cancelled) \in Nat
  BY DEF TurnInv, FrameOK, BudgetType, SpentOK, Goes
<1>9. budget'.spent >= budget.spent /\ budget'.spent # Goes(~cancelled)
  BY <1>6, <1>7, <1>8
<1>10. HistOK' /\ st' \in StateType
  BY <1>1, HistSame DEF TurnInv
<1> QED BY <1>1, <1>3, <1>4, <1>5, <1>7, <1>9, <1>10, Ended DEF Speaking

LEMMA NoticeInv ==
    ASSUME TurnInv, pc \notin {"idle", "done"}, UNCHANGED st, Notice("persist_fail")
    PROVE  TurnInv'
<1>1. PICK ok \in BOOLEAN :
        /\ Shocks(1 + Goes(ok))
        /\ Ends(DriverFinish("persist_fail", FALSE, ok), "error")
        /\ UNCHANGED hist
  BY Zenon DEF Notice
<1>2. 1 + Goes(ok) \in Nat /\ "error" \in Result /\ "error" \notin {"final", "process"}
  BY DEF Goes, Result
<1>3. HistOK' /\ st' \in StateType
  BY <1>1, HistSame DEF TurnInv
<1> QED BY <1>1, <1>2, <1>3, NoticeStep, Zenon

LEMMA PersistInv ==
    ASSUME TurnInv, persistUserRows
    PROVE  TurnInv'
<1>1. pc = "persist" /\ pc \notin {"idle", "done"}
  BY DEF persistUserRows
<1>2. CASE cancelled /\ releaseSink("cancelled") /\ UNCHANGED st
  <2>1. "cancelled" \in Result /\ st' \in StateType
    BY <1>2 DEF Result, TurnInv
  <2> QED BY <1>1, <1>2, <2>1, ReleaseStep
<1>3. CASE ~cancelled /\ Notice("persist_fail") /\ UNCHANGED st
  BY <1>1, <1>3, NoticeInv
<1>4. CASE /\ hist' = Append(hist, Row("user", <<>>))
           /\ pc' = "top"
           /\ UNCHANGED <<mode, cancelled, st, round, sink, world, budget>>
  <2>1. HistOK'
    BY <1>4, HistAppended DEF TurnInv
  <2>2. st.sideEffectFails = FailedKeys
    BY <1>1, FailsKnown
  <2>3. /\ DOMAIN round' = DOMAIN NoRound /\ st' \in StateType
        /\ budget' \in BudgetType /\ budget'.spent >= budget.spent
    BY <1>4 DEF TurnInv, FrameOK, BudgetType
  <2> QED BY <1>1, <1>4, <2>1, <2>2, <2>3, Continues DEF PCs
<1> QED BY <1>2, <1>3, <1>4 DEF persistUserRows

\* The next round of the same turn.
LEMMA NextRoundInv ==
    ASSUME TurnInv, pc # "done", st.sideEffectFails = FailedKeys,
           NEW s \in StateType, s.sideEffectFails = st.sideEffectFails, NextRound(s),
           HistOK', budget' \in BudgetType, budget'.spent >= budget.spent
    PROVE  TurnInv'
<1>1. st' = [s EXCEPT !.iter = s.iter + 1] /\ s.iter + 1 \in Nat
  BY DEF NextRound, StateType
<1>2. st' \in StateType /\ st'.sideEffectFails = s.sideEffectFails
  BY <1>1 DEF StateType
<1>3. /\ pc' = "top" /\ DOMAIN round' = DOMAIN NoRound
      /\ UNCHANGED <<mode, cancelled, sink, world>>
  BY DEF NextRound
<1> QED BY <1>2, <1>3, Continues DEF PCs

\* Nothing but the round's end happens.
LEMMA PlainNextRound ==
    ASSUME TurnInv, pc \notin {"store", "finish", "done"},
           pc = "results" => round.saved = Len(round.calls), NEW s \in StateType, s.sideEffectFails = st.sideEffectFails, NextRound(s),
           UNCHANGED <<hist, budget>>
    PROVE  TurnInv'
<1>1. st.sideEffectFails = FailedKeys
  BY FailsKnown
<1>2. HistOK' /\ budget' \in BudgetType /\ budget'.spent >= budget.spent
  BY HistSame DEF TurnInv, FrameOK, BudgetType
<1> QED BY <1>1, <1>2, NextRoundInv

LEMMA LoopTopInv ==
    ASSUME TurnInv, LoopTop
    PROVE  TurnInv'
<1>1. /\ pc = "top" /\ pc' \in {"leave", "compress"}
      /\ st' \in {st, [st EXCEPT !.exit = "cancelled"]}
      /\ UNCHANGED <<hist, mode, cancelled, round, sink, world, budget>>
  BY DEF LoopTop
<1>2. st' \in StateType /\ st'.sideEffectFails = st.sideEffectFails
  BY <1>1 DEF TurnInv, StateType, Exit
<1>3. st.sideEffectFails = FailedKeys
  BY <1>1, FailsKnown
<1>4. /\ HistOK' /\ budget' \in BudgetType /\ budget'.spent >= budget.spent
      /\ DOMAIN round' = DOMAIN NoRound
  BY <1>1, HistSame DEF TurnInv, FrameOK, BudgetType
<1> QED BY <1>1, <1>2, <1>3, <1>4, Continues DEF PCs

LEMMA CompressInv ==
    ASSUME TurnInv, maybeCompressInPlace
    PROVE  TurnInv'
<1>1. /\ pc = "compress" /\ pc' = "nudge"
      /\ UNCHANGED <<mode, cancelled, st, sink, world>>
  BY DEF maybeCompressInPlace
<1>2. st.sideEffectFails = FailedKeys /\ st' \in StateType
  BY <1>1, FailsKnown DEF TurnInv
<1>3. DOMAIN round' = DOMAIN NoRound
  <2>1. \A rows : DOMAIN [NoRound EXCEPT !.replay = rows, !.inHand = TRUE]
                     = DOMAIN NoRound
    OBVIOUS
  <2> QED BY <2>1 DEF maybeCompressInPlace, InHand
<1>4. budget \in BudgetType /\ budget.spent \in Nat /\ Goes(cancelled) \in Nat
  BY DEF TurnInv, FrameOK, BudgetType, Goes
<1>5. HistOK' /\ budget' \in BudgetType /\ budget'.spent >= budget.spent
  <2>1. CASE UNCHANGED <<hist, budget>>
    BY <1>4, <2>1, HistSame DEF TurnInv
  <2>2. CASE /\ Shocks(1)
             /\ \E cut \in Compactable(GetReplay) : hist' = Compacted(GetReplay, cut)
    <3>1. HistOK'
      BY <2>2, HistCompacted DEF TurnInv
    <3>2. budget' \in BudgetType /\ budget'.spent = budget.spent + 1
      BY <1>4, <2>2, ShocksStep
    <3> QED BY <1>4, <3>1, <3>2
  <2>3. CASE Shocks(Goes(cancelled)) /\ UNCHANGED hist
    <3>1. budget' \in BudgetType /\ budget'.spent = budget.spent + Goes(cancelled)
      BY <1>4, <2>3, ShocksStep
    <3> QED BY <1>4, <2>3, <3>1, HistSame DEF TurnInv
  <2> QED BY <2>1, <2>2, <2>3 DEF maybeCompressInPlace
<1> QED BY <1>1, <1>2, <1>3, <1>5, Continues DEF PCs

LEMMA NudgeInv ==
    ASSUME TurnInv, foldUserNudge
    PROVE  TurnInv'
<1>1. /\ pc = "nudge" /\ pc' \in {"leave", "build"}
      /\ UNCHANGED <<mode, cancelled, sink, world>>
  BY DEF foldUserNudge
<1>2. st.sideEffectFails = FailedKeys
  BY <1>1, FailsKnown
<1>3. st' \in {st, [st EXCEPT !.exit = "stuck"], [st EXCEPT !.nudged = TRUE]}
  BY DEF foldUserNudge
<1>4. st' \in StateType /\ st'.sideEffectFails = st.sideEffectFails
  BY <1>3 DEF TurnInv, StateType, Exit
<1>5. DOMAIN round' = DOMAIN NoRound
  <2>1. DOMAIN round = DOMAIN NoRound
    BY DEF TurnInv, FrameOK
  <2>2. \A rows : DOMAIN [round EXCEPT !.replay = rows] = DOMAIN round
    OBVIOUS
  <2>3. \/ round' = round
        \/ round' = [round EXCEPT !.replay = Append(round.replay, Row("user", <<>>))]
    BY DEF foldUserNudge
  <2> QED BY <2>1, <2>2, <2>3
<1>6. budget \in BudgetType /\ budget.spent \in Nat
  BY DEF TurnInv, FrameOK, BudgetType
<1>7. HistOK' /\ budget' \in BudgetType /\ budget'.spent >= budget.spent
  <2>1. CASE UNCHANGED <<hist, budget>>
    BY <1>6, <2>1, HistSame DEF TurnInv
  <2>2. ASSUME NEW stored \in BOOLEAN,
               Shocks(1 + Goes(cancelled \/ stored)),
               hist' = IF stored THEN Append(hist, Row("user", <<>>)) ELSE hist
        PROVE  HistOK' /\ budget' \in BudgetType /\ budget'.spent >= budget.spent
    <3>1. HistOK'
      BY <2>2, HistSame, HistAppended DEF TurnInv
    <3>2. 1 + Goes(cancelled \/ stored) \in Nat
      BY DEF Goes
    <3>3. /\ budget' \in BudgetType
          /\ budget'.spent = budget.spent + (1 + Goes(cancelled \/ stored))
      BY <1>6, <2>2, <3>2, ShocksStep
    <3>4. budget'.spent >= budget.spent
      BY <1>6, <3>2, <3>3
    <3> QED BY <3>1, <3>3, <3>4
  <2> QED BY <2>1, <2>2 DEF foldUserNudge
<1> QED BY <1>1, <1>2, <1>4, <1>5, <1>7, Continues DEF PCs

LEMMA BuildInv ==
    ASSUME TurnInv, buildMessages
    PROVE  TurnInv'
<1>1. pc = "build" /\ pc \notin {"idle", "done"}
  BY DEF buildMessages
<1>2. CASE ~round.inHand /\ cancelled /\ releaseSink("cancelled") /\ UNCHANGED st
  <2>1. "cancelled" \in Result /\ st' \in StateType
    BY <1>2 DEF Result, TurnInv
  <2> QED BY <1>1, <1>2, <2>1, ReleaseStep
<1>3. CASE ~round.inHand /\ ~cancelled /\ Notice("persist_fail") /\ UNCHANGED st
  BY <1>1, <1>3, NoticeInv
<1>4. ASSUME NEW rows, round' = [round EXCEPT !.replay = rows], pc' = "model",
             budget.rounds > 0, budget' = [budget EXCEPT !.rounds = @ - 1],
             UNCHANGED <<hist, mode, cancelled, st, sink, world>>
      PROVE  TurnInv'
  <2>1. HistOK' /\ st.sideEffectFails = FailedKeys /\ st' \in StateType
    BY <1>1, <1>4, HistSame, FailsKnown DEF TurnInv
  <2>2. DOMAIN round' = DOMAIN NoRound
    BY <1>4 DEF TurnInv, FrameOK
  <2>3. budget \in BudgetType /\ budget.rounds - 1 \in Nat /\ budget.spent \in Nat
    BY <1>4 DEF TurnInv, FrameOK, BudgetType
  <2>4. budget' = [budget EXCEPT !.rounds = budget.rounds - 1]
    BY <1>4
  <2>5. budget' \in BudgetType /\ budget'.spent = budget.spent
    BY <2>3, <2>4 DEF BudgetType
  <2> QED BY <1>1, <1>4, <2>1, <2>2, <2>3, <2>5, Continues DEF PCs
<1> QED BY <1>2, <1>3, <1>4 DEF buildMessages

LEMMA EmptyInv ==
    ASSUME TurnInv, Empty \/ handleDegenerate \/ handleBloat
    PROVE  TurnInv'
<1>1. pc = "model" /\ UNCHANGED <<hist, budget>> /\ st \in StateType
  BY DEF TurnInv, Empty, handleDegenerate, handleBloat
<1>2. CASE Empty
  BY <1>1, <1>2, PlainNextRound DEF Empty
<1>3. CASE handleDegenerate
  <2> DEFINE s == [st EXCEPT !.exit = "degenerate"]
  <2>1. s \in StateType /\ s.sideEffectFails = st.sideEffectFails
    BY <1>1 DEF StateType, Exit
  <2>2. NextRound(s)
    BY <1>3 DEF handleDegenerate
  <2> HIDE DEF s
  <2> QED BY <1>1, <2>1, <2>2, PlainNextRound
<1>4. CASE handleBloat
  <2> DEFINE full == st.bloat + 1 > maxBloatTrips
             s == [st EXCEPT !.bloat = st.bloat + 1, !.strip = full]
  <2>1. st.bloat + 1 \in Nat /\ full \in BOOLEAN
    BY <1>1 DEF StateType
  <2>2. NextRound(s)
    BY <1>4 DEF handleBloat
  <2> HIDE DEF full
  <2>3. s \in StateType /\ s.sideEffectFails = st.sideEffectFails
    BY <1>1, <2>1 DEF StateType
  <2> HIDE DEF s
  <2> QED BY <1>1, <2>2, <2>3, PlainNextRound
<1> QED BY <1>2, <1>3, <1>4

LEMMA OversizedInv ==
    ASSUME TurnInv, Oversized
    PROVE  TurnInv'
<1>1. pc = "model" /\ pc \notin {"idle", "done"} /\ st \in StateType
  BY DEF Oversized, TurnInv
<1>2. CASE /\ Shocks(1)
           /\ \E cut \in Compactable(GetReplay) : hist' = Compacted(GetReplay, cut)
           /\ NextRound(st)
  <2>1. HistOK' /\ st.sideEffectFails = FailedKeys
    BY <1>1, <1>2, HistCompacted, FailsKnown DEF TurnInv
  <2>2. /\ budget' \in BudgetType /\ budget'.spent = budget.spent + 1
        /\ budget.spent \in Nat
    BY <1>2, ShocksStep DEF TurnInv, FrameOK, BudgetType
  <2>3. budget'.spent >= budget.spent
    BY <2>2
  <2> QED BY <1>1, <1>2, <2>1, <2>2, <2>3, NextRoundInv
<1>3. CASE /\ UNCHANGED st
           /\ finalizeTurn("context_too_long", FALSE, "degraded", "degraded")
  <2>1. /\ "context_too_long" \in Shown /\ "context_too_long" \notin Speaking
        /\ FALSE \in BOOLEAN /\ st' \in StateType
    BY <1>1, <1>3 DEF Shown, Speaking
  <2> QED BY <1>1, <1>3, <2>1, FinalStep
<1> QED BY <1>2, <1>3 DEF Oversized

LEMMA ModelFailsInv ==
    ASSUME TurnInv, NEW shown \in BOOLEAN, ModelFails(shown)
    PROVE  TurnInv'
<1>1. /\ pc = "model" /\ pc \notin {"idle", "done"} /\ st' \in StateType
      /\ Erred \in Result /\ FALSE \in BOOLEAN
      /\ {"partial", "model_unavailable"} \subseteq Shown
      /\ "partial" \notin Speaking /\ "model_unavailable" \notin Speaking
  BY ErredIsNoAnswer DEF ModelFails, TurnInv, Shown, Speaking
<1>2. CASE finalizeTurn("partial", FALSE, "erred", "erred")
  BY <1>1, <1>2, FinalStep
<1>3. CASE releaseSink(Erred)
  BY <1>1, <1>3, ReleaseStep
<1>4. CASE finalizeTurn("model_unavailable", FALSE, "erred", "erred")
  BY <1>1, <1>4, FinalStep
<1> QED BY <1>2, <1>3, <1>4, Zenon DEF ModelFails

LEMMA FinalTextInv ==
    ASSUME TurnInv, FinalText
    PROVE  TurnInv'
<1>1. /\ pc = "model" /\ pc' = "gate" /\ round' = NoRound
      /\ UNCHANGED <<hist, mode, cancelled, st, sink, world, budget>>
  BY DEF FinalText
<1>2. HistOK' /\ st.sideEffectFails = FailedKeys /\ st' \in StateType
  BY <1>1, HistSame, FailsKnown DEF TurnInv
<1>3. budget' \in BudgetType /\ budget'.spent >= budget.spent
  BY <1>1 DEF TurnInv, FrameOK, BudgetType
<1> QED BY <1>1, <1>2, <1>3, Continues DEF PCs

LEMMA RedoInv ==
    ASSUME TurnInv, pc = "gate", NEW s \in StateType,
           s.sideEffectFails = st.sideEffectFails, Redo(s), UNCHANGED <<hist, budget>>
    PROVE  TurnInv'
<1> DEFINE r == [s EXCEPT !.progress = st.iter, !.limit = st.iter + 1 + loopCap]
<1>1. st.iter \in Int /\ st.iter + 1 + loopCap \in Nat
  <2>1. loopCap \in Nat
    BY TurnAssumption
  <2>2. st.iter \in Nat
    BY DEF TurnInv, StateType
  <2> QED BY <2>1, <2>2
<1>2. r \in StateType /\ r.sideEffectFails = st.sideEffectFails
  BY <1>1 DEF StateType
<1>3. NextRound(r)
  BY DEF Redo
<1> HIDE DEF r
<1> QED BY <1>2, <1>3, PlainNextRound

\* A reply with the footer.
LEMMA FootedReply ==
    ASSUME TurnInv, pc \notin {"idle", "store", "finish", "done"}, st' \in StateType,
           pc = "results" => round.saved = Len(round.calls), NEW text \in Shown,
           NEW outcome \in {"final", "process", "degraded", "erred"},
           NEW failed \in {"degraded", "erred"},
           finalizeTurn(text, sideEffectFooter, outcome, failed)
    PROVE  TurnInv'
<1>1. sideEffectFooter \in BOOLEAN /\ sideEffectFooter = SideEffectFailed
  BY FailsKnown, FooterTells
<1> QED BY <1>1, FinalStep

LEMMA RubricInv ==
    ASSUME TurnInv, NEW pass \in BOOLEAN, rubricGate(pass)
    PROVE  TurnInv'
<1> DEFINE s == [st EXCEPT !.rubricRetries = st.rubricRetries + 1]
<1>1. /\ pc = "gate" /\ pc \notin {"idle", "done"} /\ st \in StateType
      /\ {"final", "rubric_fail"} \subseteq Shown
  BY DEF rubricGate, TurnInv, Shown, Speaking
<1>2. st.rubricRetries + 1 \in Nat
  BY <1>1 DEF StateType
<1>3. s \in StateType /\ s.sideEffectFails = st.sideEffectFails
  BY <1>1, <1>2 DEF StateType
<1>4. CASE finalReply /\ UNCHANGED st
  BY <1>1, <1>4, FootedReply DEF finalReply
<1>5. CASE Redo(s) /\ UNCHANGED <<hist, budget>>
  <2> HIDE DEF s
  <2> QED BY <1>1, <1>3, <1>5, RedoInv
<1>6. CASE st' = s /\ finalizeTurn("rubric_fail", sideEffectFooter, "degraded", "erred")
  <2>1. st' \in StateType
    BY <1>3, <1>6
  <2> HIDE DEF s
  <2> QED BY <1>1, <1>6, <2>1, FootedReply
<1> QED BY <1>4, <1>5, <1>6 DEF rubricGate

LEMMA ReviewInv ==
    ASSUME TurnInv, NEW pass \in BOOLEAN, advisorReviewGate(pass)
    PROVE  TurnInv'
<1> DEFINE s == [st EXCEPT !.reviewRetries = st.reviewRetries + 1]
           reviewed == mode = "looping" /\ st.produced
<1>1. /\ pc = "gate" /\ pc \notin {"idle", "done"} /\ st \in StateType
      /\ "final" \in Shown
  BY DEF advisorReviewGate, TurnInv, Shown, Speaking
<1>2. st.reviewRetries + 1 \in Nat
  BY <1>1 DEF StateType
<1>3. s \in StateType /\ s.sideEffectFails = st.sideEffectFails
  BY <1>1, <1>2 DEF StateType
<1>4. CASE st' = [st EXCEPT !.concern = @ /\ ~reviewed] /\ finalReply
  <2>1. (st.concern /\ ~reviewed) \in BOOLEAN
    BY Zenon
  <2>2. st' \in StateType
    <3> DEFINE c == st.concern /\ ~reviewed
    <3>1. c \in BOOLEAN /\ st' = [st EXCEPT !.concern = c]
      BY <1>4, <2>1
    <3> HIDE DEF c
    <3> QED BY <1>1, <3>1 DEF StateType
  <2> QED BY <1>1, <1>4, <2>2, FootedReply DEF finalReply
<1>5. CASE Redo(s) /\ UNCHANGED <<hist, budget>>
  <2> HIDE DEF s
  <2> QED BY <1>1, <1>3, <1>5, RedoInv
<1>6. CASE st' = [s EXCEPT !.concern = TRUE] /\ finalReply
  <2>1. st' \in StateType
    <3> HIDE DEF s
    <3> QED BY <1>3, <1>6 DEF StateType
  <2> QED BY <1>1, <1>6, <2>1, FootedReply DEF finalReply
<1> QED BY <1>4, <1>5, <1>6 DEF advisorReviewGate

LEMMA SalvageInv ==
    ASSUME TurnInv, NEW text \in {"salvage", "brief", "rubric_fail"}, salvage(text)
    PROVE  TurnInv'
<1>1. /\ pc = "salvage" /\ pc \notin {"idle", "done"} /\ st' \in StateType
      /\ text \in Shown
      /\ finalizeTurn(text, sideEffectFooter, "degraded", "degraded")
  BY DEF salvage, TurnInv, Shown, Speaking
<1> QED BY <1>1, FootedReply

LEMMA CallsInv ==
    ASSUME TurnInv, NEW b \in Batches, CallsTools(b)
    PROVE  TurnInv'
<1>1. /\ pc = "model" /\ pc' = "calls"
      /\ round' = [NoRound EXCEPT !.calls = b]
      /\ UNCHANGED <<hist, mode, cancelled, st, sink, world, budget>>
  BY DEF CallsTools
<1>2. DOMAIN round' = DOMAIN NoRound /\ round'.calls = b /\ round'.saved = 0
  BY <1>1 DEF NoRound
<1>3. HistOK' /\ st' \in StateType
  BY <1>1, HistSame DEF TurnInv
<1>4. FrameOK' /\ SpentOK'
  BY <1>1, <1>2 DEF TurnInv, FrameOK, PCs, SpentOK
<1>5. RoundOK' /\ SinkOK'
  BY <1>1, <1>2 DEF TurnInv, RoundOK, SinkOK
<1>6. FailsOK'
  BY <1>1, FailsKnown DEF FailsOK, FailedKeys
<1>7. ReplyOK' /\ SettledAtEnd' /\ AnswersDisclose' /\ HistoryMatches'
  BY <1>1 DEF ReplyOK, Replying, SettledAtEnd, AnswersDisclose, HistoryMatches
<1> QED BY <1>3, <1>4, <1>5, <1>6, <1>7 DEF TurnInv

LEMMA AppendCallsInv ==
    ASSUME TurnInv, appendAssistantCalls
    PROVE  TurnInv'
<1>1. pc = "calls" /\ pc \notin {"idle", "done"} /\ st \in StateType
  BY DEF appendAssistantCalls, TurnInv
<1>2. CASE /\ round' = [round EXCEPT !.ids = FreshIds(Len(round.calls))]
           /\ hist' = Append(hist, Row("calls", round'.ids))
           /\ pc' = "dispatch"
           /\ UNCHANGED <<mode, cancelled, st, sink, world, budget>>
  <2>1. /\ DOMAIN round' = DOMAIN NoRound
        /\ round'.calls = round.calls /\ round'.saved = round.saved
    BY <1>2 DEF TurnInv, FrameOK, NoRound
  <2>2. HistOK' /\ st' \in StateType
    BY <1>2, HistAppended DEF TurnInv
  <2>3. FrameOK' /\ SpentOK'
    BY <1>2, <2>1 DEF TurnInv, FrameOK, PCs, SpentOK
  <2>4. RoundOK' /\ SinkOK'
    BY <1>1, <1>2, <2>1 DEF TurnInv, RoundOK, SinkOK
  <2>5. FailsOK'
    BY <1>1, <1>2, FailsKnown DEF FailsOK, FailedKeys
  <2>6. ReplyOK' /\ SettledAtEnd' /\ AnswersDisclose' /\ HistoryMatches'
    BY <1>2 DEF ReplyOK, Replying, SettledAtEnd, AnswersDisclose, HistoryMatches
  <2> QED BY <2>2, <2>3, <2>4, <2>5, <2>6 DEF TurnInv
<1>3. ASSUME NEW stored \in BOOLEAN, NEW ok \in BOOLEAN,
             Shocks(Goes(cancelled) + Goes(cancelled \/ stored) + Goes(ok)),
             hist' = IF stored THEN Append(hist, Row("persist_fail", <<>>)) ELSE hist,
             Ends(DriverFinish("persist_fail", FALSE, ok), Erred),
             UNCHANGED st
      PROVE  TurnInv'
  <2>1. HistOK' /\ st' \in StateType
    BY <1>1, <1>3, HistSame, HistAppended DEF TurnInv
  <2>2. Goes(cancelled) + Goes(cancelled \/ stored) + Goes(ok) \in Nat
    BY DEF Goes
  <2> QED BY <1>1, <1>3, <2>1, <2>2, ErredIsNoAnswer, NoticeStep
<1> QED BY <1>2, <1>3 DEF appendAssistantCalls

LEMMA LeaveInv ==
    ASSUME TurnInv, LeaveLoop
    PROVE  TurnInv'
<1>1. pc = "leave" /\ pc \notin {"idle", "done"} /\ st \in StateType
  BY DEF LeaveLoop, TurnInv
<1>2. CASE releaseSink("cancelled") /\ UNCHANGED st
  <2>1. "cancelled" \in Result /\ st' \in StateType
    BY <1>1, <1>2 DEF Result
  <2> QED BY <1>1, <1>2, <2>1, ReleaseStep
<1>3. CASE /\ st' = [st EXCEPT !.exit = IF @ = "none" THEN "iter_cap" ELSE @]
           /\ pc' = "salvage" /\ sink' = flushPictures(sink)
           /\ UNCHANGED <<hist, mode, cancelled, round, world, budget>>
  <2>1. st' \in StateType /\ st'.sideEffectFails = st.sideEffectFails
    BY <1>1, <1>3 DEF StateType, Exit
  <2>2. sink' \in SinkType /\ sink'.finished = 0 /\ sink'.held = 0
    BY <1>1, <1>3, OpenSink
  <2>3. HistOK'
    BY <1>3, HistSame DEF TurnInv
  <2>4. FrameOK' /\ SpentOK'
    BY <1>3, <2>2 DEF TurnInv, FrameOK, PCs, SpentOK
  <2>5. RoundOK' /\ SinkOK'
    BY <1>3, <2>2 DEF RoundOK, SinkOK
  <2>6. FailsOK'
    BY <1>1, <1>3, <2>1, FailsKnown DEF FailsOK, FailedKeys
  <2>7. ReplyOK' /\ SettledAtEnd' /\ AnswersDisclose' /\ HistoryMatches'
    BY <1>3 DEF ReplyOK, Replying, SettledAtEnd, AnswersDisclose, HistoryMatches
  <2> QED BY <2>1, <2>3, <2>4, <2>5, <2>6, <2>7 DEF TurnInv
<1> QED BY <1>2, <1>3 DEF LeaveLoop

LEMMA RoundEndsInv ==
    ASSUME TurnInv, toolRoundEnds
    PROVE  TurnInv'
<1>1. /\ pc = "results" /\ pc \notin {"idle", "done"}
      /\ round.saved = Len(round.calls) /\ st \in StateType
      /\ "exit" \in Shown /\ "process" \in Result
  BY DEF toolRoundEnds, TurnInv, Shown, Speaking, Result
<1>2. CASE NextRound(st) /\ UNCHANGED <<hist, budget>>
  BY <1>1, <1>2, PlainNextRound
<1>3. CASE releaseSink("process") /\ UNCHANGED st
  BY <1>1, <1>3, ReleaseStep
<1>4. CASE finalizeTurn("exit", sideEffectFooter, "process", "erred") /\ UNCHANGED st
  BY <1>1, <1>4, FootedReply
<1> QED BY <1>2, <1>3, <1>4 DEF toolRoundEnds

\* A batch in hand is a sequence of calls whose keys are known.
LEMMA BatchIsSeq ==
    ASSUME NEW b \in Batches
    PROVE  /\ Len(b) \in Nat
           /\ \A i \in 1 .. Len(b) : b[i].tool \in Tool /\ <<b[i].tool, b[i].arg>> \in Key
<1>1. b \in Seq(Range(b))
  BY TurnAssumption
<1>2. Len(b) \in Nat /\ DOMAIN b = 1 .. Len(b)
  BY <1>1
<1>3. ASSUME NEW i \in 1 .. Len(b)
      PROVE  b[i].tool \in Tool /\ <<b[i].tool, b[i].arg>> \in Key
  <2>1. b[i] \in Range(b)
    BY <1>2 DEF Range
  <2>2. b[i] \in UNION {Range(c) : c \in Batches}
    BY <2>1
  <2> QED BY <2>2 DEF Tool, Key
<1> QED BY <1>2, <1>3

LEMMA DispatchInv ==
    ASSUME TurnInv, dispatchAll
    PROVE  TurnInv'
<1> DEFINE n == Len(round.calls)
<1>1. /\ pc = "dispatch" /\ pc' = "results"
      /\ UNCHANGED <<hist, mode, cancelled, st, budget>>
  BY DEF dispatchAll
<1>2. round.calls \in Batches /\ round.saved = 0 /\ n \in Nat
  BY <1>1, BatchIsSeq DEF TurnInv, RoundOK
<1>3. PICK res \in [1 .. n -> {"new", "again", "fail"}] :
        /\ round' = [round EXCEPT !.results = res]
        /\ world' = [k \in Key |->
              LET mine == Repeats(round.calls, 0, k)
              IN  IF mine = {} THEN world[k]
                  ELSE IF LastFails(mine, res) THEN "failed" ELSE "done"]
        /\ sink' = [sink EXCEPT !.held = @ + Cardinality(
              {i \in 1 .. n : /\ mode = "looping" /\ res[i] # "fail"
                              /\ round.calls[i].tool = "paint"})]
  BY DEF dispatchAll
<1>4. /\ DOMAIN round' = DOMAIN NoRound /\ round'.calls = round.calls
      /\ round'.saved = round.saved /\ round'.results = res
  BY <1>3 DEF TurnInv, FrameOK, NoRound
<1>5. HistOK' /\ st' \in StateType /\ SpentOK'
  BY <1>1, HistSame DEF TurnInv, SpentOK
<1>6. world' \in [Key -> {"never", "done", "failed"}]
  BY <1>3 DEF TurnInv, FrameOK
<1>7. sink' \in SinkType /\ sink'.finished = sink.finished
  <2> DEFINE painted == {i \in 1 .. n : /\ mode = "looping" /\ res[i] # "fail"
                                        /\ round.calls[i].tool = "paint"}
  <2>1. IsFiniteSet(1 .. n) /\ painted \subseteq 1 .. n
    BY <1>2, FS_Interval
  <2>2. Cardinality(painted) \in Nat
    <3> HIDE DEF painted
    <3> QED BY <2>1, FS_Subset, FS_CardinalityType
  <2>3. sink' = [sink EXCEPT !.held = sink.held + Cardinality(painted)]
    BY <1>3
  <2> HIDE DEF painted
  <2>4. sink \in SinkType /\ sink.held \in Nat
    BY DEF TurnInv, FrameOK, SinkType
  <2>5. sink.held + Cardinality(painted) \in Nat
    BY <2>2, <2>4
  <2> QED BY <2>3, <2>4, <2>5 DEF SinkType
<1>8. FrameOK' /\ RoundOK' /\ SinkOK'
  <2>1. FrameOK'
    BY <1>1, <1>4, <1>6, <1>7 DEF TurnInv, FrameOK, PCs
  <2>2. RoundOK'
    BY <1>1, <1>2, <1>3, <1>4 DEF RoundOK
  <2>3. SinkOK'
    BY <1>1, <1>7 DEF TurnInv, SinkOK
  <2> QED BY <2>1, <2>2, <2>3
<1>9. RecordingOK'
  <2>1. st.sideEffectFails = FailedKeys
    BY <1>1, FailsKnown
  <2>2. ASSUME NEW k \in Key
        PROVE  LET pending == Repeats(round'.calls, round'.saved, k)
               IN  /\ k \in st'.sideEffectFails => SideEffect(k[1])
                   /\ SideEffect(k[1]) /\ pending = {} =>
                         (k \in st'.sideEffectFails <=> world'[k] = "failed")
                   /\ SideEffect(k[1]) /\ pending # {} =>
                         (LastFails(pending, round'.results) <=> world'[k] = "failed")
    <3> DEFINE mine == Repeats(round.calls, 0, k)
    <3>1. Repeats(round'.calls, round'.saved, k) = mine
      BY <1>2, <1>4
    <3>2. world'[k] = IF mine = {} THEN world[k]
                      ELSE IF LastFails(mine, res) THEN "failed" ELSE "done"
      BY <1>3
    <3>3. k \in st'.sideEffectFails <=> SideEffect(k[1]) /\ world[k] = "failed"
      BY <1>1, <2>1 DEF FailedKeys
    <3> HIDE DEF mine
    <3> QED BY <1>4, <3>1, <3>2, <3>3
  <2> QED BY <2>2, Zenon DEF RecordingOK
<1>10. FailsOK' /\ ReplyOK' /\ SettledAtEnd' /\ AnswersDisclose' /\ HistoryMatches'
  BY <1>1, <1>9 DEF FailsOK, ReplyOK, Replying, SettledAtEnd, AnswersDisclose, HistoryMatches
<1> QED BY <1>5, <1>8, <1>10 DEF TurnInv

\* What recording one result leaves.
LEMMA RecordedState ==
    ASSUME st \in StateType, NEW call, call.tool \in Tool,
           <<call.tool, call.arg>> \in Key, NEW res
    PROVE  LET key == <<call.tool, call.arg>>
               s == recordToolOutcome(call, res)
           IN  /\ s \in StateType
               /\ s.sideEffectFails =
                     IF res # "fail" THEN st.sideEffectFails \ {key}
                     ELSE IF SideEffect(call.tool) THEN st.sideEffectFails \cup {key}
                     ELSE st.sideEffectFails
<1> DEFINE key  == <<call.tool, call.arg>>
           side == SideEffect(call.tool)
           same == IF key = st.key THEN st.same + 1 ELSE 1
           tries == st.fails[call.tool] + 1
           stuck(now) == IF st.exit = "none" /\ now THEN "stuck" ELSE st.exit
<1>1. same \in Nat /\ tries \in Nat /\ key \in Key
  BY DEF StateType
<1>2. stuck(tries > sameFailMax) \in Exit /\ stuck(same > sameArgsMax) \in Exit
  BY DEF StateType, Exit
<1>3. CASE res = "fail"
  <2> DEFINE failed == IF side THEN st.sideEffectFails \cup {key} ELSE st.sideEffectFails
             fails == [st.fails EXCEPT ![call.tool] = tries]
             ex == stuck(tries > sameFailMax)
             none == <<>>
  <2>1. /\ failed \in SUBSET Key /\ fails \in [Tool -> Nat] /\ ex \in Exit
        /\ none \in Key \cup {<<>>}
    BY <1>1, <1>2 DEF StateType
  <2>2. recordToolOutcome(call, res) =
          [st EXCEPT !.sideEffectFails = failed, !.key = none, !.same = 0,
                     !.fails = fails, !.exit = ex]
    BY <1>3 DEF recordToolOutcome
  <2> HIDE DEF failed, fails, ex, none, key, same, tries
  <2>3. recordToolOutcome(call, res) \in StateType
    <3> DEFINE s1 == [st EXCEPT !.sideEffectFails = failed, !.key = none]
               s2 == [s1 EXCEPT !.same = 0, !.fails = fails, !.exit = ex]
    <3>1. s1 \in StateType
      BY <2>1 DEF StateType
    <3>2. recordToolOutcome(call, res) = s2
      BY <2>2
    <3> HIDE DEF s1
    <3>3. s2 \in StateType
      BY <2>1, <3>1 DEF StateType
    <3> QED BY <3>2, <3>3
  <2>4. recordToolOutcome(call, res).sideEffectFails = failed
    BY <2>2 DEF StateType
  <2> QED BY <1>3, <2>3, <2>4 DEF failed, key
<1>4. CASE res # "fail"
  <2> DEFINE failed == st.sideEffectFails \ {key}
             produced == st.produced \/ side \/ Delivers(call.tool)
             progress == IF res = "new" \/ Delivers(call.tool) THEN st.iter
                         ELSE st.progress
             fails == [st.fails EXCEPT ![call.tool] = 0]
             ex == stuck(same > sameArgsMax)
             armed == st.armed \/ call.tool = "view"
  <2>1. failed \in SUBSET Key /\ fails \in [Tool -> Nat] /\ ex \in Exit
    BY <1>2 DEF StateType
  <2>2. progress \in Int
    BY DEF StateType
  <2>3. produced \in BOOLEAN /\ armed \in BOOLEAN
    BY Zenon
  <2>4. recordToolOutcome(call, res) =
          [st EXCEPT !.sideEffectFails = failed, !.produced = produced,
                     !.progress = progress, !.key = key, !.same = same,
                     !.fails = fails, !.exit = ex, !.armed = armed]
    BY <1>4 DEF recordToolOutcome
  <2> HIDE DEF failed, produced, progress, fails, ex, armed, key, same
  <2>5. recordToolOutcome(call, res) \in StateType
    <3> DEFINE s1 == [st EXCEPT !.sideEffectFails = failed, !.produced = produced,
                                !.progress = progress, !.key = key]
               s2 == [s1 EXCEPT !.same = same, !.fails = fails, !.exit = ex,
                                !.armed = armed]
    <3>1. s1 \in StateType
      BY <1>1, <2>1, <2>2, <2>3 DEF StateType
    <3>2. recordToolOutcome(call, res) = s2
      BY <2>4
    <3> HIDE DEF s1
    <3>3. s2 \in StateType
      BY <1>1, <2>1, <2>3, <3>1 DEF StateType
    <3> QED BY <3>2, <3>3
  <2>6. recordToolOutcome(call, res).sideEffectFails = failed
    BY <2>4 DEF StateType
  <2> QED BY <1>4, <2>5, <2>6 DEF failed, key
<1> QED BY <1>3, <1>4

\* One call leaves the calls still to be recorded.
LEMMA RepeatsStep ==
    ASSUME NEW b, Len(b) \in Nat, NEW n \in Nat, n + 1 <= Len(b), NEW k
    PROVE  /\ Repeats(b, n, k) =
                IF <<b[n + 1].tool, b[n + 1].arg>> = k
                THEN Repeats(b, n + 1, k) \cup {n + 1} ELSE Repeats(b, n + 1, k)
           /\ \A j \in Repeats(b, n + 1, k) : j \in Nat /\ j > n + 1
<1> DEFINE is(i) == <<b[i].tool, b[i].arg>> = k
<1>1. Repeats(b, n, k) = {i \in n + 1 .. Len(b) : is(i)}
  BY DEF Repeats
<1>2. Repeats(b, n + 1, k) = {i \in (n + 1) + 1 .. Len(b) : is(i)}
  BY DEF Repeats
<1>3. n + 1 .. Len(b) = {n + 1} \cup ((n + 1) + 1 .. Len(b))
  OBVIOUS
<1>4. \A j \in Repeats(b, n + 1, k) : j \in Nat /\ j > n + 1
  BY <1>2
<1>5. Repeats(b, n, k) =
        IF is(n + 1) THEN Repeats(b, n + 1, k) \cup {n + 1} ELSE Repeats(b, n + 1, k)
  <2> HIDE DEF is
  <2> QED BY <1>1, <1>2, <1>3
<1> QED BY <1>4, <1>5

\* The last of some calls does not change when the first of them leaves.
LEMMA LastFailsStep ==
    ASSUME NEW is, is # {}, NEW i \in Nat, \A j \in is : j \in Nat /\ j > i, NEW res
    PROVE  LastFails(is \cup {i}, res) <=> LastFails(is, res)
<1>1. ASSUME LastFails(is, res) PROVE LastFails(is \cup {i}, res)
  <2>1. PICK x \in is : res[x] = "fail" /\ \A j \in is : j <= x
    BY <1>1 DEF LastFails
  <2>2. i <= x
    OBVIOUS
  <2> QED BY <2>1, <2>2 DEF LastFails
<1>2. ASSUME LastFails(is \cup {i}, res) PROVE LastFails(is, res)
  <2>1. PICK x \in is \cup {i} : res[x] = "fail" /\ \A j \in is \cup {i} : j <= x
    BY <1>2 DEF LastFails
  <2>2. x # i
    <3>1. PICK y \in is : TRUE
      OBVIOUS
    <3>2. y <= x /\ y \in Nat /\ y > i
      BY <2>1
    <3> QED BY <3>2
  <2> QED BY <2>1, <2>2 DEF LastFails
<1> QED BY <1>1, <1>2

LEMMA LastFailsOne ==
    ASSUME NEW i \in Nat, NEW res
    PROVE  LastFails({i}, res) <=> res[i] = "fail"
BY DEF LastFails

LEMMA RecordInv ==
    ASSUME TurnInv, pipelineAndPersist
    PROVE  TurnInv'
<1> DEFINE i == round.saved + 1
           b == round.calls
           call == round.calls[i]
           key0 == <<call.tool, call.arg>>
           res == round.results[i]
<1>1. /\ pc = "results" /\ i <= Len(b)
      /\ st' = recordToolOutcome(call, res)
      /\ round' = [round EXCEPT !.saved = i]
      /\ UNCHANGED <<pc, mode, cancelled, sink, world>>
  BY DEF pipelineAndPersist
<1>2. /\ b \in Batches /\ round.saved \in Nat /\ Len(b) \in Nat /\ i \in 1 .. Len(b)
      /\ call.tool \in Tool /\ key0 \in Key
  <2>1. b \in Batches /\ round.saved \in 0 .. Len(b)
    BY <1>1 DEF TurnInv, RoundOK
  <2>2. Len(b) \in Nat
    BY <2>1, BatchIsSeq
  <2>3. i \in 1 .. Len(b)
    BY <1>1, <2>1, <2>2
  <2> QED BY <2>1, <2>2, <2>3, BatchIsSeq
<1>3. /\ st' \in StateType
      /\ st'.sideEffectFails =
            IF res # "fail" THEN st.sideEffectFails \ {key0}
            ELSE IF SideEffect(call.tool) THEN st.sideEffectFails \cup {key0}
            ELSE st.sideEffectFails
  <2>1. st \in StateType
    BY DEF TurnInv
  <2> HIDE DEF call, res
  <2> QED BY <1>1, <1>2, <2>1, RecordedState
<1>4. /\ DOMAIN round' = DOMAIN NoRound /\ round'.calls = b
      /\ round'.saved = i /\ round'.results = round.results
  BY <1>1 DEF TurnInv, FrameOK, NoRound
<1>5. HistOK' /\ budget' \in BudgetType /\ budget'.spent >= budget.spent
  <2>1. budget \in BudgetType /\ budget.spent \in Nat /\ Goes(cancelled) \in Nat
    BY DEF TurnInv, FrameOK, BudgetType, Goes
  <2>2. CASE hist' = Append(hist, Row("tool", <<round.ids[i]>>)) /\ UNCHANGED budget
    BY <2>1, <2>2, HistAppended DEF TurnInv
  <2>3. CASE Shocks(Goes(cancelled)) /\ UNCHANGED hist
    <3>1. budget' \in BudgetType /\ budget'.spent = budget.spent + Goes(cancelled)
      BY <2>1, <2>3, ShocksStep
    <3> QED BY <2>1, <2>3, <3>1, HistSame DEF TurnInv
  <2> QED BY <2>2, <2>3 DEF pipelineAndPersist
<1>6. FrameOK' /\ SpentOK'
  BY <1>1, <1>4, <1>5, SpentGrows DEF TurnInv, FrameOK
<1>7. RoundOK' /\ SinkOK'
  <2>1. RoundOK'
    BY <1>1, <1>2, <1>4 DEF TurnInv, RoundOK
  <2>2. SinkOK'
    BY <1>1 DEF TurnInv, SinkOK
  <2> QED BY <2>1, <2>2
<1>8. RecordingOK'
  <2>1. ASSUME NEW k \in Key
        PROVE  LET pending == Repeats(round'.calls, round'.saved, k)
               IN  /\ k \in st'.sideEffectFails => SideEffect(k[1])
                   /\ SideEffect(k[1]) /\ pending = {} =>
                         (k \in st'.sideEffectFails <=> world'[k] = "failed")
                   /\ SideEffect(k[1]) /\ pending # {} =>
                         (LastFails(pending, round'.results) <=> world'[k] = "failed")
    <3> DEFINE before == Repeats(b, round.saved, k)
               after == Repeats(b, i, k)
    <3>1. /\ k \in st.sideEffectFails => SideEffect(k[1])
          /\ SideEffect(k[1]) /\ before = {} =>
                (k \in st.sideEffectFails <=> world[k] = "failed")
          /\ SideEffect(k[1]) /\ before # {} =>
                (LastFails(before, round.results) <=> world[k] = "failed")
      BY <1>1 DEF TurnInv, FailsOK, RecordingOK
    <3>2. /\ before = IF key0 = k THEN after \cup {i} ELSE after
          /\ \A j \in after : j \in Nat /\ j > i
      <4>1. Len(b) \in Nat /\ round.saved \in Nat /\ round.saved + 1 <= Len(b)
        BY <1>2
      <4> QED BY <4>1, RepeatsStep, Zenon
    <3>3. Repeats(round'.calls, round'.saved, k) = after /\ world'[k] = world[k]
      BY <1>1, <1>4
    <3>4. key0 = k => (SideEffect(k[1]) <=> SideEffect(call.tool))
      OBVIOUS
    <3>5. i \in Nat
      BY <1>2
    <3> HIDE DEF before, after, i, call, key0, res, b
    <3>6. CASE key0 # k
      <4>1. before = after
        BY <3>2, <3>6
      <4>2. k \in st'.sideEffectFails <=> k \in st.sideEffectFails
        BY <1>3, <3>6
      <4> QED BY <1>4, <3>1, <3>3, <4>1, <4>2
    <3>7. CASE key0 = k /\ after # {}
      <4>1. before = after \cup {i} /\ before # {}
        BY <3>2, <3>7
      <4>2. LastFails(before, round.results) <=> LastFails(after, round.results)
        BY <3>2, <3>5, <3>7, <4>1, LastFailsStep
      <4>3. k \in st'.sideEffectFails => SideEffect(k[1])
        BY <1>3, <3>1, <3>4, <3>7
      <4> QED BY <1>4, <3>1, <3>3, <3>7, <4>1, <4>2, <4>3
    <3>8. CASE key0 = k /\ after = {}
      <4>1. before = {i}
        BY <3>2, <3>8
      <4>2. LastFails(before, round.results) <=> res = "fail"
        BY <3>5, <4>1, LastFailsOne DEF res
      <4>3. k \in st'.sideEffectFails => SideEffect(k[1])
        BY <1>3, <3>1, <3>4, <3>8
      <4>4. SideEffect(k[1]) => (k \in st'.sideEffectFails <=> res = "fail")
        BY <1>3, <3>4, <3>8
      <4> QED BY <1>4, <3>1, <3>3, <3>8, <4>1, <4>2, <4>3, <4>4
    <3> QED BY <3>6, <3>7, <3>8
  <2> QED BY <2>1, Zenon DEF RecordingOK
<1>9. FailsOK' /\ ReplyOK' /\ SettledAtEnd' /\ AnswersDisclose' /\ HistoryMatches'
  BY <1>1, <1>8 DEF FailsOK, ReplyOK, Replying, SettledAtEnd, AnswersDisclose, HistoryMatches
<1> QED BY <1>3, <1>5, <1>6, <1>7, <1>9 DEF TurnInv

-----------------------------------------------------------------------------
(* The theorems.                                                           *)

LEMMA StutterInv ==
    ASSUME TurnInv, UNCHANGED turnVars
    PROVE  TurnInv'
<1>1. UNCHANGED <<hist, pc, mode, cancelled, st, round, sink, world, budget>>
  BY DEF turnVars
<1>2. HistOK' /\ FrameOK' /\ st' \in StateType
  BY <1>1 DEF TurnInv, HistOK, FrameOK
<1>3. RoundOK' /\ SinkOK' /\ SpentOK'
  BY <1>1 DEF TurnInv, RoundOK, SinkOK, SpentOK
<1>4. FailsOK'
  <2>1. FailedKeys' = FailedKeys /\ RecordingOK' = RecordingOK
    BY <1>1 DEF FailedKeys, RecordingOK
  <2> QED BY <1>1, <2>1 DEF TurnInv, FailsOK
<1>5. ReplyOK' /\ SettledAtEnd' /\ AnswersDisclose' /\ HistoryMatches'
  BY <1>1 DEF TurnInv, ReplyOK, Replying, SettledAtEnd, AnswersDisclose, HistoryMatches,
              SideEffectFailed, Undisturbed
<1> QED BY <1>2, <1>3, <1>4, <1>5 DEF TurnInv

LEMMA InitInv == TurnInit => TurnInv
<1> SUFFICES ASSUME TurnInit PROVE TurnInv
  OBVIOUS
<1>1. hist \in Seq({})
  BY DEF TurnInit
<1>2. budget \in BudgetType
  <2>1. budget \in [turns : Nat, rounds : Nat, shocks : Nat, spent : {0}]
    BY TurnAssumption DEF TurnInit
  <2> QED BY <2>1 DEF BudgetType
<1>3. HistOK /\ FrameOK /\ st \in StateType
  BY <1>1, <1>2, FreshState DEF TurnInit, HistOK, FrameOK, PCs
<1>4. RoundOK /\ SinkOK /\ SpentOK
  BY <1>2, FreshState DEF TurnInit, RoundOK, SinkOK, SpentOK, Goes, BudgetType
<1>5. FailsOK
  <2>1. FailedKeys = {}
    BY DEF TurnInit, FailedKeys
  <2> QED BY <2>1, FreshState DEF TurnInit, FailsOK
<1>6. ReplyOK /\ SettledAtEnd /\ AnswersDisclose /\ HistoryMatches
  BY DEF TurnInit, ReplyOK, Replying, SettledAtEnd, AnswersDisclose, HistoryMatches
<1> QED BY <1>3, <1>4, <1>5, <1>6 DEF TurnInv

LEMMA NextInv == TurnInv /\ [TurnNext]_turnVars => TurnInv'
<1> SUFFICES ASSUME TurnInv, [TurnNext]_turnVars PROVE TurnInv'
  OBVIOUS
<1>1. CASE \E m \in {"regular", "looping"} : StartTurn(m)
  BY <1>1, StartTurnInv
<1>2. CASE persistUserRows
  BY <1>2, PersistInv
<1>3. CASE LoopTop
  BY <1>3, LoopTopInv
<1>4. CASE maybeCompressInPlace
  BY <1>4, CompressInv
<1>5. CASE foldUserNudge
  BY <1>5, NudgeInv
<1>6. CASE buildMessages
  BY <1>6, BuildInv
<1>7. CASE Empty \/ handleDegenerate \/ handleBloat
  BY <1>7, EmptyInv
<1>8. CASE Oversized
  BY <1>8, OversizedInv
<1>9. CASE FinalText
  BY <1>9, FinalTextInv
<1>10. CASE \E shown \in BOOLEAN : ModelFails(shown)
  BY <1>10, ModelFailsInv
<1>11. CASE \E b \in Batches : CallsTools(b)
  BY <1>11, CallsInv
<1>12. CASE \E pass \in BOOLEAN : rubricGate(pass) \/ advisorReviewGate(pass)
  BY <1>12, RubricInv, ReviewInv
<1>13. CASE appendAssistantCalls
  BY <1>13, AppendCallsInv
<1>14. CASE dispatchAll
  BY <1>14, DispatchInv
<1>15. CASE pipelineAndPersist
  BY <1>15, RecordInv
<1>16. CASE toolRoundEnds
  BY <1>16, RoundEndsInv
<1>17. CASE LeaveLoop
  BY <1>17, LeaveInv
<1>18. CASE \E text \in {"salvage", "brief", "rubric_fail"} : salvage(text)
  BY <1>18, SalvageInv
<1>19. CASE Cancel
  BY <1>19, CancelInv
<1>20. CASE Panic
  BY <1>20, PanicInv
<1>21. CASE Crash
  BY <1>21, CrashInv
<1>22. CASE UNCHANGED turnVars
  BY <1>22, StutterInv
<1>23. CASE StoreReply
  BY <1>23, StoreInv
<1>24. CASE FinishReply
  BY <1>24, FinishInv
<1> QED
  BY <1>1, <1>2, <1>3, <1>4, <1>5, <1>6, <1>7, <1>8, <1>9, <1>10, <1>11, <1>12,
     <1>13, <1>14, <1>15, <1>16, <1>17, <1>18, <1>19, <1>20, <1>21, <1>22, <1>23,
     <1>24, Zenon DEF TurnNext

\* The types, and how the sink, the round, the remembered failures and the
\* count of disturbances stand at every point of a turn.
THEOREM TurnInvariant == TurnSpec => []TurnInv
BY InitInv, NextInv, PTL DEF TurnSpec

\* Whatever door a turn leaves by, the panic's and the dead context's included,
\* its sink is finished exactly once with no picture held, and an undelivered
\* reply is not booked as an answer.
THEOREM TurnSettles == TurnSpec => []SettledAtEnd
<1>1. TurnInv => SettledAtEnd
  BY DEF TurnInv
<1> QED BY <1>1, TurnInvariant, PTL

\* For any batches of calls, with repeats inside one batch and across rounds, a
\* reply that speaks for the turn carries the footer exactly when some side
\* effect's last attempt failed.
THEOREM TurnDiscloses == TurnSpec => []AnswersDisclose
<1>1. TurnInv => AnswersDisclose
  BY DEF TurnInv
<1> QED BY <1>1, TurnInvariant, PTL

\* With no disturbance but cancels, what the user was shown last is the last
\* row of the transcript, at every door, for any cancel but the one between
\* finalizeTurn's look at the context and the write on it.
THEOREM TurnHistoryMatches == TurnSpec => []HistoryMatches
<1>1. TurnInv => HistoryMatches
  BY DEF TurnInv
<1> QED BY <1>1, TurnInvariant, PTL

-----------------------------------------------------------------------------
(* Pairs in order.                                                         *)

Pairs == Nat \X Nat

Before(p, q) == p[1] < q[1] \/ (p[1] = q[1] /\ p[2] < q[2])

Rank(S, p) == Cardinality(Upto(S, p))

LEMMA RankType ==
    ASSUME NEW S \in SUBSET Pairs, IsFiniteSet(S), NEW p \in S
    PROVE  /\ Upto(S, p) \subseteq S /\ p \in Upto(S, p)
           /\ IsFiniteSet(Upto(S, p))
           /\ Rank(S, p) \in 1 .. Cardinality(S) /\ Cardinality(S) \in Nat
<1>1. Upto(S, p) \subseteq S /\ p \in Upto(S, p)
  BY DEF Upto, Pairs
<1>2. IsFiniteSet(Upto(S, p)) /\ Cardinality(Upto(S, p)) <= Cardinality(S)
  BY <1>1, FS_Subset
<1>3. Cardinality(Upto(S, p)) \in Nat /\ Cardinality(S) \in Nat
  BY <1>2, FS_CardinalityType
<1>4. Cardinality(Upto(S, p)) # 0
  BY <1>1, <1>2, FS_EmptySet
<1> QED BY <1>1, <1>2, <1>3, <1>4 DEF Rank

\* The order is total, and ranks follow it.
LEMMA RankGrows ==
    ASSUME NEW S \in SUBSET Pairs, IsFiniteSet(S), NEW p \in S, NEW q \in S
    PROVE  /\ p = q \/ Before(p, q) \/ Before(q, p)
           /\ Before(p, q) => Rank(S, p) < Rank(S, q)
           /\ Rank(S, p) = Rank(S, q) => p = q
<1>0. /\ p \in Nat \X Nat /\ q \in Nat \X Nat
  BY DEF Pairs
<1>1. p = q \/ Before(p, q) \/ Before(q, p)
  BY <1>0 DEF Before
<1>2. ASSUME NEW x \in S, NEW y \in S, Before(x, y) PROVE Rank(S, x) < Rank(S, y)
  <2>0. x \in Nat \X Nat /\ y \in Nat \X Nat
    BY DEF Pairs
  <2>1. Upto(S, x) \subseteq Upto(S, y) /\ y \notin Upto(S, x) /\ y \in Upto(S, y)
    BY <1>2, <2>0 DEF Upto, Before, Pairs
  <2>2. /\ IsFiniteSet(Upto(S, y)) /\ Cardinality(Upto(S, x)) \in Nat
        /\ Cardinality(Upto(S, y)) \in Nat
    BY RankType DEF Rank
  <2>3. /\ Cardinality(Upto(S, x)) <= Cardinality(Upto(S, y))
        /\ Cardinality(Upto(S, x)) # Cardinality(Upto(S, y))
    BY <2>1, <2>2, FS_Subset
  <2> QED BY <2>2, <2>3 DEF Rank
<1>3. Rank(S, p) \in Nat /\ Rank(S, q) \in Nat
  BY RankType
<1> QED BY <1>1, <1>2, <1>3

\* Every place has one pair, the one of that rank.
LEMMA InOrderPlaces ==
    ASSUME NEW S \in SUBSET Pairs, IsFiniteSet(S)
    PROVE  /\ InOrder(S) \in [1 .. Cardinality(S) -> S] /\ Cardinality(S) \in Nat
           /\ InOrder(S) \in Seq(S) /\ Len(InOrder(S)) = Cardinality(S)
           /\ \A k \in 1 .. Cardinality(S) : Rank(S, InOrder(S)[k]) = k
           /\ \A p \in S : Rank(S, p) \in 1 .. Cardinality(S) /\ InOrder(S)[Rank(S, p)] = p
<1> DEFINE n == Cardinality(S)
           f == [p \in S |-> Rank(S, p)]
<1>0. n \in Nat
  BY FS_CardinalityType
<1>1. f \in [S -> 1 .. n]
  BY RankType
<1>2. \A p, q \in S : f[p] = f[q] => p = q
  BY RankGrows
<1>3. f \in Injection(S, 1 .. n)
  BY <1>1, <1>2 DEF Injection, IsInjective
<1>4. IsFiniteSet(1 .. n) /\ Cardinality(1 .. n) = n
  BY <1>0, FS_Interval
<1>5. f \in Surjection(S, 1 .. n)
  BY <1>3, <1>4, FS_Injection
<1>6. \A k \in 1 .. n : \E p \in S : Rank(S, p) = k
  BY <1>5 DEF Surjection
<1>7. \A k \in 1 .. n : InOrder(S)[k] \in S /\ Rank(S, InOrder(S)[k]) = k
  BY <1>6 DEF InOrder, Rank
<1>8. DOMAIN InOrder(S) = 1 .. n /\ InOrder(S) = [k \in 1 .. n |-> InOrder(S)[k]]
  BY DEF InOrder
<1>9. InOrder(S) \in [1 .. n -> S]
  BY <1>7, <1>8
<1>10. InOrder(S) \in Seq(S) /\ Len(InOrder(S)) = n
  BY <1>0, <1>9
<1>11. \A p \in S : Rank(S, p) \in 1 .. n /\ InOrder(S)[Rank(S, p)] = p
  <2> TAKE p \in S
  <2>1. Rank(S, p) \in 1 .. n
    BY RankType
  <2> HIDE DEF n
  <2>2. InOrder(S)[Rank(S, p)] \in S /\ Rank(S, InOrder(S)[Rank(S, p)]) = Rank(S, p)
    BY <1>7, <2>1
  <2> QED BY <2>1, <2>2, RankGrows
<1> QED BY <1>0, <1>7, <1>9, <1>10, <1>11

\* Single numbers in order.
Alone(I) == {<<i, 0>> : i \in I}
Nth(I, k) == InOrder(Alone(I))[k][1]

LEMMA NumbersInOrder ==
    ASSUME NEW I \in SUBSET Nat, IsFiniteSet(I)
    PROVE  /\ Len(InOrder(Alone(I))) = Cardinality(I) /\ Cardinality(I) \in Nat
           /\ \A k \in 1 .. Cardinality(I) : Nth(I, k) \in I
           /\ \A k, m \in 1 .. Cardinality(I) : k < m => Nth(I, k) < Nth(I, m)
           /\ \A i \in I : \E k \in 1 .. Cardinality(I) : Nth(I, k) = i
<1> DEFINE S == Alone(I)
           n == Cardinality(I)
           f == [i \in I |-> <<i, 0>>]
<1>1. S \in SUBSET Pairs
  <2>1. \A i \in I : i \in Nat /\ 0 \in Nat
    OBVIOUS
  <2>2. \A i \in I : <<i, 0>> \in Nat \X Nat
    BY <2>1
  <2> QED BY <2>2, Zenon DEF Alone, Pairs
<1>2. f \in Bijection(I, S)
  BY DEF Bijection, Injection, Surjection, IsInjective, Alone
<1>3. IsFiniteSet(S) /\ Cardinality(S) = n
  <2>1. ExistsBijection(I, S)
    BY <1>2 DEF ExistsBijection
  <2> HIDE DEF S, n
  <2> QED BY <2>1, FS_Bijection DEF n
<1> DEFINE s == InOrder(S)
<1>4. /\ s \in [1 .. n -> S] /\ n \in Nat /\ Len(s) = n
      /\ \A k \in 1 .. n : Rank(S, s[k]) = k
      /\ \A p \in S : Rank(S, p) \in 1 .. n /\ s[Rank(S, p)] = p
  <2> HIDE DEF S, n
  <2> QED BY <1>1, <1>3, InOrderPlaces
<1>5. \A p \in S : p[1] \in I /\ p[1] \in Nat /\ p[2] = 0
  BY DEF Alone
<1>6. \A k \in 1 .. n : s[k] \in S /\ s[k][1] \in I
  BY <1>4, <1>5
<1>7. ASSUME NEW k \in 1 .. n, NEW m \in 1 .. n, k < m PROVE s[k][1] < s[m][1]
  <2>1. s[k] = s[m] \/ Before(s[k], s[m]) \/ Before(s[m], s[k])
    <3> HIDE DEF S, s, n
    <3> QED BY <1>1, <1>3, <1>6, RankGrows
  <2>2. ~Before(s[m], s[k]) /\ s[k] # s[m]
    <3>1. Rank(S, s[k]) = k /\ Rank(S, s[m]) = m
      BY <1>4
    <3>2. Before(s[m], s[k]) => Rank(S, s[m]) < Rank(S, s[k])
      <4> HIDE DEF S, s, n
      <4> QED BY <1>1, <1>3, <1>6, RankGrows
    <3> HIDE DEF S, s
    <3> QED BY <1>4, <1>7, <3>1, <3>2
  <2>3. Before(s[k], s[m])
    BY <2>1, <2>2
  <2>4. s[k][2] = 0 /\ s[m][2] = 0
    BY <1>5, <1>6
  <2> HIDE DEF S, s
  <2> QED BY <2>3, <2>4 DEF Before
<1>8. ASSUME NEW i \in I PROVE \E k \in 1 .. n : s[k][1] = i
  <2>1. <<i, 0>> \in S
    BY DEF Alone
  <2>2. s[Rank(S, <<i, 0>>)] = <<i, 0>> /\ Rank(S, <<i, 0>>) \in 1 .. n
    BY <1>4, <2>1
  <2>3. <<i, 0>>[1] = i
    OBVIOUS
  <2> HIDE DEF S, s, n
  <2> QED BY <2>2, <2>3
<1> QED BY <1>4, <1>6, <1>7, <1>8 DEF Nth

-----------------------------------------------------------------------------
(* The rows of a transcript.                                               *)

Roles == {"user", "summary", "calls", "tool", "final", "exit", "salvage", "brief",
          "rubric_fail", "persist_fail", "context_too_long", "partial",
          "model_unavailable"}
Rows == [role : Roles, ids : Seq(Nat)]

Distinct(s) == \A i, j \in DOMAIN s : s[i] = s[j] => i = j

\* A row of calls has its ids, a result the id of its call, other rows none.
RowOK(r) ==
    /\ r.role = "calls" => Distinct(r.ids)
    /\ r.role = "tool" => Len(r.ids) = 1
    /\ r.role \notin {"calls", "tool"} => r.ids = <<>>

\* No id is called twice, and none is answered twice.
Unique(rows) ==
    \A i, j \in 1 .. Len(rows) :
        i # j /\ rows[i].role = rows[j].role => Range(rows[i].ids) \cap Range(rows[j].ids) = {}

Tidy(rows) ==
    rows \in Seq(Rows) /\ (\A i \in 1 .. Len(rows) : RowOK(rows[i])) /\ Unique(rows)

\* The rows behind the calls in j, up to i, are results of theirs.
Answers(rows, j, i) ==
    /\ rows[j].role = "calls"
    /\ \A k \in j + 1 .. i :
          rows[k].role = "tool" /\ rows[k].ids[1] \in Range(rows[j].ids)

Paired(rows) ==
    \A i \in 1 .. Len(rows) :
        rows[i].role = "tool" => \E j \in 1 .. i - 1 : Answers(rows, j, i)

\* A result cut off from its calls.
Severed(rows, i) ==
    /\ \A k \in 1 .. i : rows[k].role = "tool"
    /\ \A j \in 1 .. Len(rows) :
          rows[j].role = "calls" => rows[i].ids[1] \notin Range(rows[j].ids)

Replayable(rows) ==
    /\ Tidy(rows)
    /\ \A i \in 1 .. Len(rows) : rows[i].role = "tool" =>
          Severed(rows, i) \/ \E j \in 1 .. i - 1 : Answers(rows, j, i)

\* What comes out of dropOrphanToolRows has every result behind its calls.
LEMMA DropPairs ==
    ASSUME NEW rows, Replayable(rows)
    PROVE  Tidy(dropOrphanToolRows(rows)) /\ Paired(dropOrphanToolRows(rows))
<1> DEFINE keep == {i \in 1 .. Len(rows) :
                      rows[i].role = "tool" =>
                          Range(rows[i].ids) \subseteq IdsIn(rows, "calls", i)}
           n == Cardinality(keep)
           e(k) == Nth(keep, k)
           out == dropOrphanToolRows(rows)
<1>1. /\ rows \in Seq(Rows) /\ Len(rows) \in Nat /\ Unique(rows)
      /\ \A i \in 1 .. Len(rows) : rows[i] \in Rows /\ RowOK(rows[i])
  BY DEF Replayable, Tidy
<1>2. keep \in SUBSET Nat /\ keep \subseteq 1 .. Len(rows) /\ IsFiniteSet(keep)
  <2>1. keep \subseteq 1 .. Len(rows)
    OBVIOUS
  <2>2. IsFiniteSet(1 .. Len(rows))
    BY <1>1, FS_Interval
  <2> HIDE DEF keep
  <2>3. IsFiniteSet(keep)
    BY <2>1, <2>2, FS_Subset
  <2>4. keep \subseteq Nat
    BY <1>1, <2>1
  <2> QED BY <2>1, <2>3, <2>4
<1>3. /\ Len(InOrder(Alone(keep))) = n /\ n \in Nat
      /\ \A k \in 1 .. n : e(k) \in keep /\ e(k) \in 1 .. Len(rows)
      /\ \A k, m \in 1 .. n : k < m => e(k) < e(m)
      /\ \A i \in keep : \E k \in 1 .. n : e(k) = i
  <2> HIDE DEF keep
  <2> QED BY <1>2, NumbersInOrder
<1>4. out = [k \in 1 .. n |-> rows[e(k)]]
  <2>1. out = [k \in 1 .. Len(InOrder(Alone(keep))) |-> rows[InOrder(Alone(keep))[k][1]]]
    BY DEF dropOrphanToolRows, Alone
  <2> HIDE DEF keep, out
  <2> QED BY <1>3, <2>1 DEF Nth
<1> HIDE DEF out, n, e
<1>5. out \in Seq(Rows) /\ Len(out) = n /\ \A k \in 1 .. n : out[k] = rows[e(k)]
  BY <1>1, <1>3, <1>4
<1>6. \A k, m \in 1 .. n : k # m => e(k) # e(m)
  <2>1. \A k \in 1 .. n : e(k) \in Nat
    BY <1>3, <1>2
  <2> HIDE DEF keep
  <2> QED BY <1>3, <2>1
<1>7. Tidy(out)
  <2>1. \A i \in 1 .. Len(out) : RowOK(out[i])
    BY <1>1, <1>3, <1>5
  <2>2. Unique(out)
    <3> SUFFICES ASSUME NEW i \in 1 .. Len(out), NEW j \in 1 .. Len(out), i # j,
                        out[i].role = out[j].role
                 PROVE  Range(out[i].ids) \cap Range(out[j].ids) = {}
      BY DEF Unique
    <3>1. e(i) \in 1 .. Len(rows) /\ e(j) \in 1 .. Len(rows) /\ e(i) # e(j)
      BY <1>3, <1>5, <1>6
    <3>2. out[i] = rows[e(i)] /\ out[j] = rows[e(j)]
      BY <1>5
    <3> QED BY <1>1, <3>1, <3>2 DEF Unique
  <2> QED BY <1>5, <2>1, <2>2 DEF Tidy
<1>8. ASSUME NEW i \in keep, rows[i].role = "tool"
      PROVE  \E j \in 1 .. i - 1 : Answers(rows, j, i) /\ \A k \in j .. i : k \in keep
  <2>0. /\ i \in 1 .. Len(rows) /\ Range(rows[i].ids) \subseteq IdsIn(rows, "calls", i)
        /\ rows[i].ids \in Seq(Nat) /\ Len(rows[i].ids) = 1
    BY <1>1, <1>8 DEF RowOK, Rows
  <2>1. rows[i].ids[1] \in Range(rows[i].ids)
    BY <2>0 DEF Range
  <2>2. ~Severed(rows, i)
    <3>1. rows[i].ids[1] \in IdsIn(rows, "calls", i)
      BY <2>0, <2>1
    <3>2. PICK j \in 1 .. i : rows[j].role = "calls" /\ rows[i].ids[1] \in Range(rows[j].ids)
      BY <3>1 DEF IdsIn
    <3>3. j \in 1 .. Len(rows)
      BY <1>1, <2>0
    <3> QED BY <3>2, <3>3 DEF Severed
  <2>3. PICK j \in 1 .. i - 1 : Answers(rows, j, i)
    BY <1>8, <2>0, <2>2 DEF Replayable
  <2>4. ASSUME NEW k \in j .. i PROVE k \in keep
    <3>1. k \in 1 .. Len(rows)
      BY <1>1, <2>0
    <3>2. CASE k = j
      BY <2>3, <3>1, <3>2 DEF Answers
    <3>3. CASE k \in j + 1 .. i
      <4>1. rows[k].role = "tool" /\ rows[k].ids[1] \in Range(rows[j].ids)
        BY <2>3, <3>3 DEF Answers
      <4>2. rows[k].ids \in Seq(Nat) /\ Len(rows[k].ids) = 1
        BY <1>1, <3>1, <4>1 DEF RowOK, Rows
      <4>3. Range(rows[k].ids) = {rows[k].ids[1]}
        BY <4>2 DEF Range
      <4>4. j \in 1 .. k /\ rows[j].role = "calls"
        BY <2>0, <2>3, <3>3 DEF Answers
      <4>5. Range(rows[j].ids) \subseteq IdsIn(rows, "calls", k)
        BY <4>4 DEF IdsIn
      <4> QED BY <3>1, <4>1, <4>3, <4>5
    <3> QED BY <2>0, <2>4, <3>2, <3>3
  <2> QED BY <2>3, <2>4
<1>9. Paired(out)
  <2> SUFFICES ASSUME NEW k \in 1 .. Len(out), out[k].role = "tool"
               PROVE  \E q \in 1 .. k - 1 : Answers(out, q, k)
    BY DEF Paired
  <2>1. k \in 1 .. n /\ e(k) \in keep /\ out[k] = rows[e(k)] /\ e(k) \in 1 .. Len(rows)
    BY <1>3, <1>5
  <2>2. PICK j \in 1 .. e(k) - 1 : Answers(rows, j, e(k)) /\ \A x \in j .. e(k) : x \in keep
    BY <1>8, <2>1
  <2>3. j \in keep
    BY <2>1, <2>2
  <2>4. PICK q \in 1 .. n : e(q) = j
    BY <1>3, <2>3
  <2>5. \A x \in 1 .. n : e(x) \in Nat
    BY <1>2, <1>3
  <2> HIDE DEF keep
  <2>6. q < k
    <3>1. n \in Nat /\ k \in Nat /\ q \in Nat /\ e(k) \in Nat /\ e(q) \in Nat
      BY <1>3, <2>1, <2>4, <2>5
    <3>2. e(q) < e(k)
      BY <2>2, <2>4, <3>1
    <3>3. k < q => e(k) < e(q)
      BY <1>3, <2>1, <2>4
    <3>4. k = q => e(k) = e(q)
      OBVIOUS
    <3> QED BY <3>1, <3>2, <3>3, <3>4
  <2>7. ASSUME NEW m \in q + 1 .. k
        PROVE  out[m].role = "tool" /\ out[m].ids[1] \in Range(out[q].ids)
    <3>0. n \in Nat /\ q \in 1 .. n /\ k \in 1 .. n
      BY <1>3, <2>1, <2>4
    <3>1. m \in 1 .. n
      BY <3>0, <2>7
    <3>2. e(q) < e(m) /\ e(m) <= e(k)
      <4>1. q < m /\ (m < k \/ m = k)
        BY <3>0, <2>7
      <4>2. \A x, y \in 1 .. n : x < y => e(x) < e(y)
        BY <1>3
      <4>3. e(q) < e(m)
        BY <3>0, <3>1, <4>1, <4>2
      <4>4. m < k => e(m) < e(k)
        BY <3>0, <3>1, <4>2
      <4> QED BY <2>5, <3>0, <3>1, <4>1, <4>3, <4>4
    <3>3. e(m) \in j + 1 .. e(k)
      BY <2>1, <2>4, <2>5, <3>1, <3>2
    <3> QED BY <1>5, <2>2, <2>4, <3>1, <3>3 DEF Answers
  <2>8. out[q].role = "calls"
    BY <1>5, <2>2, <2>4 DEF Answers
  <2>9. q \in 1 .. k - 1
    BY <1>3, <2>1, <2>4, <2>6
  <2> QED BY <2>7, <2>8, <2>9 DEF Answers
<1> QED BY <1>7, <1>9 DEF out

-----------------------------------------------------------------------------
(* The mended replay.                                                      *)

\* What stands in a place.
Put(rows, p) == IF p[2] = 0 THEN rows[p[1]] ELSE Row("tool", <<rows[p[1]].ids[p[2]]>>)

\* The places of the results of the calls in j.
Block(rows, j) ==
    {p \in Places(rows) : \/ p[1] = j /\ p[2] # 0
                          \/ /\ p[1] # j /\ p[2] = 0 /\ rows[p[1]].role = "tool"
                             /\ rows[p[1]].ids[1] \in Range(rows[j].ids)}

LEMMA PlaceShape ==
    ASSUME NEW rows, Tidy(rows)
    PROVE  /\ Len(rows) \in Nat
           /\ \A i \in 1 .. Len(rows) : rows[i].ids \in Seq(Nat) /\ RowOK(rows[i])
           /\ \A p \in Places(rows) :
                /\ p = <<p[1], p[2]>> /\ p[1] \in 1 .. Len(rows) /\ p[2] \in Nat
                /\ p[2] # 0 => p[2] \in Lost(rows, p[1])
           /\ \A i \in 1 .. Len(rows) : <<i, 0>> \in Places(rows)
           /\ \A i \in 1 .. Len(rows) : \A j \in Lost(rows, i) : <<i, j>> \in Places(rows)
           /\ Places(rows) \in SUBSET Pairs
<1>0. rows \in Seq(Rows) /\ \A i \in 1 .. Len(rows) : RowOK(rows[i])
  BY DEF Tidy
<1>1. /\ Len(rows) \in Nat
      /\ \A i \in 1 .. Len(rows) : rows[i].ids \in Seq(Nat) /\ RowOK(rows[i])
  <2>1. \A i \in 1 .. Len(rows) : rows[i] \in Rows
    BY <1>0
  <2>2. \A r \in Rows : r.ids \in Seq(Nat)
    BY DEF Rows
  <2> QED BY <1>0, <2>1, <2>2
<1>2. \A i \in 1 .. Len(rows) : Lost(rows, i) \subseteq Nat
  BY <1>1 DEF Lost
<1>3. ASSUME NEW p \in Places(rows)
      PROVE  /\ p = <<p[1], p[2]>> /\ p[1] \in 1 .. Len(rows) /\ p[2] \in Nat
             /\ p[2] # 0 => p[2] \in Lost(rows, p[1])
  <2>1. PICK i \in 1 .. Len(rows) : p \in {i} \X ({0} \cup Lost(rows, i))
    BY DEF Places
  <2> QED BY <1>2, <2>1
<1>4. \A i \in 1 .. Len(rows) : <<i, 0>> \in Places(rows)
  BY DEF Places
<1>5. \A i \in 1 .. Len(rows) : \A j \in Lost(rows, i) : <<i, j>> \in Places(rows)
  BY DEF Places
<1>6. Places(rows) \in SUBSET Pairs
  BY <1>1, <1>3 DEF Pairs
<1> QED BY <1>1, <1>3, <1>4, <1>5, <1>6

LEMMA PlacesFinite ==
    ASSUME NEW rows, Tidy(rows)
    PROVE  IsFiniteSet(Places(rows))
<1> DEFINE N == Len(rows)
           g == [i \in 1 .. N |-> {i} \X ({0} \cup Lost(rows, i))]
           T == {g[i] : i \in 1 .. N}
<1>1. N \in Nat /\ \A i \in 1 .. N : rows[i].ids \in Seq(Nat)
  BY PlaceShape
<1>2. IsFiniteSet(1 .. N)
  BY <1>1, FS_Interval
<1>3. g \in Surjection(1 .. N, T)
  BY DEF Surjection
<1>4. IsFiniteSet(T)
  <2> HIDE DEF T, g, N
  <2> QED BY <1>2, <1>3, FS_Surjection
<1>5. ASSUME NEW i \in 1 .. N PROVE IsFiniteSet({i} \X ({0} \cup Lost(rows, i)))
  <2>1. Len(rows[i].ids) \in Nat
    BY <1>1
  <2>2. IsFiniteSet(1 .. Len(rows[i].ids))
    <3> DEFINE m == Len(rows[i].ids)
    <3>1. 1 \in Int /\ m \in Int
      BY <2>1
    <3> HIDE DEF m
    <3> QED BY <3>1, FS_Interval DEF m
  <2>3. IsFiniteSet(Lost(rows, i))
    BY <2>2, FS_Subset DEF Lost
  <2>4. IsFiniteSet(Lost(rows, i) \cup {0})
    BY <2>3, FS_AddElement
  <2>5. {0} \cup Lost(rows, i) = Lost(rows, i) \cup {0}
    OBVIOUS
  <2>6. IsFiniteSet({i})
    BY FS_Singleton
  <2> QED BY <2>4, <2>5, <2>6, FS_Product
<1>6. \A t \in T : IsFiniteSet(t)
  BY <1>5
<1>7. IsFiniteSet(UNION T)
  <2> HIDE DEF T
  <2> QED BY <1>4, <1>6, FS_UNION
<1>8. Places(rows) = UNION T
  BY DEF Places
<1> QED BY <1>7, <1>8

\* The calls of a result row are the nearest before it.
LEMMA ResultFollows ==
    ASSUME NEW rows, Tidy(rows), Paired(rows),
           NEW j \in 1 .. Len(rows), NEW i \in 1 .. Len(rows),
           rows[j].role = "calls", rows[i].role = "tool", rows[i].ids[1] \in Range(rows[j].ids)
    PROVE  j < i /\ Answers(rows, j, i)
<1>1. PICK q \in 1 .. i - 1 : Answers(rows, q, i)
  BY DEF Paired
<1>2. q \in 1 .. Len(rows) /\ q < i /\ i \in q + 1 .. i
  BY PlaceShape
<1>3. rows[q].role = "calls" /\ rows[i].ids[1] \in Range(rows[q].ids)
  BY <1>1, <1>2 DEF Answers
<1>4. q = j
  BY <1>2, <1>3 DEF Tidy, Unique
<1> QED BY <1>1, <1>2, <1>4

\* There is one place for each call.
LEMMA BlockSize ==
    ASSUME NEW rows, Tidy(rows), Paired(rows), NEW j \in 1 .. Len(rows),
           rows[j].role = "calls"
    PROVE  /\ IsFiniteSet(Block(rows, j))
           /\ Cardinality(Block(rows, j)) = Len(rows[j].ids)
           /\ \A p \in Block(rows, j) : Put(rows, p).role = "tool" /\ Len(Put(rows, p).ids) = 1
           /\ {Put(rows, p).ids[1] : p \in Block(rows, j)} = Range(rows[j].ids)
<1> DEFINE ids == rows[j].ids
           n == Len(ids)
           B == Block(rows, j)
           Id(p) == Put(rows, p).ids[1]
<1>1. /\ Len(rows) \in Nat /\ ids \in Seq(Nat) /\ n \in Nat
      /\ Distinct(ids) /\ DOMAIN ids = 1 .. n
      /\ \A i \in 1 .. Len(rows) : rows[i].ids \in Seq(Nat) /\ RowOK(rows[i])
  BY PlaceShape DEF RowOK
<1>2. ASSUME NEW p \in B
      PROVE  Put(rows, p).role = "tool" /\ Len(Put(rows, p).ids) = 1 /\ Id(p) \in Range(ids)
  <2>1. /\ p = <<p[1], p[2]>> /\ p[1] \in 1 .. Len(rows) /\ p[2] \in Nat
        /\ p[2] # 0 => p[2] \in Lost(rows, p[1])
    BY PlaceShape DEF Block
  <2>2. CASE p[2] # 0
    <3>1. p[1] = j /\ p[2] \in 1 .. n
      BY <2>1, <2>2 DEF Block, Lost
    <3>2. Put(rows, p) = [role |-> "tool", ids |-> <<ids[p[2]]>>]
      BY <2>2, <3>1 DEF Put, Row
    <3> QED BY <1>1, <3>1, <3>2 DEF Range
  <2>3. CASE p[2] = 0
    <3>1. rows[p[1]].role = "tool" /\ rows[p[1]].ids[1] \in Range(ids)
      BY <2>3 DEF Block
    <3>2. Put(rows, p) = rows[p[1]]
      BY <2>3 DEF Put
    <3> QED BY <1>1, <2>1, <3>1, <3>2 DEF RowOK
  <2> QED BY <2>2, <2>3
<1>3. ASSUME NEW p \in B, NEW q \in B, Id(p) = Id(q) PROVE p = q
  <2>0. /\ p \in Places(rows) /\ q \in Places(rows)
        /\ p = <<p[1], p[2]>> /\ p[1] \in 1 .. Len(rows) /\ p[2] \in Nat
        /\ q = <<q[1], q[2]>> /\ q[1] \in 1 .. Len(rows) /\ q[2] \in Nat
        /\ p[2] # 0 => p[2] \in Lost(rows, p[1])
        /\ q[2] # 0 => q[2] \in Lost(rows, q[1])
    BY PlaceShape DEF Block
  <2>1. ASSUME NEW x \in B, x[2] = 0, x[1] \in 1 .. Len(rows)
        PROVE  /\ Id(x) = rows[x[1]].ids[1] /\ rows[x[1]].role = "tool"
               /\ Id(x) \in Range(rows[x[1]].ids)
               /\ Id(x) \in IdsIn(rows, "tool", Len(rows))
    <3>1. Put(rows, x) = rows[x[1]] /\ rows[x[1]].role = "tool"
      BY <2>1 DEF Put, Block
    <3>2. Id(x) \in Range(rows[x[1]].ids)
      BY <1>1, <2>1, <3>1 DEF RowOK, Range
    <3> QED BY <2>1, <3>1, <3>2 DEF IdsIn
  <2>2. ASSUME NEW x \in B, x[2] # 0, x[2] \in Lost(rows, x[1])
        PROVE  /\ x[1] = j /\ x[2] \in 1 .. n /\ Id(x) = ids[x[2]]
               /\ Id(x) \notin IdsIn(rows, "tool", Len(rows))
    <3>1. x[1] = j /\ x[2] \in 1 .. n /\ ids[x[2]] \notin IdsIn(rows, "tool", Len(rows))
      BY <2>2 DEF Block, Lost
    <3>2. Put(rows, x) = [role |-> "tool", ids |-> <<ids[x[2]]>>]
      BY <2>2, <3>1 DEF Put, Row
    <3> QED BY <3>1, <3>2
  <2> HIDE DEF B, Id
  <2>3. CASE p[2] = 0 /\ q[2] = 0
    <3>1. Id(p) \in Range(rows[p[1]].ids) \cap Range(rows[q[1]].ids)
      BY <1>3, <2>0, <2>1, <2>3
    <3>2. p[1] = q[1]
      BY <2>0, <2>1, <2>3, <3>1 DEF Tidy, Unique
    <3> QED BY <2>0, <2>3, <3>2
  <2>4. CASE p[2] # 0 /\ q[2] # 0
    <3>1. ids[p[2]] = ids[q[2]] /\ p[2] \in DOMAIN ids /\ q[2] \in DOMAIN ids /\ p[1] = q[1]
      BY <1>1, <1>3, <2>0, <2>2, <2>4
    <3>2. p[2] = q[2]
      BY <1>1, <3>1 DEF Distinct
    <3> QED BY <2>0, <3>1, <3>2
  <2>5. CASE p[2] = 0 /\ q[2] # 0
    BY <1>3, <2>0, <2>1, <2>2, <2>5
  <2>6. CASE p[2] # 0 /\ q[2] = 0
    BY <1>3, <2>0, <2>1, <2>2, <2>6
  <2> QED BY <2>3, <2>4, <2>5, <2>6
<1>4. ASSUME NEW t \in 1 .. n PROVE \E p \in B : Id(p) = ids[t]
  <2>1. CASE ids[t] \notin IdsIn(rows, "tool", Len(rows))
    <3>1. t \in Lost(rows, j)
      <4>1. ids[t] \in Range(ids)
        BY <1>1 DEF Range
      <4>2. ASSUME NEW i \in 1 .. j - 1, rows[i].role = "calls"
            PROVE  ids[t] \notin Range(rows[i].ids)
        <5>1. i \in 1 .. Len(rows) /\ i # j
          BY <1>1
        <5> QED BY <4>1, <4>2, <5>1 DEF Tidy, Unique
      <4>3. ids[t] \notin IdsIn(rows, "calls", j - 1)
        BY <4>2 DEF IdsIn
      <4>4. \A k \in 1 .. t - 1 : ids[k] # ids[t]
        <5>1. \A k \in 1 .. t - 1 : k \in 1 .. n /\ k # t
          BY <1>1
        <5> QED BY <1>1, <5>1 DEF Distinct
      <4> QED BY <2>1, <4>3, <4>4 DEF Lost
    <3>2. <<j, t>> \in B
      BY <1>1, <3>1, PlaceShape DEF Block
    <3>3. Put(rows, <<j, t>>) = [role |-> "tool", ids |-> <<ids[t]>>]
      BY <1>1 DEF Put, Row
    <3>4. Id(<<j, t>>) = ids[t]
      BY <3>3
    <3> HIDE DEF B, Id
    <3> QED BY <3>2, <3>4
  <2>2. CASE ids[t] \in IdsIn(rows, "tool", Len(rows))
    <3>1. PICK i \in 1 .. Len(rows) : rows[i].role = "tool" /\ ids[t] \in Range(rows[i].ids)
      BY <2>2 DEF IdsIn
    <3>2. Len(rows[i].ids) = 1 /\ rows[i].ids[1] = ids[t]
      BY <1>1, <3>1 DEF RowOK, Range
    <3>3. <<i, 0>> \in B
      BY <1>1, <3>1, <3>2, PlaceShape DEF Block, Range
    <3>4. Put(rows, <<i, 0>>) = rows[i]
      BY DEF Put
    <3>5. Id(<<i, 0>>) = ids[t]
      BY <3>2, <3>4
    <3> HIDE DEF B, Id
    <3> QED BY <3>3, <3>5
  <2> QED BY <2>1, <2>2
<1>5. {Id(p) : p \in B} = Range(ids)
  <2>1. \A x \in Range(ids) : \E t \in 1 .. n : x = ids[t]
    BY <1>1 DEF Range
  <2> HIDE DEF B, Id, ids, n
  <2> QED BY <1>2, <1>4, <2>1
<1> DEFINE f == [p \in B |-> Id(p)]
<1>6. f \in Bijection(B, Range(ids))
  <2> HIDE DEF B, Id, ids
  <2> QED BY <1>2, <1>3, <1>5 DEF Bijection, Injection, Surjection, IsInjective
<1>7. IsFiniteSet(B)
  <2>1. B \subseteq Places(rows)
    BY DEF Block
  <2> HIDE DEF B
  <2> QED BY <2>1, PlacesFinite, FS_Subset
<1>8. Cardinality(Range(ids)) = Cardinality(B)
  <2>1. ExistsBijection(B, Range(ids))
    BY <1>6 DEF ExistsBijection
  <2> HIDE DEF B, ids
  <2> QED BY <1>7, <2>1, FS_Bijection
<1>9. Cardinality(Range(ids)) = n
  <2>1. ids \in Bijection(1 .. n, Range(ids))
    <3>1. ids \in [1 .. n -> Range(ids)]
      BY <1>1 DEF Range
    <3>2. \A x, y \in 1 .. n : ids[x] = ids[y] => x = y
      BY <1>1 DEF Distinct
    <3>3. \A x \in Range(ids) : \E y \in 1 .. n : ids[y] = x
      BY <1>1 DEF Range
    <3> HIDE DEF ids, n
    <3> QED BY <3>1, <3>2, <3>3 DEF Bijection, Injection, Surjection, IsInjective
  <2>2. ExistsBijection(1 .. n, Range(ids))
    BY <2>1 DEF ExistsBijection
  <2> HIDE DEF ids, n
  <2> QED BY <1>1, <2>2, FS_CountingElements
<1> QED BY <1>2, <1>5, <1>7, <1>8, <1>9

\* The results of the calls in j take the places right behind them.
LEMMA BlockRanks ==
    ASSUME NEW rows, Tidy(rows), Paired(rows), NEW j \in 1 .. Len(rows),
           rows[j].role = "calls", NEW q \in Block(rows, j)
    PROVE  /\ Rank(Places(rows), <<j, 0>>) < Rank(Places(rows), q)
           /\ Rank(Places(rows), q)
                <= Rank(Places(rows), <<j, 0>>) + Cardinality(Block(rows, j))
<1> DEFINE S == Places(rows)
           B == Block(rows, j)
           h == <<j, 0>>
<1>1. S \in SUBSET Pairs /\ IsFiniteSet(S) /\ h \in S /\ q \in S /\ Len(rows) \in Nat
  BY PlaceShape, PlacesFinite DEF Block
<1>2. ASSUME NEW p \in S
      PROVE  /\ p = <<p[1], p[2]>> /\ p[1] \in 1 .. Len(rows) /\ p[1] \in Nat /\ p[2] \in Nat
             /\ p[2] # 0 => p[2] \in Lost(rows, p[1])
  BY <1>1, PlaceShape
<1>3. h[1] = j /\ h[2] = 0 /\ j \in Nat
  OBVIOUS
<1>4. Before(h, q)
  <2>1. q[1] = j \/ j < q[1]
    <3>1. CASE q[1] # j
      <4>1. rows[q[1]].role = "tool" /\ rows[q[1]].ids[1] \in Range(rows[j].ids)
        BY <3>1 DEF Block
      <4> QED BY <1>1, <1>2, <4>1, ResultFollows
    <3> QED BY <3>1
  <2>2. q[1] = j => q[2] # 0
    BY DEF Block
  <2> HIDE DEF h
  <2> QED BY <1>1, <1>2, <1>3, <2>1, <2>2 DEF Before
<1>5. ASSUME NEW p \in S, Before(h, p), Before(p, q) PROVE p \in B
  <2>1. CASE p[1] = j
    <3>1. p[2] # 0
      <4> HIDE DEF h
      <4> QED BY <1>2, <1>3, <1>5, <2>1 DEF Before
    <3> QED BY <2>1, <3>1 DEF Block
  <2>2. CASE p[1] # j
    <3>1. j < p[1]
      <4> HIDE DEF h
      <4> QED BY <1>2, <1>3, <1>5, <2>2 DEF Before
    <3>2. p[1] <= q[1] /\ q[1] # j
      BY <1>1, <1>2, <1>5, <3>1 DEF Before
    <3>3. /\ q[2] = 0 /\ rows[q[1]].role = "tool"
          /\ rows[q[1]].ids[1] \in Range(rows[j].ids)
      BY <3>2 DEF Block
    <3>4. Answers(rows, j, q[1])
      BY <1>1, <1>2, <3>3, ResultFollows
    <3>5. p[1] \in j + 1 .. q[1]
      BY <1>1, <1>2, <3>1, <3>2
    <3>6. rows[p[1]].role = "tool" /\ rows[p[1]].ids[1] \in Range(rows[j].ids)
      BY <3>4, <3>5 DEF Answers
    <3>7. p[2] = 0
      BY <1>2, <3>6 DEF Lost
    <3> QED BY <2>2, <3>6, <3>7 DEF Block
  <2> QED BY <2>1, <2>2
<1>6. Upto(S, q) \subseteq Upto(S, h) \cup B
  <2> SUFFICES ASSUME NEW p \in Upto(S, q), p \notin Upto(S, h) PROVE p \in B
    OBVIOUS
  <2>1. p \in S /\ (p[1] < q[1] \/ (p[1] = q[1] /\ p[2] <= q[2]))
    BY DEF Upto
  <2>2. ~(p[1] < h[1] \/ (p[1] = h[1] /\ p[2] <= h[2]))
    BY <2>1 DEF Upto
  <2>3. p = q \/ Before(p, q)
    BY <1>1, <1>2, <2>1 DEF Before
  <2>4. Before(h, p)
    <3> HIDE DEF h
    <3> QED BY <1>2, <1>3, <2>1, <2>2 DEF Before
  <2> QED BY <1>5, <2>1, <2>3, <2>4
<1>7. IsFiniteSet(Upto(S, h)) /\ IsFiniteSet(B) /\ IsFiniteSet(Upto(S, q))
  <2>1. IsFiniteSet(B)
    BY BlockSize
  <2> HIDE DEF S, h, B
  <2> QED BY <1>1, <2>1, RankType
<1>8. Cardinality(Upto(S, q)) <= Cardinality(Upto(S, h)) + Cardinality(B)
  <2> DEFINE U == Upto(S, h)
  <2>0. IsFiniteSet(U)
    BY <1>7
  <2> HIDE DEF S, h, B, U
  <2>1. /\ IsFiniteSet(U \cup B) /\ IsFiniteSet(U \cap B)
        /\ Cardinality(U \cup B) = Cardinality(U) + Cardinality(B) - Cardinality(U \cap B)
    BY <1>7, <2>0, FS_Union, FS_Intersection
  <2>2. /\ Cardinality(U) \in Nat /\ Cardinality(B) \in Nat /\ Cardinality(U \cap B) \in Nat
        /\ Cardinality(U \cup B) \in Nat /\ Cardinality(Upto(S, q)) \in Nat
    BY <1>7, <2>0, <2>1, FS_CardinalityType
  <2>3. Upto(S, q) \in SUBSET (U \cup B)
    BY <1>6 DEF U
  <2>4. Cardinality(Upto(S, q)) <= Cardinality(U \cup B)
    BY <2>1, <2>3, FS_Subset
  <2> QED BY <2>1, <2>2, <2>4 DEF U
<1>9. Rank(S, h) < Rank(S, q)
  <2> HIDE DEF S, h
  <2> QED BY <1>1, <1>4, RankGrows
<1> QED BY <1>8, <1>9 DEF Rank

\* The mended replay pairs every call with its result.
LEMMA RepairPairs ==
    ASSUME NEW rows, Tidy(rows), Paired(rows)
    PROVE  WellFormed(repairOrphanToolCalls(rows))
<1> DEFINE S == Places(rows)
           s == InOrder(S)
           n == Cardinality(S)
           out == repairOrphanToolCalls(rows)
<1>1. S \in SUBSET Pairs /\ IsFiniteSet(S)
  BY PlaceShape, PlacesFinite
<1>2. /\ s \in [1 .. n -> S] /\ n \in Nat /\ Len(s) = n
      /\ \A k \in 1 .. n : Rank(S, s[k]) = k
      /\ \A p \in S : Rank(S, p) \in 1 .. n /\ s[Rank(S, p)] = p
  <2> HIDE DEF S
  <2> QED BY <1>1, InOrderPlaces
<1>3. /\ DOMAIN out = 1 .. n /\ Len(out) = n
      /\ \A k \in 1 .. n : out[k] = Put(rows, s[k])
  <2>1. out = [k \in 1 .. n |-> Put(rows, s[k])]
    BY <1>2 DEF repairOrphanToolCalls, Put
  <2> HIDE DEF out, s, n
  <2>2. DOMAIN out = 1 .. n /\ \A k \in 1 .. n : out[k] = Put(rows, s[k])
    BY <2>1
  <2>3. out \in Seq({Put(rows, s[k]) : k \in 1 .. n})
    BY <1>2, <2>1
  <2> QED BY <1>2, <2>2, <2>3
<1>4. \A p \in S : out[Rank(S, p)] = Put(rows, p)
  <2> HIDE DEF out, s, n, S
  <2> QED BY <1>2, <1>3
<1> HIDE DEF out, n
<1>5. \A p \in S : /\ p = <<p[1], p[2]>> /\ p[1] \in 1 .. Len(rows) /\ p[2] \in Nat
                   /\ p[2] # 0 => p[2] \in Lost(rows, p[1])
  BY PlaceShape
<1>6. ASSUME NEW j \in 1 .. Len(rows), rows[j].role = "calls"
      PROVE  LET r == Rank(S, <<j, 0>>)
                 block == r + 1 .. r + Len(rows[j].ids)
             IN  /\ r \in 1 .. n /\ out[r] = rows[j]
                 /\ block \subseteq 1 .. n
                 /\ \A k \in block : out[k].role = "tool" /\ Len(out[k].ids) = 1
                 /\ {out[k].ids[1] : k \in block} = Range(rows[j].ids)
  <2> DEFINE B == Block(rows, j)
             r == Rank(S, <<j, 0>>)
             m == Len(rows[j].ids)
             f == [p \in B |-> Rank(S, p)]
  <2>1. <<j, 0>> \in S /\ m \in Nat /\ B \subseteq S
    BY PlaceShape DEF Block
  <2>2. r \in 1 .. n /\ out[r] = rows[j]
    <3>1. Put(rows, <<j, 0>>) = rows[j]
      BY DEF Put
    <3> HIDE DEF S, s
    <3> QED BY <1>2, <1>4, <2>1, <3>1
  <2>3. /\ IsFiniteSet(B) /\ Cardinality(B) = m
        /\ \A p \in B : Put(rows, p).role = "tool" /\ Len(Put(rows, p).ids) = 1
        /\ {Put(rows, p).ids[1] : p \in B} = Range(rows[j].ids)
    BY <1>6, BlockSize
  <2>4. \A q \in B : r < Rank(S, q) /\ Rank(S, q) <= r + m
    BY <1>6, <2>3, BlockRanks
  <2>5. \A q \in B : Rank(S, q) \in 1 .. n /\ q \in S
    BY <1>2, <2>1
  <2> HIDE DEF r, B, m, S, s
  <2>6. f \in [B -> r + 1 .. r + m]
    BY <1>2, <2>1, <2>2, <2>4, <2>5
  <2>7. \A p, q \in B : f[p] = f[q] => p = q
    BY <1>1, <2>5, RankGrows
  <2>8. f \in Injection(B, r + 1 .. r + m)
    <3> HIDE DEF f
    <3> QED BY <2>6, <2>7 DEF Injection, IsInjective
  <2>9. IsFiniteSet(r + 1 .. r + m) /\ Cardinality(r + 1 .. r + m) = m
    <3> DEFINE a == r + 1
               b == r + m
    <3>1. a \in Int /\ b \in Int /\ (IF a > b THEN 0 ELSE b - a + 1) = m
      BY <1>2, <2>1, <2>2
    <3> HIDE DEF a, b
    <3>2. IsFiniteSet(a .. b) /\ Cardinality(a .. b) = m
      BY <3>1, FS_Interval
    <3> QED BY <3>2 DEF a, b
  <2>10. f \in Surjection(B, r + 1 .. r + m)
    <3> HIDE DEF f
    <3> QED BY <2>3, <2>8, <2>9, FS_Injection
  <2>11. ASSUME NEW k \in r + 1 .. r + m
         PROVE  \E q \in B : Rank(S, q) = k /\ out[k] = Put(rows, q) /\ k \in 1 .. n
    <3>1. PICK q \in B : f[q] = k
      BY <2>10 DEF Surjection
    <3>2. Rank(S, q) = k
      BY <3>1
    <3> QED BY <1>4, <2>5, <3>2
  <2>12. ASSUME NEW q \in B PROVE \E k \in r + 1 .. r + m : out[k] = Put(rows, q)
    <3>1. Rank(S, q) \in r + 1 .. r + m /\ out[Rank(S, q)] = Put(rows, q)
      BY <1>4, <2>5, <2>6
    <3> QED BY <3>1
  <2>13. {out[k].ids[1] : k \in r + 1 .. r + m} = {Put(rows, p).ids[1] : p \in B}
    BY <2>11, <2>12
  <2>14. \A k \in r + 1 .. r + m : k \in 1 .. n /\ out[k].role = "tool" /\ Len(out[k].ids) = 1
    BY <2>3, <2>11
  <2> QED BY <2>2, <2>3, <2>13, <2>14 DEF r, m
<1>7. ASSUME NEW i \in 1 .. Len(out), out[i].role = "calls"
      PROVE  LET block == i + 1 .. i + Len(out[i].ids)
             IN  /\ block \subseteq 1 .. Len(out)
                 /\ \A k \in block : out[k].role = "tool" /\ Len(out[k].ids) = 1
                 /\ {out[k].ids[1] : k \in block} = Range(out[i].ids)
  <2>1. i \in 1 .. n /\ s[i] \in S /\ out[i] = Put(rows, s[i]) /\ Rank(S, s[i]) = i
    <3> HIDE DEF s, S
    <3> QED BY <1>2, <1>3
  <2> DEFINE p == s[i]
  <2>2. p[2] = 0
    BY <1>7, <2>1 DEF Put, Row
  <2>3. p = <<p[1], 0>> /\ p[1] \in 1 .. Len(rows) /\ rows[p[1]].role = "calls"
    BY <1>5, <1>7, <2>1, <2>2 DEF Put
  <2>4. Rank(S, <<p[1], 0>>) = i
    BY <2>1, <2>3
  <2> HIDE DEF p, s, S
  <2> QED BY <1>3, <1>6, <2>3, <2>4
<1>8. ASSUME NEW i \in 1 .. Len(out), out[i].role = "tool"
      PROVE  \E j \in 1 .. i - 1 : out[j].role = "calls" /\ i <= j + Len(out[j].ids)
  <2>1. i \in 1 .. n /\ s[i] \in S /\ out[i] = Put(rows, s[i]) /\ Rank(S, s[i]) = i
    <3> HIDE DEF s, S
    <3> QED BY <1>2, <1>3
  <2> DEFINE p == s[i]
  <2>2. \E j \in 1 .. Len(rows) : rows[j].role = "calls" /\ p \in Block(rows, j)
    <3>1. CASE p[2] # 0
      <4>1. rows[p[1]].role = "calls" /\ p[1] \in 1 .. Len(rows)
        BY <1>5, <2>1, <3>1 DEF Lost
      <4> QED BY <2>1, <3>1, <4>1 DEF Block
    <3>2. CASE p[2] = 0
      <4>1. rows[p[1]].role = "tool" /\ p[1] \in 1 .. Len(rows)
        BY <1>5, <1>8, <2>1, <3>2 DEF Put
      <4>2. PICK j \in 1 .. p[1] - 1 : Answers(rows, j, p[1])
        BY <4>1 DEF Paired
      <4>3. j \in 1 .. Len(rows) /\ j # p[1] /\ p[1] \in j + 1 .. p[1]
        BY <4>1, <4>2, PlaceShape
      <4>4. rows[j].role = "calls" /\ rows[p[1]].ids[1] \in Range(rows[j].ids)
        BY <4>2, <4>3 DEF Answers
      <4> QED BY <2>1, <3>2, <4>1, <4>3, <4>4 DEF Block
    <3> QED BY <3>1, <3>2
  <2>3. PICK j \in 1 .. Len(rows) : rows[j].role = "calls" /\ p \in Block(rows, j)
    BY <2>2
  <2> DEFINE r == Rank(S, <<j, 0>>)
  <2>4. r < i /\ i <= r + Cardinality(Block(rows, j))
    BY <2>1, <2>3, BlockRanks
  <2>5. Cardinality(Block(rows, j)) = Len(rows[j].ids)
    BY <2>3, BlockSize
  <2>6. r \in 1 .. n /\ out[r] = rows[j]
    BY <1>6, <2>3
  <2> HIDE DEF r, p, s, S
  <2>7. r \in 1 .. i - 1
    BY <1>2, <2>1, <2>4, <2>6
  <2> QED BY <2>3, <2>4, <2>5, <2>6, <2>7
<1> QED BY <1>7, <1>8 DEF WellFormed, out

\* What the model gets is well formed.
LEMMA MessagesPair ==
    ASSUME NEW rows, Replayable(rows)
    PROVE  WellFormed(Messages(rows))
  BY DropPairs, RepairPairs DEF Messages

-----------------------------------------------------------------------------
(* How the transcript grows and is cut.                                    *)

LEMMA AppendShape ==
    ASSUME NEW rows \in Seq(Rows), NEW row \in Rows
    PROVE  /\ Len(rows) \in Nat
           /\ Append(rows, row) \in Seq(Rows) /\ Len(Append(rows, row)) = Len(rows) + 1
           /\ \A i \in 1 .. Len(rows) : Append(rows, row)[i] = rows[i]
           /\ Append(rows, row)[Len(rows) + 1] = row
  OBVIOUS

\* A row that calls, or answers, no id twice.
LEMMA AppendTidy ==
    ASSUME NEW rows, Tidy(rows), NEW row \in Rows, RowOK(row),
           \A i \in 1 .. Len(rows) :
              rows[i].role = row.role => Range(rows[i].ids) \cap Range(row.ids) = {}
    PROVE  Tidy(Append(rows, row))
<1> DEFINE out == Append(rows, row)
           n == Len(rows)
<1>1. /\ n \in Nat /\ out \in Seq(Rows) /\ Len(out) = n + 1
      /\ \A i \in 1 .. n : out[i] = rows[i]
      /\ out[n + 1] = row
  BY AppendShape DEF Tidy
<1>2. \A i \in 1 .. n : RowOK(rows[i])
  BY DEF Tidy
<1> HIDE DEF out
<1>3. \A i \in 1 .. Len(out) : RowOK(out[i])
  <2> SUFFICES ASSUME NEW i \in 1 .. n + 1 PROVE RowOK(out[i])
    BY <1>1
  <2>1. i \in 1 .. n \/ i = n + 1
    BY <1>1
  <2> QED BY <1>1, <1>2, <2>1
<1>4. Unique(out)
  <2> SUFFICES ASSUME NEW i \in 1 .. n + 1, NEW j \in 1 .. n + 1,
                      i # j, out[i].role = out[j].role
               PROVE  Range(out[i].ids) \cap Range(out[j].ids) = {}
    BY <1>1 DEF Unique
  <2>1. (i \in 1 .. n \/ i = n + 1) /\ (j \in 1 .. n \/ j = n + 1)
    BY <1>1
  <2>2. CASE i \in 1 .. n /\ j \in 1 .. n
    BY <1>1, <2>2 DEF Tidy, Unique
  <2>3. CASE i \in 1 .. n /\ j = n + 1
    BY <1>1, <2>3
  <2>4. CASE i = n + 1 /\ j \in 1 .. n
    BY <1>1, <2>4
  <2> QED BY <2>1, <2>2, <2>3, <2>4
<1> QED BY <1>1, <1>3, <1>4 DEF Tidy, out

\* A result goes behind the results of its calls.
LEMMA AppendPaired ==
    ASSUME NEW rows \in Seq(Rows), Paired(rows), NEW row \in Rows,
           row.role = "tool" =>
              \E j \in 1 .. Len(rows) :
                 Answers(rows, j, Len(rows)) /\ row.ids[1] \in Range(rows[j].ids)
    PROVE  Paired(Append(rows, row))
<1> DEFINE out == Append(rows, row)
           n == Len(rows)
<1>1. /\ n \in Nat /\ out \in Seq(Rows) /\ Len(out) = n + 1
      /\ \A i \in 1 .. n : out[i] = rows[i]
      /\ out[n + 1] = row
  BY AppendShape
<1> HIDE DEF out
<1>2. ASSUME NEW i \in 1 .. n, NEW j \in 1 .. i - 1, Answers(rows, j, i)
      PROVE  Answers(out, j, i)
  <2>1. j \in 1 .. n /\ \A k \in j + 1 .. i : k \in 1 .. n
    BY <1>1
  <2> QED BY <1>1, <1>2, <2>1 DEF Answers
<1>3. ASSUME NEW i \in 1 .. n + 1, out[i].role = "tool"
      PROVE  \E j \in 1 .. i - 1 : Answers(out, j, i)
  <2>1. CASE i \in 1 .. n
    BY <1>1, <1>2, <1>3, <2>1 DEF Paired
  <2>2. CASE i = n + 1
    <3>1. PICK j \in 1 .. n : Answers(rows, j, n) /\ row.ids[1] \in Range(rows[j].ids)
      BY <1>1, <1>3, <2>2
    <3>2. \A k \in j + 1 .. n + 1 : (k \in 1 .. n /\ k \in j + 1 .. n) \/ k = n + 1
      BY <1>1
    <3>3. Answers(out, j, n + 1)
      BY <1>1, <1>3, <2>2, <3>1, <3>2 DEF Answers
    <3>4. j \in 1 .. i - 1
      BY <1>1, <2>2
    <3> QED BY <2>2, <3>3, <3>4
  <2> QED BY <1>1, <2>1, <2>2
<1> QED BY <1>1, <1>3 DEF Paired, out

\* A row that neither calls nor answers.
LEMMA PlainRow ==
    ASSUME NEW role \in Roles \ {"calls", "tool"}
    PROVE  /\ Row(role, <<>>) \in Rows /\ RowOK(Row(role, <<>>))
           /\ Row(role, <<>>).role = role /\ Row(role, <<>>).ids = <<>>
           /\ Range(Row(role, <<>>).ids) = {}
BY DEF Row, Rows, RowOK, Range

LEMMA PlainAppend ==
    ASSUME NEW rows, NEW role \in Roles \ {"calls", "tool"}
    PROVE  /\ Tidy(rows) => Tidy(Append(rows, Row(role, <<>>)))
           /\ Tidy(rows) /\ Paired(rows) => Paired(Append(rows, Row(role, <<>>)))
           /\ Replayable(rows) => Replayable(Append(rows, Row(role, <<>>)))
<1> DEFINE row == Row(role, <<>>)
           out == Append(rows, row)
           n == Len(rows)
<1>1. row \in Rows /\ RowOK(row) /\ row.role = role /\ Range(row.ids) = {}
  BY PlainRow
<1> HIDE DEF row
<1>2. Tidy(rows) => Tidy(out)
  BY <1>1, AppendTidy
<1>3. Tidy(rows) /\ Paired(rows) => Paired(out)
  BY <1>1, AppendPaired DEF Tidy
<1>4. ASSUME Replayable(rows) PROVE Replayable(out)
  <2>1. Tidy(rows) /\ Tidy(out)
    BY <1>2, <1>4 DEF Replayable
  <2>2. /\ n \in Nat /\ Len(out) = n + 1
        /\ \A i \in 1 .. n : out[i] = rows[i]
        /\ out[n + 1] = row
    BY <1>1, <2>1, AppendShape DEF Tidy
  <2> HIDE DEF out
  <2>3. ASSUME NEW i \in 1 .. n + 1, out[i].role = "tool"
        PROVE  Severed(out, i) \/ \E j \in 1 .. i - 1 : Answers(out, j, i)
    <3>1. i \in 1 .. n /\ rows[i].role = "tool" /\ out[i] = rows[i]
      BY <1>1, <2>2, <2>3
    <3>2. CASE Severed(rows, i)
      <4>1. \A k \in 1 .. i : out[k].role = "tool"
        BY <2>2, <3>1, <3>2 DEF Severed
      <4>2. ASSUME NEW j \in 1 .. Len(out), out[j].role = "calls"
            PROVE  out[i].ids[1] \notin Range(out[j].ids)
        <5>1. j \in 1 .. n /\ out[j] = rows[j]
          BY <1>1, <2>2, <4>2
        <5> QED BY <3>1, <3>2, <4>2, <5>1 DEF Severed
      <4> QED BY <4>1, <4>2 DEF Severed
    <3>3. ASSUME NEW j \in 1 .. i - 1, Answers(rows, j, i) PROVE Answers(out, j, i)
      <4>1. j \in 1 .. n /\ \A k \in j + 1 .. i : k \in 1 .. n
        BY <2>2, <3>1
      <4> QED BY <2>2, <3>3, <4>1 DEF Answers
    <3> QED BY <1>4, <3>1, <3>2, <3>3 DEF Replayable
  <2> QED BY <2>1, <2>2, <2>3 DEF Replayable
<1> QED BY <1>2, <1>3, <1>4 DEF row, out

\* The tail of a paired transcript: what lost its calls stands at its head.
LEMMA TailReplayable ==
    ASSUME NEW h, Tidy(h), Paired(h), NEW a \in 1 .. Len(h)
    PROVE  Replayable(SubSeq(h, a, Len(h)))
<1> DEFINE t == SubSeq(h, a, Len(h))
           n == Len(h)
           m == n - a + 1
<1>1. h \in Seq(Rows) /\ n \in Nat /\ a \in Nat /\ \A i \in 1 .. n : RowOK(h[i])
  BY DEF Tidy
<1>2. t \in Seq(Rows) /\ Len(t) = m /\ \A i \in 1 .. m : t[i] = h[a + i - 1]
  BY <1>1
<1>3. m \in Nat /\ \A i \in 1 .. m : a + i - 1 \in 1 .. n
  BY <1>1
<1> HIDE DEF t, m, n
<1>4. Tidy(t)
  <2>1. \A i \in 1 .. Len(t) : RowOK(t[i])
    BY <1>1, <1>2, <1>3
  <2>2. Unique(t)
    <3> SUFFICES ASSUME NEW i \in 1 .. m, NEW j \in 1 .. m, i # j, t[i].role = t[j].role
                 PROVE  Range(t[i].ids) \cap Range(t[j].ids) = {}
      BY <1>2 DEF Unique
    <3>1. a + i - 1 # a + j - 1
      BY <1>1, <1>3
    <3> QED BY <1>2, <1>3, <3>1 DEF Tidy, Unique, n
  <2> QED BY <1>2, <2>1, <2>2 DEF Tidy
<1>5. ASSUME NEW i \in 1 .. m, t[i].role = "tool"
      PROVE  Severed(t, i) \/ \E j \in 1 .. i - 1 : Answers(t, j, i)
  <2> DEFINE p == a + i - 1
  <2>1. p \in 1 .. n /\ t[i] = h[p] /\ h[p].role = "tool"
    BY <1>2, <1>3, <1>5
  <2>2. PICK j \in 1 .. p - 1 : Answers(h, j, p)
    BY <2>1 DEF Paired, n
  <2>3. h[j].role = "calls" /\ h[p].ids[1] \in Range(h[j].ids) /\ j \in 1 .. n
    BY <1>1, <2>1, <2>2 DEF Answers
  <2>4. CASE j >= a
    <3> DEFINE q == j - a + 1
    <3>1. q \in 1 .. i - 1 /\ q \in 1 .. m /\ a + q - 1 = j
      BY <1>1, <1>3, <2>4
    <3>2. \A k \in q + 1 .. i : k \in 1 .. m /\ a + k - 1 \in j + 1 .. p
      BY <1>1, <1>3, <2>4
    <3>3. t[q] = h[j]
      BY <1>2, <3>1
    <3> HIDE DEF p, q
    <3>4. Answers(t, q, i)
      BY <1>2, <2>2, <3>2, <3>3 DEF Answers
    <3> QED BY <3>1, <3>4
  <2>5. CASE j < a
    <3>1. \A k \in 1 .. i : k \in 1 .. m /\ a + k - 1 \in j + 1 .. p
      BY <1>1, <1>3, <2>5
    <3>2. \A k \in 1 .. i : t[k].role = "tool"
      BY <1>2, <2>2, <3>1 DEF Answers
    <3>3. ASSUME NEW k \in 1 .. m, t[k].role = "calls"
          PROVE  t[i].ids[1] \notin Range(t[k].ids)
      <4>1. /\ a + k - 1 \in 1 .. n /\ a + k - 1 # j /\ t[k] = h[a + k - 1]
        <5>1. a \in Nat /\ j \in Nat /\ k \in Nat /\ k >= 1
          BY <1>1, <1>3, <2>3
        <5>2. a + k - 1 # j
          BY <2>5, <5>1
        <5> QED BY <1>2, <1>3, <5>2
      <4>2. Range(h[a + k - 1].ids) \cap Range(h[j].ids) = {}
        BY <2>3, <3>3, <4>1 DEF Tidy, Unique, n
      <4> QED BY <2>1, <2>3, <4>1, <4>2
    <3> QED BY <1>2, <3>2, <3>3 DEF Severed
  <2> QED BY <1>1, <2>4, <2>5
<1> QED BY <1>2, <1>4, <1>5 DEF Replayable, t, n

\* What a replay reads.
LEMMA ReplayIsReplayable ==
    ASSUME Tidy(hist), Paired(hist)
    PROVE  Replayable(GetReplay)
<1>1. Replayable(hist)
  BY DEF Paired, Replayable
<1>2. CASE GetReplay = hist
  BY <1>1, <1>2
<1>3. CASE GetReplay # hist
  <2> DEFINE a == Len(hist) - historyReplayCap + 1
  <2>1. Len(hist) \in Nat /\ historyReplayCap \in Nat \ {0}
    BY TurnAssumption DEF Tidy
  <2>2. a \in 1 .. Len(hist) /\ GetReplay = SubSeq(hist, a, Len(hist))
    BY <1>3, <2>1 DEF GetReplay
  <2> HIDE DEF a
  <2> QED BY <2>2, TailReplayable
<1> QED BY <1>2, <1>3

\* A compaction cuts in front of a row that is no result: all results it keeps
\* follow the calls it keeps.
LEMMA CompactionPairs ==
    ASSUME NEW rows, Replayable(rows), NEW cut \in Compactable(rows)
    PROVE  Tidy(Compacted(rows, cut)) /\ Paired(Compacted(rows, cut))
<1> DEFINE from == splitForCompaction(rows, cut)
           n == Len(rows)
           row == Row("summary", <<>>)
<1>1. rows \in Seq(Rows) /\ n \in Nat /\ \A i \in 1 .. n : RowOK(rows[i])
  BY DEF Replayable, Tidy
<1>2. from \in 2 .. n /\ rows[from].role # "tool"
  BY <1>1, SplitAtHead
<1> DEFINE tail == SubSeq(rows, from, n)
           out == <<row>> \o tail
           m == n - from + 2
<1> HIDE DEF from
<1>3. /\ tail \in Seq(Rows) /\ Len(tail) = m - 1
      /\ \A i \in 1 .. m - 1 : tail[i] = rows[from + i - 1]
  BY <1>1, <1>2
<1>4. row \in Rows /\ RowOK(row) /\ row.role = "summary" /\ Range(row.ids) = {}
  BY PlainRow DEF Roles
<1>5. m \in Nat /\ m >= 2 /\ \A i \in 2 .. m : from + i - 2 \in 1 .. n /\ i - 1 \in 1 .. m - 1
  BY <1>1, <1>2
<1> HIDE DEF tail, row, m, n
<1>6. /\ out \in Seq(Rows) /\ Len(out) = m /\ out[1] = row
      /\ \A i \in 2 .. m : out[i] = rows[from + i - 2]
  <2>1. /\ out \in Seq(Rows) /\ Len(out) = m /\ out[1] = row
        /\ \A i \in 2 .. m : out[i] = tail[i - 1]
    BY <1>3, <1>4, <1>5
  <2>2. \A i \in 2 .. m : from + (i - 1) - 1 = from + i - 2
    BY <1>2, <1>5
  <2> QED BY <1>3, <1>5, <2>1, <2>2
<1> HIDE DEF out
<1>7. \A i \in 1 .. m : i = 1 \/ i \in 2 .. m
  BY <1>5
<1>8. Tidy(out)
  <2>1. \A i \in 1 .. Len(out) : RowOK(out[i])
    BY <1>1, <1>4, <1>5, <1>6, <1>7
  <2>2. Unique(out)
    <3> SUFFICES ASSUME NEW i \in 1 .. m, NEW j \in 1 .. m, i # j, out[i].role = out[j].role
                 PROVE  Range(out[i].ids) \cap Range(out[j].ids) = {}
      BY <1>6 DEF Unique
    <3>1. CASE i = 1 \/ j = 1
      BY <1>4, <1>6, <3>1
    <3>2. CASE i \in 2 .. m /\ j \in 2 .. m
      <4>1. from + i - 2 # from + j - 2
        BY <1>2, <1>5, <3>2
      <4> QED BY <1>5, <1>6, <3>2, <4>1 DEF Replayable, Tidy, Unique, n
    <3> QED BY <1>7, <3>1, <3>2
  <2> QED BY <1>6, <2>1, <2>2 DEF Tidy
<1>9. Paired(out)
  <2> SUFFICES ASSUME NEW k \in 1 .. m, out[k].role = "tool"
               PROVE  \E q \in 1 .. k - 1 : Answers(out, q, k)
    BY <1>6 DEF Paired
  <2> DEFINE i == from + k - 2
  <2>1. k \in 2 .. m /\ i \in 1 .. n /\ out[k] = rows[i] /\ rows[i].role = "tool"
    BY <1>4, <1>5, <1>6, <1>7
  <2>2. i > from /\ from \in 1 .. i
    BY <1>1, <1>2, <1>5, <2>1
  <2>3. ~Severed(rows, i)
    BY <1>2, <2>2 DEF Severed
  <2>4. PICK j \in 1 .. i - 1 : Answers(rows, j, i)
    BY <2>1, <2>3 DEF Replayable, n
  <2>5. j >= from
    <3>1. ~(from \in j + 1 .. i)
      BY <1>2, <2>4 DEF Answers
    <3> HIDE DEF i
    <3> QED BY <1>1, <1>2, <2>1, <2>2, <3>1
  <2> DEFINE q == j - from + 2
  <2>6. /\ q \in 1 .. k - 1 /\ q \in 2 .. m /\ from + q - 2 = j
        /\ \A x \in q + 1 .. k : x \in 2 .. m /\ from + x - 2 \in j + 1 .. i
    BY <1>1, <1>2, <1>5, <2>1, <2>4, <2>5
  <2>7. out[q] = rows[j]
    BY <1>6, <2>6
  <2> HIDE DEF q, i
  <2>8. Answers(out, q, k)
    BY <1>6, <2>4, <2>6, <2>7 DEF Answers
  <2> QED BY <2>6, <2>8
<1> QED BY <1>8, <1>9 DEF Compacted, out, row, tail, from, n

\* There are always enough ids that no row has.
LEMMA IdsFinite ==
    ASSUME NEW rows, Tidy(rows)
    PROVE  IdsOf(rows) \subseteq Nat /\ IsFiniteSet(IdsOf(rows))
<1> DEFINE N == Len(rows)
           g == [i \in 1 .. N |-> Range(rows[i].ids)]
           T == {g[i] : i \in 1 .. N}
<1>1. N \in Nat /\ \A i \in 1 .. N : rows[i].ids \in Seq(Nat)
  BY PlaceShape
<1>2. IsFiniteSet(1 .. N)
  BY <1>1, FS_Interval
<1>3. g \in Surjection(1 .. N, T)
  BY DEF Surjection
<1>4. IsFiniteSet(T)
  <2> HIDE DEF T, g, N
  <2> QED BY <1>2, <1>3, FS_Surjection
<1>5. ASSUME NEW i \in 1 .. N
      PROVE  IsFiniteSet(Range(rows[i].ids)) /\ Range(rows[i].ids) \subseteq Nat
  <2> DEFINE s == rows[i].ids
             m == Len(s)
  <2>1. s \in Seq(Nat) /\ m \in Nat /\ DOMAIN s = 1 .. m
    BY <1>1
  <2> HIDE DEF s, m
  <2>2. s \in Surjection(1 .. m, Range(s)) /\ Range(s) \subseteq Nat
    BY <2>1 DEF Surjection, Range
  <2>3. IsFiniteSet(1 .. m)
    BY <2>1, FS_Interval
  <2>4. IsFiniteSet(Range(s))
    BY <2>2, <2>3, FS_Surjection
  <2> QED BY <2>2, <2>4 DEF s
<1>6. \A t \in T : IsFiniteSet(t)
  BY <1>5
<1>7. IsFiniteSet(UNION T)
  <2> HIDE DEF T
  <2> QED BY <1>4, <1>6, FS_UNION
<1>8. IdsOf(rows) = UNION T
  BY DEF IdsOf
<1>9. IdsOf(rows) \subseteq Nat
  BY <1>5 DEF IdsOf
<1> QED BY <1>7, <1>8, <1>9

LEMMA FreshIdsAreFresh ==
    ASSUME Tidy(hist), NEW n \in Nat
    PROVE  /\ FreshIds(n) \in Seq(Nat) /\ Len(FreshIds(n)) = n /\ Distinct(FreshIds(n))
           /\ \A k \in 1 .. n : FreshIds(n)[k] \notin IdsOf(hist)
<1> DEFINE used == IdsOf(hist)
           c == Cardinality(used)
           free == (1 .. n + c) \ used
           ids == FreshIds(n)
<1>1. used \subseteq Nat /\ IsFiniteSet(used) /\ c \in Nat
  BY IdsFinite, FS_CardinalityType
<1>2. /\ IsFiniteSet(free) /\ free \subseteq Nat
      /\ Cardinality(free) \in Nat /\ Cardinality(free) >= n
  <2> DEFINE b == n + c
             I == 1 .. b
  <2>1. b \in Nat
    BY <1>1
  <2> HIDE DEF b, used
  <2>2. IsFiniteSet(I) /\ Cardinality(I) = b
    BY <2>1, FS_Interval
  <2> HIDE DEF I
  <2>3. IsFiniteSet(I \ used) /\ Cardinality(I \ used) = b - Cardinality(I \cap used)
    BY <2>2, FS_Difference
  <2>4. IsFiniteSet(I \cap used) /\ Cardinality(I \cap used) <= c
    BY <1>1, FS_Intersection
  <2>5. Cardinality(I \cap used) \in Nat /\ Cardinality(I \ used) \in Nat
    BY <2>3, <2>4, FS_CardinalityType
  <2> HIDE DEF c
  <2>6. Cardinality(I \ used) >= n
    BY <1>1, <2>3, <2>4, <2>5 DEF b
  <2> QED BY <2>1, <2>3, <2>5, <2>6 DEF b, I
<1>3. ids = [k \in 1 .. n |-> Nth(free, k)]
  BY DEF FreshIds, Nth, Alone
<1>4. free \subseteq Nat /\ free \cap used = {}
  BY <1>2
<1> HIDE DEF free, ids, used
<1>5. /\ \A k \in 1 .. Cardinality(free) : Nth(free, k) \in free
      /\ \A k, m \in 1 .. Cardinality(free) : k < m => Nth(free, k) < Nth(free, m)
  BY <1>2, NumbersInOrder
<1>6. \A k \in 1 .. n : k \in 1 .. Cardinality(free) /\ k \in Nat
  BY <1>2
<1>7. ids \in [1 .. n -> free]
  BY <1>3, <1>5, <1>6
<1>8. ids \in Seq(Nat) /\ Len(ids) = n /\ DOMAIN ids = 1 .. n
  <2>1. ids \in [1 .. n -> Nat]
    BY <1>4, <1>7
  <2> QED BY <2>1
<1>9. Distinct(ids)
  <2> SUFFICES ASSUME NEW i \in 1 .. n, NEW j \in 1 .. n, i < j
               PROVE  ids[i] < ids[j] /\ ids[i] \in Nat /\ ids[j] \in Nat
    BY <1>8 DEF Distinct
  <2> QED BY <1>3, <1>4, <1>5, <1>6
<1>10. \A k \in 1 .. n : ids[k] \notin used
  BY <1>4, <1>7
<1> QED BY <1>8, <1>9, <1>10 DEF ids, used

-----------------------------------------------------------------------------
(* The transcript's invariant.                                             *)

\* While the results of a row of calls are stored, the transcript ends in these
\* calls and results of theirs, and none of those still to come is in it.
RecInv ==
    pc \in {"dispatch", "results"} =>
        /\ round.ids \in Seq(Nat) /\ Len(round.ids) = Len(round.calls)
        /\ Distinct(round.ids)
        /\ \E j \in 1 .. Len(hist) : hist[j].ids = round.ids /\ Answers(hist, j, Len(hist))
        /\ \A i \in 1 .. Len(hist), k \in round.saved + 1 .. Len(round.ids) :
              hist[i].role = "tool" => hist[i].ids[1] # round.ids[k]

\* A replay in hand can be rebuilt.
InHandOK == pc \in {"nudge", "build"} /\ round.inHand => Replayable(round.replay)

TranscriptInv == Tidy(hist) /\ Paired(hist) /\ RecInv /\ InHandOK /\ ReplayWellFormed

-----------------------------------------------------------------------------
(* The steps, on the transcript.                                           *)

\* Nothing called, nothing answered, nothing sent: the transcript is left alone
\* or gains a row of no calls.
Grows == \/ UNCHANGED hist
         \/ \E role \in Roles \ {"calls", "tool"} : hist' = Append(hist, Row(role, <<>>))

LEMMA PlainGrowth ==
    ASSUME TranscriptInv, Grows
    PROVE  Tidy(hist') /\ Paired(hist')
<1>1. Tidy(hist) /\ Paired(hist)
  BY DEF TranscriptInv
<1> QED BY <1>1, PlainAppend DEF Grows

LEMMA PlainStep ==
    ASSUME TranscriptInv, Grows, pc' \notin {"dispatch", "results", "model"},
           pc' \in {"nudge", "build"} => ~round'.inHand
    PROVE  TranscriptInv'
<1>1. Tidy(hist') /\ Paired(hist')
  BY PlainGrowth
<1>2. RecInv' /\ InHandOK' /\ ReplayWellFormed'
  BY DEF RecInv, InHandOK, ReplayWellFormed
<1> QED BY <1>1, <1>2 DEF TranscriptInv

LEMMA FinalPlain ==
    ASSUME TranscriptInv, NEW text, NEW footer, NEW outcome, NEW failed,
           finalizeTurn(text, footer, outcome, failed)
    PROVE  TranscriptInv'
<1>1. Grows /\ pc' = "store"
  BY DEF finalizeTurn, Grows
<1> QED BY <1>1, PlainStep

LEMMA ReplyPlain ==
    ASSUME TurnInv, TranscriptInv, StoreReply \/ FinishReply
    PROVE  TranscriptInv'
<1>1. CASE StoreReply
  <2>1. pc = "store" /\ pc' = "finish"
    BY <1>1 DEF StoreReply
  <2>2. round.reply.text \in Shown
    BY <2>1 DEF TurnInv, ReplyOK, Replying, ReplyType
  <2>3. round.reply.text \in Roles \ {"calls", "tool"}
    BY <2>2 DEF Shown, Speaking, Roles
  <2>4. hist' = Append(hist, Row(round.reply.text, <<>>)) \/ UNCHANGED hist
    BY <1>1 DEF StoreReply
  <2>5. Grows
    BY <2>3, <2>4, Zenon DEF Grows
  <2> QED BY <2>1, <2>5, PlainStep
<1>2. CASE FinishReply
  BY <1>2, PlainStep DEF FinishReply, Ends, Grows
<1> QED BY <1>1, <1>2

LEMMA ReleasePlain ==
    ASSUME TranscriptInv, NEW outcome, releaseSink(outcome)
    PROVE  TranscriptInv'
BY PlainStep DEF releaseSink, Release, Ends, Grows

LEMMA NoticePlain ==
    ASSUME TranscriptInv, NEW text, Notice(text)
    PROVE  TranscriptInv'
BY PlainStep DEF Notice, Ends, Grows

LEMMA RoundPlain ==
    ASSUME TranscriptInv, NEW s, NextRound(s), UNCHANGED hist
    PROVE  TranscriptInv'
BY PlainStep DEF NextRound, Grows

\* The rows that matter: a replay is taken in hand, cut, told and sent.
LEMMA CompressTranscript ==
    ASSUME TranscriptInv, maybeCompressInPlace
    PROVE  TranscriptInv'
<1>1. Replayable(GetReplay) /\ Tidy(hist) /\ Paired(hist) /\ pc' = "nudge"
  BY ReplayIsReplayable DEF TranscriptInv, maybeCompressInPlace
<1>2. ASSUME NEW rows, InHand(rows), Replayable(rows), Tidy(hist'), Paired(hist')
      PROVE  TranscriptInv'
  <2>1. round'.replay = rows
    BY <1>2 DEF InHand, NoRound
  <2>2. RecInv' /\ InHandOK' /\ ReplayWellFormed'
    BY <1>1, <1>2, <2>1 DEF RecInv, InHandOK, ReplayWellFormed
  <2> QED BY <1>2, <2>2 DEF TranscriptInv
<1>3. ASSUME round' = NoRound, Tidy(hist'), Paired(hist')
      PROVE  TranscriptInv'
  <2>1. ~round'.inHand
    BY <1>3 DEF NoRound
  <2>2. RecInv' /\ InHandOK' /\ ReplayWellFormed'
    BY <1>1, <2>1 DEF RecInv, InHandOK, ReplayWellFormed
  <2> QED BY <1>3, <2>2 DEF TranscriptInv
<1>4. CASE InHand(GetReplay) /\ UNCHANGED hist
  BY <1>1, <1>2, <1>4
<1>5. CASE /\ \E cut \in Compactable(GetReplay) : hist' = Compacted(GetReplay, cut)
           /\ InHand(hist') \/ round' = NoRound
  <2>1. Tidy(hist') /\ Paired(hist')
    BY <1>1, <1>5, CompactionPairs
  <2>2. Replayable(hist')
    BY <2>1 DEF Paired, Replayable
  <2> QED BY <1>2, <1>3, <1>5, <2>1, <2>2
<1>6. CASE round' = NoRound /\ UNCHANGED hist
  BY <1>1, <1>3, <1>6
<1> QED BY <1>4, <1>5, <1>6 DEF maybeCompressInPlace

LEMMA NudgeTranscript ==
    ASSUME TurnInv, TranscriptInv, foldUserNudge
    PROVE  TranscriptInv'
<1>0. pc = "nudge" /\ DOMAIN round = DOMAIN NoRound
  BY DEF foldUserNudge, TurnInv, FrameOK
<1>1. round.inHand => Replayable(round.replay)
  BY <1>0 DEF TranscriptInv, InHandOK
<1>2. CASE pc' = "leave" /\ UNCHANGED <<hist, round>>
  BY <1>2, PlainStep DEF Grows
<1>3. ASSUME pc' = "build", Grows, round'.inHand => Replayable(round'.replay)
      PROVE  TranscriptInv'
  <2>1. Tidy(hist') /\ Paired(hist')
    BY <1>3, PlainGrowth
  <2>2. RecInv' /\ InHandOK' /\ ReplayWellFormed'
    BY <1>3 DEF RecInv, InHandOK, ReplayWellFormed
  <2> QED BY <2>1, <2>2 DEF TranscriptInv
<1>4. CASE pc' = "build" /\ UNCHANGED <<hist, round>>
  BY <1>1, <1>3, <1>4 DEF Grows
<1>5. ASSUME pc' = "build", NEW stored \in BOOLEAN,
             hist' = IF stored THEN Append(hist, Row("user", <<>>)) ELSE hist,
             round' = IF round.inHand
                      THEN [round EXCEPT !.replay = Append(round.replay, Row("user", <<>>))]
                      ELSE round
      PROVE  TranscriptInv'
  <2>1. Grows
    BY <1>5 DEF Grows, Roles
  <2>2. round'.inHand => Replayable(round'.replay)
    <3>1. CASE ~round.inHand
      BY <1>1, <1>5, <3>1
    <3>2. CASE round.inHand
      <4>1. round'.replay = Append(round.replay, Row("user", <<>>))
        BY <1>0, <1>5, <3>2 DEF NoRound
      <4>2. Replayable(Append(round.replay, Row("user", <<>>)))
        BY <1>1, <3>2, PlainAppend DEF Roles
      <4> QED BY <4>1, <4>2
    <3> QED BY <3>1, <3>2
  <2> QED BY <1>3, <1>5, <2>1, <2>2
<1> QED BY <1>2, <1>4, <1>5 DEF foldUserNudge

LEMMA BuildTranscript ==
    ASSUME TurnInv, TranscriptInv, buildMessages
    PROVE  TranscriptInv'
<1>0. pc = "build" /\ DOMAIN round = DOMAIN NoRound
  BY DEF buildMessages, TurnInv, FrameOK
<1>1. CASE /\ round' = [round EXCEPT !.replay =
                          Messages(IF round.inHand THEN @ ELSE GetReplay)]
           /\ pc' = "model" /\ UNCHANGED hist
  <2> DEFINE rows == IF round.inHand THEN round.replay ELSE GetReplay
  <2>1. Tidy(hist) /\ Paired(hist) /\ Replayable(rows)
    BY <1>0, ReplayIsReplayable DEF TranscriptInv, InHandOK
  <2>2. round'.replay = Messages(rows)
    BY <1>0, <1>1 DEF NoRound
  <2> HIDE DEF rows
  <2>3. WellFormed(round'.replay)
    BY <2>1, <2>2, MessagesPair
  <2>4. RecInv' /\ InHandOK'
    BY <1>1 DEF RecInv, InHandOK
  <2>5. ReplayWellFormed'
    BY <2>3 DEF ReplayWellFormed
  <2>6. Tidy(hist') /\ Paired(hist')
    BY <1>1, <2>1
  <2> QED BY <2>4, <2>5, <2>6 DEF TranscriptInv
<1>2. CASE releaseSink("cancelled")
  BY <1>2, ReleasePlain
<1>3. CASE Notice("persist_fail")
  BY <1>3, NoticePlain
<1> QED BY <1>1, <1>2, <1>3 DEF buildMessages

LEMMA OversizedTranscript ==
    ASSUME TranscriptInv, Oversized
    PROVE  TranscriptInv'
<1>1. CASE /\ \E cut \in Compactable(GetReplay) : hist' = Compacted(GetReplay, cut)
           /\ NextRound(st)
  <2>1. Tidy(hist) /\ Paired(hist) /\ Replayable(GetReplay)
    BY ReplayIsReplayable DEF TranscriptInv
  <2>2. Tidy(hist') /\ Paired(hist')
    BY <1>1, <2>1, CompactionPairs
  <2>3. RecInv' /\ InHandOK' /\ ReplayWellFormed'
    BY <1>1 DEF NextRound, RecInv, InHandOK, ReplayWellFormed
  <2> QED BY <2>2, <2>3 DEF TranscriptInv
<1>2. CASE finalizeTurn("context_too_long", FALSE, "degraded", "degraded")
  BY <1>2, FinalPlain DEF Roles
<1> QED BY <1>1, <1>2 DEF Oversized

\* The calls are stored with ids that no row has.
LEMMA CallsTranscript ==
    ASSUME TurnInv, TranscriptInv, appendAssistantCalls
    PROVE  TranscriptInv'
<1>0. /\ pc = "calls" /\ DOMAIN round = DOMAIN NoRound
      /\ round.calls \in Batches /\ round.saved = 0 /\ Tidy(hist) /\ Paired(hist)
  BY DEF appendAssistantCalls, TurnInv, FrameOK, RoundOK, TranscriptInv
<1>1. CASE /\ round' = [round EXCEPT !.ids = FreshIds(Len(round.calls))]
           /\ hist' = Append(hist, Row("calls", round'.ids))
           /\ pc' = "dispatch"
  <2> DEFINE n == Len(round.calls)
             ids == FreshIds(n)
             row == Row("calls", ids)
             m == Len(hist)
  <2>1. n \in Nat
    BY <1>0, BatchIsSeq
  <2>2. /\ round'.ids = ids /\ round'.calls = round.calls /\ round'.saved = round.saved
    BY <1>0, <1>1 DEF NoRound
  <2>3. /\ ids \in Seq(Nat) /\ Len(ids) = n /\ Distinct(ids) /\ DOMAIN ids = 1 .. n
        /\ \A k \in 1 .. n : ids[k] \notin IdsOf(hist)
    <3> HIDE DEF n
    <3> QED BY <1>0, <2>1, FreshIdsAreFresh
  <2> HIDE DEF ids, n
  <2>4. row \in Rows /\ RowOK(row) /\ row.role = "calls" /\ row.ids = ids
    BY <2>3 DEF Row, Rows, Roles, RowOK
  <2>5. hist' = Append(hist, row)
    BY <1>1, <2>2
  <2> HIDE DEF row
  <2>6. \A i \in 1 .. m : Range(hist[i].ids) \subseteq IdsOf(hist)
    BY DEF IdsOf
  <2>7. \A i \in 1 .. m : Range(hist[i].ids) \cap Range(row.ids) = {}
    BY <2>3, <2>4, <2>6 DEF Range
  <2>8. Tidy(hist')
    BY <1>0, <2>4, <2>5, <2>7, AppendTidy
  <2>9. Paired(hist') /\ hist \in Seq(Rows)
    BY <1>0, <2>4, <2>5, AppendPaired DEF Tidy
  <2>10. /\ m \in Nat /\ Len(hist') = m + 1
         /\ \A i \in 1 .. m : hist'[i] = hist[i]
         /\ hist'[m + 1] = row
    BY <2>4, <2>5, <2>9, AppendShape
  <2>11. \E j \in 1 .. Len(hist') : hist'[j].ids = ids /\ Answers(hist', j, Len(hist'))
    <3>1. m + 1 \in 1 .. Len(hist') /\ hist'[m + 1].ids = ids
      BY <2>4, <2>10
    <3>2. Answers(hist', m + 1, Len(hist'))
      BY <2>4, <2>10 DEF Answers
    <3> QED BY <3>1, <3>2
  <2>12. ASSUME NEW i \in 1 .. Len(hist'), NEW k \in 1 .. n, hist'[i].role = "tool"
         PROVE  hist'[i].ids[1] # ids[k]
    <3>1. i \in 1 .. m /\ hist'[i] = hist[i]
      BY <2>4, <2>10, <2>12
    <3>2. hist[i].ids \in Seq(Nat) /\ Len(hist[i].ids) = 1
      BY <1>0, <2>12, <3>1, PlaceShape DEF RowOK
    <3>3. hist[i].ids[1] \in Range(hist[i].ids)
      BY <3>2 DEF Range
    <3> QED BY <2>3, <2>6, <3>1, <3>3
  <2>13. RecInv'
    BY <1>0, <2>2, <2>3, <2>11, <2>12 DEF RecInv, n
  <2>14. InHandOK' /\ ReplayWellFormed'
    BY <1>1 DEF InHandOK, ReplayWellFormed
  <2> QED BY <2>8, <2>9, <2>13, <2>14 DEF TranscriptInv
<1>2. ASSUME NEW stored \in BOOLEAN, NEW ok \in BOOLEAN,
             hist' = IF stored THEN Append(hist, Row("persist_fail", <<>>)) ELSE hist,
             Ends(DriverFinish("persist_fail", FALSE, ok), Erred)
      PROVE  TranscriptInv'
  <2>1. Grows /\ pc' = "done"
    BY <1>2 DEF Grows, Roles, Ends
  <2> QED BY <2>1, PlainStep
<1> QED BY <1>1, <1>2 DEF appendAssistantCalls

LEMMA DispatchTranscript ==
    ASSUME TurnInv, TranscriptInv, dispatchAll
    PROVE  TranscriptInv'
<1>0. /\ pc = "dispatch" /\ pc' = "results" /\ UNCHANGED hist
      /\ DOMAIN round = DOMAIN NoRound /\ Tidy(hist) /\ Paired(hist) /\ RecInv
  BY DEF dispatchAll, TurnInv, FrameOK, TranscriptInv
<1>1. PICK res : round' = [round EXCEPT !.results = res]
  BY DEF dispatchAll
<1>2. round'.ids = round.ids /\ round'.calls = round.calls /\ round'.saved = round.saved
  BY <1>0, <1>1 DEF NoRound
<1>3. RecInv'
  BY <1>0, <1>2 DEF RecInv, Answers
<1>4. InHandOK' /\ ReplayWellFormed'
  BY <1>0 DEF InHandOK, ReplayWellFormed
<1>5. Tidy(hist') /\ Paired(hist')
  BY <1>0
<1> QED BY <1>3, <1>4, <1>5 DEF TranscriptInv

\* A result goes right behind the others of its calls, once.
LEMMA ResultTranscript ==
    ASSUME TurnInv, TranscriptInv, pipelineAndPersist
    PROVE  TranscriptInv'
<1> DEFINE i == round.saved + 1
           ids == round.ids
           m == Len(hist)
<1>0. /\ pc = "results" /\ pc' = "results" /\ i <= Len(round.calls)
      /\ DOMAIN round = DOMAIN NoRound /\ Tidy(hist) /\ Paired(hist)
      /\ round' = [round EXCEPT !.saved = i]
  BY DEF pipelineAndPersist, TurnInv, FrameOK, TranscriptInv
<1>1. /\ round.calls \in Batches /\ round.saved \in 0 .. Len(round.calls)
  BY <1>0 DEF TurnInv, RoundOK
<1>2. /\ ids \in Seq(Nat) /\ Len(ids) = Len(round.calls) /\ Distinct(ids)
      /\ \E j \in 1 .. m : hist[j].ids = ids /\ Answers(hist, j, m)
      /\ \A x \in 1 .. m, k \in i .. Len(ids) :
            hist[x].role = "tool" => hist[x].ids[1] # ids[k]
  BY <1>0 DEF TranscriptInv, RecInv
<1>3. round'.ids = ids /\ round'.calls = round.calls /\ round'.saved = i
  BY <1>0 DEF NoRound
<1>4. Len(ids) \in Nat /\ i \in 1 .. Len(ids) /\ DOMAIN ids = 1 .. Len(ids)
  BY <1>0, <1>1, <1>2
<1>5. InHandOK' /\ ReplayWellFormed'
  BY <1>0 DEF InHandOK, ReplayWellFormed
<1> HIDE DEF i, ids
<1>6. CASE UNCHANGED hist
  <2>1. \A x \in 1 .. m, k \in i + 1 .. Len(ids) :
           hist[x].role = "tool" => hist[x].ids[1] # ids[k]
    <3>1. \A k \in i + 1 .. Len(ids) : k \in i .. Len(ids)
      BY <1>4
    <3> QED BY <1>2, <3>1
  <2>2. RecInv'
    BY <1>2, <1>3, <1>6, <2>1 DEF RecInv, Answers
  <2>3. Tidy(hist') /\ Paired(hist')
    BY <1>0, <1>6
  <2> QED BY <1>5, <2>2, <2>3 DEF TranscriptInv
<1>7. CASE hist' = Append(hist, Row("tool", <<ids[i]>>))
  <2> DEFINE row == Row("tool", <<ids[i]>>)
  <2>1. ids[i] \in Nat
    BY <1>2, <1>4
  <2>2. row \in Rows /\ RowOK(row) /\ row.role = "tool" /\ row.ids = <<ids[i]>>
        /\ row.ids[1] = ids[i] /\ Range(row.ids) = {ids[i]}
    BY <2>1 DEF Row, Rows, Roles, RowOK, Range
  <2> HIDE DEF row
  <2>3. ASSUME NEW x \in 1 .. m, hist[x].role = "tool"
        PROVE  Range(hist[x].ids) \cap Range(row.ids) = {}
    <3>1. hist[x].ids \in Seq(Nat) /\ Len(hist[x].ids) = 1
      BY <1>0, <2>3, PlaceShape DEF RowOK
    <3>2. Range(hist[x].ids) = {hist[x].ids[1]}
      BY <3>1 DEF Range
    <3>3. i \in i .. Len(ids)
      BY <1>4
    <3> QED BY <1>2, <2>2, <2>3, <3>2, <3>3
  <2>4. Tidy(hist') /\ hist' = Append(hist, row) /\ hist \in Seq(Rows)
    BY <1>0, <1>7, <2>2, <2>3, AppendTidy DEF row, Tidy
  <2>5. PICK j \in 1 .. m : hist[j].ids = ids /\ Answers(hist, j, m)
    BY <1>2
  <2>6. row.ids[1] \in Range(hist[j].ids)
    BY <1>4, <2>2, <2>5 DEF Range
  <2>7. Paired(hist')
    BY <1>0, <2>2, <2>4, <2>5, <2>6, AppendPaired
  <2>8. /\ m \in Nat /\ Len(hist') = m + 1
        /\ \A x \in 1 .. m : hist'[x] = hist[x]
        /\ hist'[m + 1] = row
    BY <2>2, <2>4, AppendShape
  <2>9. j \in 1 .. Len(hist') /\ hist'[j].ids = ids
    BY <2>5, <2>8
  <2>10. Answers(hist', j, Len(hist'))
    <3>1. \A k \in j + 1 .. m + 1 : (k \in 1 .. m /\ k \in j + 1 .. m) \/ k = m + 1
      BY <2>8
    <3> QED BY <2>2, <2>5, <2>6, <2>8, <3>1 DEF Answers
  <2>11. ASSUME NEW x \in 1 .. Len(hist'), NEW k \in i + 1 .. Len(ids), hist'[x].role = "tool"
         PROVE  hist'[x].ids[1] # ids[k]
    <3>1. k \in i .. Len(ids) /\ k \in 1 .. Len(ids) /\ k # i
      BY <1>4
    <3>2. CASE x \in 1 .. m
      BY <1>2, <2>8, <2>11, <3>1, <3>2
    <3>3. CASE x = m + 1
      BY <1>2, <1>4, <2>2, <2>8, <3>1, <3>3 DEF Distinct
    <3> QED BY <2>8, <3>2, <3>3
  <2>12. RecInv'
    BY <1>2, <1>3, <2>9, <2>10, <2>11 DEF RecInv
  <2> QED BY <1>5, <2>4, <2>7, <2>12 DEF TranscriptInv
<1> QED BY <1>6, <1>7 DEF pipelineAndPersist, i, ids

\* The other ways out, and the steps that touch no row.
LEMMA QuietTranscript ==
    ASSUME TranscriptInv, UNCHANGED <<hist, pc, round>>
    PROVE  TranscriptInv'
<1>1. Tidy(hist) /\ Paired(hist) /\ RecInv /\ InHandOK /\ ReplayWellFormed
  BY DEF TranscriptInv
<1>2. RecInv' /\ InHandOK' /\ ReplayWellFormed'
  <2>1. RecInv'
    BY <1>1 DEF RecInv, Answers
  <2>2. InHandOK' /\ ReplayWellFormed'
    BY <1>1 DEF InHandOK, ReplayWellFormed
  <2> QED BY <2>1, <2>2
<1>3. Tidy(hist') /\ Paired(hist')
  BY <1>1
<1> QED BY <1>2, <1>3 DEF TranscriptInv

LEMMA DoorTranscript ==
    ASSUME TranscriptInv,
           \/ \E pass \in BOOLEAN : rubricGate(pass) \/ advisorReviewGate(pass)
           \/ \E shown \in BOOLEAN : ModelFails(shown)
           \/ toolRoundEnds \/ LeaveLoop \/ Panic \/ persistUserRows
           \/ \E text \in {"salvage", "brief", "rubric_fail"} : salvage(text)
    PROVE  TranscriptInv'
<1>1. ASSUME NEW pass \in BOOLEAN, rubricGate(pass) PROVE TranscriptInv'
  <2> DEFINE s == [st EXCEPT !.rubricRetries = @ + 1]
  <2>1. CASE finalReply \/ finalizeTurn("rubric_fail", sideEffectFooter, "degraded", "erred")
    BY <2>1, FinalPlain DEF finalReply, Roles
  <2>2. CASE Redo(s) /\ UNCHANGED hist
    <3> HIDE DEF s
    <3> QED BY <2>2, RoundPlain DEF Redo
  <2> QED BY <1>1, <2>1, <2>2 DEF rubricGate
<1>2. ASSUME NEW pass \in BOOLEAN, advisorReviewGate(pass) PROVE TranscriptInv'
  <2> DEFINE s == [st EXCEPT !.reviewRetries = @ + 1]
  <2>1. CASE finalReply
    BY <2>1, FinalPlain DEF finalReply, Roles
  <2>2. CASE Redo(s) /\ UNCHANGED hist
    <3> HIDE DEF s
    <3> QED BY <2>2, RoundPlain DEF Redo
  <2> QED BY <1>2, <2>1, <2>2 DEF advisorReviewGate
<1>3. ASSUME NEW shown \in BOOLEAN, ModelFails(shown) PROVE TranscriptInv'
  <2>1. \/ finalizeTurn("partial", FALSE, "erred", "erred")
        \/ finalizeTurn("model_unavailable", FALSE, "erred", "erred")
        \/ releaseSink(Erred)
    BY <1>3 DEF ModelFails
  <2> QED BY <2>1, FinalPlain, ReleasePlain DEF Roles
<1>4. CASE toolRoundEnds
  <2>1. \/ NextRound(st) /\ UNCHANGED hist
        \/ releaseSink("process")
        \/ finalizeTurn("exit", sideEffectFooter, "process", "erred")
    BY <1>4 DEF toolRoundEnds
  <2> QED BY <2>1, RoundPlain, ReleasePlain, FinalPlain DEF Roles
<1>5. CASE LeaveLoop
  <2>1. CASE releaseSink("cancelled")
    BY <2>1, ReleasePlain
  <2>2. CASE pc' = "salvage" /\ UNCHANGED hist
    BY <2>2, PlainStep DEF Grows
  <2> QED BY <1>5, <2>1, <2>2 DEF LeaveLoop
<1>6. CASE Panic
  BY <1>6, PlainStep DEF Panic, Ends, Grows
<1>7. CASE persistUserRows
  <2>1. CASE releaseSink("cancelled") \/ Notice("persist_fail")
    BY <2>1, ReleasePlain, NoticePlain
  <2>2. CASE hist' = Append(hist, Row("user", <<>>)) /\ pc' = "top"
    BY <2>2, PlainStep DEF Grows, Roles
  <2> QED BY <1>7, <2>1, <2>2 DEF persistUserRows
<1>8. ASSUME NEW text \in {"salvage", "brief", "rubric_fail"}, salvage(text)
      PROVE  TranscriptInv'
  BY <1>8, FinalPlain DEF salvage, Roles
<1> QED BY <1>1, <1>2, <1>3, <1>4, <1>5, <1>6, <1>7, <1>8

LEMMA TranscriptInit == TurnInit => TranscriptInv
<1> SUFFICES ASSUME TurnInit PROVE TranscriptInv
  OBVIOUS
<1>1. hist = <<>> /\ pc = "idle"
  BY DEF TurnInit
<1>2. Tidy(hist) /\ Paired(hist)
  BY <1>1 DEF Tidy, Unique, Paired
<1>3. RecInv /\ InHandOK /\ ReplayWellFormed
  BY <1>1 DEF RecInv, InHandOK, ReplayWellFormed
<1> QED BY <1>2, <1>3 DEF TranscriptInv

LEMMA TranscriptNext == TurnInv /\ TranscriptInv /\ [TurnNext]_turnVars => TranscriptInv'
<1> SUFFICES ASSUME TurnInv, TranscriptInv, [TurnNext]_turnVars PROVE TranscriptInv'
  OBVIOUS
<1>1. CASE Crash \/ \E m \in {"regular", "looping"} : StartTurn(m)
  BY <1>1, PlainStep DEF StartTurn, Crash, Grows
<1>2. CASE LoopTop
  BY <1>2, PlainStep DEF LoopTop, Grows
<1>3. CASE maybeCompressInPlace
  BY <1>3, CompressTranscript
<1>4. CASE foldUserNudge
  BY <1>4, NudgeTranscript
<1>5. CASE buildMessages
  BY <1>5, BuildTranscript
<1>6. CASE Empty \/ handleDegenerate \/ handleBloat
  <2>1. UNCHANGED hist /\ \E s : NextRound(s)
    BY <1>6 DEF Empty, handleDegenerate, handleBloat
  <2> QED BY <2>1, RoundPlain
<1>7. CASE Oversized
  BY <1>7, OversizedTranscript
<1>8. CASE FinalText \/ \E b \in Batches : CallsTools(b)
  BY <1>8, PlainStep DEF FinalText, CallsTools, Grows
<1>9. CASE appendAssistantCalls
  BY <1>9, CallsTranscript
<1>10. CASE dispatchAll
  BY <1>10, DispatchTranscript
<1>11. CASE pipelineAndPersist
  BY <1>11, ResultTranscript
<1>12. CASE \/ \E pass \in BOOLEAN : rubricGate(pass) \/ advisorReviewGate(pass)
            \/ \E shown \in BOOLEAN : ModelFails(shown)
            \/ toolRoundEnds \/ LeaveLoop \/ Panic \/ persistUserRows
            \/ \E text \in {"salvage", "brief", "rubric_fail"} : salvage(text)
  BY <1>12, DoorTranscript
<1>13. CASE Cancel \/ UNCHANGED turnVars
  BY <1>13, QuietTranscript DEF Cancel, turnVars
<1>14. CASE StoreReply \/ FinishReply
  BY <1>14, ReplyPlain
<1> QED
  BY <1>1, <1>2, <1>3, <1>4, <1>5, <1>6, <1>7, <1>8, <1>9, <1>10, <1>11, <1>12,
     <1>13, <1>14, Zenon DEF TurnNext

\* Whatever a turn has stored, lost, cut, compacted or left behind in a crash:
\* in the transcript every result stands right behind its calls, and no id is
\* called or answered twice.
THEOREM TurnTranscript == TurnSpec => []TranscriptInv
BY InitInv, NextInv, TranscriptInit, TranscriptNext, PTL DEF TurnSpec

\* For any batches and caps, any number of turns, crashes, lost rows and
\* compactions: every list of messages sent to the model has behind each row of
\* calls exactly their results, and no result anywhere else.
THEOREM TurnReplaysAreWellFormed == TurnSpec => []ReplayWellFormed
<1>1. TranscriptInv => ReplayWellFormed
  BY DEF TranscriptInv
<1> QED BY <1>1, TurnTranscript, PTL

-----------------------------------------------------------------------------
(* How many rounds a turn may take.                                        *)

InRound == {"compress", "nudge", "build", "model", "gate", "calls", "dispatch",
            "results"}

\* The turn has left its rounds for good.
Ending == {"store", "finish", "done"}

\* The rounds an attempt and n redos are granted, and the redos a turn may have.
Granted(n) == loopCap * (1 + n)

Redos == maxRubricRetries + IF mode = "looping" THEN maxReviewRetries ELSE 0

\* The limit has moved once per redo, a round runs within it, and the redos
\* counted are within their caps until a gate ends the turn.
RoundsInv ==
    /\ pc \notin Ending => /\ st.rubricRetries <= maxRubricRetries
                           /\ st.reviewRetries <= maxReviewRetries
    /\ mode = "regular" => st.reviewRetries = 0
    /\ st.iter <= st.limit
    /\ pc \in InRound => st.iter < st.limit
    /\ st.limit <= Granted(st.rubricRetries + st.reviewRetries)
    /\ st.iter <= Granted(Redos)

\* A redo more is a cap more.
LEMMA GrantsGrow ==
    /\ \A n \in Nat : Granted(n) \in Nat /\ Granted(n + 1) = Granted(n) + loopCap
    /\ \A n, m \in Nat : n <= m => Granted(n) <= Granted(m)
    /\ Granted(0) = loopCap /\ loopCap \in Nat \ {0}
    /\ maxRubricRetries \in Nat /\ maxReviewRetries \in Nat
<1>1. loopCap \in Nat \ {0} /\ maxRubricRetries \in Nat /\ maxReviewRetries \in Nat
  BY TurnAssumption
<1>2. ASSUME NEW n \in Nat PROVE Granted(n) \in Nat /\ Granted(n + 1) = Granted(n) + loopCap
  BY <1>1 DEF Granted
<1>3. ASSUME NEW n \in Nat, NEW m \in Nat, n <= m PROVE Granted(n) <= Granted(m)
  <2>1. m - n \in Nat /\ loopCap * (m - n) \in Nat
    BY <1>1, <1>3
  <2>2. loopCap * (1 + m) = loopCap * (1 + n) + loopCap * (m - n)
    BY <1>1
  <2>3. loopCap * (1 + n) \in Nat
    BY <1>1
  <2> QED BY <2>1, <2>2, <2>3 DEF Granted
<1>4. Granted(0) = loopCap
  BY <1>1 DEF Granted
<1> QED BY <1>1, <1>2, <1>3, <1>4

\* The counts of a turn's state.
LEMMA CountsType ==
    ASSUME NEW s \in StateType
    PROVE  /\ s.iter \in Nat /\ s.limit \in Nat
           /\ s.rubricRetries \in Nat /\ s.reviewRetries \in Nat
           /\ s.rubricRetries + s.reviewRetries \in Nat
BY DEF StateType

SameCounts(s) ==
    /\ s.iter = st.iter /\ s.limit = st.limit
    /\ s.rubricRetries = st.rubricRetries /\ s.reviewRetries = st.reviewRetries

\* Steps that leave the counts alone, unless they open a round past the limit.
LEMMA RoundsKept ==
    ASSUME RoundsInv, SameCounts(st'), UNCHANGED mode,
           pc' \in InRound => pc \in InRound \/ st.iter < st.limit,
           pc \in Ending => pc' \in Ending
    PROVE  RoundsInv'
<1>1. Redos' = Redos
  BY DEF Redos
<1> QED BY <1>1 DEF RoundsInv, SameCounts, InRound, Ending

\* A turn starts with one attempt.
LEMMA RoundsFresh ==
    ASSUME st' = NewState, pc' \in {"idle", "persist"}
    PROVE  RoundsInv'
<1>1. /\ st'.iter = 0 /\ st'.limit = loopCap /\ st'.rubricRetries = 0 /\ st'.reviewRetries = 0
  BY DEF NewState
<1>2. Redos' \in Nat
  BY GrantsGrow DEF Redos
<1>3. Granted(Redos') \in Nat /\ Granted(0) = loopCap /\ loopCap \in Nat
  BY <1>2, GrantsGrow
<1>4. Granted(st'.rubricRetries + st'.reviewRetries) = loopCap
  BY <1>1, <1>3
<1> QED BY <1>1, <1>3, <1>4, GrantsGrow DEF RoundsInv, InRound, Ending

\* A turn that ends may have counted one redo more than it grants.
LEMMA RoundsEnded ==
    ASSUME TurnInv, RoundsInv, st' \in StateType, pc' \in Ending, UNCHANGED mode,
           st'.iter = st.iter, st'.limit = st.limit,
           st'.rubricRetries >= st.rubricRetries, st'.reviewRetries >= st.reviewRetries,
           mode = "regular" => st'.reviewRetries = st.reviewRetries
    PROVE  RoundsInv'
<1>1. st \in StateType
  BY DEF TurnInv
<1>2. Redos' = Redos
  BY DEF Redos
<1> DEFINE n == st.rubricRetries + st.reviewRetries
           m == st'.rubricRetries + st'.reviewRetries
<1>3. n \in Nat /\ m \in Nat /\ n <= m /\ st.limit \in Nat
  BY <1>1, CountsType
<1>4. Granted(n) <= Granted(m) /\ Granted(n) \in Nat /\ Granted(m) \in Nat
  <2> HIDE DEF n, m
  <2> QED BY <1>3, GrantsGrow
<1>5. st'.limit <= Granted(m)
  <2>1. st.limit <= Granted(n)
    BY DEF RoundsInv
  <2> HIDE DEF n, m
  <2> QED BY <1>3, <1>4, <2>1
<1> QED BY <1>2, <1>5 DEF RoundsInv, InRound, Ending

\* While a turn runs, its limit is within what its gates may grant.
LEMMA LimitGranted ==
    ASSUME TurnInv, RoundsInv, pc \notin Ending
    PROVE  /\ st.limit <= Granted(Redos) /\ Redos \in Nat /\ Granted(Redos) \in Nat
           /\ st.rubricRetries + st.reviewRetries <= Redos
<1>1. st \in StateType /\ mode \in {"regular", "looping"}
  BY DEF TurnInv, FrameOK
<1> DEFINE n == st.rubricRetries + st.reviewRetries
<1>2. Redos \in Nat
  BY GrantsGrow DEF Redos
<1>3. n \in Nat /\ n <= Redos /\ st.limit \in Nat
  <2>1. st.rubricRetries \in Nat /\ st.reviewRetries \in Nat /\ st.limit \in Nat
    BY <1>1, CountsType
  <2>2. st.rubricRetries <= maxRubricRetries /\ st.reviewRetries <= maxReviewRetries
    BY DEF RoundsInv
  <2>3. maxRubricRetries \in Nat /\ maxReviewRetries \in Nat
    BY GrantsGrow
  <2>4. CASE mode = "looping"
    BY <2>1, <2>2, <2>3, <2>4 DEF Redos
  <2>5. CASE mode = "regular"
    <3>1. st.reviewRetries = 0 /\ Redos = maxRubricRetries
      BY <2>3, <2>5 DEF RoundsInv, Redos
    <3> QED BY <2>1, <2>2, <2>3, <3>1
  <2> QED BY <1>1, <2>4, <2>5
<1>4. st.limit <= Granted(n)
  BY DEF RoundsInv
<1> HIDE DEF n
<1>5. Granted(n) \in Nat /\ Granted(Redos) \in Nat /\ Granted(n) <= Granted(Redos)
  BY <1>2, <1>3, GrantsGrow
<1> QED BY <1>2, <1>3, <1>4, <1>5 DEF n

\* The next round of the same attempt.
LEMMA RoundsNext ==
    ASSUME TurnInv, RoundsInv, pc \in InRound, NEW s \in StateType, SameCounts(s), NextRound(s)
    PROVE  RoundsInv'
<1>1. st \in StateType /\ pc' = "top" /\ UNCHANGED mode /\ pc \notin Ending
  BY DEF TurnInv, NextRound, InRound, Ending
<1>2. /\ st'.iter = st.iter + 1 /\ st'.limit = st.limit
      /\ st'.rubricRetries = st.rubricRetries /\ st'.reviewRetries = st.reviewRetries
  BY DEF NextRound, StateType, SameCounts
<1>3. st.iter < st.limit /\ st.iter \in Nat /\ st.limit \in Nat
  BY <1>1, CountsType DEF RoundsInv
<1>4. st.limit <= Granted(Redos) /\ Granted(Redos) \in Nat /\ Redos' = Redos
  BY <1>1, LimitGranted DEF Redos, Ending
<1>5. st'.iter <= st'.limit /\ st'.iter <= Granted(Redos)
  BY <1>2, <1>3, <1>4
<1> QED BY <1>1, <1>2, <1>4, <1>5 DEF RoundsInv, InRound, Ending

\* A redo is counted by its gate, and moves the limit by one cap.
LEMMA RoundsRedo ==
    ASSUME TurnInv, RoundsInv, pc = "gate", NEW s \in StateType, Redo(s),
           s.iter = st.iter,
           s.rubricRetries <= maxRubricRetries, s.reviewRetries <= maxReviewRetries,
           s.rubricRetries + s.reviewRetries = st.rubricRetries + st.reviewRetries + 1,
           mode = "regular" => s.reviewRetries = 0
    PROVE  RoundsInv'
<1>1. st \in StateType /\ mode \in {"regular", "looping"} /\ pc' = "top" /\ UNCHANGED mode
  BY DEF TurnInv, FrameOK, Redo, NextRound
<1>2. st.iter \in Nat /\ loopCap \in Nat \ {0} /\ st.limit \in Nat /\ st.iter < st.limit
  BY <1>1, GrantsGrow, CountsType DEF RoundsInv, InRound
<1>3. /\ st'.iter = st.iter + 1 /\ st'.limit = st.iter + 1 + loopCap
      /\ st'.rubricRetries = s.rubricRetries /\ st'.reviewRetries = s.reviewRetries
  BY DEF Redo, NextRound, StateType
<1> DEFINE n == st.rubricRetries + st.reviewRetries
<1>4. n \in Nat /\ s.rubricRetries + s.reviewRetries = n + 1
  BY <1>1, CountsType
<1>5. st.limit <= Granted(n)
  BY DEF RoundsInv
<1>6. st.limit <= Granted(Redos) /\ Redos' = Redos /\ Granted(Redos) \in Nat
  BY <1>1, LimitGranted DEF Redos, Ending
<1> HIDE DEF n
<1>7. Granted(n) \in Nat /\ Granted(n + 1) = Granted(n) + loopCap
  BY <1>4, GrantsGrow
<1>8. st'.limit <= Granted(n + 1) /\ st'.iter <= st'.limit
  BY <1>2, <1>3, <1>5, <1>7
<1>9. st'.iter <= Granted(Redos)
  BY <1>2, <1>3, <1>6
<1> QED BY <1>1, <1>3, <1>4, <1>6, <1>8, <1>9 DEF RoundsInv, InRound, Ending

\* A turn that ends as it is.
LEMMA RoundsDoor ==
    ASSUME RoundsInv, UNCHANGED <<st, mode>>, pc' \in Ending
    PROVE  RoundsInv'
BY RoundsKept DEF SameCounts, InRound, Ending

\* The rubric's gate and the advisor's: pass, redo, or end past the cap.
LEMMA RoundsGates ==
    ASSUME TurnInv, TurnInv', RoundsInv, NEW pass \in BOOLEAN,
           rubricGate(pass) \/ advisorReviewGate(pass)
    PROVE  RoundsInv'
<1>1. /\ st \in StateType /\ st' \in StateType /\ pc = "gate"
      /\ mode \in {"regular", "looping"}
      /\ st.rubricRetries <= maxRubricRetries /\ st.reviewRetries <= maxReviewRetries
      /\ mode = "regular" => st.reviewRetries = 0
  BY DEF TurnInv, FrameOK, RoundsInv, Ending, rubricGate, advisorReviewGate
<1>2. st.rubricRetries \in Nat /\ st.reviewRetries \in Nat /\ st.iter \in Nat
  BY <1>1, CountsType
<1>3. ASSUME NEW t, NEW footer, NEW outcome, NEW failed,
             finalizeTurn(t, footer, outcome, failed)
      PROVE  pc' \in Ending /\ UNCHANGED mode
  BY <1>3 DEF finalizeTurn, Ending
<1>4. CASE rubricGate(pass)
  <2> DEFINE s == [st EXCEPT !.rubricRetries = @ + 1]
  <2>1. /\ s \in StateType /\ s.iter = st.iter /\ s.limit = st.limit
        /\ s.rubricRetries = st.rubricRetries + 1 /\ s.reviewRetries = st.reviewRetries
    <3>1. st.rubricRetries + 1 \in Nat
      BY <1>2
    <3> QED BY <1>1, <3>1 DEF StateType
  <2>2. CASE finalReply /\ UNCHANGED st
    <3>1. pc' \in Ending /\ UNCHANGED mode
      BY <1>3, <2>2 DEF finalReply
    <3> QED BY <2>2, <3>1, RoundsDoor
  <2>3. CASE s.rubricRetries <= maxRubricRetries /\ Redo(s)
    <3> HIDE DEF s
    <3> QED BY <1>1, <1>2, <2>1, <2>3, RoundsRedo
  <2>4. CASE st' = s /\ finalizeTurn("rubric_fail", sideEffectFooter, "degraded", "erred")
    <3>1. pc' \in Ending /\ UNCHANGED mode
      BY <1>3, <2>4
    <3> HIDE DEF s
    <3> QED BY <1>1, <1>2, <2>1, <2>4, <3>1, RoundsEnded
  <2> QED BY <1>4, <2>2, <2>3, <2>4 DEF rubricGate
<1>5. CASE advisorReviewGate(pass)
  <2> DEFINE s == [st EXCEPT !.reviewRetries = @ + 1]
  <2>1. /\ s \in StateType /\ s.iter = st.iter /\ s.limit = st.limit
        /\ s.rubricRetries = st.rubricRetries /\ s.reviewRetries = st.reviewRetries + 1
    <3>1. st.reviewRetries + 1 \in Nat
      BY <1>2
    <3> QED BY <1>1, <3>1 DEF StateType
  <2>2. ~pass => mode = "looping"
    BY <1>5 DEF advisorReviewGate
  <2>3. ASSUME finalReply, SameCounts(st') PROVE RoundsInv'
    <3>1. pc' \in Ending /\ UNCHANGED mode
      BY <1>3, <2>3 DEF finalReply
    <3> QED BY <2>3, <3>1, RoundsKept DEF InRound, Ending
  <2>4. CASE /\ finalReply
             /\ st' = [st EXCEPT !.concern = @ /\ ~(mode = "looping" /\ st.produced)]
    <3>1. SameCounts(st')
      BY <1>1, <2>4 DEF SameCounts, StateType
    <3> QED BY <2>3, <2>4, <3>1
  <2>5. CASE ~pass /\ s.reviewRetries <= maxReviewRetries /\ Redo(s)
    <3> HIDE DEF s
    <3> QED BY <1>1, <1>2, <2>1, <2>2, <2>5, RoundsRedo
  <2>6. CASE ~pass /\ st' = [s EXCEPT !.concern = TRUE] /\ finalReply
    <3>1. pc' \in Ending /\ UNCHANGED mode
      BY <1>3, <2>6 DEF finalReply
    <3> HIDE DEF s
    <3>2. /\ st'.iter = s.iter /\ st'.limit = s.limit
          /\ st'.rubricRetries = s.rubricRetries /\ st'.reviewRetries = s.reviewRetries
      BY <2>1, <2>6 DEF StateType
    <3> QED BY <1>1, <1>2, <2>1, <2>2, <2>6, <3>1, <3>2, RoundsEnded
  <2> QED BY <1>5, <2>4, <2>5, <2>6 DEF advisorReviewGate
<1> QED BY <1>4, <1>5


\* The rounds that the model's answer or a finished tool round leads to.
LEMMA RoundsAnswered ==
    ASSUME TurnInv, RoundsInv,
           Empty \/ handleDegenerate \/ handleBloat \/ (Oversized /\ NextRound(st))
    PROVE  RoundsInv'
<1>1. st \in StateType /\ pc \in InRound /\ st.bloat + 1 \in Nat
  <2>1. st \in StateType /\ pc = "model"
    BY DEF TurnInv, Empty, handleDegenerate, handleBloat, Oversized
  <2>2. st.bloat \in Nat
    BY <2>1 DEF StateType
  <2> QED BY <2>1, <2>2 DEF InRound
<1>2. SameCounts(st)
  BY DEF SameCounts
<1>3. CASE NextRound(st)
  BY <1>1, <1>2, <1>3, RoundsNext
<1>4. CASE handleDegenerate
  <2> DEFINE s == [st EXCEPT !.exit = "degenerate"]
  <2>1. s \in StateType /\ SameCounts(s)
    BY <1>1 DEF StateType, Exit, SameCounts
  <2>2. NextRound(s)
    BY <1>4 DEF handleDegenerate
  <2> HIDE DEF s
  <2> QED BY <1>1, <2>1, <2>2, RoundsNext
<1>5. CASE handleBloat
  <2> DEFINE s == [st EXCEPT !.bloat = @ + 1, !.strip = st.bloat + 1 > maxBloatTrips]
  <2>1. s \in StateType
    <3>1. (st.bloat + 1 > maxBloatTrips) \in BOOLEAN
      OBVIOUS
    <3> QED BY <1>1, <3>1 DEF StateType
  <2>2. SameCounts(s)
    BY <1>1 DEF StateType, SameCounts
  <2>3. NextRound(s)
    BY <1>5 DEF handleBloat
  <2> HIDE DEF s
  <2> QED BY <1>1, <2>1, <2>2, <2>3, RoundsNext
<1> QED BY <1>3, <1>4, <1>5 DEF Empty

\* Counting a result's failures and progress leaves the rounds alone.
LEMMA RoundsRecord ==
    ASSUME TurnInv, RoundsInv, pipelineAndPersist
    PROVE  RoundsInv'
<1>1. st \in StateType /\ UNCHANGED <<pc, mode>>
  BY DEF TurnInv, pipelineAndPersist
<1> DEFINE c == round.calls[round.saved + 1]
           r == round.results[round.saved + 1]
<1>2. st' = recordToolOutcome(c, r)
  BY DEF pipelineAndPersist
<1> HIDE DEF c, r
<1>3. SameCounts(recordToolOutcome(c, r))
  <2>1. CASE r = "fail"
    BY <1>1, <2>1 DEF recordToolOutcome, SameCounts, StateType
  <2>2. CASE r # "fail"
    BY <1>1, <2>2 DEF recordToolOutcome, SameCounts, StateType
  <2> QED BY <2>1, <2>2
<1>4. SameCounts(st')
  BY <1>2, <1>3
<1> QED BY <1>1, <1>4, RoundsKept

\* The steps within a round, and those between two.
LEMMA RoundsQuiet ==
    ASSUME TurnInv, RoundsInv,
           \/ LoopTop \/ maybeCompressInPlace \/ foldUserNudge \/ FinalText
           \/ \E b \in Batches : CallsTools(b)
           \/ dispatchAll \/ LeaveLoop \/ Cancel \/ UNCHANGED turnVars
    PROVE  RoundsInv'
<1>1. st \in StateType /\ pc \in PCs
  BY DEF TurnInv, FrameOK
<1>2. CASE LoopTop
  <2>1. SameCounts(st') /\ UNCHANGED mode
    BY <1>1, <1>2 DEF LoopTop, SameCounts, StateType
  <2>2. pc' \in InRound => st.iter < st.limit
    <3>1. st.iter \in Nat /\ st.limit \in Nat
      BY <1>1, CountsType
    <3> QED BY <1>2, <3>1 DEF LoopTop, InRound
  <2>3. pc \notin Ending
    BY <1>2 DEF LoopTop, Ending
  <2> QED BY <2>1, <2>2, <2>3, RoundsKept
<1>3. CASE foldUserNudge
  <2>1. SameCounts(st') /\ UNCHANGED mode
    BY <1>1, <1>3 DEF foldUserNudge, SameCounts, StateType
  <2>2. pc \in InRound /\ pc \notin Ending
    BY <1>3 DEF foldUserNudge, InRound, Ending
  <2> QED BY <2>1, <2>2, RoundsKept
<1>4. CASE LeaveLoop
  <2>1. SameCounts(st') /\ UNCHANGED mode
    <3>1. /\ UNCHANGED mode
          /\ st' \in {st, [st EXCEPT !.exit = IF @ = "none" THEN "iter_cap" ELSE @]}
      BY <1>4 DEF LeaveLoop, releaseSink, Release, Ends
    <3> QED BY <1>1, <3>1 DEF SameCounts, StateType
  <2>2. pc \notin Ending /\ pc' \notin InRound
    BY <1>4 DEF LeaveLoop, releaseSink, Release, Ends, InRound, Ending
  <2> QED BY <2>1, <2>2, RoundsKept
<1>5. CASE maybeCompressInPlace \/ FinalText \/ dispatchAll \/ \E b \in Batches : CallsTools(b)
  <2>1. UNCHANGED <<st, mode>> /\ pc \in InRound /\ pc \notin Ending
    BY <1>5 DEF maybeCompressInPlace, FinalText, dispatchAll, CallsTools, InRound, Ending
  <2> QED BY <2>1, RoundsKept DEF SameCounts
<1>6. CASE Cancel \/ UNCHANGED turnVars
  <2>1. UNCHANGED <<st, mode, pc>>
    BY <1>6 DEF Cancel, turnVars
  <2> QED BY <2>1, RoundsKept DEF SameCounts
<1> QED BY <1>2, <1>3, <1>4, <1>5, <1>6

LEMMA RoundsFinal ==
    ASSUME RoundsInv, UNCHANGED st,
           \/ \E text, footer, outcome, failed : finalizeTurn(text, footer, outcome, failed)
           \/ \E outcome : releaseSink(outcome)
           \/ \E text : Notice(text)
           \/ \E s, outcome : Ends(s, outcome)
           \/ StoreReply \/ FinishReply
    PROVE  RoundsInv'
<1>1. pc' \in Ending /\ UNCHANGED mode
  BY DEF finalizeTurn, StoreReply, FinishReply, releaseSink, Release, Notice, Ends, Ending
<1> QED BY <1>1, RoundsDoor

LEMMA RoundsDoors ==
    ASSUME TurnInv, RoundsInv,
           \/ persistUserRows \/ buildMessages \/ Oversized \/ toolRoundEnds
           \/ appendAssistantCalls \/ Panic
           \/ \E shown \in BOOLEAN : ModelFails(shown)
           \/ \E text \in {"salvage", "brief", "rubric_fail"} : salvage(text)
    PROVE  RoundsInv'
<1>1. CASE persistUserRows
  <2>1. CASE pc' = "top" /\ UNCHANGED <<mode, st>>
    <3>1. pc \notin Ending /\ pc' \notin InRound
      BY <1>1, <2>1 DEF persistUserRows, InRound, Ending
    <3> QED BY <2>1, <3>1, RoundsKept DEF SameCounts
  <2> QED BY <1>1, <2>1, RoundsFinal DEF persistUserRows
<1>2. CASE buildMessages
  <2>1. CASE pc' = "model" /\ UNCHANGED <<mode, st>>
    <3>1. pc \notin Ending /\ pc \in InRound
      BY <1>2 DEF buildMessages, InRound, Ending
    <3> QED BY <2>1, <3>1, RoundsKept DEF SameCounts
  <2> QED BY <1>2, <2>1, RoundsFinal DEF buildMessages
<1>3. CASE Oversized
  <2>1. CASE NextRound(st)
    BY <1>3, <2>1, RoundsAnswered
  <2> QED BY <1>3, <2>1, RoundsFinal DEF Oversized
<1>4. CASE toolRoundEnds
  <2>1. CASE NextRound(st)
    <3>1. st \in StateType /\ pc \in InRound /\ SameCounts(st)
      BY <1>4 DEF TurnInv, toolRoundEnds, InRound, SameCounts
    <3> QED BY <2>1, <3>1, RoundsNext
  <2> QED BY <1>4, <2>1, RoundsFinal DEF toolRoundEnds
<1>5. CASE appendAssistantCalls
  <2>1. CASE pc' = "dispatch" /\ UNCHANGED <<mode, st>>
    <3>1. pc \notin Ending /\ pc \in InRound
      BY <1>5 DEF appendAssistantCalls, InRound, Ending
    <3> QED BY <2>1, <3>1, RoundsKept DEF SameCounts
  <2> QED BY <1>5, <2>1, RoundsFinal DEF appendAssistantCalls
<1>6. CASE Panic
  BY <1>6, RoundsFinal DEF Panic
<1>7. CASE \E shown \in BOOLEAN : ModelFails(shown)
  BY <1>7, RoundsFinal DEF ModelFails
<1>8. CASE \E text \in {"salvage", "brief", "rubric_fail"} : salvage(text)
  BY <1>8, RoundsFinal DEF salvage
<1> QED BY <1>1, <1>2, <1>3, <1>4, <1>5, <1>6, <1>7, <1>8

LEMMA RoundsInit == TurnInit => RoundsInv
<1> SUFFICES ASSUME TurnInit PROVE RoundsInv
  OBVIOUS
<1>1. /\ st.iter = 0 /\ st.limit = loopCap /\ st.rubricRetries = 0 /\ st.reviewRetries = 0
      /\ pc = "idle" /\ mode = "regular"
  BY DEF TurnInit, NewState
<1>2. Redos \in Nat
  BY GrantsGrow DEF Redos
<1>3. Granted(Redos) \in Nat /\ Granted(0) = loopCap /\ loopCap \in Nat
  BY <1>2, GrantsGrow
<1>4. Granted(st.rubricRetries + st.reviewRetries) = loopCap
  BY <1>1, <1>3
<1> QED BY <1>1, <1>3, <1>4, GrantsGrow DEF RoundsInv, InRound, Ending

LEMMA RoundsStep ==
    TurnInv /\ TurnInv' /\ RoundsInv /\ [TurnNext]_turnVars => RoundsInv'
<1> SUFFICES ASSUME TurnInv, TurnInv', RoundsInv, [TurnNext]_turnVars PROVE RoundsInv'
  OBVIOUS
<1>1. CASE Crash \/ \E m \in {"regular", "looping"} : StartTurn(m)
  BY <1>1, RoundsFresh DEF StartTurn, Crash
<1>2. CASE Empty \/ handleDegenerate \/ handleBloat
  BY <1>2, RoundsAnswered
<1>3. CASE \/ LoopTop \/ maybeCompressInPlace \/ foldUserNudge \/ FinalText
           \/ \E b \in Batches : CallsTools(b)
           \/ dispatchAll \/ LeaveLoop \/ Cancel \/ UNCHANGED turnVars
  BY <1>3, RoundsQuiet
<1>4. CASE pipelineAndPersist
  BY <1>4, RoundsRecord
<1>5. CASE \E pass \in BOOLEAN : rubricGate(pass) \/ advisorReviewGate(pass)
  BY <1>5, RoundsGates
<1>6. CASE \/ persistUserRows \/ buildMessages \/ Oversized \/ toolRoundEnds
           \/ appendAssistantCalls \/ Panic
           \/ \E shown \in BOOLEAN : ModelFails(shown)
           \/ \E text \in {"salvage", "brief", "rubric_fail"} : salvage(text)
  BY <1>6, RoundsDoors
<1>7. CASE StoreReply \/ FinishReply
  <2>1. UNCHANGED st
    BY <1>7 DEF StoreReply, FinishReply
  <2> QED BY <1>7, <2>1, RoundsFinal
<1> QED BY <1>1, <1>2, <1>3, <1>4, <1>5, <1>6, <1>7, Zenon DEF TurnNext

\* However the judges rule, whatever the model answers and for any caps: a turn
\* never runs more rounds than one cap per redo that its driver's gates may
\* grant, and one for the first attempt.
THEOREM TurnRoundsAreBounded == TurnSpec => []RoundsAreBounded
<1>1. RoundsInv => RoundsAreBounded
  BY DEF RoundsInv, RoundsAreBounded, Granted, Redos
<1> QED BY <1>1, InitInv, NextInv, RoundsInit, RoundsStep, PTL DEF TurnSpec
=============================================================================

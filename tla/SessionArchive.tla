--------------------------- MODULE SessionArchive ---------------------------
(***************************************************************************)
(* Cold archival of sessions and their revival by a reply (leaf/session).  *)
(*                                                                         *)
(* A session is a row of bob_sessions and its transcript in bob_messages.  *)
(* Twice a day the housekeeper's archive sweep moves sessions without      *)
(* recent activity into one row of bob_sessions_archive; a reply to an old *)
(* bot message (found through bob_message_index) brings such a session     *)
(* back before it runs its turn; further tasks purge old archive rows, old *)
(* index rows and the rows a compaction has replaced.                      *)
(* Nothing locks a session against both, so every store call is a step of  *)
(* its own and the sweep interleaves with the replies; any store call may  *)
(* fail and the process may crash (at most MaxFaults times in all).        *)
(*                                                                         *)
(* A transcript is a sequence of rows: the message a turn wrote, or the    *)
(* summary marker of a compaction.  Columns carried along (attachments,    *)
(* tool calls, tags) are left out.  No caller ends a session, so was_ended *)
(* archive rows do not occur.  Admission is reduced to "one turn per       *)
(* session" (SessionArbiter models it).  A reply is to the session's       *)
(* newest indexed message, so the index is a set of sessions.              *)
(***************************************************************************)
EXTENDS Naturals, Sequences, FiniteSets, FiniteSetsExt

CONSTANTS Msg,               \* inbound replies
          Sid,               \* sessions that exist from the start
          NoSid, NoRow,
          First,             \* the row every session starts with
          Marker,            \* the summary row of a compaction
          HistoryReplayCap,  \* rows a turn replays when there is no marker
          ArchiveReplayCap,  \* rows the sweep exports when there is none
          BatchLimit,        \* archiveBatchLimit
          MaxRows,           \* bound on a transcript, for TLC
          MaxFaults          \* bound on store errors and crashes

ASSUME ValueAssumption ==
    /\ NoSid \notin Sid
    /\ Marker \notin Msg \cup {First}
    /\ NoRow \notin Seq(Msg \cup {First, Marker})
ASSUME CapAssumption ==
    /\ HistoryReplayCap \in Nat \ {0}
    /\ ArchiveReplayCap \in Nat
    /\ ArchiveReplayCap >= HistoryReplayCap
    /\ BatchLimit \in Nat \ {0}
    /\ MaxRows \in Nat
    /\ MaxFaults \in Nat

VARIABLES
    live,      \* sids with a row in bob_sessions
    hist,      \* hist[s]: the rows of bob_messages, in id order
    archive,   \* archive[s]: the payload in bob_sessions_archive, or NoRow
    index,     \* sids that bob_message_index can resolve a reply to
    aged,      \* live sids whose started_at is older than the cold cutoff
    quiet,     \* sids whose newest message is older than the cold cutoff
    expired,   \* sids whose archived_at is older than the hard TTL
    stale,     \* sids whose last indexed answer is older than messageIndexAge
    busy,      \* Manager.busy
    pc, to, load,        \* per reply: its step, its session, the payload read
    hk, todo, cur, copy, \* the housekeeper's task: step, list, session, export
    faults,    \* failures so far
    window,    \* history: the transcript a turn on s ought to replay
    raced,     \* history: sids a turn entered while the sweep worked on them
    stained,   \* history: sids that got rows on top of a leftover archive row
    purged     \* history: sids whose archive row was purged

storeVars == <<live, hist, archive, index>>
timeVars == <<aged, quiet, expired, stale>>
replyVars == <<busy, pc, to, load>>
taskVars == <<hk, todo, cur, copy>>
ghostVars == <<window, raced, stained, purged>>
vars == <<storeVars, timeVars, replyVars, taskVars, faults, ghostVars>>

Rows == Msg \cup {First, Marker}
Steps == {"new", "check", "restore", "wait", "commit", "claim", "turn",
          "answer", "finish", "done", "fork", "fresh", "lost"}
Active == {"check", "restore", "wait", "commit", "claim", "turn", "answer",
           "finish"}
Tasks == {"idle", "next", "export", "insert", "delmsgs", "delsess", "unindex"}

\* Types of every variable.
TypeOK ==
    /\ live \subseteq Sid /\ index \subseteq Sid
    /\ hist \in [Sid -> Seq(Rows)]
    /\ archive \in [Sid -> Seq(Rows) \cup {NoRow}]
    /\ aged \subseteq Sid /\ quiet \subseteq Sid
    /\ expired \subseteq Sid /\ stale \subseteq Sid
    /\ busy \subseteq Sid
    /\ pc \in [Msg -> Steps]
    /\ to \in [Msg -> Sid \cup {NoSid}]
    /\ load \in [Msg -> Seq(Rows) \cup {NoRow}]
    /\ hk \in Tasks
    /\ todo \subseteq Sid
    /\ cur \in Sid \cup {NoSid}
    /\ copy \in Seq(Rows) \cup {NoRow}
    /\ faults \in 0 .. MaxFaults
    /\ window \in [Sid -> Seq(Rows)]
    /\ raced \subseteq Sid /\ stained \subseteq Sid /\ purged \subseteq Sid

----------------------------------------------------------------------------
(* Transcripts                                                             *)

Markers(h) == {i \in DOMAIN h : h[i] = Marker}

\* The rows from the last marker on; without a marker the last cap rows.
GetReplay(h, cap) ==
    IF Markers(h) # {}
    THEN SubSeq(h, Max(Markers(h)), Len(h))
    ELSE SubSeq(h, IF Len(h) > cap THEN Len(h) - cap + 1 ELSE 1, Len(h))

\* What a turn on these rows sees.
Replay(h) == GetReplay(h, HistoryReplayCap)

\* Last activity = the newest message, or the start of an empty session.
Cold(s) == s \in live /\ s \in (IF hist[s] = <<>> THEN aged ELSE quiet)

SidInFlight(s) == s \in busy

\* Sessions that have had their first exchange: a reply has something to hit.
Init ==
    /\ live = Sid
    /\ hist = [s \in Sid |-> <<First>>]
    /\ archive = [s \in Sid |-> NoRow]
    /\ index = Sid
    /\ aged = {} /\ quiet = {} /\ expired = {} /\ stale = {}
    /\ busy = {}
    /\ pc = [m \in Msg |-> "new"]
    /\ to = [m \in Msg |-> NoSid]
    /\ load = [m \in Msg |-> NoRow]
    /\ hk = "idle" /\ todo = {} /\ cur = NoSid /\ copy = NoRow
    /\ faults = 0
    /\ window = [s \in Sid |-> <<First>>]
    /\ raced = {} /\ stained = {} /\ purged = {}

Fault == faults < MaxFaults /\ faults' = faults + 1

----------------------------------------------------------------------------
(* A reply: resolve, revive, take the session, run the turn                *)

Go(m, step) == pc' = [pc EXCEPT ![m] = step]

\* resolveBase: the index resolves the reply, or it opens a fresh session.  If
\* the index cannot be read the reply continues the scope's active session
\* (CurrentSession reads a live one), or opens a fresh one in an empty scope.
resolveBase(m, s) ==
    /\ pc[m] = "new"
    /\ to' = [to EXCEPT ![m] = s]
    /\ \/ Go(m, IF s \in index THEN "check" ELSE "fresh") /\ UNCHANGED faults
       \/ Go(m, IF s \in live THEN "claim" ELSE "fresh") /\ Fault
    /\ UNCHANGED <<storeVars, timeVars, busy, load, taskVars, ghostVars>>

\* ensureLive's SessionByID; a read error degrades to joining the named sid.
ensureLive(m) ==
    /\ pc[m] = "check"
    /\ \/ Go(m, IF to[m] \in live THEN "claim" ELSE "restore") /\ UNCHANGED faults
       \/ Go(m, "claim") /\ Fault
    /\ UNCHANGED <<storeVars, timeVars, busy, to, load, taskVars, ghostVars>>

\* Mutant: the call's result never reaches those who joined it.
FlightOfOne(m) == {m}

\* The replies that share the singleflight call m leads, m included.
Flight(m) == {m} \cup {w \in Msg : pc[w] = "wait" /\ to[w] = to[m]}

\* How one Restore ends for everybody in its flight: revived or not.
Land(m, revived) ==
    pc' = [w \in Msg |-> IF w \in Flight(m)
                         THEN IF revived THEN "claim" ELSE "fork"
                         ELSE pc[w]]

\* Mutant: no singleflight.
NoLeader(s) == {}

InFlightLeader(s) == {w \in Msg : pc[w] = "commit" /\ to[w] = s}

\* sfRestore.Do: join the running call, or lead one; the leader's first store
\* call reads the archive row.
JoinRestore(m) ==
    /\ pc[m] = "restore"
    /\ InFlightLeader(to[m]) # {}
    /\ Go(m, "wait")
    /\ UNCHANGED <<storeVars, timeVars, busy, to, load, taskVars, faults, ghostVars>>

ArchivedSession(m) ==
    /\ pc[m] = "restore"
    /\ InFlightLeader(to[m]) = {}
    /\ \/ /\ archive[to[m]] # NoRow
          /\ load' = [load EXCEPT ![m] = archive[to[m]]]
          /\ Go(m, "commit")
          /\ UNCHANGED faults
       \/ /\ archive[to[m]] = NoRow
          /\ Go(m, "fork")
          /\ UNCHANGED <<load, faults>>
       \/ Go(m, "fork") /\ Fault /\ UNCHANGED load
    /\ UNCHANGED <<storeVars, timeVars, busy, to, taskVars, ghostVars>>

\* Restore's transaction: the session row (unless present), the rows of the
\* payload stamped now, and the archive row dropped, all or nothing.
RestoreTx(m) ==
    LET s == to[m] IN
    /\ pc[m] = "commit"
    /\ \/ /\ live' = live \cup {s}
          /\ hist' = [hist EXCEPT ![s] = @ \o load[m]]
          /\ archive' = [archive EXCEPT ![s] = NoRow]
          /\ quiet' = IF load[m] = <<>> THEN quiet ELSE quiet \ {s}
          /\ expired' = expired \ {s}
          /\ Land(m, TRUE)
          /\ UNCHANGED faults
       \/ Land(m, FALSE) /\ Fault /\ UNCHANGED <<live, hist, archive, quiet, expired>>
    /\ load' = [load EXCEPT ![m] = NoRow]
    /\ UNCHANGED <<index, aged, stale, busy, to, taskVars, ghostVars>>

\* The arbiter's admission.  raced notes a turn that enters a session the
\* sweep has already picked, or that is already gone.
Claim(m) ==
    LET s == to[m] IN
    /\ pc[m] = "claim"
    /\ s \notin busy
    /\ busy' = busy \cup {s}
    /\ Go(m, "turn")
    /\ raced' = IF cur = s \/ s \notin live THEN raced \cup {s} ELSE raced
    /\ UNCHANGED <<storeVars, timeVars, to, load, taskVars, faults, window, stained, purged>>

\* New rows at the end of s's transcript, stamped now.
AppendRows(s, rows) ==
    /\ Len(hist[s]) + Len(rows) <= MaxRows
    /\ hist' = [hist EXCEPT ![s] = @ \o rows]
    /\ window' = [window EXCEPT ![s] = Replay(@ \o rows)]
    /\ quiet' = quiet \ {s}
    /\ stained' = IF archive[s] # NoRow THEN stained \cup {s} ELSE stained

\* The user rows of the turn.
AppendUserMsgs(m) ==
    /\ pc[m] = "turn"
    /\ AppendRows(to[m], <<m>>)
    /\ Go(m, "answer")
    /\ UNCHANGED <<live, archive, index, aged, expired, stale, busy, to, load,
                   taskVars, faults, raced, purged>>

\* A compaction inside the turn: the marker and a copy of the recent tail.
AppendCompactionBatch(m) ==
    LET h == hist[to[m]] IN
    /\ pc[m] = "answer"
    /\ \E n \in 1 .. Len(h) + 1 :
          /\ \A i \in n .. Len(h) : h[i] # Marker
          /\ AppendRows(to[m], <<Marker>> \o SubSeq(h, n, Len(h)))
    /\ UNCHANGED <<live, archive, index, aged, expired, stale, replyVars, taskVars,
                   faults, raced, purged>>

\* finalizeTurn stores the answer's row.
AppendAnswer(m) ==
    /\ pc[m] = "answer"
    /\ AppendRows(to[m], <<m>>)
    /\ Go(m, "finish")
    /\ UNCHANGED <<live, archive, index, aged, expired, stale, busy, to, load,
                   taskVars, faults, raced, purged>>

\* A delivered message is indexed for later replies: a streamed one while the
\* answer is still being written, the others after its row; a failed write is
\* only logged (the turn then ends without this step).
RecordSent(m) ==
    /\ pc[m] \in {"answer", "finish"}
    /\ index' = index \cup {to[m]}
    /\ stale' = stale \ {to[m]}
    /\ UNCHANGED <<live, hist, archive, aged, quiet, expired, replyVars, taskVars,
                   faults, ghostVars>>

\* The turn ends, with an answer or, after a failed step, without one.
FinishTurn(m) ==
    /\ pc[m] \in {"turn", "answer", "finish"}
    /\ busy' = busy \ {to[m]}
    /\ Go(m, "done")
    /\ UNCHANGED <<storeVars, timeVars, to, load, taskVars, faults, ghostVars>>

----------------------------------------------------------------------------
(* The housekeeper: one task at a time                                     *)

\* ColdSessionIDs: the list is taken once, at most BatchLimit sids of it.
ColdSessionIDs ==
    LET cold == {s \in Sid : Cold(s)}
        limit == Min({BatchLimit, Cardinality(cold)})
    IN
    /\ hk = "idle" /\ cold # {}
    /\ todo' \in {l \in SUBSET cold : Cardinality(l) = limit}
    /\ hk' = "next"
    /\ UNCHANGED <<storeVars, timeVars, replyVars, cur, copy, faults, ghostVars>>

\* Mutant: the sense of the in-flight check is inverted.
MayArchiveBusy(s) == SidInFlight(s)

\* The in-flight check of ArchiveCold.
MayArchive(s) == ~SidInFlight(s)

\* The head of ArchiveCold's loop: the next sid, skipped while it is in flight.
NextCold ==
    /\ hk = "next"
    /\ \/ \E s \in todo :
             /\ todo' = todo \ {s}
             /\ IF MayArchive(s) THEN cur' = s /\ hk' = "export"
                                 ELSE UNCHANGED <<cur, hk>>
       \/ todo = {} /\ hk' = "idle" /\ UNCHANGED <<todo, cur>>
    /\ UNCHANGED <<storeVars, timeVars, replyVars, copy, faults, ghostVars>>

Export(s) == GetReplay(hist[s], ArchiveReplayCap)

ExportCold ==
    /\ hk = "export"
    /\ copy' = Export(cur)
    /\ hk' = "insert"
    /\ UNCHANGED <<storeVars, timeVars, replyVars, todo, cur, faults, ghostVars>>

\* Mutant: a retry overwrites the row with the leftovers of the first attempt.
UpsertArchive(s, payload) == payload

\* INSERT ... ON CONFLICT DO NOTHING.
InsertArchive(s, payload) ==
    IF archive[s] = NoRow THEN payload ELSE archive[s]

ArchiveRow ==
    /\ hk = "insert"
    /\ archive' = [archive EXCEPT ![cur] = InsertArchive(cur, copy)]
    /\ expired' = IF archive[cur] = NoRow THEN expired \ {cur} ELSE expired
    /\ copy' = NoRow
    /\ hk' = "delmsgs"
    /\ UNCHANGED <<live, hist, index, aged, quiet, stale, replyVars, todo, cur, faults,
                   ghostVars>>

DeleteSessionMessages ==
    /\ hk = "delmsgs"
    /\ hist' = [hist EXCEPT ![cur] = <<>>]
    /\ hk' = "delsess"
    /\ UNCHANGED <<live, archive, index, timeVars, replyVars, todo, cur, copy,
                   faults, ghostVars>>

DeleteSession ==
    /\ hk = "delsess"
    /\ live' = live \ {cur}
    /\ cur' = NoSid
    /\ hk' = "next"
    /\ UNCHANGED <<hist, archive, index, timeVars, replyVars, todo, copy, faults,
                   ghostVars>>

\* Mutant: the index rows go first.
UnindexedFirst == /\ index' = index \ expired
                  /\ UNCHANGED archive

\* PurgeOld: the archive rows past the hard TTL, then their index rows.
PurgedFirst == /\ archive' = [s \in Sid |-> IF s \in expired THEN NoRow ELSE archive[s]]
               /\ UNCHANGED index

PurgeArchivedBefore ==
    /\ hk = "idle"
    /\ expired # {}
    /\ PurgedFirst
    /\ purged' = purged \cup {s \in expired : archive'[s] = NoRow}
    /\ todo' = expired
    /\ expired' = {}
    /\ hk' = "unindex"
    /\ UNCHANGED <<live, hist, aged, quiet, stale, replyVars, cur, copy, faults,
                   window, raced, stained>>

DeleteMessageIndexForSessions ==
    /\ hk = "unindex"
    /\ index' = index \ todo
    /\ todo' = {}
    /\ hk' = "idle"
    /\ UNCHANGED <<live, hist, archive, timeVars, replyVars, cur, copy, faults, ghostVars>>

\* PruneMessageIndex: the index rows older than messageIndexAge, whether their
\* session is archived or not.
PruneMessageIndex ==
    /\ hk = "idle"
    /\ index \cap stale # {}
    /\ index' = index \ stale
    /\ UNCHANGED <<live, hist, archive, timeVars, replyVars, taskVars, faults, ghostVars>>

\* PruneCompacted drops the rows before the last marker that are old enough.
\* Ids and timestamps grow together, so those are the first n, for some n.
KeptByPrune(h) ==
    {SubSeq(h, n + 1, Len(h)) : n \in {k \in 1 .. Len(h) : \E i \in Markers(h) : k < i}}

PruneCompacted ==
    /\ hk = "idle"
    /\ \E s \in Sid : \E kept \in KeptByPrune(hist[s]) :
          hist' = [hist EXCEPT ![s] = kept]
    /\ UNCHANGED <<live, archive, index, timeVars, replyVars, taskVars, faults, ghostVars>>

\* Any store call of a task may fail: the task returns and retries next period.
TaskFails ==
    /\ hk # "idle"
    /\ Fault
    /\ hk' = "idle" /\ todo' = {} /\ cur' = NoSid /\ copy' = NoRow
    /\ UNCHANGED <<storeVars, timeVars, replyVars, ghostVars>>

----------------------------------------------------------------------------
(* Time and crashes                                                        *)

Untouched(s) == /\ \A m \in Msg : to[m] = s => pc[m] \notin Active
                /\ cur # s /\ s \notin todo

\* Thirty days without a message: no step of anybody spans them.
GoCold(s) ==
    /\ s \in live /\ Untouched(s) /\ ~Cold(s)
    /\ aged' = aged \cup {s}
    /\ quiet' = quiet \cup {s}
    /\ UNCHANGED <<storeVars, expired, stale, replyVars, taskVars, faults, ghostVars>>

\* A year in the archive: long before it a cold session was swept again.
Expire(s) ==
    /\ archive[s] # NoRow /\ s \notin expired
    /\ Untouched(s) /\ ~Cold(s)
    /\ expired' = expired \cup {s}
    /\ UNCHANGED <<storeVars, aged, quiet, stale, replyVars, taskVars, faults, ghostVars>>

\* messageIndexAge after the last indexed answer: the session is in the archive,
\* or a revive that led to no answer has brought it back since.
StaleIndex(s) ==
    /\ s \in index \ stale
    /\ Untouched(s) /\ ~Cold(s)
    /\ archive[s] # NoRow \/ s \in aged
    /\ stale' = stale \cup {s}
    /\ UNCHANGED <<storeVars, aged, quiet, expired, replyVars, taskVars, faults, ghostVars>>

\* The process dies and boots again: what it held in memory is gone.
Crash ==
    /\ Fault
    /\ \E m \in Msg : pc[m] \in Active
    /\ busy' = {}
    /\ pc' = [m \in Msg |-> IF pc[m] \in Active THEN "lost" ELSE pc[m]]
    /\ load' = [m \in Msg |-> NoRow]
    /\ hk' = "idle" /\ todo' = {} /\ cur' = NoSid /\ copy' = NoRow
    /\ UNCHANGED <<storeVars, timeVars, to, ghostVars>>

ReplyStep(m) ==
    \/ ensureLive(m) \/ JoinRestore(m) \/ ArchivedSession(m) \/ RestoreTx(m)
    \/ Claim(m) \/ AppendUserMsgs(m) \/ AppendCompactionBatch(m)
    \/ AppendAnswer(m) \/ RecordSent(m) \/ FinishTurn(m)

TaskStep ==
    \/ ColdSessionIDs \/ NextCold \/ ExportCold \/ ArchiveRow
    \/ DeleteSessionMessages \/ DeleteSession
    \/ PurgeArchivedBefore \/ DeleteMessageIndexForSessions
    \/ PruneMessageIndex \/ PruneCompacted

Next ==
    \/ \E m \in Msg, s \in Sid : resolveBase(m, s)
    \/ \E m \in Msg : ReplyStep(m)
    \/ TaskStep
    \/ TaskFails
    \/ \E s \in Sid : GoCold(s) \/ Expire(s) \/ StaleIndex(s)
    \/ Crash

Spec == Init /\ [][Next]_vars

\* A reply's goroutine and the housekeeper's worker are scheduled fairly, the
\* worker gets to a sweep that is due again and again (Housekeeper), and a turn
\* ends however often it compacts; nothing forces a message, a fault or the
\* passing of a month.
Fairness ==
    /\ WF_vars(TaskStep) /\ SF_vars(ColdSessionIDs)
    /\ \A m \in Msg : WF_vars(ReplyStep(m)) /\ WF_vars(FinishTurn(m))

FairSpec == Spec /\ Fairness

----------------------------------------------------------------------------
(* What is true                                                            *)

Spared == raced \cup stained \cup purged

\* The transcript a turn ought to replay is never lost, truncated, doubled or
\* reordered by archiving, reviving, pruning, retrying or crashing in between:
\* while an archive row exists it replays to it, otherwise the session is live
\* and its rows do (ArchiveCold's write order and Restore's transaction).  The
\* exceptions are the sessions a turn entered under the sweep (the window the
\* code comments concede), those that got rows on top of a leftover archive
\* row, and those whose archive row was purged.
TranscriptKept ==
    \A s \in Sid \ Spared :
        IF archive[s] # NoRow THEN Replay(archive[s]) = window[s]
        ELSE s \in live /\ Replay(hist[s]) = window[s]

\* A session whose archive row stands leaves the reply index for one reason
\* only, the age of its last indexed answer: the purge never takes the index
\* rows before the archive row, and no sweep, revive, fault or crash does
\* (PurgeOld's order, PruneMessageIndex).
ArchivedIsReachable ==
    \A s \in Sid \ purged : archive[s] # NoRow => s \in index \cup stale

\* The backlog of cold sessions is worked off: when no more get cold, each of
\* them is archived or in use again, although a sweep
\* takes only a batch of them and a fault on one session cuts it short for the
\* ones behind it (ArchiveCold returns at the first error and is run again).
ColdIsArchived == (\E s \in Sid : Cold(s)) ~> (\A s \in Sid : ~Cold(s))

\* Every reply gets through the restore and the queue behind it: when no more
\* come, none is under way.
RepliesComplete ==
    (\E m \in Msg : pc[m] \in Active) ~> (\A m \in Msg : pc[m] \notin Active)

----------------------------------------------------------------------------
(* What a comment says and the code does not do                            *)

\* 40-archive.go: "ArchiveRow is ON CONFLICT DO NOTHING, so a crash anywhere is
\* safe to retry" - the transcript is kept although rows were added between the
\* crash and the retry.
RetryIsSafe ==
    \A s \in Sid \ (raced \cup purged) :
        s \notin live /\ archive[s] # NoRow => Replay(archive[s]) = window[s]
=============================================================================

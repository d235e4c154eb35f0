# A formal model of agentBob

agentBob is a self-hosted, chat-first AI agent: messages come in from Telegram,
Discord, Feishu, email or a console, are routed to a conversation session, and
every session runs one model turn at a time, with tools, memory and a small
organisation of agents around it. This directory holds TLA+ models of its core,
the TLC configurations that check them on small instances, and TLAPS proofs of
the results that matter most for every instance. `PROJECT.json` lists
components, runs, mutants, the map from definitions to source lines, findings,
hazards and theorems.

## Inventory

The repository has five layers: `contract` (interfaces), `heartwood` (shared
helpers), `trunk` (registry, life cycle, housekeeper), `leaf/*` (modules) and
`flow/*` (orchestration). Modules reach one another only through capabilities
they find in the trunk's registry.

| part | state | operations | what is hard | what makes it correct |
|---|---|---|---|---|
| `leaf/session` arbiter | `Manager.mu` and its maps: busy, token (`sidMeta`), pending queue, nudged, dropped, closing, cancels; the write-ahead table `bob_pending_inbound` | submit, run turn, nudge, drain, panic recovery, `/new`, `/close-session`, stop, boot | store calls outside the lock, a close between two critical sections, panics, crash | one turn per session, nothing lost or doubled, no residue in an idle session, FIFO per sender, every message settles |
| `leaf/session` archive | `bob_sessions`, `bob_messages`, `bob_sessions_archive`, `bob_message_index` | cold sweep, revive on reply (singleflight), purge, prunes of rows and of the index, compaction | no lock between sweep and replies, a crash between statements, snapshot lists | the transcript survives, archived sessions stay reachable |
| `trunk` life cycle | registered modules, registry, started stack | topological sort, start, skip, abort, unwind, stop | cascades of optional failures, half-initialised capabilities | a running module's providers run; a failed boot leaves nothing; stop in reverse |
| `trunk` housekeeper | task list, due times, failure counts, wake channel | register, collect, run, back off, start, stop | lost wake-ups, stop against a running task, backoff arithmetic | no task late for want of a wake-up, none after stop, none twice in a period |
| `leaf/arrangement` | definitions and items of work in role buckets (two tables), a queue of wakes, cooldowns | define, inject, pull, submit, cancel, select, reclaim, drain, prune | no transactions: claims by compare-and-swap, lease reclaim, check-then-insert, count-then-close | a closed arrangement holds no stray work, a member is woken once, every item gets somewhere |
| `leaf/model` | entry rows (breaker, pause), the table pointer, heartbeat flag, two outage latches; slots, wait queue | pick, chat, fail over, record success or error, probe, pause, resume, reload | an on-demand heartbeat that stops itself, a table swapped under running calls, saturation against death | dead entries are probed, one heartbeat, one page per outage; slots balance, no silent downgrade, requests end |
| `leaf/turn` | turn state (budget, guards, failed side effects, gates), the transcript, the sink, held pictures | persist, compact, nudge, model round, tool round, gates, salvage, panic backstop | a dozen doors, cancel or crash between rows, judges that take seconds | one finish per turn, paired calls and results, honest footers, history equals what was shown |
| `leaf/stoma` and sources | connections, send queues, stream buffers | receive, coalesce, stream, send, retry | rate limits, albums, reconnects | no message dropped or sent twice, final edit last |
| `leaf/adminline`, `leaf/retrieval`, `leaf/accounts`, `leaf/claimtoken` | bounded queues, an outbox, usage buffers, tokens | enqueue, deliver, retry, redeem | crash between send and mark, two redeemers | at-least-once, single use |
| `leaf/agora`, `leaf/warrant`, `leaf/gate` | organisation cache, grants, policy files | reload, reconcile, authorize | stale caches, file rewrites | decisions follow the current policy |
| `leaf/tools`, `leaf/skills`, `leaf/learn`, `leaf/webui`, `leaf/modelgate`, `leaf/asr`, ... | mostly stateless I/O | | image-creation log, browser pool | |

How they interact: `main` registers all modules with the trunk and calls `Start`;
each module's `Start` provides its capabilities and registers its periodic tasks
with the housekeeper; sources hand messages to `flow/inbound`, which submits them to the
session arbiter; a turn calls the router, which calls a flow, which calls the
turn loop and the model pool; the arbiter drains the queue afterwards. The
archive sweep, the purge and the prune are housekeeping tasks. On SIGTERM the
trunk stops the housekeeper, then the modules in reverse.

## Modules

| module | models | kind |
|---|---|---|
| `SessionArbiter` | `leaf/session` 30-arbiter, 40-submit, 55-queue, 10-manager, 50-sid, 60-recovery, 70-shutdown, `/new` and `/close-session`, `flow/inbound` Stop | component |
| `SerialSessions` | what the arbiter promises | abstract specification |
| `SessionArbiterRefinement` | the refinement mapping | composition |
| `SessionArbiterProofs` | its theorems, the refinement included | proofs |
| `SessionArchive`, `SessionArchiveProofs` | `leaf/session` 40-archive, 20-resolver, `store/60-archive`, `messages/` | component, proofs |
| `Housekeeper`, `HousekeeperProofs` | `trunk/30-housekeeping.go` | component, proofs |
| `Trunk`, `TrunkProofs` | `trunk/20-lifecycle.go`, `10-registry.go`, start and stop in `main` | component, proofs |
| `Arrangement`, `ArrangementProofs` | `leaf/arrangement` 30-dispatch, 40-impl, `store/` | component, proofs |
| `ModelHealth`, `ModelHealthProofs` | `leaf/model` 10-multipool (breaker, latches, pause), 50-heartbeat, 60-reload | component, proofs |
| `ModelFailover`, `ModelFailoverProofs` | `leaf/model` 30-pick, 40-chat, the wait queue of 10-multipool | component, proofs |
| `TurnLoop`, `TurnLoopProofs` | `leaf/turn` 10 to 90, `GetReplay` of `session/messages` | component, proofs |
| `MC*` | instances for TLC | |

`SessionArbiter` treats a turn as one open step; `TurnLoop` is what happens inside it.
`TurnLoop` treats a model call as an open choice; `ModelFailover` is what happens inside
that one, and leaves the eligibility of an entry open, which `ModelHealth` explains.

### SessionArbiter

One routing scope. Every critical section of `Manager.mu` and every store call is
an action. `runs` is the set of live `runTurnAndDrain` goroutines; each is a record
with its session, token, batch and phase (record the WAL rows, register the
cancel function, run, served, drain). A queue is the set of its messages, ordered by
arrival stamps, because the slice is only appended to and deleted from. `fate` is a
history variable that says where a message is or how it left. A message has a sender,
a kind (text, image, album member, internal event) and a text for deduplication:
that is all the admission, the nudge and the drain look at. Left out: notices,
reactions and the stamps a session carries for the model. Every message has a `MessageID` of its own,
so neither the redelivered attachment of `queueDedup` (55-queue.go:70-75) nor the row that
`recordPending` skips for want of an id (40-submit.go:411) arises. Opening a session is one
step, that of the cursor's write: nobody can have resolved the new sid before, and a crash between row
and cursor leaves what a failed cursor leaves. The overflow of a queue is followed up to the `HadDrops` of
the turn's work; the flow does not show it to the user yet (`contract/60-session.go:113-116`).

### SessionArchive

A session is a row and a transcript; every store call of the sweep, the restore, the
purge, the prune and of a turn is an action; any of them may fail and the process may
crash, `MaxFaults` times in all. Age is four sets (`aged`, `quiet`, `expired`, `stale`) that
only the environment fills: a live session's age and its silence, an archive row past its TTL, a
session whose last indexed answer is older than `messageIndexAge`. Archive rows and index rows age from
different moments, so either may go first. `PruneCompacted` takes any old enough prefix of the rows before
the last marker. The delivery of an answer, its row and its index row are separate steps. A reply is to
the newest indexed message of its session, so the index is a set of sessions. When the index cannot be
read, a reply joins the scope's active session. `window` is the history of what a turn ought to replay;
`raced`, `stained` and `purged` record the windows the code's comments concede.

### Housekeeper

Time is counted in ticks, and `rem[t]` is the distance to `nextDue`. A call of
`Register` has two steps (append under the lock, then signal), `stop` has three (flag,
cancel, wait). A run takes any number of ticks and succeeds or fails. The trunk calls
`start` only before `stop`, which is the guard `~stopped` of the action.

### Trunk

`Init` chooses what the modules declare. Kahn's algorithm runs step by step on the
code's in-degrees and FIFO queue. A module's `Start` registers any part of what it
declared and succeeds or fails. `Sweep` is a housekeeping task of a running module:
the modules of this program register tasks only after the last step of `Start` that
can fail.

### Arrangement

Every statement that writes the two tables is a step: the selector (`sel`: list stale claims,
reclaim, serve buckets, heal unmet ones), the drainer (drop or emit a wake, then stamp the
cooldown), the woken turns (pull, submit, route, report, complete) and the calls of
`Define`, `Inject` and `Cancel`. `calls` holds the calls between two of their statements, any number of
them up to `MaxCalls`: `Define` counts the running definitions, inserts its own and then the kickoff item,
and takes both back when that fails; `Inject` checks and inserts; `Cancel` closes the definition and then its
items. `Running` is what the session manager answers, `unstaffed`, `revoked` and `paused` what the
organisation answers. `late` and `half` are histories: items put behind an already closed definition by a
call that started before (an `Inject`, the kickoff of a `Define` that was cancelled meanwhile, the
requeue of unmet buckets), and cancels that failed between their statements. These are windows the
code has; `ClosedIsSettled` says that there is no other.

Merged, each being reads and one write: `ServeBuckets` lists, checks and parks the buckets of one
pass of the selector in one step; `Submit` reads item and definition in one step, and the conditional update
that decides (`RouteItem`) is a step of its own; a woken turn ends with its submit.

### ModelHealth

A table is a function from entries to rows, and `gen` is the atomic pointer; a call keeps the
table it started with, so it may record an error on a row nobody reads any more. The heartbeat
goroutine is split where its lock is released (`Tick`, `Ping`, `OnRecovery`, `Decide`,
`Rescan`, `Rearm`), since its exit races with `Ensure`. `Panicked` is the net under its loop: the flag
is released and the goroutine gone, and nothing probes until the next `Ensure`, which is the one exception
`DeadIsProbed` makes. Time is what it decides: a
cooldown is `cooling` or `lapsed`, a probe is `held` or not; only a row that nobody probes lapses. `pager` is
the history of what the administrator was told. Merged: the scan behind the latches (`DeadKindsOf`) reads
all rows at once, though the code locks them one after the other, and `SetPause` looks the row up and
writes it in one step, so a pause that lands on a row of a table swapped out in between is not explored.

### ModelFailover

The driver loop of one request: choose, take a slot or mark the entry saturated, wait when an
entry that carries the required tags is only busy, fail over on an error, stop when nothing
is left. Rules for falling back on other tags may form a cycle, which `fallbackChain` cuts at
`maxFallbackHops` and at repetitions. Every entry has a concurrency limit here. Eligibility changes
under the requests, `MaxTurns` times: a request therefore need not find every wanted entry dead at one
moment to downgrade. `NoSilentDowngrade` says what the code does guarantee: when a request turns to an
entry without the required tags, the wait queue has no room, or the request has itself failed on every
wanted entry that is eligible at that moment. `TryEntry` is one step: it judges at one moment what the code
reads in four looks without a lock (40-chat.go:312, 356, 388, 401), none of which blocks. A change of health
between two of those looks is not explored, and `NoSilentDowngrade` is about looks that fall together.

### TurnLoop

The transcript `hist` survives turns and crashes; the rest belongs to one turn. `pc` names the
place in `Run`, the driver or the round; every store call, model call and finish is a step,
with a cancel, a panic or a crash between any two. A reply takes three: `finalizeTurn` looks at the
context, the row is written on it (`StoreReply`; the turn goes on when the write fails), the sink is finished
(`FinishReply`). `round.reply.cut` notes that the context died between the look and the write. Texts are the names of their kinds. The
model's answers, tool outcomes, judges and the context's size are open. `world` records what
became of the last attempt of each call, independently of the turn's own bookkeeping: a batch may hold
the same call twice, and then the later result counts. A result is
"new" or "again" by the hash the code compares.

The rebuild of a replay is two passes of the code over its rows. Here it is said by position: a
mended replay has the places `<<i, 0>>`, the rows kept, and `<<i, j>>`, the lost result of the j-th call of
row i, and `InOrder` puts them in lexicographic order. The k-th message is the place of rank k.

## Runs

Each property has a mutant in `PROJECT.json`: a plausible bug of the mapped code under
which TLC finds the property violated in the same run.

| run | instance | shows |
|---|---|---|
| `arbiter_sessions` | two messages; two sessions, or one and a restart; failing store calls, under fairness | `OneTurnPerSession`, `BusyHasTurn`, `IdleIsClean`, `ClosingStartsNothing`, and the refinement `ImplementsSerialSessions`, and `EveryMessageSettles`, with panics, closes, a stop and a crash |
| `arbiter_rush` | four messages on one session of a process that stays up, queue cap 2 | `Conservation`, `WalMirrorsTurns`, `SenderOrder`, `OverflowAnnounced` |
| `archive` | two replies to one session, or one reply and two cold sessions with a batch limit of 1; one fault, under fairness | `TranscriptKept`, `ArchivedIsReachable`, `RepliesComplete`, `ColdIsArchived` |
| `archive_retry_comment` | as `archive` | violation: "a crash anywhere is safe to retry" |
| `housekeeper` | a short, a long and an invalid task, under fairness | `SleepsNotTooLong`, `QuietAfterStop`, `NotTooOften`, `DueTasksRun`, `StopCompletes` |
| `trunk` | three modules, three capabilities, four ways to provide them, any needs, any optional modules | `DependenciesOutlive`, `CapsAreBacked`, `NothingLeftBehind`, `SweepsOnLiveModules`, `SortIsCorrect`, `LifeCycleSettles` |
| `arrangement` | two items, two stages served by one member, two turns; three calls under way, or one disturbance and calls one at a time; under fairness | `ClosedIsSettled`, `OneWakePerMember`, `ItemsSettle` |
| `arrangement_reclaim_doc` | as `arrangement`, one member per stage, two calls | violation: a claim is reclaimed only if its holder is not running |
| `model_health` | two entries, two callers; four calls, or two calls and one reload, pause (with its resume), panic or close | `DeadIsProbed`, `OneHeartbeat`, `OnePagePerOutage` |
| `model_failover` | two entries with one slot each, three requests and a pinned one, cyclic fallback rules, two changes of health, under fairness | `NothingLeaks`, `NoSilentDowngrade`, `RequestsEnd` |
| `turn` | one turn of seven rounds with one disturbance, or two turns of three rounds with two; four batches of tool calls | `SettledAtEnd`, `ReplayWellFormed`, `AnswersDisclose`, `HistoryMatches`, `RoundsAreBounded` |
| `turn_store_comment` | as `turn` | violation: "what gets Finished and what gets persisted always agree" |

Type correctness is proved (below) for every component and is not a property of a run.

Bounds and why they are enough. With cap 2, one message runs, two wait and the fourth
overflows or splits a mixed queue, so `arbiter_rush` reaches every branch of the admission
and the drain; faults and restarts are crossed with fewer messages (`arbiter_sessions`). Two sessions are
needed only for what crosses sessions (`/new`, replies, the cursor). A retry bound of 1
reaches both outcomes of the retry loop. In the archive, two replies meet in the
restore or one comes late; `MaxRows` 4 exceeds the replay cap 2; one fault
separates an interrupted sweep from its repetition. With two sessions and a batch limit of 1
a sweep leaves one cold session behind, and a fault or a turn on the first keeps it from the second;
faults are transient there, as everywhere: a session that fails at every sweep would hold up the others. The housekeeper's periods lie on
either side of the boot grace and of the backoff cap. Three modules with three
capabilities contain chains, shared providers and cycles of length two and three.
Two items are enough for one to complete an arrangement while the other is injected, and for
one member's wakes to compete; three calls are a `Define` between its statements, the `Cancel` that meets it
and an `Inject`. Two entries of a kind are one that dies while the other serves and
both dead; four calls kill both entries by consecutive failures and by the window. Four
requests on one slot fill a queue of two places and find it full; with two changes of health an entry
dies and comes back under a request that has passed it over. In `turn`, one batch asks for the same
call twice, a loop cap and a progress
budget of 2, a retry cap of 1 for either gate and a replay cap of 3 rows are all reached
within seven rounds, and the cut of the replay falls between calls and results.

Three MC modules narrow `Next` so that safety and liveness fit in one run: `MixNext` (no restart once
two sessions are open, ids in order), `PairNext` (two cold sessions or two replies; compactions
only of one session whose index rows are young) and
`CrowdNext` (several calls at once, or a disturbance). What they withhold are steps of users, of time or
of faults, or one of several outcomes of a fair step, so the fairness below can still be met from every
state. The theorems are about the unrestricted specifications.

Fairness. The Go scheduler runs every goroutine that can move; a turn, a module hook
and a housekeeping task return (turns are bounded by rounds and timeouts, and their
context is cancelled on a close); time passes; the housekeeper's select picks ready
cases at random, so a cancelled context is not ignored for ever (strong fairness). A request
that waits for a slot blocks on a Go channel, whose receivers are served in order: when the
slot is freed again and again, it gets one (strong fairness of `GetSlot`). The housekeeper comes to a
task that is due again and again, its others notwithstanding (`DueTasksRun`): strong fairness of
`ColdSessionIDs`; and a turn ends however often it compacts (weak fairness of `FinishTurn`). In the
arrangement, timers fire, woken turns submit, leases and cooldowns run out, and a lost
role or a pause is repaired some day. Nothing is assumed of users, panics, crashes, faults, or of the
signal that asks the process to stop. Deadlock checking is off where the system comes to
rest: replies done, process down, no item left, budgets of calls, rounds and disturbances spent.

## Findings

1. `ArchiveRow` keeps the payload of an interrupted sweep (`ON CONFLICT DO NOTHING`)
   although the still-live session got messages since; the next sweep then deletes those
   messages and no row holds them (`archive_retry_comment`).
2. The selector checks the holder named by its list of stale claims, but `RequeueInFlight` only
   asks for `status = 'in_flight'`: a claim taken since is revoked while its holder's turn runs
   (`arrangement_reclaim_doc`).
3. `finalizeTurn` looks at the context and then writes on that same context: a cancel in between loses the
   row of a reply that is shown (`turn_store_comment`). `HistoryMatches` is about every other reply.

Other places where code and comment part, met while modelling and not run:

- `leaf/session/20-resolver.go`: of two concurrent replies "the loser joins the winner's result". The
  singleflight around `Restore` joins only calls that overlap: a reply that saw the session archived
  and asks after the other's restore is over (`JoinRestore` comes too late, `ArchivedSession` reads no row)
  opens a fresh session, although the old one is live again. The model has these behaviours.
- `leaf/session/00-module.go`: the index "MUST cover the cold-archive revive window". Index rows age from the
  last delivered answer and archive rows from the sweep, with the same year: the index row goes first, and
  for the rest of its time the archive row cannot be revived. Outside that `ArchivedIsReachable` holds.
- `leaf/session/40-archive.go`: the list of cold sessions is a snapshot; a session used since is
  archived while warm. Its transcript survives.
- `leaf/session/10-manager.go`: the WAL rows are written after the session is marked busy, outside
  the lock, not before.
- `leaf/arrangement/40-impl.go`: a definition whose terminal report was lost stays open "so that
  the loss shows", but the completion of a later item closes it.
- `leaf/model/10-multipool.go`: the all-dead latch is not recomputed when a cooldown lapses, so a
  second outage right after may go unpaged.
- `leaf/turn/20-round.go`: `finalizeTurn` is said to get texts that include the footer of failed side
  effects; the notices of an unreachable model, a prompt too long and a broken stream do not.
- `leaf/turn/12-driver-regular.go`: a turn cancelled in its last round leaves by the round cap and
  sends a salvage reply, where the salvage file says a cancelled turn is silent. When the calls of a
  round cannot be stored because the context died, the turn shows a storage notice instead.

While modelling `topoOrder` we also noticed that its comment promises registration order
among modules without outstanding dependencies, while the FIFO queue places a module that
was just freed behind later-registered ones. The order is deterministic all the same.

## Proofs

All constants are arbitrary within the `ASSUME`s of the component modules; TLC evaluates
those assumptions in every run. Every safety invariant and every action property of the runs is stated
by a theorem.

`SessionArbiterProofs` (any messages, sessions, caps, retry bounds).

- `TypeCorrect`, `TurnsAreExclusive`, `IdleSessionsAreClean`, `BusySessionsHaveTurns` follow from
  `ArbiterInv`. Exclusiveness alone is not inductive: a drain may hand the session
  on only because the goroutine holds the token (`owns`), and a session may be claimed only if the
  last goroutine left nothing behind, so the proof carries `IdleIsClean` and what each
  phase of a goroutine has registered (`TurnPhases`) along. `FrontIsFirst` uses that the
  naturals are well founded: a non-empty queue has an oldest message.
- `MessagesAreConserved` and `SendersAreServedInOrder` follow from `MsgInv`, which adds that a drained
  batch is over (`DrainedIsOver`) and that stamps grow with arrival (`StampsOK`). The steps
  that end a batch (drain, exit, panic) have one shape, `TurnedOver`: the batch is settled, and some of
  the queue is taken as the next batch or dropped. Each is shown to have it once.
- `WalIsExact` has the hypothesis `~StoreMayFail`: a deletion that fails leaves a row behind, which the
  boot's recovery is there for.
- `ClosingSessionsStartNothing` and `OverflowIsAnnounced` are action properties.
- `ArbiterImplementsSerialSessions` is the refinement: every step of the arbiter is a step of
  `SerialSessions` or a stutter, under the mapping of `SessionArbiterRefinement`. It needs that
  messages in hand are at a session and that no batch is empty (`PlacesOK`).

`SessionArchiveProofs` (any replies, sessions, replay caps, batch limits). `TranscriptsSurvive`,
`ArchivedSessionsAreFound` (which leaves the age of the last indexed answer as the only way out of the
index). The lemma everything hangs on is `DropKeepsReplay`: rows
before the start of the replay can be dropped without changing it; export, prune, restore
and compaction are cases of it. The invariant `ArchiveInv` says, for every session that is not `Spared` (raced,
stained or purged: the windows the code concedes), where its window is kept at each moment: in the live
rows, in the payload of a sweep or a restore in flight, or in the archive row (`KeptInv`). The
archive keeps at least as many rows as a replay reads (`CapAssumption`).

`HousekeeperProofs` (any finite set of tasks, any periods and caps). `NoLostWakeup`,
`StopIsFinal`, `BackoffSane`, `AtMostOncePerPeriod` and the type invariant. The invariant adds the
agreement of worker state, batch and current task, and `Schedule`: the time since
a task was collected and the time until it is due again make up at least one period. The
provers do not know exponentiation: that a power of two is a natural is the size of a set of
subsets (`PowerIsNat`). `BackoffIsSane` is one step of arithmetic and only proved.

`TrunkProofs` (any finite set of modules, any declarations, any failures).

- `ProvidersOutlive`, `RegistryIsBacked`, `BootUnwinds`, `SweepsAreSafe` and the type invariant.
  `StackInv` is the heart of it: the running modules are the started stack, without repetition, and
  each lies above providers of all it needs, so removing the top never strands one below. No module is
  started twice because none is placed twice (`SortInv`).
- `TrunkSortIsCorrect`: Kahn's algorithm as `topoOrder` writes it. `KahnInv` says that an in-degree counts
  the providers not placed yet, that a module whose count is zero is queued or placed, and that a placed
  module comes after its providers. When the queue runs dry before all are placed, the rest is a cycle,
  each having a provider in the rest; when all are placed there is none, since the first placed module
  of such a set would have a provider before it.

`ArrangementProofs` (any definitions, stages, members, slots). `ArrangementClosedIsSettled`: a call under way
past `InsertDef` has its definition behind it (`CallsOK`), which another call may have closed or pruned
since, and behind a completion that has counted no live item only calls that started earlier can add one
(`CompleteOK`). `ArrangementOneWake`: who is woken and not yet
registered with the session manager is cooling, or about to be stamped (`WakesCool`).

`ModelHealthProofs` (any entries, kinds, callers). `HealthOneHeartbeat`, `HealthDeadIsProbed`,
`HealthOnePage`. The flag stands exactly while one goroutine probes, the windows between its decision to
exit and its second look excluded (`FlagOK`); a start forgets the goroutines that fell and touches none
that probes (`RestartedOK`); a standing page has its latch up, and a
page of an outage has the outage (`PagesOK`). Asking a row for its eligibility changes the row
(a lapsed cooldown) and neither answer, which is a lemma of its own.

`ModelFailoverProofs` (any entries, slots, tags, rules and a finite set of requests).
`FailoverNothingLeaks` counts waiting requests and held slots (`WaitCount`, `HoldCount`);
`FailoverNoSilentDowngrade` needs that a request which may still fail over has tried an entry only by
finding it full or by failing on it (`TriedOK`). The capacity of the wait queue
counts the slots as a set of pairs, finite when the entries are (`CapacityIsNat`).

`TurnLoopProofs` (any batches, caps, budgets, any number of turns and crashes).

- `TurnSettles`, `TurnDiscloses`, `TurnHistoryMatches` follow from `TurnInv`. The failures the turn
  remembers are those of the world, except, while results are recorded, for calls whose last result is
  still to come (`RecordingOK`); that exception is what makes the footers honest for a batch that
  repeats a call. Between the look at the context and the finish of the
  sink the proof carries the reply itself (`ReplyOK`): its footer, and that its row is the transcript's last
  once written, unless the context died behind the look.
- `TurnReplaysAreWellFormed` follows from `TranscriptInv` (`TurnTranscript`): no id is called or answered
  twice (`Tidy`), and every stored result stands right behind its calls and the results stored before it
  (`Paired`); while results are being stored the transcript ends in the calls of the round
  (`RecInv`). A replay's cut can sever results only at its head, where `dropOrphanToolRows` removes them
  (`TailReplayable`, `DropPairs`); a compaction cuts before a row that is no result (`SplitAtHead`) and
  severs none. `RepairPairs` is about `repairOrphanToolCalls`: each call of a row has one stored result behind it or one
  place for a made one, never both, so the block behind the row has as many places as calls
  (`BlockSize`), they are the ranks right behind the row (`BlockRanks`), and `WellFormed` reads off that.
  This is counting with finite cardinalities, where a definition by recursion over the rows would need an
  induction that the installed provers cannot instantiate.
- `TurnRoundsAreBounded` follows from `RoundsInv`: a round runs below the limit, the limit is at most one cap per
  redo counted and one for the first attempt, and the redos counted are within their caps until a gate
  ends the turn. The two gates exclude each other for one delivery and not for a turn (a skill viewed
  between two reviews arms the rubric), so a looping turn's bound is the sum of both; TLC reaches it.

Only model-checked: all liveness (`EveryMessageSettles`, `RepliesComplete`, `ColdIsArchived`, `DueTasksRun`, `StopCompletes`,
`LifeCycleSettles`, `ItemsSettle`, `RequestsEnd`), since fairness and `ENABLED` are out of the prover's reach.

## Not modelled

Platform I/O, prompts, formatting, the web panel, speech, sidecars, vendored code: they have
no protocol to check. Retention periods are not measured: `expired` and `stale` are sets, filled in
either order. Panics of `Provide` on a duplicate, nil or
non-interface type are wiring errors. A module that registers a capability it did not declare is
left out. In the model pool, usage accounting, cache affinity, the stream watcher and the provider
clients; in the turn, sub-turns, the advisor's stall consult, prompt layers, token weighing and the
streamed bytes. Model-supplied call ids are taken to be unique in a replay, as the ids the turn makes
itself are. The components the plan has left are listed in `PROJECT.json`.

Hazards that no property covers: a pause, death or recovery recorded on an old row
between `copyLiveness` and the swap is lost, and a reload gives every entry a fresh semaphore
beside the old one (`leaf/model/60-reload.go`; the code promises neither); `ClaimTop` checks an item's
status and not its role (`leaf/arrangement/store/30-items.go`); internal events bypass the
queue's cap (`leaf/session/40-submit.go`); a backend that repeats its call ids across rounds, and a
nudge lost to two store errors in one round (`leaf/turn/40-pipeline.go`, `80-nudge.go`).

## Plan

1. Proofs: the step to liveness (what each fair action makes progress on) as invariants.
2. `SendQueue`, `StreamSink`, `AdminLine`, `Outbox`: queues with retries and crashes.
3. Compositions: the archive sweep as a housekeeper task under the trunk's life cycle;
   the arbiter's admission with the archive's restore; the turn inside the arbiter.

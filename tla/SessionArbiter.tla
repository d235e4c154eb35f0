--------------------------- MODULE SessionArbiter ---------------------------
(***************************************************************************)
(* The session arbiter of agentBob (leaf/session): the part of the Manager *)
(* that decides, for every inbound message, whether it starts a turn, joins *)
(* the queue of a running turn, or is refused, and that runs a session's   *)
(* turns strictly one after the other.                                     *)
(*                                                                         *)
(* The module models one routing scope.  A message travels through three   *)
(* goroutines' code: submit (resolve a session id, then the locked         *)
(* admission), runTurnAndDrain (record the WAL rows, register the cancel   *)
(* function, run, release, clear the rows, drain), and the slash command   *)
(* /close-session.  Every critical section of Manager.mu and every store   *)
(* call is one action, so all their interleavings are explored; so are a   *)
(* panic of a turn, an orderly stop, a crash and the following boot.       *)
(*                                                                         *)
(* A queue m.pending[sid] is only ever appended to and deleted from, so it *)
(* is the SET of its messages together with their arrival stamps; the      *)
(* slice order is the stamp order.  Chat notices, reactions and the stamps *)
(* a session carries for the model (tags, mode, admin bit) are left out.   *)
(* Every message has a MessageID of its own: the two places that look at   *)
(* an empty or a repeated one (queueDedup's redelivered attachment and     *)
(* recordPending's skipped row) do not arise.                              *)
(***************************************************************************)
EXTENDS Naturals, FiniteSets

CONSTANTS Msg,          \* inbound messages
          Sid,          \* session ids the store can hand out
          NoSid,        \* "no session resolved yet" / "no active session"
          MaxBatch,     \* Config.MaxBatch, the queue cap for human messages
          MaxRetry,     \* maxCloseRetries
          UserOf,       \* UserOf[m]: the sender (Source + UserID)
          KindOf,       \* KindOf[m]: what the admission and drain look at
          TextOf,       \* TextOf[m]: the content key of queueDedup
          StoreMayFail, \* TRUE: store calls may return an error
          MaxRestart    \* bound on the number of boots after the first

Kinds == {"text", "image", "album", "internal"}
Routes == {"active", "reply", "fresh"}
Phases == {"record", "register", "run", "served", "drain"}
Ctls == {"live", "asked", "cancelled"}

\* What became of a message, a history variable: where it is now, or how it
\* left the arbiter.
Moving == {"new", "routing", "queued", "running", "nudged"}
Settled == {"served", "aborted", "panicked", "full", "dup", "closing",
            "error", "discarded", "lost"}

ASSUME SidAssumption == NoSid \notin Sid
ASSUME BoundAssumption ==
    /\ MaxBatch \in Nat \ {0}
    /\ MaxRetry \in Nat
    /\ MaxRestart \in Nat
    /\ StoreMayFail \in BOOLEAN
ASSUME KindAssumption == KindOf \in [Msg -> Kinds]

VARIABLES
    power,     \* "up", "stopping" (the inbound context is cancelled), "down"
    restarts,  \* boots so far
    opened,    \* rows of bob_sessions for this scope
    active,    \* the scope's active session (the cursor)
    wal,       \* rows of bob_pending_inbound: messages of an in-flight turn
    fate, route, at, tries,   \* per message: submit's local state
    stamp, arrivals,          \* arrival order under Manager.mu
    busy, meta, pending, nudged, dropped, closing, cancels, turnSeq,
    runs       \* the live runTurnAndDrain goroutines

storeVars == <<opened, active, wal>>
msgVars == <<fate, route, at, tries, stamp, arrivals>>
lockVars == <<busy, meta, pending, nudged, dropped, closing, cancels, turnSeq>>
vars == <<power, restarts, storeVars, msgVars, lockVars, runs>>

Runs == [sid: Sid, token: Nat, batch: SUBSET Msg, phase: Phases, ctl: Ctls,
         pre: SUBSET Msg, drops: BOOLEAN]

\* Types of every variable; the starting point of the proofs.
TypeOK ==
    /\ power \in {"up", "stopping", "down"}
    /\ restarts \in Nat
    /\ opened \subseteq Sid
    /\ active \in Sid \cup {NoSid}
    /\ wal \subseteq Msg
    /\ fate \in [Msg -> Moving \cup Settled]
    /\ route \in [Msg -> Routes]
    /\ at \in [Msg -> Sid \cup {NoSid}]
    /\ tries \in [Msg -> Nat]
    /\ stamp \in [Msg -> Nat]
    /\ arrivals \in Nat
    /\ busy \subseteq Sid
    /\ meta \in [Sid -> Nat]
    /\ pending \in [Sid -> SUBSET Msg]
    /\ nudged \in [Sid -> SUBSET Msg]
    /\ dropped \subseteq Sid
    /\ closing \subseteq Sid
    /\ cancels \subseteq Sid
    /\ turnSeq \in Nat
    /\ runs \subseteq Runs

(* ----------------------------- Operators ------------------------------- *)

Internal(m) == KindOf[m] = "internal"

\* Give every message of set M the fate f.
SetFate(M, f) == [m \in Msg |-> IF m \in M THEN f ELSE fate[m]]

sameSender(m, n) == UserOf[m] = UserOf[n]

\* Mutant: takes the newest message.
FrontNewest(q) == CHOOSE m \in q : \A n \in q : stamp[n] <= stamp[m]

\* The message of queue q that arrived first.
Front(q) == CHOOSE m \in q : \A n \in q : stamp[m] <= stamp[n]

\* Only plain text deduplicates: the same words of the same sender, queued.
\* (The code compares UserIDs alone; the human messages of one scope come from
\* one source.)
queueDedup(s, m) ==
    /\ KindOf[m] = "text"
    /\ \E n \in pending[s] : /\ KindOf[n] = "text"
                             /\ TextOf[n] = TextOf[m]
                             /\ sameSender(n, m)

\* Internal events bypass the cap of the queue.
HasRoom(m, s) == Internal(m) \/ Cardinality(pending[s]) < MaxBatch

\* The follow-up batch of a non-empty queue: one event when an album leads or
\* an image is queued anywhere, otherwise everything of the leading sender.
pickNextDrainBatch(q) ==
    LET h == Front(q)
    IN  IF KindOf[h] = "album" \/ \E m \in q : KindOf[m] = "image"
        THEN {h}
        ELSE {m \in q : sameSender(m, h)}

\* Mutant: the batch that starts is not taken off the queue.
UnqueueKeeps(s, M) == pending

\* Take the messages M off the queue of s.
Unqueue(s, M) == [pending EXCEPT ![s] = @ \ M]

\* Mutant: a batch split forgets the overflow.
LatchForgets(s, q, b) == dropped \ {s}

\* The overflow latch after batch b of queue q starts: it rides the last batch.
LatchAfter(s, q, b) == IF q = b THEN dropped \ {s} ELSE dropped

\* Mutant: the sid is not given back.
FreeSidForgets(s) == UNCHANGED <<busy, meta>>

\* The sid is idle again.
FreeSid(s) == busy' = busy \ {s} /\ meta' = [meta EXCEPT ![s] = 0]

\* Mutant: the closing flag outlives the turn.
ClosingKept(s) == closing

\* The closing flags once the turn of s is over.
ClosingAfter(s) == closing \ {s}

\* Mutant: a panicked turn redispatches on a closing session too.
MayRedispatchAlways(s) == power = "up" /\ pending[s] # {}

\* Whether a panicked turn redispatches what had queued behind it.
MayRedispatch(s) == s \notin closing /\ power = "up" /\ pending[s] # {}

\* Mutant: an attachment is not recorded.
WalRowsTextOnly(b) == {m \in b : KindOf[m] = "text"}

\* The messages of batch b that get a row (each has an id, see above).
WalRows(b) == {m \in b : ~Internal(m)}

\* The rows a returned turn clears, aborted or not.
RowsToClear(r) == r.batch \cup nudged[r.sid]

\* Mutant: the token is read before turnSeq is incremented.
NewRunStaleToken(s, t, b, d) ==
    [sid |-> s, token |-> t - 1, batch |-> b, phase |-> "record", ctl |-> "live",
     pre |-> {}, drops |-> d]

\* A fresh runTurnAndDrain goroutine.
NewRun(s, t, b, d) ==
    [sid |-> s, token |-> t, batch |-> b, phase |-> "record", ctl |-> "live",
     pre |-> {}, drops |-> d]

\* Goroutine r moves to phase p.
Goto(r, p) == (runs \ {r}) \cup {[r EXCEPT !.phase = p]}

\* Store calls on the inbound context fail once that context is cancelled.
Faulty == StoreMayFail \/ power = "stopping"

\* Bound: a goroutine that may have to open a session starts only while the
\* finite supply Sid still has an id for it.
SidLeft ==
    Cardinality({m \in Msg : fate[m] = "routing" /\ at[m] = NoSid})
        < Cardinality(Sid \ opened)

owns(r) == r.sid \in busy /\ meta[r.sid] = r.token

(* ------------------------- submit: resolution --------------------------- *)

Init ==
    /\ power = "up" /\ restarts = 0
    /\ opened = {} /\ active = NoSid /\ wal = {}
    /\ fate = [m \in Msg |-> "new"]
    /\ route = [m \in Msg |-> "active"]
    /\ at = [m \in Msg |-> NoSid]
    /\ tries = [m \in Msg |-> 0]
    /\ stamp = [m \in Msg |-> 0] /\ arrivals = 0
    /\ busy = {} /\ dropped = {} /\ closing = {} /\ cancels = {}
    /\ meta = [s \in Sid |-> 0] /\ turnSeq = 0
    /\ pending = [s \in Sid |-> {}] /\ nudged = [s \in Sid |-> {}]
    /\ runs = {}

\* Submit: the inbound loop hands message m to its own goroutine, which routes
\* it: continue the scope's active session, open a fresh one, or (a reply)
\* name an existing session s.
Submit(m) ==
    /\ power = "up" /\ fate[m] = "new"
    /\ fate' = [fate EXCEPT ![m] = "routing"]
    /\ \/ \E k \in {"active", "fresh"} :
             /\ (k = "active" /\ active # NoSid) \/ SidLeft
             /\ route' = [route EXCEPT ![m] = k] /\ at' = at
       \/ \E s \in opened :
             /\ ~Internal(m)
             /\ route' = [route EXCEPT ![m] = "reply"]
             /\ at' = [at EXCEPT ![m] = s]
    /\ UNCHANGED <<power, restarts, storeVars, tries, stamp, arrivals, lockVars, runs>>

\* OpenSessionInScope: a new row, then the cursor (whose write may fail alone).
\* One step, that of the cursor: a row without it is a sid that nobody else can
\* have resolved, and a crash between the two leaves what a failed cursor does.
OpenSession(s) ==
    /\ s \in Sid \ opened
    /\ opened' = opened \cup {s}
    /\ \/ active' = s
       \/ StoreMayFail /\ active' = active

\* submit's sid resolution: resume the active session, or open one (@=new, or
\* an empty scope).  The singleflight per scope makes resume-or-open atomic.
ResolveSid(m) ==
    /\ power # "down" /\ fate[m] = "routing" /\ at[m] = NoSid
    /\ \/ /\ route[m] = "active" /\ active # NoSid
          /\ at' = [at EXCEPT ![m] = active]
          /\ UNCHANGED <<opened, active>>
       \/ \E s \in Sid :
            /\ route[m] = "fresh" \/ active = NoSid
            /\ OpenSession(s)
            /\ at' = [at EXCEPT ![m] = s]
    /\ UNCHANGED <<power, restarts, wal, fate, route, tries, stamp, arrivals, lockVars, runs>>

\* A store error while resolving: the sender is told, the message is over.
ResolveFails(m) ==
    /\ Faulty
    /\ power # "down" /\ fate[m] = "routing" /\ at[m] = NoSid
    /\ fate' = [fate EXCEPT ![m] = "error"]
    /\ UNCHANGED <<power, restarts, storeVars, route, at, tries, stamp, arrivals, lockVars, runs>>

\* /new: open a session and make it the active one.
slashNew ==
    /\ power = "up" /\ SidLeft
    /\ \E s \in Sid : OpenSession(s)
    /\ UNCHANGED <<power, restarts, wal, msgVars, lockVars, runs>>

(* ------------------------- submit: admission --------------------------- *)

\* The session is mid-close: back off and resolve again, or give up with a
\* notice when the sid was named by the reply or the retries are used up.
\* A cancelled context during the back-off ends the goroutine silently.
AdmitClosing(m) ==
    LET s == at[m] IN
    /\ power # "down" /\ fate[m] = "routing" /\ s # NoSid /\ s \in closing
    /\ IF route[m] = "reply" \/ tries[m] >= MaxRetry
       THEN fate' = [fate EXCEPT ![m] = "closing"] /\ UNCHANGED <<at, tries>>
       ELSE \/ /\ power = "stopping"
               /\ fate' = [fate EXCEPT ![m] = "lost"]
               /\ UNCHANGED <<at, tries>>
            \/ /\ tries' = [tries EXCEPT ![m] = @ + 1]
               /\ at' = IF route[m] = "fresh" THEN at ELSE [at EXCEPT ![m] = NoSid]
               /\ UNCHANGED fate
    /\ UNCHANGED <<power, restarts, storeVars, route, stamp, arrivals, lockVars, runs>>

\* A turn is running: queue behind it, or drop the message when the queue is
\* full.  Internal events bypass the cap and the deduplication.
AdmitBusy(m) ==
    LET s == at[m] IN
    /\ power # "down" /\ fate[m] = "routing" /\ s # NoSid
    /\ s \notin closing /\ s \in busy
    /\ IF HasRoom(m, s)
       THEN IF ~Internal(m) /\ queueDedup(s, m)
            THEN /\ fate' = [fate EXCEPT ![m] = "dup"]
                 /\ UNCHANGED <<pending, stamp, arrivals, dropped>>
            ELSE /\ fate' = [fate EXCEPT ![m] = "queued"]
                 /\ pending' = [pending EXCEPT ![s] = @ \cup {m}]
                 /\ arrivals' = arrivals + 1
                 /\ stamp' = [stamp EXCEPT ![m] = arrivals']
                 /\ UNCHANGED dropped
       ELSE /\ fate' = [fate EXCEPT ![m] = "full"]
            /\ dropped' = dropped \cup {s}
            /\ UNCHANGED <<pending, stamp, arrivals>>
    /\ UNCHANGED <<power, restarts, storeVars, route, at, tries, busy, meta,
                   nudged, closing, cancels, turnSeq, runs>>

\* The session is idle: claim it under a new turn token and run the message.
AdmitIdle(m) ==
    LET s == at[m] IN
    /\ power # "down" /\ fate[m] = "routing" /\ s # NoSid
    /\ s \notin closing /\ s \notin busy
    /\ turnSeq' = turnSeq + 1
    /\ busy' = busy \cup {s}
    /\ meta' = [meta EXCEPT ![s] = turnSeq']
    /\ arrivals' = arrivals + 1
    /\ stamp' = [stamp EXCEPT ![m] = arrivals']
    /\ fate' = [fate EXCEPT ![m] = "running"]
    /\ runs' = runs \cup {NewRun(s, turnSeq', {m}, FALSE)}
    /\ UNCHANGED <<power, restarts, storeVars, route, at, tries, pending, nudged,
                   dropped, closing, cancels>>

(* --------------------------- runTurnAndDrain ---------------------------- *)

\* recordPending for every event of the batch, before any lock is taken:
\* internal events have no row, and a failed write is only logged.
RecordPending(r) ==
    /\ r \in runs /\ r.phase = "record"
    /\ \E M \in SUBSET WalRows(r.batch) :
          /\ Faulty \/ M = WalRows(r.batch)
          /\ wal' = wal \cup M
    /\ runs' = Goto(r, "register")
    /\ UNCHANGED <<power, restarts, opened, active, msgVars, lockVars>>

\* Register the cancel function, honour a close that came first, and snapshot
\* the queue the nudge lane must not touch; RunTurn starts.
RegisterCancel(r) ==
    /\ r \in runs /\ r.phase = "register"
    /\ cancels' = cancels \cup {r.sid}
    /\ runs' = (runs \ {r}) \cup
               {[r EXCEPT !.phase = "run",
                          !.ctl = IF r.sid \in closing \/ power = "stopping"
                                  THEN "cancelled" ELSE @,
                          !.pre = pending[r.sid]]}
    /\ UNCHANGED <<power, restarts, storeVars, msgVars, busy, meta, pending, nudged,
                   dropped, closing, turnSeq>>

\* The running turn pulls the first plain text that arrived after it started
\* into itself, once per turn.
takeNudge(r) ==
    LET q == {m \in pending[r.sid] : KindOf[m] = "text" /\ m \notin r.pre} IN
    /\ r \in runs /\ r.phase = "run" /\ nudged[r.sid] = {} /\ q # {}
    /\ pending' = Unqueue(r.sid, {Front(q)})
    /\ nudged' = [nudged EXCEPT ![r.sid] = @ \cup {Front(q)}]
    /\ fate' = [fate EXCEPT ![Front(q)] = "nudged"]
    /\ UNCHANGED <<power, restarts, storeVars, route, at, tries, stamp, arrivals,
                   busy, meta, dropped, closing, cancels, turnSeq, runs>>

\* RunTurn returns; the cancel function is released under the lock.
FinishTurn(r) ==
    /\ r \in runs /\ r.phase = "run"
    /\ cancels' = cancels \ {r.sid}
    /\ runs' = Goto(r, "served")
    /\ UNCHANGED <<power, restarts, storeVars, msgVars, busy, meta, pending, nudged,
                   dropped, closing, turnSeq>>

\* removeServedPending: forget the nudged ids and delete the rows of all that
\* was served.
removeServedPending(r) ==
    LET served == r.batch \cup nudged[r.sid] IN
    /\ r \in runs /\ r.phase = "served"
    /\ nudged' = [nudged EXCEPT ![r.sid] = {}]
    /\ \/ wal' = wal \ RowsToClear(r)
       \/ StoreMayFail /\ wal' = wal
    /\ fate' = SetFate(served, IF r.ctl = "cancelled" THEN "aborted" ELSE "served")
    /\ runs' = Goto(r, "drain")
    /\ UNCHANGED <<power, restarts, opened, active, route, at, tries, stamp, arrivals,
                   busy, meta, pending, dropped, closing, cancels, turnSeq>>

\* The turn's last critical section: keep the sid and spawn the follow-up
\* batch, or give it back.  A stop leaves everything as it is; a close
\* abandons the queue; a turn that lost the sid touches nothing.
drainSidAfterTurn(r) ==
    LET s == r.sid
        q == pending[s]
        b == pickNextDrainBatch(q)
    IN
    /\ r \in runs /\ r.phase = "drain"
    /\ UNCHANGED <<power, restarts, storeVars, route, at, tries, stamp, arrivals,
                   nudged, cancels, turnSeq>>
    /\ IF power = "stopping" \/ ~owns(r)
       THEN /\ runs' = runs \ {r}
            /\ UNCHANGED <<fate, pending, dropped, busy, meta, closing>>
       ELSE IF s \notin closing /\ q # {}
       THEN /\ pending' = Unqueue(s, b)
            /\ dropped' = LatchAfter(s, q, b)
            /\ fate' = SetFate(b, "running")
            /\ runs' = (runs \ {r}) \cup {NewRun(s, r.token, b, q = b /\ s \in dropped)}
            /\ UNCHANGED <<busy, meta, closing>>
       ELSE /\ pending' = [pending EXCEPT ![s] = {}]
            /\ fate' = SetFate(q, "discarded")
            /\ dropped' = dropped \ {s}
            /\ FreeSid(s)
            /\ closing' = ClosingAfter(s)
            /\ runs' = runs \ {r}

\* recoverTurn: the turn panicked.  Its own messages are over (their rows
\* stay); the owner clears the sid and redispatches what had queued under a
\* NEW token, unless the session is closing or the process is stopping.
recoverTurn(r) ==
    LET s == r.sid
        q == pending[s]
        b == pickNextDrainBatch(q)
        mine == IF r.phase = "run" THEN r.batch \cup nudged[s] ELSE {}
        again == MayRedispatch(s)
    IN
    /\ r \in runs /\ r.phase \in {"run", "drain"}
    /\ cancels' = cancels \ {s}
    /\ UNCHANGED <<power, restarts, storeVars, route, at, tries, stamp, arrivals>>
    /\ IF ~owns(r)
       THEN /\ runs' = runs \ {r}
            /\ fate' = SetFate(mine, "panicked")
            /\ UNCHANGED <<pending, nudged, dropped, closing, busy, meta, turnSeq>>
       ELSE /\ closing' = ClosingAfter(s)
            /\ nudged' = [nudged EXCEPT ![s] = {}]
            /\ pending' = Unqueue(s, IF again THEN b ELSE q)
            /\ dropped' = LatchAfter(s, q, IF again THEN b ELSE q)
            /\ fate' = [m \in Msg |-> IF m \in mine THEN "panicked"
                                      ELSE IF m \notin q THEN fate[m]
                                      ELSE IF ~again THEN "discarded"
                                      ELSE IF m \in b THEN "running" ELSE fate[m]]
            /\ IF again
               THEN /\ turnSeq' = turnSeq + 1
                    /\ meta' = [meta EXCEPT ![s] = turnSeq']
                    /\ busy' = busy
                    /\ runs' = (runs \ {r}) \cup
                               {NewRun(s, turnSeq', b, q = b /\ s \in dropped)}
               ELSE /\ FreeSid(s)
                    /\ runs' = runs \ {r}
                    /\ UNCHANGED turnSeq

(* ---------------------- /close-session, stop, crash --------------------- *)

\* /close-session: mark a busy session closing, whether or not its cancel
\* function is registered yet, and ask for the cancellation if it is.
slashCloseSession(s) ==
    /\ power = "up" /\ s \in busy
    /\ closing' = closing \cup {s}
    /\ runs' = {IF r.sid = s /\ s \in cancels /\ r.phase = "run" /\ r.ctl = "live"
                THEN [r EXCEPT !.ctl = "asked"] ELSE r : r \in runs}
    /\ UNCHANGED <<power, restarts, storeVars, msgVars, busy, meta, pending, nudged,
                   dropped, cancels, turnSeq>>

\* The cancel() call that follows, outside the lock.
CancelFires(r) ==
    /\ r \in runs /\ r.phase = "run" /\ r.ctl = "asked"
    /\ runs' = (runs \ {r}) \cup {[r EXCEPT !.ctl = "cancelled"]}
    /\ UNCHANGED <<power, restarts, storeVars, msgVars, lockVars>>

\* The inbound flow stops: no new event is consumed and the context every
\* turn derives from is cancelled.
Stop ==
    /\ power = "up"
    /\ power' = "stopping"
    /\ runs' = {IF r.phase = "run" THEN [r EXCEPT !.ctl = "cancelled"] ELSE r : r \in runs}
    /\ UNCHANGED <<restarts, storeVars, msgVars, lockVars>>

\* The process ends, at any moment (a crash) or when Shutdown is done waiting:
\* its memory is gone, the store stays.
Exit ==
    /\ power # "down"
    /\ power' = "down"
    /\ fate' = SetFate({m \in Msg : fate[m] \in Moving \ {"new"}}, "lost")
    /\ busy' = {} /\ dropped' = {} /\ closing' = {} /\ cancels' = {}
    /\ meta' = [s \in Sid |-> 0] /\ turnSeq' = 0
    /\ pending' = [s \in Sid |-> {}] /\ nudged' = [s \in Sid |-> {}]
    /\ runs' = {}
    /\ UNCHANGED <<restarts, storeVars, route, at, tries, stamp, arrivals>>

\* Boot: RecoverPendingOnBoot clears the rows before the first event is taken;
\* a failed delete leaves them for the next boot.
RecoverPendingOnBoot ==
    /\ power = "down" /\ restarts < MaxRestart
    /\ power' = "up" /\ restarts' = restarts + 1
    /\ \/ wal' = {}
       \/ StoreMayFail /\ wal' = wal
    /\ UNCHANGED <<opened, active, msgVars, lockVars, runs>>

\* Nothing left to do: every message settled, or the process is down for good.
Quiescent ==
    /\ runs = {}
    /\ \/ \A m \in Msg : fate[m] \in Settled
       \/ power # "up"
    /\ UNCHANGED vars

TurnStep(r) ==
    \/ RecordPending(r) \/ RegisterCancel(r) \/ FinishTurn(r)
    \/ removeServedPending(r) \/ drainSidAfterTurn(r)

MsgStep(m) ==
    \/ ResolveSid(m) \/ ResolveFails(m)
    \/ AdmitClosing(m) \/ AdmitBusy(m) \/ AdmitIdle(m)

Next ==
    \/ \E m \in Msg : Submit(m) \/ MsgStep(m)
    \/ \E r \in runs : TurnStep(r) \/ takeNudge(r) \/ recoverTurn(r) \/ CancelFires(r)
    \/ \E s \in Sid : slashCloseSession(s)
    \/ slashNew \/ Stop \/ Exit \/ RecoverPendingOnBoot
    \/ Quiescent

Spec == Init /\ [][Next]_vars

\* The Go scheduler runs every goroutine that can move, and RunTurn returns
\* (its rounds and tool calls are bounded); a stopping process exits.  Nothing
\* is assumed of users, panics or crashes.
Fairness ==
    /\ \A m \in Msg : WF_vars(MsgStep(m))
    /\ \A s \in Sid : WF_vars(\E r \in runs : r.sid = s /\ TurnStep(r))
    /\ WF_vars(power = "stopping" /\ Exit)

FairSpec == Spec /\ Fairness

(* ----------------------------- Properties ------------------------------ *)

\* At most one runTurnAndDrain goroutine per session, and it holds the sid's
\* token: the "!owns" early returns of the drain and of the panic recovery
\* are never taken, so no turn can steal or strand another's slot.
OneTurnPerSession ==
    /\ \A r \in runs : owns(r)
    /\ \A r1, r2 \in runs : r1.sid = r2.sid => r1 = r2

\* While the process serves, a busy bit is always backed by a live goroutine
\* that will clear it: after a close, a panic or a drain no session stays
\* busy for ever with nobody working on it.
BusyHasTurn ==
    power = "up" => \A s \in busy : \E r \in runs : r.sid = s

\* An idle session has no residue in any of the arbiter's maps: no queued
\* message nobody will drain, no stuck closing flag that would refuse every
\* later message, no latched overflow, no leaked cancel function.
IdleIsClean ==
    \A s \in Sid \ busy :
        /\ pending[s] = {} /\ nudged[s] = {} /\ meta[s] = 0
        /\ s \notin dropped \cup closing \cup cancels

\* What a goroutine has registered depends on how far it is: its cancel
\* function only while RunTurn executes, nudged ids until they are cleared.
\* The drain and the claim rely on it: neither deletes these entries.
TurnPhases ==
    \A r \in runs : /\ r.phase # "run" => r.sid \notin cancels
                    /\ r.phase \notin {"run", "served"} => nudged[r.sid] = {}

\* A process that is down has no memory.
DownIsEmpty == power = "down" => busy = {} /\ runs = {}

\* The inductive invariant of the arbitration.
ArbiterInv ==
    /\ TypeOK /\ OneTurnPerSession /\ BusyHasTurn /\ IdleIsClean
    /\ TurnPhases /\ DownIsEmpty

\* Conservation: an accepted message is in exactly one place, the queue of its
\* session, the batch of its session's turn or that turn's nudge, and the
\* place agrees with its history: admission, drain, nudge, panic redispatch
\* and close neither lose nor duplicate one.
Conservation ==
    /\ \A s \in Sid : \A m \in pending[s] : fate[m] = "queued" /\ at[m] = s
    /\ \A s \in Sid : \A m \in nudged[s] : fate[m] = "nudged" /\ at[m] = s
    /\ \A r \in runs : r.phase # "drain" =>
          \A m \in r.batch : fate[m] = "running" /\ at[m] = r.sid
    /\ \A m \in Msg : fate[m] = "queued" => m \in pending[at[m]]
    /\ \A m \in Msg : fate[m] = "nudged" => m \in nudged[at[m]]
    /\ \A m \in Msg : fate[m] = "running" =>
          \E r \in runs : r.phase # "drain" /\ m \in r.batch

\* A batch is the oldest of one sender's messages, whatever mix was queued: the
\* router routes a batch by its first event, and no batch runs while an older
\* message of its sender waits behind it.  (Only the nudge lane may overtake,
\* and a nudge is never in a batch.)
SenderOrder ==
    \A r \in runs : \A m \in r.batch :
        /\ \A n \in r.batch : sameSender(m, n)
        /\ \A n \in pending[r.sid] : sameSender(m, n) => stamp[m] < stamp[n]

\* With a working store the pending rows of a serving process mirror its turns:
\* every human message of a turn past its WAL write has a row until the turn has
\* been served, so a crash leaves a trace, and no row outlives its purpose, so a
\* boot finds no message that was answered or is still only queued.
WalMirrorsTurns ==
    power = "up" =>
        /\ \A r \in runs : r.phase \in {"register", "run", "served"} =>
              \A m \in r.batch : Internal(m) \/ m \in wal
        /\ \A m \in wal : fate[m] \in {"running", "panicked"}

\* No new turn starts on a session that /close-session is ending: neither a
\* message that just resolved it, nor the queue, nor a panic redispatch.
ClosingStartsNothing ==
    [][\A r \in runs' \ runs : r.phase = "record" => r.sid \notin closing]_vars

\* The overflow of a queue is not forgotten while the session works on: when
\* the latch is cleared, the turn that starts carries it (TurnWork's HadDrops,
\* which the flow is handed and does not show the user yet), or the session
\* becomes idle.
OverflowAnnounced ==
    [][\A s \in dropped \ dropped' :
          s \notin busy' \/ \E r \in runs' : r.sid = s /\ r.drops]_vars

\* Every submitted message is eventually settled: nobody waits for ever in a
\* queue or in the close-retry loop.
EveryMessageSettles ==
    \A m \in Msg : (fate[m] = "routing") ~> (fate[m] \in Settled)

=============================================================================

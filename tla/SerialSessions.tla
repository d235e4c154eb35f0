--------------------------- MODULE SerialSessions ---------------------------
(***************************************************************************)
(* What the session arbiter promises, without saying how: every session is *)
(* a server that works on one batch at a time; a message waits at one      *)
(* session at most, is worked on at most once, and once done is never seen *)
(* again.  The order of the queue, tokens, locks, cancellation and the     *)
(* write-ahead log are details of SessionArbiter, which implements this.   *)
(***************************************************************************)
CONSTANTS Msg, Sid

VARIABLES waiting,   \* waiting[s]: accepted, queued behind session s's turn
          serving,   \* serving[s]: the messages session s is working on
          done       \* messages that are over, answered or not

vars == <<waiting, serving, done>>

Elsewhere == {m \in Msg : m \notin done /\ \A s \in Sid : m \notin waiting[s] \cup serving[s]}

Init ==
    /\ waiting = [s \in Sid |-> {}]
    /\ serving = [s \in Sid |-> {}]
    /\ done = {}

\* A message is refused before any session accepted it.
Refuse(m) ==
    /\ m \in Elsewhere
    /\ done' = done \cup {m}
    /\ UNCHANGED <<waiting, serving>>

\* A message queues behind the turn of session s.
Enqueue(m, s) ==
    /\ m \in Elsewhere
    /\ waiting' = [waiting EXCEPT ![s] = @ \cup {m}]
    /\ UNCHANGED <<serving, done>>

\* A message starts a turn of an idle session.
Begin(m, s) ==
    /\ m \in Elsewhere /\ serving[s] = {}
    /\ serving' = [serving EXCEPT ![s] = {m}]
    /\ UNCHANGED <<waiting, done>>

\* The running turn takes in a message that waits.
Pull(m, s) ==
    /\ m \in waiting[s] /\ serving[s] # {}
    /\ waiting' = [waiting EXCEPT ![s] = @ \ {m}]
    /\ serving' = [serving EXCEPT ![s] = @ \cup {m}]
    /\ UNCHANGED done

\* A turn ends (or had ended) and the session takes the batch B of those that
\* wait, none of them if B is empty.
Turnover(s, B) ==
    /\ B \subseteq waiting[s]
    /\ done' = done \cup serving[s]
    /\ serving' = [serving EXCEPT ![s] = B]
    /\ waiting' = [waiting EXCEPT ![s] = @ \ B]

\* The session is closed: its turn ends and those that wait are let go.
Abandon(s) ==
    /\ done' = done \cup serving[s] \cup waiting[s]
    /\ serving' = [serving EXCEPT ![s] = {}]
    /\ waiting' = [waiting EXCEPT ![s] = {}]

\* The process ends; whatever was under way is over, some messages on their
\* way to a session included.
Reset ==
    /\ \E M \in SUBSET Elsewhere :
          done' = done \cup M \cup UNION {waiting[s] \cup serving[s] : s \in Sid}
    /\ serving' = [s \in Sid |-> {}]
    /\ waiting' = [s \in Sid |-> {}]

Next ==
    \/ \E m \in Msg : Refuse(m)
    \/ \E m \in Msg, s \in Sid : Enqueue(m, s) \/ Begin(m, s) \/ Pull(m, s)
    \/ \E s \in Sid : Abandon(s) \/ \E B \in SUBSET waiting[s] : Turnover(s, B)
    \/ Reset

Spec == Init /\ [][Next]_vars
=============================================================================

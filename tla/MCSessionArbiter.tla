-------------------------- MODULE MCSessionArbiter --------------------------
(* Small instances of SessionArbiter: the messages and what each of them is. *)
EXTENDS SessionArbiterRefinement

CONSTANTS m1, m2, m3, m4, s1, s2

\* One user sends two texts and another an image, over two sessions.
MixUser == [m \in Msg |-> IF m \in {m1, m2} THEN "ann" ELSE "bob"]
MixKind == [m \in Msg |-> IF m = m3 THEN "image" ELSE "text"]
MixText == [m \in Msg |-> m]

\* A queue under pressure: two equal texts and an album member of one user, and
\* an internal event.
RushUser == [m \in Msg |-> IF m = m4 THEN "internal" ELSE "ann"]
RushKind == [m \in Msg |-> IF m = m4 THEN "internal" ELSE
                           IF m = m3 THEN "album" ELSE "text"]
RushText == [m \in Msg |-> IF m \in {m1, m2} THEN "again" ELSE "other"]

\* Two ids that the store hands out are interchangeable: s1 comes first.  A second
\* session is opened only in a process that has not been restarted.
MixNext ==
    /\ Next
    /\ s2 \in opened' => s1 \in opened'
    /\ restarts' > 0 => Cardinality(opened') <= 1
MixSpec == Init /\ [][MixNext]_vars /\ Fairness

\* Four messages on one session of a process that stays up: deep queues.
RushNext == Next /\ power' = "up" /\ \A m \in Msg : route'[m] = "active"
RushSpec == Init /\ [][RushNext]_vars
=============================================================================

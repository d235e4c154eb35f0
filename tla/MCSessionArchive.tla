-------------------------- MODULE MCSessionArchive --------------------------
(* Small instances of SessionArchive: one session and two replies to it, or *)
(* two sessions and a sweep that takes one at a time.                       *)
EXTENDS SessionArchive

CONSTANTS r1, r2, a, b

\* The sessions are alike, so replies are to a.  b gets cold only while the
\* second reply is not there; compactions are not crossed with that, nor with
\* the age of the index.
PairNext ==
    /\ Next
    /\ \A m \in Msg : to'[m] # b
    /\ b \in aged' => pc'[r2] = "new"
    /\ b \in aged' \/ stale' # {} => Markers(window'[a]) = {}
PairSpec == Init /\ [][PairNext]_vars /\ Fairness
=============================================================================

---------------------------- MODULE MCModelHealth ----------------------------
(* Instances of ModelHealth for TLC.                                       *)
EXTENDS ModelHealth, TLC

OneKind == [e \in Entry |-> "llm"]

\* Callers are interchangeable, and so are the entries of one kind.
HealthSymmetry == Permutations(Caller) \cup Permutations(Entry)

\* Long runs of calls with nothing else going on, and shorter ones with a
\* reload, a pause, a resume, a panic or the close of the pool in between.
CallsOrShock == {[calls |-> 4, shocks |-> 0], [calls |-> 2, shocks |-> 1]}
=============================================================================

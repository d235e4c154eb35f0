----------------------------- MODULE MCTurnLoop -----------------------------
(* The instance of TurnLoop for TLC.                                       *)
EXTENDS TurnLoop

C(t, a) == [tool |-> t, arg |-> a]

\* A side effect that may fail, asked for twice in one batch and again later,
\* one followed by a tool that ends the turn, a skill with a rubric, a picture,
\* silence.
MCBatches == {<<C("send", 1), C("read", 1), C("send", 1)>>,
              <<C("send", 1), C("ask", 1)>>,
              <<C("view", 1)>>, <<C("paint", 1), C("hush", 1)>>}

\* One long turn with a disturbance, and two short ones with two.
Budget(t, r, s) == [turns |-> t, rounds |-> r, shocks |-> s, spent |-> 0]
MCBudgets == {Budget(1, 7, 1), Budget(2, 3, 2)}
=============================================================================

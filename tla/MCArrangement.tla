--------------------------- MODULE MCArrangement ---------------------------
(* Two stages, both served by one member, or one member each.             *)
EXTENDS Arrangement

CONSTANTS m1, m2

\* Several calls are under way at once only as long as nothing has gone wrong.
CrowdNext == Next /\ (Cardinality(calls') > 1 => shocks' = 0)
CrowdSpec == Init /\ [][CrowdNext]_vars /\ Fairness

AllRounder == <<{m1}, {m1}>>
Relay == <<{m1}, {m2}>>
=============================================================================

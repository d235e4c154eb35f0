------------------------------ MODULE MCTrunk ------------------------------
(* Three modules and three capabilities.                                   *)
EXTENDS Trunk

CONSTANTS x, y, z, c, d, e

Registered == <<x, y, z>>

Provided(X, Y, Z) == [m \in Module |-> IF m = x THEN X ELSE IF m = y THEN Y ELSE Z]

\* Who provides what: a capability each, one module with two of them, a
\* capability nobody provides, and a capability provided twice.  The needs and
\* the optional modules are any.
Shapes == {Provided({c}, {d}, {e}), Provided({c, d}, {e}, {}),
           Provided({}, {c, d}, {}), Provided({c}, {c, d}, {})}

ShapedInit == provides \in Shapes /\ Init
ShapedSpec == ShapedInit /\ [][Next]_vars /\ Fairness
=============================================================================

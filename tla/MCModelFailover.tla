--------------------------- MODULE MCModelFailover ---------------------------
(* The instance of ModelFailover for TLC: one entry of each of two tags,    *)
(* and rules by which each tag falls back on the other (a cycle).          *)
EXTENDS ModelFailover

CONSTANTS big, mini, r1, r2, r3, r4

MCTags == [e \in Model |-> IF e = big THEN {"smart"} ELSE {"small"}]
MCPriority == [e \in Model |-> 0]
MCSlots == [e \in Model |-> 1]
MCRules == <<[tags |-> {"smart"}, to |-> {"small"}],
             [tags |-> {"small"}, to |-> {"smart"}]>>
MCRequires == [r \in Req |-> {"smart"}]

\* Three requests that may fail over and one pinned to the entry they want.
MCPinned == [r \in Req |-> IF r = r4 THEN big ELSE NoPin]
=============================================================================

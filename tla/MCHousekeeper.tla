--------------------------- MODULE MCHousekeeper ---------------------------
(* Three tasks, one of them invalid in some runs.                          *)
EXTENDS Housekeeper

CONSTANTS a, b, c

\* A task shorter than the boot grace and one longer than the backoff cap.
Mixed == [t \in Task |-> IF t = a THEN 1 ELSE IF t = b THEN 4 ELSE 0]
Ranks == [t \in Task |-> IF t = a THEN 1 ELSE IF t = b THEN 2 ELSE 3]
=============================================================================

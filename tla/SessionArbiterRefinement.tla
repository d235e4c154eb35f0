---------------------- MODULE SessionArbiterRefinement ----------------------
(* SessionArbiter implements the serial service SerialSessions.             *)
EXTENDS SessionArbiter

\* What session s works on: the batch of its turn and the nudge it pulled in.
ServingOf == [s \in Sid |-> {m \in Msg : fate[m] \in {"running", "nudged"} /\ at[m] = s}]

Service == INSTANCE SerialSessions
           WITH waiting <- pending, serving <- ServingOf,
                done <- {m \in Msg : fate[m] \in Settled}

\* Every behaviour of the arbiter, with its locks, retries, panics, closes and
\* crashes, is a behaviour of the serial service.
ImplementsSerialSessions == Service!Spec
=============================================================================

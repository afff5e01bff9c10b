----------------------------- MODULE MCJobStream ----------------------------
(* A stream of one job, for TLC. *)
EXTENDS JobStream

OneWorkspace == [s \in Streams |-> 1]
=============================================================================

----------------------------- MODULE MCTimelock -----------------------------
(* Instance of Timelock for TLC. *)
EXTENDS Timelock

CONSTANTS a, b, heir

(* One transaction runs, or two, and then the run has seen enough. *)
FewExecuted == Cardinality(executed) <= 2
=============================================================================

---------------------------- MODULE MCDeployment ----------------------------
(* One network with everything to deploy that runs all scripts, one that has *)
(* no lending addresses, and the three with records. *)
EXTENDS PoolTasks

\* Tasks are typed on two of the networks, after runs that were not cut.
TasksLast ==
  typed.tasks > 0 =>
    /\ ~ Running /\ run.was = "done" /\ count.runs <= 1 + count.edits
    /\ network \in {"localhost", "mainnet"}
=============================================================================

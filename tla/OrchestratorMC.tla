---------------------------- MODULE OrchestratorMC ---------------------------
(* Two tasks of a plan that compete for one slot of the instance.           *)
EXTENDS Orchestrator

TwoTasks == {1, 2}
=============================================================================

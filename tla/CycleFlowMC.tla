----------------------------- MODULE CycleFlowMC ----------------------------
(* Two task keys, plans with one or both of them, two approvals by the API  *)
(* and one CLI command; PlanRequested may be delivered twice.               *)
EXTENDS CycleFlow

CONSTANTS k1, k2, a1, a2, cli1

MCKeys      == {k1, k2}
MCPlans     == {{k1}, {k1, k2}}
MCApprovals == {a1, a2}
MCCli       == {cli1}
=============================================================================

----------------------------- MODULE MCPlanPage -----------------------------
(* The instance of PlanPage that TLC checks.                               *)
EXTENDS PlanPage
=============================================================================

---------------------------- MODULE MCPlanHistory ----------------------------
(* PlanHistory on three names.  All dependency relations on them are tried, *)
(* so one listing order stands for all of them up to renaming.              *)
EXTENDS PlanHistory, TLC

Listed == "a" :> 1 @@ "b" :> 2 @@ "c" :> 3

=============================================================================

----------------------------- MODULE MCCostLedger -----------------------------
(* Two own agents that share a group, one cognee label, and the global sum. *)
EXTENDS CostLedger, TLC

CONSTANTS Sourcing, Crimm, Capture, Group, System

MCBudgets == {Sourcing, Crimm, Capture, Group, System}
MCBudgetsOf == (Sourcing :> {Sourcing, Group, System})
            @@ (Crimm :> {Crimm, Group, System})
            @@ (Capture :> {Capture, System})
MCCeiling == (Sourcing :> 2) @@ (Crimm :> 1) @@ (Capture :> 1) @@ (Group :> 2) @@ (System :> 3)
=============================================================================

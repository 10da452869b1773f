---------------------------- MODULE MCLifecycle ----------------------------
(* Values of the constants of Lifecycle for TLC, those of MCConfig.        *)
EXTENDS Lifecycle

MCField == {"up"}
MCValue == [f \in {"up"} |-> {"up", "down"}]
MCNoAlias == "none"
MCMtuRange == {}
MCOper == {"oper"}
=============================================================================

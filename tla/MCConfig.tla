------------------------------ MODULE MCConfig ------------------------------
(* Values of the constants of Config for TLC: the administrative state is  *)
(* the only attribute the daemon sets.                                     *)
EXTENDS ConfigRefinement

MCField == {"up"}
MCValue == [f \in {"up"} |-> {"up", "down"}]
MCNoAlias == "none"
MCMtuRange == {}
MCOper == {"oper"}
=============================================================================

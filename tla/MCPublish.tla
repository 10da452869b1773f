----------------------------- MODULE MCPublish -----------------------------
(* Values of the constants of Publish for TLC: one attribute, and two      *)
(* states of the kernel, with or without one the leaf has no value for.    *)
EXTENDS Publish

MCField == {"up"}
MCValue == [f \in {"up"} |-> {"up", "down"}]
MCNoAlias == "none"
MCMtuRange == {}
MCOper == {"UP", "DOWN"}
MCAllOper == {"UP", "DOWN", "LOWERLAYERDOWN"}
MCStackedOper == {"UP", "LOWERLAYERDOWN"}
=============================================================================

---------------------------- MODULE MCIfaceCache ----------------------------
(* Values of the constants of IfaceCache for TLC: a name and an alias that *)
(* share two strings, so that they can collide, an MTU with one value out  *)
(* of range, and the administrative state.                                 *)
EXTENDS IfaceRefinement

MCField == {"name", "alias", "mtu", "up"}
MCFewFields == {"name", "alias"}
MCUpField == {"up"}
MCNoAlias == "none"
MCValue ==
    [f \in {"name", "alias", "mtu", "up"} |->
        CASE f = "name"  -> {"a", "b"}
          [] f = "alias" -> {"a", "b", MCNoAlias}
          [] f = "mtu"   -> {"small", "large", "over"}
          [] f = "up"    -> {"up", "down"}]
MCMtuRange == {"small", "large"}
MCOper == {"running", "stalled"}
=============================================================================

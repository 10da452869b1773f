------------------------------ MODULE MCStore ------------------------------
(* Values of the constants of Store for TLC: three names, two of which     *)
(* fall into one bucket; one of these is an alias too.                     *)
EXTENDS Store

MCField == {"name", "alias"}
MCNoAlias == "none"
MCValue ==
    [f \in MCField |-> IF f = "name" THEN {"a", "b", "c"}
                       ELSE {"c", MCNoAlias}]
MCMtuRange == {}
MCOper == {"oper"}
MCHash == [s \in {"a", "b", "c"} |-> IF s = "b" THEN 2 ELSE 1]
=============================================================================

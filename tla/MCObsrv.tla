------------------------------ MODULE MCObsrv ------------------------------
(* Values of the constants of Obsrv for TLC.                               *)
EXTENDS Obsrv

MCOwnLeaves == {<<"safe", "self">>}
MCAnyLeaves == {"safe"} \X {"self", "other"}
=============================================================================

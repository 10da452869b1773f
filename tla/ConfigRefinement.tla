-------------------------- MODULE ConfigRefinement --------------------------
(* How the two passes of the daemon implement a participant: the objects,  *)
(* the position of a pass and the leaves left to tell are hidden.          *)
EXTENDS Config

Asks(n) ==
    IF \E c \in EnabledOf(tx) : c.name = n
        THEN Desired((CHOOSE c \in EnabledOf(tx) : c.name = n).new)
        ELSE "same"

(* A transaction that is shelved goes on; one that failed an apply for     *)
(* good, or was aborted, can only be undone.                               *)
Stage ==
    IF phase = "idle" THEN "idle"
    ELSE IF phase = "accepted" THEN "prepared"
    ELSE IF phase \in {"refused", "rejected", "aborted"} THEN "failed"
    ELSE IF phase \in {"restore", "reapply"} /\ answer # "shelve" THEN "undoing"
    ELSE "working"

Abstract == INSTANCE Participant WITH
    Member  <- Ifaces,
    Setting <- {"up", "down"},
    Same    <- "same",
    running <- [n \in Ifaces |-> Desired(running[n])],
    actual  <- [n \in Ifaces |-> kern[n].conf["up"]],
    trusted <- settled \cap present,
    asked   <- [n \in Ifaces |-> Asks(n)],
    stage   <- Stage

-----------------------------------------------------------------------------
(* The daemon keeps the promise of a participant: a trusted interface only *)
(* moves between what running says and what its transaction asks for, all  *)
(* that is asked is done when the daemon accepts, and all that is trusted  *)
(* is as before when it does not, shelved events and aborts included.      *)
Implements == Abstract!Spec

=============================================================================

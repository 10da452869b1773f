-------------------------- MODULE IfaceRefinement --------------------------
(* How the cached object implements a draft of its link: the masks, the    *)
(* operational state and the socket are hidden, and so is whether the      *)
(* object is clean or dirty.                                               *)
EXTENDS IfaceCache

CONSTANT Closed  \* an object that shows nothing

ASSUME ClosedAssumption == Closed \notin Conf

(* What the setters and the reload let in (iface.h:60-63).                 *)
ProperConf ==
    {c \in Conf : /\ ~ Ambiguous(c)
                  /\ "mtu" \in Field => c["mtu"] \in MtuRange}

Abstract == INSTANCE Draft WITH
    Attribute     <- Field,
    Configuration <- Conf,
    Proper        <- ProperConf,
    Closed        <- Closed,
    link          <- kern.conf,
    draft         <- IF Usable(iface) THEN iface.conf ELSE Closed

-----------------------------------------------------------------------------
(* Whatever is reloaded, half applied, refused by the store or notified in *)
(* between, the object acts as a draft of its link: it shows the link with *)
(* the caller's changes, an apply that sends the dirty attributes alone    *)
(* makes the link what it shows, and one that fails closes it.             *)
ImplementsDraft == Abstract!Spec

=============================================================================

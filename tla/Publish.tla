------------------------------ MODULE Publish ------------------------------
(***************************************************************************)
(* The operational datastore as src/nlifd.c fills it in: once when the     *)
(* daemon starts, then from nlifd_push_oper(), which the store calls when  *)
(* a notification changed an interface.  Reloads and applies change the    *)
(* object too, and tell nobody.                                            *)
(*                                                                         *)
(* The machine is IfaceCache restricted to the calls the daemon makes, and *)
(* the leaves it published of the interface.                               *)
(***************************************************************************)
EXTENDS IfaceCache

CONSTANT MaxFailures  \* bound on the publications sysrepo refuses

(* What nlif_link_operstate_str() makes of the states of the kernel.       *)
OperstateStr ==
    [UP             |-> "up",
     DOWN           |-> "down",
     TESTING        |-> "testing",
     UNKNOWN        |-> "unknown",
     DORMANT        |-> "dormant",
     NOTPRESENT     |-> "notpresent",
     LOWERLAYERDOWN |-> "lowerlayerdown"]

(* The enumeration of the leaf `oper-status'.                              *)
OperStatus == {"up", "down", "testing", "unknown", "dormant", "not-present",
               "lower-layer-down"}

ASSUME PublishAssumption ==
    /\ MaxFailures \in Nat
    /\ "up" \in Field
    /\ Oper \subseteq DOMAIN OperstateStr

VARIABLES
    ready,     \* the daemon published what it loaded, and polls
    status,    \* the leaf `oper-status', or "none"
    admin,     \* the leaf `admin-status', or "none"
    behind,    \* the state of the object changed, and was not published
    failures   \* publications that sysrepo refused so far

leaves == <<status, admin, behind>>
pvars == <<vars, ready, leaves, failures>>

PInit ==
    /\ Init
    /\ ready = FALSE
    /\ status = "none" /\ admin = "none"
    /\ behind = FALSE
    /\ failures = 0

(* Mutant: any string is published.                                        *)
PublishableAlways(i) == TRUE

Publishable(i) == OperstateStr[i.oper] \in OperStatus

Publishes(i) ==
    /\ status' = OperstateStr[i.oper]
    /\ admin' = i.conf["up"]
    /\ behind' = FALSE

(* What the machine of the interface does with no publication.             *)
Silent(A) ==
    /\ A
    /\ behind' = (behind \/ (ready /\ iface'.oper # iface.oper))
    /\ UNCHANGED <<ready, status, admin, failures>>

(* nlifd_iface_setup_oper_dstore(): the daemon gives up when it fails.     *)
Setup ==
    /\ ~ ready /\ iface.state # "none"
    /\ Publishable(iface)
    /\ Publishes(iface)
    /\ ready' = TRUE
    /\ UNCHANGED <<vars, failures>>

(* The calls of the configuration events and of the statistics.            *)
Call ==
    \/ \E v \in Value["up"] : Set("up", v)
    \/ Get
    \/ LoadStats
    \/ Apply
    \/ \E D \in SUBSET Field : ApplyFails(D)

(* The notification at the head of the list changes the object.            *)
Tells ==
    LET msg == Head(ntfq)
    IN  /\ loop = "notify" /\ ntfq # <<>>
        /\ msg.cmd = "newlink" /\ msg.valid
        /\ iface.state # "none"
        /\ msg.oper # iface.oper

(* Mutant: what is published is read before the object is synchronised.    *)
PushNotified ==
    /\ Tells /\ Process
    /\ Usable(iface') /\ Publishable([oper |-> Head(ntfq).oper])
    /\ Publishes([iface EXCEPT !.oper = Head(ntfq).oper])
    /\ UNCHANGED <<ready, failures>>

(* nlifd_push_oper() publishes the object, made coherent first.            *)
Push ==
    /\ Tells /\ Process
    /\ Usable(iface') /\ Publishable(iface')
    /\ Publishes(iface')
    /\ UNCHANGED <<ready, failures>>

(* No name to publish under, a value the model does not have, or a refusal *)
(* of sysrepo.  The changes of the module are then discarded, at least     *)
(* these and at most all that was published.                               *)
PushFails ==
    /\ Tells /\ Process
    /\ IF Usable(iface')
          THEN /\ \/ UNCHANGED <<status, admin>>
                  \/ status' = "none" /\ admin' = "none"
               /\ IF Publishable(iface')
                     THEN failures < MaxFailures /\ failures' = failures + 1
                     ELSE UNCHANGED failures
          ELSE UNCHANGED <<status, admin, failures>>
    /\ behind' = TRUE
    /\ UNCHANGED ready

PNext ==
    \/ Silent(\E o \in Oper : KernelOper(o))
    \/ Silent(KernelRemove)
    \/ ~ ready /\ Silent(EnableNotif)
    \/ ~ ready /\ Silent(Load)
    \/ Setup
    \/ ready /\ Silent(Call)
    \/ ready /\ Silent(Dispatch)
    \/ ~ Tells /\ Silent(Process)
    \/ Push
    \/ PushFails
    \/ Silent(DispatchEnds)

PSpec == PInit /\ [][PNext]_pvars

-----------------------------------------------------------------------------
PublishTypeOK ==
    /\ ready \in BOOLEAN /\ behind \in BOOLEAN
    /\ status \in OperStatus \cup {"none"}
    /\ admin \in Value["up"] \cup {"none"}
    /\ failures \in 0 .. MaxFailures

(* Nothing waits between the kernel and a daemon that polls.               *)
AtRest ==
    /\ ready /\ present /\ ~ lost
    /\ sockq \o ntfq = <<>>
    /\ IsLinkValid(kern)

(* Once all notifications were processed the datastore shows the state of  *)
(* the link, when the last publication succeeded and no request changed    *)
(* the object since: the publications follow the refreshes one by one,     *)
(* reloads in the middle of a list included.                               *)
PublishedCurrent ==
    AtRest /\ ~ behind => status = OperstateStr[kern.oper]

(* "The current operational state of the interface" (notes.txt:197):   *)
(* the same whatever was reloaded, as long as the object is up to date.    *)
OperPublished ==
    AtRest /\ iface.state = "clean" => status = OperstateStr[iface.oper]

(* "Changes in this leaf in the intended configuration are reflected in    *)
(* ifAdminStatus" (notes.txt:142-143), once the change is applied and all  *)
(* that the kernel said of it was processed.                               *)
AdminReflected ==
    AtRest /\ iface.state = "clean" => admin = iface.conf["up"]

(* Whatever the kernel says of the state of a link can be published: the   *)
(* leaf has an enumerated value for each (notes.txt:147-192).              *)
Expressible ==
    iface.state # "none" => OperstateStr[iface.oper] \in OperStatus
=============================================================================

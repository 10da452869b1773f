----------------------------- MODULE IfaceCache -----------------------------
(***************************************************************************)
(* One interface object of lib/iface.c, the kernel link it caches and the  *)
(* netlink socket between them, as the daemon drives them: multicast       *)
(* membership first, then the load, then calls of the API and dispatches   *)
(* of change notifications, each run to its end by the event loop while    *)
(* the kernel goes on.                                                     *)
(*                                                                         *)
(* Requests and notifications share the one socket of the gate.  A request *)
(* reads it until its own answer comes, so notifications that were waiting *)
(* in the socket end up in the library's list of parsed ones (ntfq); the   *)
(* event loop only dispatches when the socket itself (sockq) is readable.  *)
(***************************************************************************)
EXTENDS Iface, Sequences

CONSTANTS MaxEvents,  \* bound on the changes of the link
          SockCap     \* notifications the receive buffer of the socket holds

ASSUME BoundAssumption == MaxEvents \in Nat /\ SockCap \in Nat

VARIABLES
    kern,     \* the link, as the kernel holds it
    present,  \* the link exists
    joined,   \* the socket is a member of the RTNLGRP_LINK multicast group
    sockq,    \* notifications in the receive buffer of the socket
    ntfq,     \* notifications parsed and listed, not processed yet
    lost,     \* the kernel dropped a notification, the buffer being full
    iface,    \* the interface object
    loop,     \* "idle", or "notify" while notifications are processed
    crashed,  \* the program ran into undefined behaviour
    events    \* changes of the link so far

vars == <<kern, present, joined, sockq, ntfq, lost, iface, loop, crashed,
          events>>

(* A notification, as far as its receiver looks at it.                     *)
NewLink(link) ==
    [cmd |-> "newlink", valid |-> IsLinkValid(link), oper |-> link.oper]
DelLink(link) ==
    [cmd |-> "dellink", valid |-> IsLinkValid(link), oper |-> link.oper]

Message == [cmd : {"newlink", "dellink"}, valid : BOOLEAN, oper : Oper]

Init ==
    /\ kern \in Link
    /\ "mtu" \in Field => kern.conf["mtu"] \in MtuRange
    /\ present = TRUE
    /\ joined = FALSE
    /\ sockq = <<>> /\ ntfq = <<>>
    /\ lost = FALSE
    /\ iface = [Fill(kern) EXCEPT !.state = "none"]
    /\ loop = "idle"
    /\ crashed = FALSE
    /\ events = 0

(***************************************************************************)
(* The socket.                                                             *)
(***************************************************************************)
Overruns == joined /\ Len(sockq) >= SockCap

Posted(msg) == IF joined /\ ~ Overruns THEN Append(sockq, msg) ELSE sockq

(* The kernel changes the link on its own and tells the group.             *)
Post(msg) ==
    /\ sockq' = Posted(msg)
    /\ lost' = (lost \/ Overruns)
    /\ UNCHANGED ntfq

(* A request that leaves the link alone: what waited is listed.            *)
Request ==
    /\ ntfq' = ntfq \o sockq
    /\ sockq' = <<>>
    /\ UNCHANGED lost

(* A request that changes the link: its own notification precedes its      *)
(* acknowledgement.                                                        *)
RequestChange(msg) ==
    /\ ntfq' = ntfq \o Posted(msg)
    /\ sockq' = <<>>
    /\ lost' = (lost \/ Overruns)

(***************************************************************************)
(* The kernel.                                                             *)
(***************************************************************************)
KernelOper(o) ==
    /\ present /\ events < MaxEvents
    /\ o # kern.oper
    /\ kern' = [kern EXCEPT !.oper = o]
    /\ events' = events + 1
    /\ Post(NewLink(kern'))
    /\ UNCHANGED <<present, joined, iface, loop, crashed>>

KernelRemove ==
    /\ present
    /\ present' = FALSE
    /\ Post(DelLink(kern))
    /\ UNCHANGED <<kern, joined, iface, loop, crashed, events>>

(***************************************************************************)
(* Start of the daemon: nlifd_open() enables notifications, then loads.    *)
(***************************************************************************)
EnableNotif ==
    /\ ~ joined
    /\ joined' = TRUE
    /\ UNCHANGED <<kern, present, sockq, ntfq, lost, iface, loop, crashed,
                   events>>

(* Mutant: the load does not wait for the membership.                      *)
LoadBeforeJoin ==
    /\ loop = "idle"
    /\ iface.state = "none"
    /\ Request
    /\ iface' = IF present /\ IsLinkValid(kern) THEN Fill(kern) ELSE iface
    /\ UNCHANGED <<kern, present, joined, loop, crashed, events>>

Load ==
    /\ joined /\ loop = "idle"
    /\ iface.state = "none"
    /\ Request
    /\ iface' = IF present /\ IsLinkValid(kern) THEN Fill(kern) ELSE iface
    /\ UNCHANGED <<kern, present, joined, loop, crashed, events>>

(***************************************************************************)
(* Calls of the API, from handlers the event loop runs.                    *)
(***************************************************************************)
Callable == loop = "idle" /\ iface.state # "none" /\ ~ crashed

(* nlif_iface_sync() asks the kernel for an invalid object only.           *)
SyncRequest ==
    IF iface.state = "invalid" THEN Request ELSE UNCHANGED <<sockq, ntfq, lost>>

(* nlif_iface_set_*() of attribute f.                                      *)
Set(f, v) ==
    /\ Callable
    /\ SyncRequest
    /\ \E i \in Syncs(iface, kern, present) :
          /\ crashed' = (Usable(i) /\ ComparesNull(i, f, v))
          /\ iface' = IF Usable(i) THEN WithField(i, f, v) ELSE i
    /\ UNCHANGED <<kern, present, joined, loop, events>>

(* nlif_iface_coherent_*().                                                *)
Get ==
    /\ Callable
    /\ SyncRequest
    /\ iface' \in Syncs(iface, kern, present)
    /\ UNCHANGED <<kern, present, joined, loop, crashed, events>>

(* nlif_iface_reload(), pending changes being dropped if it succeeds.      *)
Reload ==
    /\ Callable
    /\ Request
    /\ iface' \in Reloads(iface, kern, present)
    /\ UNCHANGED <<kern, present, joined, loop, crashed, events>>

(* nlif_iface_load_stats(), for an operational get of the statistics: a    *)
(* request that leaves the object alone, but not the socket.               *)
LoadStats ==
    /\ Callable
    /\ Request
    /\ UNCHANGED <<kern, present, joined, iface, loop, crashed, events>>

(* nlif_iface_apply() of a dirty object, the kernel setting all of the     *)
(* dirty attributes; the store may then refuse the MODIFY event.           *)
Apply ==
    /\ Callable /\ iface.state = "dirty"
    /\ present /\ events < MaxEvents
    /\ kern' \in Commits(kern, iface, iface.dirty)
    /\ events' = events + 1
    /\ RequestChange(NewLink(kern'))
    /\ iface' \in {Applied(iface), Invalidated(iface)}
    /\ UNCHANGED <<present, joined, loop, crashed>>

(* Mutant: the error path takes the object for applied.                    *)
ApplyFailsTrusted(D) ==
    /\ Callable /\ iface.state = "dirty"
    /\ D \subseteq iface.dirty
    /\ IF D = {}
          THEN Request /\ UNCHANGED <<kern, events>>
          ELSE /\ present /\ events < MaxEvents
               /\ kern' \in Commits(kern, iface, D)
               /\ events' = events + 1
               /\ RequestChange(NewLink(kern'))
    /\ iface' = Applied(iface)
    /\ UNCHANGED <<present, joined, loop, crashed>>

(* The setlink request fails, having set the attributes D nevertheless.    *)
ApplyFails(D) ==
    /\ Callable /\ iface.state = "dirty"
    /\ D \subseteq iface.dirty
    /\ IF D = {}
          THEN /\ Request
               /\ UNCHANGED <<kern, events>>
          ELSE /\ present /\ events < MaxEvents
               /\ kern' \in Commits(kern, iface, D)
               /\ events' = events + 1
               /\ RequestChange(NewLink(kern'))
    /\ iface' = Invalidated(iface)
    /\ UNCHANGED <<present, joined, loop, crashed>>

(***************************************************************************)
(* Dispatch of notifications: nlif_gate_notify_changes() lists all that is *)
(* in the socket, then processes the list to its end.                      *)
(***************************************************************************)
Dispatch ==
    /\ loop = "idle" /\ ~ crashed
    /\ sockq # <<>>
    /\ Request
    /\ loop' = "notify"
    /\ UNCHANGED <<kern, present, joined, iface, crashed, events>>

(* nlif_store_on_iface_change() refreshes the object.  When this changed   *)
(* it, nlifd_push_oper() asks for its coherent name, which reloads an      *)
(* invalid object in the middle of the list.                               *)
Process ==
    /\ loop = "notify" /\ ntfq # <<>>
    /\ LET msg == Head(ntfq)
           i   == IF msg.cmd = "newlink" /\ msg.valid /\ iface.state # "none"
                      THEN Refreshed(iface, msg.oper) ELSE iface
       IN IF i = iface
             THEN /\ ntfq' = Tail(ntfq)
                  /\ UNCHANGED <<sockq, iface>>
             ELSE /\ iface' \in Syncs(i, kern, present)
                  /\ IF i.state = "invalid"
                        THEN ntfq' = Tail(ntfq) \o sockq /\ sockq' = <<>>
                        ELSE ntfq' = Tail(ntfq) /\ UNCHANGED sockq
    /\ UNCHANGED <<kern, present, joined, lost, loop, crashed, events>>

(* Mutant: the list is given up before its end.                            *)
DispatchEndsEarly ==
    /\ loop = "notify"
    /\ loop' = "idle"
    /\ UNCHANGED <<kern, present, joined, sockq, ntfq, lost, iface, crashed,
                   events>>

DispatchEnds ==
    /\ loop = "notify" /\ ntfq = <<>>
    /\ loop' = "idle"
    /\ UNCHANGED <<kern, present, joined, sockq, ntfq, lost, iface, crashed,
                   events>>

Next ==
    \/ \E o \in Oper : KernelOper(o)
    \/ KernelRemove
    \/ EnableNotif
    \/ Load
    \/ \E f \in Field : \E v \in Value[f] : Set(f, v)
    \/ Get
    \/ Reload
    \/ LoadStats
    \/ Apply
    \/ \E D \in SUBSET Field : ApplyFails(D)
    \/ Dispatch
    \/ Process
    \/ DispatchEnds

Spec == Init /\ [][Next]_vars

(* The event loop dispatches a socket that stays readable, and the loop of *)
(* nlif_gate_notify_changes() goes on to its end.  Nothing obliges the     *)
(* kernel or a caller to act.                                              *)
Fairness == WF_vars(Dispatch) /\ WF_vars(Process) /\ WF_vars(DispatchEnds)

FairSpec == Spec /\ Fairness

-----------------------------------------------------------------------------
TypeOK ==
    /\ kern \in Link
    /\ present \in BOOLEAN /\ joined \in BOOLEAN
    /\ sockq \in Seq(Message) /\ ntfq \in Seq(Message)
    /\ lost \in BOOLEAN /\ crashed \in BOOLEAN
    /\ iface \in IfaceRecord
    /\ loop \in {"idle", "notify"}
    /\ events \in 0 .. MaxEvents

(* The dirty masks agree with the state: nothing is pending in a clean     *)
(* object and something is in a dirty one, as nlif_iface_apply() asserts   *)
(* before it builds its request (iface.c:761).                             *)
DirtyMask ==
    /\ iface.state = "clean" => iface.dirty = {}
    /\ iface.state = "dirty" => iface.dirty # {}

(* A usable object shows the kernel's value of every attribute its caller  *)
(* has not changed since: a request that failed half way, or one whose     *)
(* MODIFY event was refused, never leaves the cache trusted.               *)
CacheCoherent ==
    Usable(iface) =>
        \A f \in Field \ iface.dirty : iface.conf[f] = kern.conf[f]

(* A usable object has a name and an alias that differ and an MTU within   *)
(* the range of its link (iface.h:60-63), whatever the order in which they *)
(* are set, removed and half applied: the checks the setters make against  *)
(* pending values are enough.                                              *)
WellFormed ==
    Usable(iface) =>
        /\ ~ Ambiguous(iface.conf)
        /\ "mtu" \in Field => iface.conf["mtu"] \in MtuRange

(* No update of the operational state is lost between the kernel and the   *)
(* object: whenever the object is out of date, the notification that will  *)
(* correct it is the last one waiting.  Membership before the dump, and    *)
(* the reload in the middle of a list, are what could break it.            *)
OperTracked ==
    joined /\ present /\ ~ lost =>
        IF sockq # <<>> THEN sockq[Len(sockq)] = NewLink(kern)
        ELSE IF ntfq # <<>> THEN ntfq[Len(ntfq)] = NewLink(kern)
        ELSE iface.state # "none" /\ IsLinkValid(kern) =>
                 iface.oper = kern.oper

(* When an apply succeeds the kernel holds every attribute the object      *)
(* showed its caller before the call, those left alone included.           *)
AppliedIsWhole ==
    [][iface.state = "dirty" /\ iface'.state = "clean" /\ kern' # kern
          => kern'.conf = iface.conf]_vars

(* A notification never touches what a caller set and did not apply yet,   *)
(* which is why nlif_store_on_iface_change() refreshes the operational     *)
(* state alone (store.c:416-426).                                          *)
NotifKeepsPending ==
    [][loop = "notify" /\ iface.state = "dirty"
          => [iface' EXCEPT !.oper = iface.oper] = iface]_vars

(* A dispatch brings the object up to date, or leaves in the socket what   *)
(* will start the next one: the list it empties grows while it runs, and   *)
(* an invalid object is reloaded under it.                                 *)
OperCurrent ==
    present /\ ~ lost /\ ~ crashed /\ iface.state # "none" /\ IsLinkValid(kern)
        => iface.oper = kern.oper

DispatchCatchesUp == loop = "notify" ~> OperCurrent \/ sockq # <<>>

(* What Config.in:50-51 says of the store, a "caching mechanism when       *)
(* coupled with asynchronous object changes notifications": the cached     *)
(* operational state catches up with that of a link that stays.            *)
OperCatchesUp == []<>OperCurrent

(* The same, whatever the kernel had to drop: OperTracked without its      *)
(* proviso.                                                                *)
OperTrackedAlways ==
    joined /\ present /\ sockq \o ntfq = <<>> /\ iface.state # "none"
        /\ IsLinkValid(kern) => iface.oper = kern.oper

(* nlif_iface_set_name() "Replace old name (if any) with the new one       *)
(* provided that `name' does not conflict with current interface's alias"  *)
(* (iface.c:190-194), also when there is no alias.                         *)
SetNameDefined == ~ crashed
=============================================================================

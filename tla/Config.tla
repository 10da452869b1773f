------------------------------- MODULE Config -------------------------------
(***************************************************************************)
(* The configuration side of the daemon, src/nlifd.c: what sysrepo's       *)
(* CHANGE, DONE and ABORT events make of the leaves `enabled' and `type'   *)
(* of the interface list, over the objects of the store and the kernel.    *)
(*                                                                         *)
(* A change event runs in two passes: a handler per changed leaf, which    *)
(* only touches the objects, then nlif_iface_apply() on every interface of *)
(* the store.  When an apply fails the changed leaves are restored and     *)
(* every interface is applied again.  Steps of a pass are separate         *)
(* actions, as the kernel acts between two requests of the daemon.         *)
(*                                                                         *)
(* Entry n of the list names interface n, which is n-th in the store;      *)
(* entry N + 1 stands for all those that name no interface of the store.   *)
(***************************************************************************)
EXTENDS Iface, FiniteSets

CONSTANTS N,         \* interfaces in the store
          MaxLeaves, \* bound on the leaves of a transaction
          MaxFaults  \* bound on the requests that fail with no good reason

ASSUME ConfigAssumption ==
    /\ N \in Nat /\ MaxLeaves \in Nat /\ MaxFaults \in Nat
    /\ Field = {"up"} /\ Value["up"] = {"up", "down"}

VARIABLES
    kern,     \* kern[n]: link n, as the kernel holds it
    present,  \* the links that still exist
    iface,    \* iface[n]: the interface object of link n in the store
    running,  \* the leaf `enabled' of each entry that names an interface, in
              \* the running datastore
    tx,       \* the leaf changes of the transaction
    todo,     \* those whose handler has not run yet in this pass
    pos,      \* the interface to apply next in this pass
    phase,    \* where the event is
    answer,   \* what the apply that failed answers, or "abort"
    faults,   \* requests failed so far with no good reason
    settled   \* interfaces a change of which was accepted, no request and
              \* no change handler of which failed since

vars == <<kern, present, iface, running, tx, todo, pos, phase, answer, faults,
          settled>>

Ifaces == 1 .. N
LeafValue == {"up", "down", "unset"}

(* netlink-interfaces.yang replaces the default of `enabled' by "false".   *)
Desired(v) == IF v = "unset" THEN "down" ELSE v

(* The changes of a leaf, as the handlers tell them apart.                 *)
Change ==
    [name : Ifaces, leaf : {"enabled"}, old : LeafValue, new : LeafValue]
    \cup [name : Ifaces, leaf : {"type"}, old : {"any"},
           new : {"match", "mismatch", "unset"}]
    \cup [name : {N + 1}, leaf : {"any"}, old : {"any"}, new : {"any"}]

EnabledOf(cs) == {c \in cs : c.leaf = "enabled"}
Names(cs) == {c.name : c \in cs}

Init ==
    /\ kern \in [Ifaces -> Link]
    /\ present = Ifaces
    /\ iface = [n \in Ifaces |-> Fill(kern[n])]
    /\ running \in [Ifaces -> LeafValue]
    /\ tx = {} /\ todo = {} /\ pos = 1
    /\ phase = "idle" /\ answer = "none"
    /\ faults = 0
    /\ settled = {}

(***************************************************************************)
(* The environment: links go away, clients edit, sysrepo tells.            *)
(***************************************************************************)
Unplug(n) ==
    /\ n \in present
    /\ present' = present \ {n}
    /\ UNCHANGED <<kern, iface, running, tx, todo, pos, phase, answer, faults,
                   settled>>

(* A client adds a leaf to its transaction, then commits it.               *)
Edit(c) ==
    /\ phase = "idle"
    /\ Cardinality(tx) < MaxLeaves
    /\ c.leaf = "enabled" => c.old = running[c.name] /\ c.new # c.old
    /\ \A d \in tx : d.name = c.name => d.leaf # c.leaf
    /\ tx' = tx \cup {c}
    /\ UNCHANGED <<kern, present, iface, running, todo, pos, phase, answer,
                   faults, settled>>

Commit ==
    /\ phase = "idle" /\ tx # {}
    /\ phase' = "change" /\ todo' = tx
    /\ UNCHANGED <<kern, present, iface, running, tx, pos, answer, faults,
                   settled>>

(* The event was shelved: sysrepo delivers it again.                       *)
Redeliver ==
    /\ phase = "shelved"
    /\ phase' = "change" /\ todo' = tx
    /\ UNCHANGED <<kern, present, iface, running, tx, pos, answer, faults,
                   settled>>

(* Every subscriber accepted: sysrepo stores the changes and sends DONE.   *)
Done ==
    /\ phase = "accepted"
    /\ running' = [n \in Ifaces |->
                      LET cs == {c \in EnabledOf(tx) : c.name = n}
                      IN  IF cs = {} THEN running[n] ELSE (CHOOSE c \in cs : TRUE).new]
    /\ settled' = settled \cup Names(EnabledOf(tx))
    /\ tx' = {} /\ phase' = "idle"
    /\ UNCHANGED <<kern, present, iface, todo, pos, answer, faults>>

(* Another subscriber refused: the daemon gets an ABORT event.             *)
Abort ==
    /\ phase = "accepted"
    /\ phase' = "restore" /\ todo' = tx /\ answer' = "abort"
    /\ UNCHANGED <<kern, present, iface, running, tx, pos, faults, settled>>

(* The transaction failed: sysrepo drops it.                               *)
Conclude ==
    /\ phase \in {"refused", "rejected", "aborted"}
    /\ tx' = {} /\ phase' = "idle"
    /\ UNCHANGED <<kern, present, iface, running, todo, pos, answer, faults,
                   settled>>

(***************************************************************************)
(* Requests to the kernel fail for a link that is gone, and now and then   *)
(* for one that is there; -EAGAIN is answered with CALLBACK_SHELVE.        *)
(***************************************************************************)
Fails(n) ==
    IF n \in present
        THEN faults < MaxFaults /\ faults' = faults + 1
        ELSE UNCHANGED faults

Answers(n) == IF n \in present THEN {"reject", "shelve"} ELSE {"reject"}

SyncsOf(n) == Syncs(iface[n], kern[n], n \in present)

(* Between events, a notification of link n has its object reloaded when   *)
(* it is invalid (nlifd_push_oper() asks for its coherent name).           *)
Resync(n) ==
    /\ phase \in {"idle", "accepted", "shelved"}
    /\ n \in present /\ iface[n].state = "invalid"
    /\ \E i \in SyncsOf(n) : Usable(i) /\ iface' = [iface EXCEPT ![n] = i]
    /\ UNCHANGED <<kern, present, running, tx, todo, pos, phase, answer,
                   faults, settled>>

(***************************************************************************)
(* First pass of a CHANGE event: a handler per changed leaf.               *)
(***************************************************************************)
(* The handler returns before it looks at the object.                      *)
LooksAtNothing(c) == c.leaf = "type" /\ c.new = "unset"

Edited(i, c, v) == IF c.leaf = "enabled" THEN WithField(i, "up", Desired(v)) ELSE i

ChangeLeaf(c) ==
    /\ phase = "change" /\ c \in todo
    /\ c.name \in Ifaces /\ c.new # "mismatch"
    /\ IF LooksAtNothing(c)
          THEN UNCHANGED iface
          ELSE \E i \in SyncsOf(c.name) :
                  /\ Usable(i)
                  /\ iface' = [iface EXCEPT ![c.name] = Edited(i, c, c.new)]
    /\ todo' = todo \ {c}
    /\ UNCHANGED <<kern, present, running, tx, pos, phase, answer, faults,
                   settled>>

(* No such interface, or not the type of it: what the handlers of other    *)
(* leaves did stays.                                                       *)
ChangeRefused(c) ==
    /\ phase = "change" /\ c \in todo
    /\ IF c.name \in Ifaces
          THEN /\ c.new = "mismatch"
               /\ \E i \in SyncsOf(c.name) :
                     Usable(i) /\ iface' = [iface EXCEPT ![c.name] = i]
          ELSE UNCHANGED iface
    /\ phase' = "refused" /\ todo' = {}
    /\ settled' = settled \ Names(tx)
    /\ UNCHANGED <<kern, present, running, tx, pos, answer, faults>>

(* The object cannot be synchronised.                                      *)
ChangeFails(c) ==
    /\ phase = "change" /\ c \in todo
    /\ c.name \in Ifaces /\ ~ LooksAtNothing(c)
    /\ \E i \in SyncsOf(c.name) :
          ~ Usable(i) /\ iface' = [iface EXCEPT ![c.name] = i]
    /\ Fails(c.name)
    /\ \E a \in Answers(c.name) :
          phase' = IF a = "shelve" THEN "shelved" ELSE "refused"
    /\ todo' = {}
    /\ settled' = settled \ Names(tx)
    /\ UNCHANGED <<kern, present, running, tx, pos, answer>>

ChangesDone ==
    /\ phase = "change" /\ todo = {}
    /\ phase' = "apply"
    /\ UNCHANGED <<kern, present, iface, running, tx, todo, pos, answer,
                   faults, settled>>

(***************************************************************************)
(* Second pass: nlif_iface_apply() on every interface of the store, for a  *)
(* change ("apply") as for what was restored ("reapply").                  *)
(***************************************************************************)
Applying == phase \in {"apply", "reapply"} /\ pos \in Ifaces

(* Nothing to do; without assertions an invalid object passes for clean.   *)
ApplySkips ==
    /\ Applying /\ iface[pos].state # "dirty"
    /\ pos' = pos + 1
    /\ UNCHANGED <<kern, present, iface, running, tx, todo, phase, answer,
                   faults, settled>>

(* Mutant: the pass ends with the first interface it applied.              *)
ApplySucceedsLast ==
    /\ Applying /\ iface[pos].state = "dirty" /\ pos \in present
    /\ \E new \in Commits(kern[pos], iface[pos], iface[pos].dirty) :
          kern' = [kern EXCEPT ![pos] = new]
    /\ iface' = [iface EXCEPT ![pos] = Applied(@)]
    /\ pos' = N + 1
    /\ UNCHANGED <<present, running, tx, todo, phase, answer, faults,
                   settled>>

ApplySucceeds ==
    /\ Applying /\ iface[pos].state = "dirty" /\ pos \in present
    /\ \E new \in Commits(kern[pos], iface[pos], iface[pos].dirty) :
          kern' = [kern EXCEPT ![pos] = new]
    /\ iface' = [iface EXCEPT ![pos] = Applied(@)]
    /\ pos' = pos + 1
    /\ UNCHANGED <<present, running, tx, todo, phase, answer, faults,
                   settled>>

(* Mutants: the object whose apply failed is taken for applied; the pass   *)
(* over what was restored starts where the first one stopped; a change     *)
(* whose apply failed goes on with the next interface.                     *)
ApplyFailsTrusted(D) ==
    /\ Applying /\ iface[pos].state = "dirty"
    /\ D \subseteq iface[pos].dirty /\ (D # {} => pos \in present)
    /\ Fails(pos)
    /\ \E new \in IF D = {} THEN {kern[pos]} ELSE Commits(kern[pos], iface[pos], D) :
          kern' = [kern EXCEPT ![pos] = new]
    /\ iface' = [iface EXCEPT ![pos] = Applied(@)]
    /\ IF phase = "apply"
          THEN /\ phase' = "restore" /\ todo' = tx /\ pos' = 1
               /\ answer' \in Answers(pos)
          ELSE pos' = pos + 1 /\ UNCHANGED <<phase, todo, answer>>
    /\ settled' = settled \ (present \cap {pos})
    /\ UNCHANGED <<present, running, tx>>
ApplyFailsResumes(D) ==
    /\ Applying /\ iface[pos].state = "dirty"
    /\ D \subseteq iface[pos].dirty /\ (D # {} => pos \in present)
    /\ Fails(pos)
    /\ \E new \in IF D = {} THEN {kern[pos]} ELSE Commits(kern[pos], iface[pos], D) :
          kern' = [kern EXCEPT ![pos] = new]
    /\ iface' = [iface EXCEPT ![pos] = Invalidated(@)]
    /\ IF phase = "apply"
          THEN /\ phase' = "restore" /\ todo' = tx
               /\ answer' \in Answers(pos)
               /\ UNCHANGED pos
          ELSE pos' = pos + 1 /\ UNCHANGED <<phase, todo, answer>>
    /\ settled' = settled \ (present \cap {pos})
    /\ UNCHANGED <<present, running, tx>>
ApplyFailsCarriesOn(D) ==
    /\ Applying /\ iface[pos].state = "dirty"
    /\ D \subseteq iface[pos].dirty /\ (D # {} => pos \in present)
    /\ Fails(pos)
    /\ \E new \in IF D = {} THEN {kern[pos]} ELSE Commits(kern[pos], iface[pos], D) :
          kern' = [kern EXCEPT ![pos] = new]
    /\ iface' = [iface EXCEPT ![pos] = Invalidated(@)]
    /\ pos' = pos + 1
    /\ UNCHANGED <<phase, todo, answer>>
    /\ settled' = settled \ (present \cap {pos})
    /\ UNCHANGED <<present, running, tx>>

(* Mutant: a change whose apply failed is answered at once, not undone.    *)
ApplyFailsAnswers(D) ==
    /\ Applying /\ iface[pos].state = "dirty"
    /\ D \subseteq iface[pos].dirty /\ (D # {} => pos \in present)
    /\ Fails(pos)
    /\ \E new \in IF D = {} THEN {kern[pos]} ELSE Commits(kern[pos], iface[pos], D) :
          kern' = [kern EXCEPT ![pos] = new]
    /\ iface' = [iface EXCEPT ![pos] = Invalidated(@)]
    /\ IF phase = "apply"
          THEN phase' = "rejected" /\ pos' = 1
          ELSE pos' = pos + 1 /\ UNCHANGED phase
    /\ settled' = settled \ (present \cap {pos})
    /\ UNCHANGED <<present, running, tx, todo, answer>>

(* The request fails, having set the attributes D nevertheless.  A change  *)
(* is then restored; a restoration goes on with the next interface.        *)
ApplyFails(D) ==
    /\ Applying /\ iface[pos].state = "dirty"
    /\ D \subseteq iface[pos].dirty /\ (D # {} => pos \in present)
    /\ Fails(pos)
    /\ \E new \in IF D = {} THEN {kern[pos]} ELSE Commits(kern[pos], iface[pos], D) :
          kern' = [kern EXCEPT ![pos] = new]
    /\ iface' = [iface EXCEPT ![pos] = Invalidated(@)]
    /\ IF phase = "apply"
          THEN /\ phase' = "restore" /\ todo' = tx /\ pos' = 1
               /\ answer' \in Answers(pos)
          ELSE pos' = pos + 1 /\ UNCHANGED <<phase, todo, answer>>
    /\ settled' = settled \ (present \cap {pos})
    /\ UNCHANGED <<present, running, tx>>

ApplyDone ==
    /\ phase \in {"apply", "reapply"} /\ pos = N + 1
    /\ \/ phase = "apply" /\ phase' = "accepted"
       \/ phase = "reapply" /\ answer = "reject" /\ phase' = "rejected"
       \/ phase = "reapply" /\ answer = "shelve" /\ phase' = "shelved"
       \/ phase = "reapply" /\ answer = "abort"  /\ phase' = "aborted"
    /\ pos' = 1 /\ answer' = "none"
    /\ UNCHANGED <<kern, present, iface, running, tx, todo, faults, settled>>

(***************************************************************************)
(* Restoration: no handler fails, whatever becomes of its leaf.            *)
(***************************************************************************)
(* Mutant: the leaves that were created are left alone.                    *)
RestoreLeafSkipsCreated(c) ==
    /\ phase = "restore" /\ c \in todo
    /\ IF c \in EnabledOf(tx) /\ c.old # "unset"
          THEN \E i \in SyncsOf(c.name) :
                  /\ iface' = [iface EXCEPT ![c.name] =
                                  IF Usable(i) THEN Edited(i, c, c.old) ELSE i]
                  /\ IF Usable(i)
                        THEN UNCHANGED <<faults, settled>>
                        ELSE /\ Fails(c.name)
                             /\ settled' = settled \ (present \cap {c.name})
          ELSE UNCHANGED <<iface, faults, settled>>
    /\ todo' = todo \ {c}
    /\ UNCHANGED <<kern, present, running, tx, pos, phase, answer>>

RestoreLeaf(c) ==
    /\ phase = "restore" /\ c \in todo
    /\ IF c \in EnabledOf(tx)
          THEN \E i \in SyncsOf(c.name) :
                  /\ iface' = [iface EXCEPT ![c.name] =
                                  IF Usable(i) THEN Edited(i, c, c.old) ELSE i]
                  /\ IF Usable(i)
                        THEN UNCHANGED <<faults, settled>>
                        ELSE /\ Fails(c.name)
                             /\ settled' = settled \ (present \cap {c.name})
          ELSE UNCHANGED <<iface, faults, settled>>
    /\ todo' = todo \ {c}
    /\ UNCHANGED <<kern, present, running, tx, pos, phase, answer>>

RestoreDone ==
    /\ phase = "restore" /\ todo = {}
    /\ phase' = "reapply"
    /\ UNCHANGED <<kern, present, iface, running, tx, todo, pos, answer,
                   faults, settled>>

Daemon ==
    \/ \E c \in todo : ChangeLeaf(c) \/ ChangeRefused(c) \/ ChangeFails(c)
    \/ ChangesDone
    \/ ApplySkips
    \/ ApplySucceeds
    \/ \E D \in SUBSET Field : ApplyFails(D)
    \/ ApplyDone
    \/ \E c \in todo : RestoreLeaf(c)
    \/ RestoreDone

Next ==
    \/ \E n \in Ifaces : Unplug(n) \/ Resync(n)
    \/ \E c \in Change : Edit(c)
    \/ Commit \/ Redeliver \/ Done \/ Abort \/ Conclude
    \/ Daemon

Spec == Init /\ [][Next]_vars

-----------------------------------------------------------------------------
TypeOK ==
    /\ kern \in [Ifaces -> Link]
    /\ present \subseteq Ifaces
    /\ iface \in [Ifaces -> IfaceRecord]
    /\ running \in [Ifaces -> LeafValue]
    /\ tx \subseteq Change /\ todo \subseteq tx
    /\ pos \in 1 .. N + 1
    /\ phase \in {"idle", "change", "shelved", "apply", "accepted", "restore",
                  "reapply", "refused", "rejected", "aborted"}
    /\ answer \in {"none", "reject", "shelve", "abort"}
    /\ faults \in 0 .. MaxFaults
    /\ settled \subseteq Ifaces

(* A usable object shows the kernel's administrative state or has it       *)
(* marked as changed, whichever step of an event failed before: the two    *)
(* passes and the restoration never trust an object that lies.             *)
ObjectsCoherent ==
    \A n \in Ifaces :
        Usable(iface[n]) /\ iface[n].dirty = {} => iface[n].conf = kern[n].conf

(* A change the daemon accepts is in the kernel before sysrepo stores it:  *)
(* no leaf is forgotten because its object was clean, invalid or changed   *)
(* by an earlier event, or because the passes run over all interfaces.     *)
AcceptedIsApplied ==
    phase = "accepted" =>
        \A c \in EnabledOf(tx) : kern[c.name].conf["up"] = Desired(c.new)

(* An event that ran its passes leaves no change pending in any object,    *)
(* so that nothing of it can ride on a later transaction.                  *)
NothingPending ==
    phase \in {"accepted", "rejected", "aborted"} =>
        \A n \in Ifaces : iface[n].state # "dirty"

(* The transactions that must leave no trace: rejected, or aborted, with   *)
(* nothing in the way of their restoration.                                *)
Undone ==
    \/ phase = "rejected" /\ faults <= (IF present = Ifaces THEN 1 ELSE 0)
    \/ phase = "aborted" /\ faults = 0

(* A change that is rejected after some interfaces were applied, because   *)
(* a request failed once or a link was gone, is undone in the kernel; so   *)
(* is a change that is aborted.                                            *)
RolledBack ==
    Undone => \A c \in EnabledOf(tx) : c.name \in present =>
                 kern[c.name].conf["up"] = Desired(c.old)

(* Between transactions the kernel holds what the running datastore says   *)
(* of every interface configured since the daemon started, whatever became *)
(* of the other interfaces of its transactions, and of transactions that   *)
(* were rejected, aborted or shelved since.                                *)
InSync ==
    phase = "idle" => \A n \in settled \cap present :
                         kern[n].conf["up"] = Desired(running[n])

(* "Changes in this leaf in the intended configuration are reflected in    *)
(* ifAdminStatus" (notes.txt:142-143), and nothing else is: the state of   *)
(* a link only becomes what the transaction being processed asks for, or   *)
(* what it was before.                                                     *)
OnlyChangesReflected ==
    [][\A n \in Ifaces : kern'[n] # kern[n] =>
          \E c \in EnabledOf(tx) :
             c.name = n /\ kern'[n].conf["up"] \in {Desired(c.old), Desired(c.new)}]_vars

(* nlif_iface_apply() is not called on an invalid object, as it asserts    *)
(* (iface.c:756).                                                          *)
NeverMisused == Applying => iface[pos].state # "invalid"

=============================================================================

---------------------------- MODULE ConfigProofs ----------------------------
(* Config for every number of interfaces, leaves and failures: its safety, *)
(* what a transaction that fails leaves in the kernel, and how it          *)
(* implements a participant.                                               *)
EXTENDS ConfigRefinement, IfaceProofs

USE ConfigAssumption

(***************************************************************************)
(* The inductive invariant.  Objects are sound for their links; a leaf     *)
(* whose handler ran is carried by the object it names until its           *)
(* transaction is accepted; interfaces behind the position of a pass have  *)
(* nothing pending.                                                        *)
(***************************************************************************)
ObjectsSound ==
    \A n \in Ifaces : Sound(iface[n], kern[n]) /\ iface[n].state # "none"

Distinct == \A c, d \in EnabledOf(tx) : c.name = d.name => c = d

Handled ==
    {c \in EnabledOf(tx) : \/ phase = "change" /\ c \notin todo
                           \/ phase \in {"apply", "accepted"}}

Carries(c) ==
    Usable(iface[c.name]) /\ iface[c.name].conf["up"] = Desired(c.new)

HandledCarried == \A c \in Handled : Carries(c)

PassProgress ==
    /\ phase \in {"apply", "reapply"} =>
          \A n \in Ifaces : n < pos => iface[n].state # "dirty"
    /\ phase \in {"restore", "reapply"} => answer # "none"
    /\ phase \notin {"apply", "reapply"} => pos = 1
    /\ phase \notin {"change", "restore"} => todo = {}

ConfigInv ==
    TypeOK /\ ObjectsSound /\ Distinct /\ HandledCarried /\ PassProgress
    /\ NothingPending

(***************************************************************************)
(* The objects.                                                            *)
(***************************************************************************)
(* Without an MTU among the attributes none is out of range.               *)
LEMMA UpFits == \A conf : MtuFits(conf)
    BY DEF MtuFits

(* The entry and the values of a change are those the handlers expect.     *)
LEMMA ChangeShape ==
    ASSUME NEW c \in Change
    PROVE  /\ c.leaf = "enabled" =>
                 c.name \in Ifaces /\ c.old \in LeafValue /\ c.new \in LeafValue
           /\ c.name \in 1 .. N + 1
    BY DEF Change, Ifaces

(* The administrative state asked for is one the kernel knows.             *)
LEMMA DesiredType ==
    ASSUME NEW v \in LeafValue
    PROVE  Desired(v) \in Value["up"]
    BY DEF LeafValue, Desired

(* Synchronising an object that is usable already leaves it as it is.      *)
LEMMA SyncsOfSound ==
    ASSUME TypeOK, ObjectsSound, NEW n \in Ifaces, NEW i \in SyncsOf(n)
    PROVE  /\ i \in IfaceRecord /\ Sound(i, kern[n]) /\ i.state # "none"
           /\ Usable(iface[n]) => i = iface[n]
           /\ iface[n].state # "dirty" => i.state # "dirty"
<1>1. iface[n] \in IfaceRecord /\ kern[n] \in Link /\ (n \in present) \in BOOLEAN
    BY DEF TypeOK
<1>2. Sound(iface[n], kern[n]) /\ iface[n].state # "none"
    BY DEF ObjectsSound
<1>3. i \in Syncs(iface[n], kern[n], n \in present)
    BY DEF SyncsOf
<1>4. i \in IfaceRecord
    BY <1>1, <1>3, SyncsType
<1>5. Sound(i, kern[n]) /\ i.state # "none"
    BY <1>1, <1>2, <1>3, SyncsSound, UpFits
<1>6. Usable(iface[n]) => i = iface[n]
    BY <1>3 DEF Syncs, Usable
<1>7. iface[n].state # "dirty" => i.state # "dirty"
    BY <1>1, <1>3 DEF Syncs, Reloads, Invalidated, Fill, IfaceRecord
<1> QED BY <1>4, <1>5, <1>6, <1>7

(* A handler that has a usable object makes it carry its leaf.             *)
LEMMA EditedSound ==
    ASSUME NEW i \in IfaceRecord, NEW link \in Link, Sound(i, link), Usable(i),
           NEW c \in Change, NEW v, c.leaf = "enabled" => v \in LeafValue
    PROVE  /\ Edited(i, c, v) \in IfaceRecord
           /\ Sound(Edited(i, c, v), link)
           /\ Edited(i, c, v).state # "none"
           /\ Usable(Edited(i, c, v))
           /\ c.leaf = "enabled" => Edited(i, c, v).conf["up"] = Desired(v)
           /\ c.leaf # "enabled" => Edited(i, c, v) = i
<1>1. CASE c.leaf # "enabled"
    BY <1>1 DEF Edited, Usable
<1>2. CASE c.leaf = "enabled"
    <2> DEFINE d == Desired(v)
               w == WithField(i, "up", d)
    <2>1. d \in Value["up"] /\ "up" \in Field
        BY <1>2, DesiredType
    <2>2. Edited(i, c, v) = w
        BY <1>2 DEF Edited
    <2> HIDE DEF d
    <2>3. w \in IfaceRecord /\ Sound(w, link) /\ w.state # "none"
        BY <2>1, WithFieldType, WithFieldSound
    <2>4. ~ Refuses(i, "up", d)
        BY DEF Refuses
    <2>5. i.conf = [f \in Field |-> i.conf[f]]
        BY ConfElim DEF IfaceRecord
    <2>6. Usable(w) /\ w.conf["up"] = d
        BY <2>1, <2>4, <2>5 DEF WithField, Usable, IfaceRecord
    <2> QED BY <1>2, <2>2, <2>3, <2>6 DEF d
<1> QED BY <1>1, <1>2

(***************************************************************************)
(* What a step does to one object keeps all of them sound.                 *)
(***************************************************************************)
(* One object that is replaced by a sound one leaves all of them sound.    *)
LEMMA OneObject ==
    ASSUME TypeOK, ObjectsSound, NEW n \in Ifaces,
           NEW i \in IfaceRecord, NEW link \in Link,
           Sound(i, link), i.state # "none",
           iface' = [iface EXCEPT ![n] = i], kern' = [kern EXCEPT ![n] = link]
    PROVE  /\ iface' \in [Ifaces -> IfaceRecord] /\ kern' \in [Ifaces -> Link]
           /\ ObjectsSound'
           /\ iface'[n] = i /\ kern'[n] = link
           /\ \A m \in Ifaces : m # n => iface'[m] = iface[m]
<1>1. /\ iface' \in [Ifaces -> IfaceRecord] /\ kern' \in [Ifaces -> Link]
      /\ iface'[n] = i /\ kern'[n] = link
      /\ \A m \in Ifaces : m # n => iface'[m] = iface[m] /\ kern'[m] = kern[m]
    BY DEF TypeOK
<1>2. ASSUME NEW m \in Ifaces
      PROVE  Sound(iface'[m], kern'[m]) /\ iface'[m].state # "none"
    BY <1>1 DEF ObjectsSound
<1> QED BY <1>1, <1>2 DEF ObjectsSound

(* A step that replaces one object by a sound one keeps all of them sound. *)
LEMMA OneObjectOnly ==
    ASSUME TypeOK, ObjectsSound, NEW n \in Ifaces,
           NEW i \in IfaceRecord, Sound(i, kern[n]), i.state # "none",
           iface' = [iface EXCEPT ![n] = i], kern' = kern
    PROVE  /\ iface' \in [Ifaces -> IfaceRecord] /\ kern' \in [Ifaces -> Link]
           /\ ObjectsSound'
           /\ iface'[n] = i
           /\ \A m \in Ifaces : m # n => iface'[m] = iface[m]
<1>1. kern[n] \in Link /\ kern' = [kern EXCEPT ![n] = kern[n]]
    BY DEF TypeOK
<1> QED BY <1>1, OneObject

(* A request that fails stays within the bound on faults.                  *)
LEMMA FailsType ==
    ASSUME TypeOK, NEW n \in Ifaces, Fails(n)
    PROVE  faults' \in 0 .. MaxFaults
    BY DEF TypeOK, Fails

(* Only entries that name an interface have a leaf `enabled'.              *)
LEMMA EnabledNames ==
    ASSUME NEW cs \in SUBSET Change
    PROVE  Names(EnabledOf(cs)) \subseteq Ifaces
    BY ChangeShape DEF Names, EnabledOf

(* The daemon starts with nothing pending over objects just loaded.        *)
LEMMA InitInv == Init => ConfigInv
<1> SUFFICES ASSUME Init PROVE ConfigInv
    OBVIOUS
<1>1. ASSUME NEW n \in Ifaces
      PROVE  iface[n] \in IfaceRecord /\ Sound(iface[n], kern[n])
             /\ iface[n].state = "clean"
    <2>1. iface[n] = Fill(kern[n]) /\ kern[n] \in Link
        BY DEF Init
    <2>2. Fill(kern[n]) \in IfaceRecord
        BY <2>1, FillType
    <2> QED BY <2>1, <2>2, UpFits DEF Fill, Sound, Usable, Ambiguous
<1>2. iface \in [Ifaces -> IfaceRecord]
    BY <1>1 DEF Init
<1>3. TypeOK
    BY <1>2 DEF Init, TypeOK, Ifaces
<1>4. ObjectsSound
    BY <1>1 DEF ObjectsSound
<1> QED BY <1>3, <1>4 DEF ConfigInv, Init, Distinct, EnabledOf, Handled,
           HandledCarried, PassProgress, NothingPending

(***************************************************************************)
(* One lemma for each group of actions.  First those that touch neither    *)
(* object nor link.                                                        *)
(***************************************************************************)
(* A step that leaves objects and links alone.                             *)
LEMMA QuietSound ==
    ASSUME ObjectsSound, UNCHANGED <<kern, iface>>
    PROVE  ObjectsSound'
    BY DEF ObjectsSound

(* What links, clients and sysrepo do keeps the invariant.                 *)
LEMMA EnvironmentStep ==
    ASSUME ConfigInv,
           \/ \E n \in Ifaces : Unplug(n)
           \/ \E c \in Change : Edit(c)
           \/ Commit \/ Redeliver \/ Done \/ Abort \/ Conclude
    PROVE  ConfigInv'
<1> USE DEF ConfigInv
<1>0. UNCHANGED <<kern, iface, pos, faults>>
    BY DEF Unplug, Edit, Commit, Redeliver, Done, Abort, Conclude
<1>1. ObjectsSound'
    BY <1>0, QuietSound
<1>2. CASE \E n \in Ifaces : Unplug(n)
    <2>1. present' \subseteq Ifaces
        BY <1>2 DEF Unplug, TypeOK
    <2> QED BY <1>1, <1>2, <2>1 DEF Unplug, TypeOK, Distinct, Handled,
               HandledCarried, Carries, PassProgress, NothingPending
<1>3. CASE \E c \in Change : Edit(c)
    <2>1. PICK c \in Change : Edit(c)
        BY <1>3
    <2>2. TypeOK'
        BY <1>0, <2>1 DEF TypeOK, Edit
    <2>3. Distinct'
        BY <2>1 DEF Distinct, EnabledOf, Edit
    <2>4. Handled' = {}
        BY <2>1 DEF Handled, Edit
    <2> QED BY <1>1, <2>1, <2>2, <2>3, <2>4 DEF Edit, HandledCarried,
               PassProgress, NothingPending
<1>4. CASE Commit \/ Redeliver
    <2>1. TypeOK' /\ Distinct'
        BY <1>4 DEF Commit, Redeliver, TypeOK, Distinct, EnabledOf
    <2>2. Handled' = {}
        BY <1>4 DEF Handled, EnabledOf, Commit, Redeliver
    <2> QED BY <1>1, <1>4, <2>1, <2>2 DEF Commit, Redeliver, HandledCarried,
               PassProgress, NothingPending
<1>5. CASE Done
    <2>1. running' \in [Ifaces -> LeafValue]
        <3> DEFINE Of(n) == {c \in EnabledOf(tx) : c.name = n}
                   Leaf(n) == IF Of(n) = {} THEN running[n]
                              ELSE (CHOOSE c \in Of(n) : TRUE).new
        <3>1. ASSUME NEW n \in Ifaces PROVE Leaf(n) \in LeafValue
            <4>1. CASE Of(n) = {}
                BY <4>1 DEF TypeOK
            <4>2. CASE Of(n) # {}
                <5>1. (CHOOSE c \in Of(n) : TRUE) \in EnabledOf(tx)
                    BY <4>2
                <5> HIDE DEF Of
                <5>2. (CHOOSE c \in Of(n) : TRUE).new \in LeafValue
                    BY <5>1, ChangeShape DEF TypeOK, EnabledOf
                <5> QED BY <4>2, <5>2
            <4> QED BY <4>1, <4>2
        <3>2. running' = [n \in Ifaces |-> Leaf(n)]
            BY <1>5 DEF Done
        <3> HIDE DEF Leaf
        <3> QED BY <3>1, <3>2
    <2>2. settled' \subseteq Ifaces
        BY <1>5, EnabledNames DEF Done, TypeOK
    <2>3. todo' \subseteq {}
        BY <1>5 DEF Done, PassProgress
    <2> QED BY <1>1, <1>5, <2>1, <2>2, <2>3 DEF Done, TypeOK, Distinct,
               EnabledOf, Handled, HandledCarried, PassProgress, NothingPending
<1>6. CASE Abort
    <2>1. TypeOK' /\ Distinct'
        BY <1>6 DEF Abort, TypeOK, Distinct, EnabledOf
    <2>2. Handled' = {}
        BY <1>6 DEF Handled, Abort
    <2> QED BY <1>1, <1>6, <2>1, <2>2 DEF Abort, HandledCarried, PassProgress,
               NothingPending
<1>7. CASE Conclude
    BY <1>1, <1>7 DEF Conclude, TypeOK, Distinct, EnabledOf, Handled,
       HandledCarried, PassProgress, NothingPending
<1> QED BY <1>2, <1>3, <1>4, <1>5, <1>6, <1>7

(* Then those that synchronise one object, and may set a leaf in it.       *)
LEMMA ResyncStep ==
    ASSUME ConfigInv, NEW n \in Ifaces, Resync(n)
    PROVE  ConfigInv'
<1> USE DEF ConfigInv
<1>1. PICK i \in SyncsOf(n) : Usable(i) /\ iface' = [iface EXCEPT ![n] = i]
    BY DEF Resync
<1>2. /\ i \in IfaceRecord /\ Sound(i, kern[n]) /\ i.state # "none"
      /\ i.state # "dirty" /\ iface[n].state = "invalid"
    BY <1>1, SyncsOfSound DEF Resync
<1>3. /\ iface' \in [Ifaces -> IfaceRecord] /\ kern' \in [Ifaces -> Link]
      /\ ObjectsSound' /\ iface'[n] = i
      /\ \A m \in Ifaces : m # n => iface'[m] = iface[m]
    BY <1>1, <1>2, OneObjectOnly DEF Resync
<1>4. TypeOK' /\ Distinct' /\ Handled' = Handled
    BY <1>3 DEF Resync, TypeOK, Distinct, EnabledOf, Handled
<1>5. HandledCarried'
    <2> SUFFICES ASSUME NEW c \in Handled PROVE Carries(c)'
        BY <1>4 DEF HandledCarried
    <2>1. Carries(c) /\ c \in Change /\ c.leaf = "enabled"
        BY DEF HandledCarried, Handled, EnabledOf, TypeOK
    <2>2. c.name \in Ifaces /\ c.name # n
        BY <1>2, <2>1, ChangeShape DEF Carries, Usable
    <2> QED BY <1>3, <2>1, <2>2 DEF Carries
<1>6. PassProgress' /\ NothingPending'
    BY <1>2, <1>3 DEF Resync, PassProgress, NothingPending
<1> QED BY <1>3, <1>4, <1>5, <1>6

(* A change handler that succeeds leaves its change in the object.         *)
LEMMA ChangeLeafStep ==
    ASSUME ConfigInv, NEW c \in todo, ChangeLeaf(c)
    PROVE  ConfigInv'
<1> USE DEF ConfigInv
<1> DEFINE n == c.name
<1>1. c \in Change /\ c \in tx /\ n \in Ifaces /\ phase = "change"
      /\ phase' = "change" /\ tx' = tx /\ todo' = todo \ {c}
    BY DEF ChangeLeaf, TypeOK
<1>2. CASE LooksAtNothing(c)
    <2>1. UNCHANGED <<kern, iface>>
        BY <1>2 DEF ChangeLeaf
    <2>2. ObjectsSound'
        BY <2>1, QuietSound
    <2>3. TypeOK' /\ Distinct'
        BY <1>1, <2>1 DEF ChangeLeaf, TypeOK, Distinct
    <2>4. Handled' = Handled
        BY <1>1, <1>2 DEF Handled, EnabledOf, LooksAtNothing
    <2>5. HandledCarried'
        BY <2>1, <2>4 DEF HandledCarried, Carries
    <2> QED BY <1>1, <2>2, <2>3, <2>5 DEF ChangeLeaf, PassProgress, NothingPending
<1>3. CASE ~ LooksAtNothing(c)
    <2>1. PICK i \in SyncsOf(n) :
             Usable(i) /\ iface' = [iface EXCEPT ![n] = Edited(i, c, c.new)]
        BY <1>3 DEF ChangeLeaf
    <2>2. /\ i \in IfaceRecord /\ Sound(i, kern[n])
          /\ Usable(iface[n]) => i = iface[n]
        BY <1>1, <2>1, SyncsOfSound
    <2> DEFINE e == Edited(i, c, c.new)
    <2>3. c.leaf = "enabled" => c.new \in LeafValue
        BY <1>1, ChangeShape
    <2>4. kern[n] \in Link
        BY <1>1 DEF TypeOK
    <2>5. /\ e \in IfaceRecord /\ Sound(e, kern[n]) /\ e.state # "none"
          /\ Usable(e)
          /\ c.leaf = "enabled" => e.conf["up"] = Desired(c.new)
          /\ c.leaf # "enabled" => e = i
        BY <1>1, <2>1, <2>2, <2>3, <2>4, EditedSound
    <2> HIDE DEF e
    <2>6. iface' = [iface EXCEPT ![n] = e] /\ kern' = kern
        BY <2>1 DEF e, ChangeLeaf
    <2>7. /\ iface' \in [Ifaces -> IfaceRecord] /\ kern' \in [Ifaces -> Link]
          /\ ObjectsSound' /\ iface'[n] = e
          /\ \A m \in Ifaces : m # n => iface'[m] = iface[m]
        BY <1>1, <2>5, <2>6, OneObjectOnly
    <2>8. TypeOK' /\ Distinct'
        BY <1>1, <2>7 DEF ChangeLeaf, TypeOK, Distinct
    <2>9. ASSUME NEW d \in Handled' PROVE Carries(d)'
        <3>1. d \in EnabledOf(tx) /\ (d \notin todo \/ d = c) /\ d \in Change
            BY <1>1 DEF Handled, EnabledOf, TypeOK
        <3>2. CASE d = c
            BY <2>5, <2>7, <3>1, <3>2 DEF Carries, EnabledOf
        <3>3. CASE d # c
            <4>1. Carries(d) /\ d.name \in Ifaces
                BY <1>1, <3>1, <3>3, ChangeShape
                DEF HandledCarried, Handled, EnabledOf
            <4>2. CASE d.name # n
                BY <2>7, <4>1, <4>2 DEF Carries
            <4>3. CASE d.name = n
                <5>1. c.leaf # "enabled"
                    BY <1>1, <3>1, <3>3, <4>3 DEF Distinct, EnabledOf
                <5>2. e = iface[n]
                    BY <2>2, <2>5, <4>1, <4>3, <5>1 DEF Carries
                <5> QED BY <2>7, <4>1, <4>3, <5>2 DEF Carries
            <4> QED BY <4>2, <4>3
        <3> QED BY <3>2, <3>3
    <2> QED BY <1>1, <2>7, <2>8, <2>9 DEF ChangeLeaf, HandledCarried,
               PassProgress, NothingPending
<1> QED BY <1>2, <1>3

(* A change handler that fails ends the event, with no change carried.     *)
LEMMA ChangeEndsStep ==
    ASSUME ConfigInv, NEW c \in todo, ChangeRefused(c) \/ ChangeFails(c)
    PROVE  ConfigInv'
<1> USE DEF ConfigInv
<1>1. /\ phase = "change" /\ phase' \in {"shelved", "refused"} /\ todo' = {}
      /\ UNCHANGED <<kern, present, running, tx, pos, answer>>
      /\ settled' = settled \ Names(tx)
    BY DEF ChangeRefused, ChangeFails
<1>2. ObjectsSound' /\ iface' \in [Ifaces -> IfaceRecord]
    <2>1. CASE UNCHANGED iface
        BY <1>1, <2>1, QuietSound DEF TypeOK
    <2>2. CASE c.name \in Ifaces /\ \E i \in SyncsOf(c.name) :
                  iface' = [iface EXCEPT ![c.name] = i]
        BY <1>1, <2>2, SyncsOfSound, OneObjectOnly
    <2> QED BY <2>1, <2>2 DEF ChangeRefused, ChangeFails
<1>3. faults' \in 0 .. MaxFaults
    <2>1. CASE ChangeRefused(c)
        BY <2>1 DEF ChangeRefused, TypeOK
    <2>2. CASE ChangeFails(c)
        BY <2>2, FailsType DEF ChangeFails
    <2> QED BY <2>1, <2>2
<1>4. TypeOK' /\ Distinct'
    BY <1>1, <1>2, <1>3 DEF TypeOK, Distinct
<1>5. Handled' = {}
    BY <1>1 DEF Handled
<1> QED BY <1>1, <1>2, <1>4, <1>5 DEF HandledCarried, PassProgress, NothingPending

(* A restore handler keeps objects sound, whether it succeeds or not.      *)
LEMMA RestoreLeafStep ==
    ASSUME ConfigInv, NEW c \in todo, RestoreLeaf(c)
    PROVE  ConfigInv'
<1> USE DEF ConfigInv
<1>1. /\ phase = "restore" /\ todo' = todo \ {c} /\ c \in Change
      /\ UNCHANGED <<kern, present, running, tx, pos, phase, answer>>
    BY DEF RestoreLeaf, TypeOK
<1>2. /\ ObjectsSound' /\ iface' \in [Ifaces -> IfaceRecord]
      /\ faults' \in 0 .. MaxFaults /\ settled' \subseteq Ifaces
    <2>1. CASE c \notin EnabledOf(tx)
        <3>1. UNCHANGED <<iface, faults, settled>>
            BY <2>1 DEF RestoreLeaf
        <3> QED BY <1>1, <3>1, QuietSound DEF TypeOK
    <2>2. CASE c \in EnabledOf(tx)
        <3>1. c.name \in Ifaces /\ c.old \in LeafValue
            BY <1>1, <2>2, ChangeShape DEF EnabledOf
        <3>2. PICK i \in SyncsOf(c.name) :
                 /\ iface' = [iface EXCEPT ![c.name] =
                                 IF Usable(i) THEN Edited(i, c, c.old) ELSE i]
                 /\ IF Usable(i)
                       THEN UNCHANGED <<faults, settled>>
                       ELSE /\ Fails(c.name)
                            /\ settled' = settled \ (present \cap {c.name})
            BY <2>2 DEF RestoreLeaf
        <3>3. i \in IfaceRecord /\ Sound(i, kern[c.name]) /\ i.state # "none"
            BY <3>1, <3>2, SyncsOfSound
        <3> DEFINE e == IF Usable(i) THEN Edited(i, c, c.old) ELSE i
        <3>4. kern[c.name] \in Link
            BY <3>1 DEF TypeOK
        <3>5. e \in IfaceRecord /\ Sound(e, kern[c.name]) /\ e.state # "none"
            BY <1>1, <3>1, <3>3, <3>4, EditedSound
        <3>6. iface' = [iface EXCEPT ![c.name] = e]
            BY <3>2
        <3> HIDE DEF e
        <3>7. ObjectsSound' /\ iface' \in [Ifaces -> IfaceRecord]
            BY <1>1, <3>1, <3>5, <3>6, OneObjectOnly
        <3>8. faults' \in 0 .. MaxFaults /\ settled' \subseteq Ifaces
            BY <3>1, <3>2, FailsType DEF TypeOK
        <3> QED BY <3>7, <3>8
    <2> QED BY <2>1, <2>2
<1>3. TypeOK' /\ Distinct'
    BY <1>1, <1>2 DEF TypeOK, Distinct
<1>4. Handled' = {}
    BY <1>1 DEF Handled
<1> QED BY <1>1, <1>2, <1>3, <1>4 DEF HandledCarried, PassProgress, NothingPending

(* Then the pass over the interfaces.                                      *)
LEMMA PassEndsStep ==
    ASSUME ConfigInv, ChangesDone \/ RestoreDone \/ ApplySkips \/ ApplyDone
    PROVE  ConfigInv'
<1> USE DEF ConfigInv
<1>0. UNCHANGED <<kern, iface, tx, todo>>
    BY DEF ChangesDone, RestoreDone, ApplySkips, ApplyDone
<1>1. ObjectsSound' /\ Distinct' /\ (\A c \in tx : Carries(c)' <=> Carries(c))
    BY <1>0, QuietSound DEF Distinct, Carries
<1>2. CASE ChangesDone
    <2>1. Handled' = Handled
        BY <1>2 DEF ChangesDone, Handled, EnabledOf
    <2>2. HandledCarried'
        BY <1>1, <2>1 DEF HandledCarried, Handled, EnabledOf
    <2>3. pos = 1
        BY <1>2 DEF ChangesDone, PassProgress
    <2> QED BY <1>1, <1>2, <2>2, <2>3 DEF ChangesDone, TypeOK, PassProgress,
               NothingPending, Ifaces
<1>3. CASE RestoreDone
    <2>1. Handled' = {}
        BY <1>3 DEF RestoreDone, Handled
    <2>2. pos = 1
        BY <1>3 DEF RestoreDone, PassProgress
    <2> QED BY <1>1, <1>3, <2>1, <2>2 DEF RestoreDone, TypeOK, HandledCarried,
               PassProgress, NothingPending, Ifaces
<1>4. CASE ApplySkips
    <2>1. Handled' = Handled
        BY <1>4 DEF ApplySkips, Handled, EnabledOf
    <2>2. HandledCarried'
        BY <1>1, <2>1 DEF HandledCarried, Handled, EnabledOf
    <2>3. pos' = pos + 1 /\ pos \in 1 .. N
        BY <1>4 DEF ApplySkips, Applying, Ifaces
    <2>4. pos' \in 1 .. N + 1
        BY <2>3
    <2>5. \A n \in Ifaces : n < pos' => n < pos \/ n = pos
        BY <2>3 DEF Ifaces
    <2>6. PassProgress'
        BY <1>4, <2>5 DEF ApplySkips, Applying, PassProgress
    <2> QED BY <1>1, <1>4, <2>2, <2>4, <2>6 DEF ApplySkips, Applying, TypeOK,
               NothingPending
<1>5. CASE ApplyDone
    <2>1. \A n \in Ifaces : iface[n].state # "dirty"
        BY <1>5 DEF ApplyDone, PassProgress, Ifaces
    <2>2. phase' = "accepted" => phase = "apply"
        BY <1>5 DEF ApplyDone, PassProgress, TypeOK
    <2>3. Handled' \subseteq Handled
        BY <1>0, <1>5, <2>2 DEF ApplyDone, Handled, EnabledOf, PassProgress, TypeOK
    <2>4. HandledCarried'
        BY <1>1, <2>3 DEF HandledCarried, Handled, EnabledOf
    <2>5. phase' \in {"accepted", "rejected", "shelved", "aborted"}
        BY <1>5 DEF ApplyDone, PassProgress, TypeOK
    <2>6. TypeOK'
        BY <1>5, <2>5 DEF ApplyDone, TypeOK
    <2>7. PassProgress' /\ NothingPending'
        BY <1>0, <1>5, <2>1, <2>5 DEF ApplyDone, PassProgress, NothingPending
    <2> QED BY <1>1, <2>4, <2>6, <2>7
<1> QED BY <1>2, <1>3, <1>4, <1>5

(* An apply that succeeds moves the pass on, and the change to the kernel. *)
LEMMA ApplySucceedsStep ==
    ASSUME ConfigInv, ApplySucceeds
    PROVE  ConfigInv'
<1> USE DEF ConfigInv
<1>1. /\ phase \in {"apply", "reapply"} /\ pos \in Ifaces /\ pos' = pos + 1
      /\ iface[pos].state = "dirty" /\ iface[pos] \in IfaceRecord
      /\ kern[pos] \in Link /\ Sound(iface[pos], kern[pos])
      /\ UNCHANGED <<present, running, tx, todo, phase, answer, faults, settled>>
    BY DEF ApplySucceeds, Applying, TypeOK, ObjectsSound
<1>2. PICK new \in Commits(kern[pos], iface[pos], iface[pos].dirty) :
         kern' = [kern EXCEPT ![pos] = new]
    BY DEF ApplySucceeds
<1> DEFINE i == Applied(iface[pos])
<1>3. new \in Link
    BY <1>1, CommitsType DEF IfaceRecord
<1>4. Sound(i, new)
    BY <1>1, CommitsWhole DEF Usable
<1>5. i \in IfaceRecord
    <2>1. iface[pos].oper \in Oper
        BY <1>1 DEF IfaceRecord
    <2> QED BY <1>1, <2>1, UpdateType
<1>6. i.state = "clean" /\ i.conf = iface[pos].conf
    BY <1>1 DEF Applied, IfaceRecord
<1>7. iface' = [iface EXCEPT ![pos] = i]
    BY DEF ApplySucceeds
<1> HIDE DEF i
<1>8. /\ iface' \in [Ifaces -> IfaceRecord] /\ kern' \in [Ifaces -> Link]
      /\ ObjectsSound' /\ iface'[pos] = i
      /\ \A m \in Ifaces : m # pos => iface'[m] = iface[m]
    BY <1>1, <1>2, <1>3, <1>4, <1>5, <1>6, <1>7, OneObject
<1>9. pos' \in 1 .. N + 1 /\ \A n \in Ifaces : n < pos' => n < pos \/ n = pos
    BY <1>1 DEF Ifaces
<1>10. TypeOK' /\ Distinct'
    BY <1>1, <1>8, <1>9 DEF TypeOK, Distinct
<1>11. HandledCarried'
    <2> SUFFICES ASSUME NEW c \in Handled' PROVE Carries(c)'
        BY DEF HandledCarried
    <2>1. c \in Change /\ c.leaf = "enabled" /\ Carries(c)
        BY <1>1 DEF Handled, EnabledOf, HandledCarried, TypeOK
    <2>2. c.name \in Ifaces
        BY <2>1, ChangeShape
    <2> QED BY <1>6, <1>8, <2>1, <2>2 DEF Carries, Usable
<1>12. PassProgress' /\ NothingPending'
    BY <1>1, <1>6, <1>8, <1>9 DEF PassProgress, NothingPending
<1> QED BY <1>8, <1>10, <1>11, <1>12

(* An apply that fails leaves no trusted object and turns to the           *)
(* restoration, or goes on with it.                                        *)
LEMMA ApplyFailsStep ==
    ASSUME ConfigInv, NEW D \in SUBSET Field, ApplyFails(D)
    PROVE  ConfigInv'
<1> USE DEF ConfigInv
<1>1. /\ phase \in {"apply", "reapply"} /\ pos \in Ifaces
      /\ iface[pos].state = "dirty" /\ iface[pos] \in IfaceRecord
      /\ kern[pos] \in Link
      /\ UNCHANGED <<present, running, tx>>
      /\ settled' = settled \ (present \cap {pos})
    BY DEF ApplyFails, Applying, TypeOK
<1>2. PICK new \in IF D = {} THEN {kern[pos]} ELSE Commits(kern[pos], iface[pos], D) :
         kern' = [kern EXCEPT ![pos] = new]
    BY DEF ApplyFails
<1> DEFINE i == Invalidated(iface[pos])
<1>3. new \in Link
    BY <1>1, CommitsType
<1>4. i.state = "invalid"
    BY <1>1 DEF Invalidated, IfaceRecord
<1>5. i \in IfaceRecord
    <2>1. iface[pos].oper \in Oper
        BY <1>1 DEF IfaceRecord
    <2> QED BY <1>1, <2>1, UpdateType
<1>6. iface' = [iface EXCEPT ![pos] = i]
    BY DEF ApplyFails
<1>7. Sound(i, new)
    BY <1>4 DEF Sound, Usable
<1> HIDE DEF i
<1>8. /\ iface' \in [Ifaces -> IfaceRecord] /\ kern' \in [Ifaces -> Link]
      /\ ObjectsSound' /\ iface'[pos] = i
      /\ \A m \in Ifaces : m # pos => iface'[m] = iface[m]
    BY <1>1, <1>2, <1>3, <1>4, <1>5, <1>6, <1>7, OneObject
<1>9. faults' \in 0 .. MaxFaults /\ settled' \subseteq Ifaces
    BY <1>1, FailsType DEF ApplyFails, TypeOK
<1>10. Answers(pos) \subseteq {"reject", "shelve"}
    BY DEF Answers
<1>11. Distinct'
    BY <1>1 DEF Distinct
<1>12. CASE phase = "apply"
    <2>1. phase' = "restore" /\ todo' = tx /\ pos' = 1
          /\ answer' \in {"reject", "shelve"}
        BY <1>10, <1>12 DEF ApplyFails
    <2>2. Handled' = {}
        BY <2>1 DEF Handled
    <2>3. TypeOK'
        BY <1>1, <1>8, <1>9, <2>1 DEF TypeOK
    <2> QED BY <1>8, <1>11, <2>1, <2>2, <2>3 DEF HandledCarried, PassProgress,
               NothingPending
<1>13. CASE phase = "reapply"
    <2>1. pos' = pos + 1 /\ UNCHANGED <<phase, todo, answer>>
        BY <1>13 DEF ApplyFails
    <2>2. pos' \in 1 .. N + 1 /\ \A n \in Ifaces : n < pos' => n < pos \/ n = pos
        BY <1>1, <2>1 DEF Ifaces
    <2>3. Handled' = {}
        BY <1>13, <2>1 DEF Handled
    <2>4. TypeOK'
        BY <1>1, <1>8, <1>9, <2>1, <2>2 DEF TypeOK
    <2>5. PassProgress' /\ NothingPending'
        BY <1>4, <1>8, <1>13, <2>1, <2>2 DEF PassProgress, NothingPending
    <2> QED BY <1>8, <1>11, <2>3, <2>4, <2>5 DEF HandledCarried
<1> QED BY <1>1, <1>12, <1>13

(***************************************************************************)
(* The invariant and its consequences.                                     *)
(***************************************************************************)
LEMMA StepInv == ConfigInv /\ [Next]_vars => ConfigInv'
<1> SUFFICES ASSUME ConfigInv, [Next]_vars PROVE ConfigInv'
    OBVIOUS
<1>1. CASE UNCHANGED vars
    BY <1>1 DEF vars, ConfigInv, TypeOK, ObjectsSound, Distinct, EnabledOf,
       Handled, HandledCarried, Carries, PassProgress, NothingPending
<1>2. CASE Daemon
    BY <1>2, ChangeLeafStep, ChangeEndsStep, PassEndsStep, ApplySucceedsStep,
       ApplyFailsStep, RestoreLeafStep DEF Daemon
<1>3. CASE Next /\ ~ Daemon
    BY <1>3, EnvironmentStep, ResyncStep DEF Next
<1> QED BY <1>1, <1>2, <1>3

(* The inductive invariant of the configuration events: objects are sound, *)
(* handled changes are carried, passes leave nothing dirty behind them.    *)
THEOREM ConfigInvariant == Spec => []ConfigInv
    BY InitInv, StepInv, PTL DEF Spec

(* Every variable keeps its type.                                          *)
THEOREM TypeCorrect == Spec => []TypeOK
<1>1. ConfigInv => TypeOK
    BY DEF ConfigInv
<1> QED BY <1>1, ConfigInvariant, PTL

(* An object with nothing pending shows the kernel's configuration,        *)
(* whichever request of whichever pass failed before.                      *)
THEOREM CoherenceSafety == Spec => []ObjectsCoherent
<1>1. ConfigInv => ObjectsCoherent
    <2> SUFFICES ASSUME ConfigInv, NEW n \in Ifaces,
                        Usable(iface[n]), iface[n].dirty = {}
                 PROVE  iface[n].conf = kern[n].conf
        BY DEF ObjectsCoherent
    <2>1. iface[n].conf \in Conf /\ kern[n].conf \in Conf
        BY DEF ConfigInv, TypeOK, IfaceRecord, Link
    <2>2. \A f \in Field : iface[n].conf[f] = kern[n].conf[f]
        BY DEF ConfigInv, ObjectsSound, Sound
    <2> QED BY <2>1, <2>2, ConfElim
<1> QED BY <1>1, ConfigInvariant, PTL

(* An event that ran its passes leaves no change pending.                  *)
THEOREM PendingSafety == Spec => []NothingPending
<1>1. ConfigInv => NothingPending
    BY DEF ConfigInv
<1> QED BY <1>1, ConfigInvariant, PTL

(* What the daemon accepts is in the kernel.                               *)
THEOREM AcceptanceSafety == Spec => []AcceptedIsApplied
<1>1. ConfigInv => AcceptedIsApplied
    <2> SUFFICES ASSUME ConfigInv, phase = "accepted", NEW c \in EnabledOf(tx)
                 PROVE  kern[c.name].conf["up"] = Desired(c.new)
        BY DEF AcceptedIsApplied
    <2>1. c \in Change /\ c.leaf = "enabled" /\ c \in Handled
        BY DEF ConfigInv, TypeOK, EnabledOf, Handled
    <2>2. c.name \in Ifaces /\ Carries(c)
        BY <2>1, ChangeShape DEF ConfigInv, HandledCarried
    <2>3. Usable(iface[c.name]) /\ iface[c.name].state # "dirty"
        BY <2>2 DEF ConfigInv, Carries, NothingPending
    <2>4. iface[c.name].dirty = {} /\ "up" \in Field
        BY <2>2, <2>3 DEF ConfigInv, ObjectsSound, Sound, Usable
    <2>5. iface[c.name].conf["up"] = kern[c.name].conf["up"]
        BY <2>2, <2>3, <2>4 DEF ConfigInv, ObjectsSound, Sound
    <2> QED BY <2>2, <2>5 DEF Carries
<1> QED BY <1>1, ConfigInvariant, PTL

-----------------------------------------------------------------------------
(* What a transaction that fails leaves in the kernel.                     *)
(***************************************************************************)
(* The inductive invariant.  The ledger says, of every interface that is   *)
(* settled and present, what its link holds as long as its leaf is not     *)
(* told to the objects.  An interface whose leaf was restored, and that    *)
(* either is settled or hit no fault, carries the old leaf until the event *)
(* ends.                                                                   *)
(***************************************************************************)
Admin(n) == kern[n].conf["up"]

Rests(n, v) == iface[n].state # "dirty" /\ Admin(n) = Desired(v)

Restored(c) ==
    Usable(iface[c.name]) /\ iface[c.name].conf["up"] = Desired(c.old)

Undoing == phase \in {"restore", "reapply"}

Untold == {c \in EnabledOf(tx) :
              \/ phase \in {"idle", "shelved", "rejected", "aborted"}
              \/ phase = "change" /\ c \in todo}

(* No fault but the one that may have had the change rejected.             *)
Recoverable ==
    faults <= IF answer # "abort" /\ present = Ifaces THEN 1 ELSE 0

OldIsRunning == \A c \in EnabledOf(tx) : c.old = running[c.name]

Ledger ==
    \A n \in settled \cap present :
        /\ n \notin Names(EnabledOf(tx)) => Rests(n, running[n])
        /\ n \in Names(EnabledOf(tx)) => phase # "refused"
        /\ \A c \in Untold : c.name = n => Rests(n, c.old)

Accounted ==
    Undoing /\ answer # "abort" /\ present = Ifaces => faults >= 1

RestoredLeaves ==
    Undoing =>
        \A c \in EnabledOf(tx) \ todo :
            c.name \in present /\ (c.name \in settled \/ Recoverable)
                => Restored(c)

LedgerInv == OldIsRunning /\ Ledger /\ Accounted /\ RestoredLeaves /\ RolledBack

(***************************************************************************)
(* Facts the steps share.                                                  *)
(***************************************************************************)
(* The leaves `enabled' of a transaction, by the interface they name.      *)
LEMMA LeafShape ==
    ASSUME TypeOK, NEW c \in EnabledOf(tx)
    PROVE  /\ c \in Change /\ c \in tx /\ c.leaf = "enabled"
           /\ c.name \in Ifaces /\ c.name \in Names(EnabledOf(tx))
           /\ c.old \in LeafValue /\ c.new \in LeafValue
    BY ChangeShape DEF TypeOK, EnabledOf, Names

(* A usable object with nothing pending shows what the link holds.         *)
LEMMA CleanShows ==
    ASSUME ConfigInv, NEW n \in Ifaces,
           Usable(iface[n]), iface[n].state # "dirty"
    PROVE  iface[n].conf["up"] = Admin(n)
<1>1. iface[n].dirty = {} /\ "up" \in Field
    BY DEF ConfigInv, ObjectsSound, Sound, Usable
<1> QED BY <1>1 DEF ConfigInv, ObjectsSound, Sound, Admin

(* A leaf that an event restored, or accepted, is what its link holds once *)
(* the pass is over its interface.                                         *)
LEMMA RestoredRests ==
    ASSUME ConfigInv, NEW c \in EnabledOf(tx), Restored(c),
           iface[c.name].state # "dirty"
    PROVE  Rests(c.name, c.old)
<1>1. c.name \in Ifaces
    BY LeafShape DEF ConfigInv
<1> QED BY <1>1, CleanShows DEF Restored, Rests

(* A transaction that can be undone after a step could be before it.       *)
LEMMA RecoverableBefore ==
    ASSUME ConfigInv, Accounted, Undoing,
           faults' \in Nat, faults <= faults', present' \subseteq present,
           answer' = answer, Recoverable'
    PROVE  Recoverable
    BY DEF ConfigInv, TypeOK, Accounted, Recoverable

(* A request that fails for a link that is there cannot be afforded.       *)
LEMMA FaultIsFatal ==
    ASSUME ConfigInv, Accounted, Undoing, NEW n \in present, Fails(n),
           UNCHANGED <<present, answer>>
    PROVE  ~ Recoverable'
    BY DEF ConfigInv, TypeOK, Accounted, Recoverable, Fails

(* Nothing is asked and nothing settled in the beginning.                  *)
LEMMA InitLedger == Init => LedgerInv
    BY DEF Init, LedgerInv, OldIsRunning, Ledger, Accounted, RestoredLeaves,
       RolledBack, Undone, Undoing, EnabledOf

(***************************************************************************)
(* Links, clients and sysrepo.                                             *)
(***************************************************************************)
(* A link that goes away owes nothing any more.                            *)
LEMMA UnplugLedger ==
    ASSUME ConfigInv, LedgerInv, NEW n \in Ifaces, Unplug(n)
    PROVE  LedgerInv'
<1> USE DEF LedgerInv
<1>1. /\ present' \subseteq present /\ present' # Ifaces
      /\ UNCHANGED <<kern, iface, running, tx, todo, pos, phase, answer,
                     faults, settled>>
    BY DEF Unplug, ConfigInv, TypeOK
<1>2. OldIsRunning' /\ Ledger' /\ Accounted'
    BY <1>1 DEF OldIsRunning, Ledger, Accounted, Untold, Rests, Admin, Undoing
<1>3. RestoredLeaves'
    <2> SUFFICES ASSUME Undoing', NEW c \in EnabledOf(tx) \ todo,
                        c.name \in present', c.name \in settled \/ Recoverable'
                 PROVE  Restored(c)
        BY <1>1 DEF RestoredLeaves, Restored
    <2>1. Undoing /\ c.name \in present /\ faults \in Nat
        BY <1>1 DEF Undoing, ConfigInv, TypeOK
    <2>2. Recoverable' => Recoverable
        BY <1>1, <2>1 DEF Recoverable
    <2> QED BY <2>1, <2>2 DEF RestoredLeaves
<1>4. RolledBack'
    <2>1. Undone' => Undone
        BY <1>1 DEF Undone, ConfigInv, TypeOK
    <2> QED BY <1>1, <2>1 DEF RolledBack
<1> QED BY <1>2, <1>3, <1>4

(* An edit adds a leaf to a transaction that nobody was told of.           *)
LEMMA EditLedger ==
    ASSUME ConfigInv, LedgerInv, NEW c \in Change, Edit(c)
    PROVE  LedgerInv'
<1> USE DEF LedgerInv
<1>1. /\ phase = "idle" /\ tx' = tx \cup {c}
      /\ c.leaf = "enabled" => c.old = running[c.name]
      /\ \A d \in tx : d.name = c.name => d.leaf # c.leaf
      /\ UNCHANGED <<kern, present, iface, running, todo, pos, phase, answer,
                     faults, settled>>
    BY DEF Edit
<1>2. EnabledOf(tx') = EnabledOf(tx) \cup (IF c.leaf = "enabled" THEN {c} ELSE {})
    BY <1>1 DEF EnabledOf
<1>3. OldIsRunning'
    BY <1>1, <1>2 DEF OldIsRunning, EnabledOf
<1>4. Ledger'
    <2> SUFFICES ASSUME NEW n \in settled \cap present
                 PROVE  /\ n \notin Names(EnabledOf(tx')) => Rests(n, running[n])
                        /\ \A d \in EnabledOf(tx') : d.name = n => Rests(n, d.old)
        BY <1>1 DEF Ledger, Untold, Rests, Admin
    <2>1. n \notin Names(EnabledOf(tx')) => n \notin Names(EnabledOf(tx))
        BY <1>2 DEF Names
    <2>2. ASSUME NEW d \in EnabledOf(tx'), d.name = n
          PROVE  Rests(n, d.old)
        <3>1. CASE d \in EnabledOf(tx)
            BY <1>1, <2>2, <3>1 DEF Ledger, Untold
        <3>2. CASE d \notin EnabledOf(tx)
            <4>1. d = c /\ c.leaf = "enabled"
                BY <1>2, <3>2
            <4>2. n \notin Names(EnabledOf(tx))
                BY <1>1, <2>2, <4>1 DEF Names, EnabledOf
            <4> QED BY <1>1, <2>2, <4>1, <4>2 DEF Ledger
        <3> QED BY <3>1, <3>2
    <2> QED BY <2>1, <2>2 DEF Ledger
<1> QED BY <1>1, <1>3, <1>4 DEF Accounted, RestoredLeaves, RolledBack, Undone,
           Undoing

(* The events sysrepo sends: the transaction starts, or is taken up again. *)
LEMMA DeliverLedger ==
    ASSUME ConfigInv, LedgerInv, Commit \/ Redeliver
    PROVE  LedgerInv'
<1>1. /\ phase \in {"idle", "shelved"} /\ phase' = "change" /\ todo' = tx
      /\ UNCHANGED <<kern, present, iface, running, tx, pos, answer, faults,
                     settled>>
    BY DEF Commit, Redeliver
<1>2. Untold' = EnabledOf(tx) /\ Untold = EnabledOf(tx)
    BY <1>1 DEF Untold, EnabledOf
<1> QED BY <1>1, <1>2 DEF LedgerInv, OldIsRunning, Ledger, Accounted,
           RestoredLeaves, RolledBack, Undone, Undoing, Rests, Admin

(* What the datastore gets is what the links hold already.                 *)
LEMMA DoneLedger ==
    ASSUME ConfigInv, LedgerInv, Done
    PROVE  LedgerInv'
<1> USE DEF LedgerInv
<1>1. /\ phase = "accepted" /\ phase' = "idle" /\ tx' = {}
      /\ settled' = settled \cup Names(EnabledOf(tx))
      /\ UNCHANGED <<kern, present, iface, todo, pos, answer, faults>>
    BY DEF Done
<1>2. Names(EnabledOf(tx')) = {} /\ EnabledOf(tx') = {} /\ Untold' = {}
    BY <1>1 DEF Names, EnabledOf, Untold
<1>3. ASSUME NEW n \in settled' \cap present
      PROVE  Rests(n, running'[n])
    <2> DEFINE Of == {c \in EnabledOf(tx) : c.name = n}
    <2>1. n \in Ifaces
        BY DEF ConfigInv, TypeOK
    <2>2. running'[n] = IF Of = {} THEN running[n]
                                   ELSE (CHOOSE c \in Of : TRUE).new
        BY <2>1 DEF Done
    <2>3. CASE Of = {}
        <3>1. n \notin Names(EnabledOf(tx))
            BY <2>3 DEF Names
        <3> QED BY <1>1, <2>2, <2>3, <3>1 DEF Ledger
    <2>4. CASE Of # {}
        <3> DEFINE c == CHOOSE d \in Of : TRUE
        <3>1. c \in EnabledOf(tx) /\ c.name = n
            BY <2>4
        <3> HIDE DEF c
        <3>2. c \in Handled /\ c.name \in Ifaces
            BY <1>1, <2>1, <3>1 DEF Handled
        <3>3. Usable(iface[n]) /\ iface[n].conf["up"] = Desired(c.new)
            BY <3>1, <3>2 DEF ConfigInv, HandledCarried, Carries
        <3>4. iface[n].state # "dirty"
            BY <1>1, <2>1 DEF ConfigInv, NothingPending
        <3>5. Admin(n) = Desired(c.new)
            BY <2>1, <3>3, <3>4, CleanShows
        <3>6. running'[n] = c.new
            BY <2>2, <2>4 DEF c
        <3> QED BY <3>4, <3>5, <3>6 DEF Rests
    <2> QED BY <2>3, <2>4
<1>4. Ledger'
    BY <1>1, <1>2, <1>3 DEF Ledger, Rests, Admin
<1> QED BY <1>1, <1>2, <1>4 DEF OldIsRunning, Accounted, RestoredLeaves,
           RolledBack, Undone, Undoing

(* An abort restores every leaf of the transaction.                        *)
LEMMA AbortLedger ==
    ASSUME ConfigInv, LedgerInv, Abort
    PROVE  LedgerInv'
<1>1. /\ phase' = "restore" /\ todo' = tx /\ answer' = "abort"
      /\ UNCHANGED <<kern, present, iface, running, tx, pos, faults, settled>>
    BY DEF Abort
<1>2. Untold' = {} /\ EnabledOf(tx) \subseteq tx
    BY <1>1 DEF Untold, EnabledOf
<1> QED BY <1>1, <1>2 DEF LedgerInv, OldIsRunning, Ledger, Accounted,
           RestoredLeaves, RolledBack, Undone, Undoing, Rests, Admin

(* A transaction that failed leaves nothing asked.                         *)
LEMMA ConcludeLedger ==
    ASSUME ConfigInv, LedgerInv, Conclude
    PROVE  LedgerInv'
<1> USE DEF LedgerInv
<1>1. /\ phase \in {"refused", "rejected", "aborted"} /\ phase' = "idle" /\ tx' = {}
      /\ UNCHANGED <<kern, present, iface, running, todo, pos, answer, faults,
                     settled>>
    BY DEF Conclude
<1>2. Names(EnabledOf(tx')) = {} /\ EnabledOf(tx') = {} /\ Untold' = {}
    BY <1>1 DEF Names, EnabledOf, Untold
<1>3. ASSUME NEW n \in settled \cap present
      PROVE  Rests(n, running[n])
    <2>1. CASE n \notin Names(EnabledOf(tx))
        BY <2>1 DEF Ledger
    <2>2. CASE n \in Names(EnabledOf(tx))
        <3>1. phase \in {"rejected", "aborted"}
            BY <1>1, <2>2 DEF Ledger
        <3>2. PICK c \in EnabledOf(tx) : c.name = n
            BY <2>2 DEF Names
        <3>3. c \in Untold
            BY <3>1 DEF Untold
        <3> QED BY <3>2, <3>3 DEF Ledger, OldIsRunning
    <2> QED BY <2>1, <2>2
<1>4. Ledger'
    BY <1>1, <1>2, <1>3 DEF Ledger, Rests, Admin
<1> QED BY <1>1, <1>2, <1>4 DEF OldIsRunning, Accounted, RestoredLeaves,
           RolledBack, Undone, Undoing

(***************************************************************************)
(* The handlers.                                                           *)
(***************************************************************************)
(* A reload between events shows what the link holds.                      *)
LEMMA ResyncLedger ==
    ASSUME ConfigInv, LedgerInv, NEW n \in Ifaces, Resync(n)
    PROVE  LedgerInv'
<1> USE DEF LedgerInv
<1>1. PICK i \in SyncsOf(n) : Usable(i) /\ iface' = [iface EXCEPT ![n] = i]
    BY DEF Resync
<1>2. i.state # "dirty"
    BY <1>1, SyncsOfSound DEF Resync, ConfigInv
<1>3. /\ phase \in {"idle", "accepted", "shelved"}
      /\ UNCHANGED <<kern, present, running, tx, todo, pos, phase, answer,
                     faults, settled>>
    BY DEF Resync
<1>4. \A m \in Ifaces : iface[m].state # "dirty" => iface'[m].state # "dirty"
    BY <1>1, <1>2 DEF ConfigInv, TypeOK
<1>5. Ledger'
    BY <1>3, <1>4 DEF Ledger, Untold, Rests, Admin, ConfigInv, TypeOK
<1> QED BY <1>3, <1>5 DEF OldIsRunning, Accounted, RestoredLeaves, RolledBack,
           Undone, Undoing

(* A leaf that is told to its object leaves the ledger; the others stay.   *)
LEMMA ChangeLeafLedger ==
    ASSUME ConfigInv, LedgerInv, NEW c \in todo, ChangeLeaf(c)
    PROVE  LedgerInv'
<1> USE DEF LedgerInv
<1>1. /\ phase = "change" /\ c \in tx /\ c.name \in Ifaces /\ todo' = todo \ {c}
      /\ UNCHANGED <<kern, present, running, tx, pos, phase, answer, faults,
                     settled>>
    BY DEF ChangeLeaf, ConfigInv, TypeOK
<1>2. Untold' = Untold \ {c}
    BY <1>1 DEF Untold, EnabledOf
<1>3. ASSUME NEW m \in Ifaces, NEW v, Rests(m, v),
             m # c.name \/ c.leaf # "enabled"
      PROVE  Rests(m, v)'
    <2>1. CASE UNCHANGED iface
        BY <1>1, <1>3, <2>1 DEF Rests, Admin
    <2>2. CASE \E i \in SyncsOf(c.name) :
                  iface' = [iface EXCEPT ![c.name] = Edited(i, c, c.new)]
        <3>1. PICK i \in SyncsOf(c.name) :
                 iface' = [iface EXCEPT ![c.name] = Edited(i, c, c.new)]
            BY <2>2
        <3>2. CASE m # c.name
            BY <1>1, <1>3, <3>1, <3>2 DEF Rests, Admin
        <3>3. CASE m = c.name
            <4>1. Edited(i, c, c.new) = i
                BY <1>3, <3>3 DEF Edited
            <4>2. i.state # "dirty"
                BY <1>1, <1>3, <3>3, SyncsOfSound DEF Rests, ConfigInv
            <4> QED BY <1>1, <1>3, <3>1, <3>3, <4>1, <4>2
                    DEF Rests, Admin, ConfigInv, TypeOK
        <3> QED BY <3>2, <3>3
    <2> QED BY <2>1, <2>2 DEF ChangeLeaf
<1>4. Ledger'
    <2> SUFFICES ASSUME NEW n \in settled \cap present
                 PROVE  /\ n \notin Names(EnabledOf(tx)) => Rests(n, running[n])'
                        /\ \A d \in Untold \ {c} : d.name = n => Rests(n, d.old)'
        BY <1>1, <1>2 DEF Ledger
    <2>1. n \in Ifaces
        BY DEF ConfigInv, TypeOK
    <2>2. n \notin Names(EnabledOf(tx)) => Rests(n, running[n])'
        <3> SUFFICES ASSUME n \notin Names(EnabledOf(tx))
                     PROVE  Rests(n, running[n])'
            OBVIOUS
        <3>1. Rests(n, running[n]) /\ (n # c.name \/ c.leaf # "enabled")
            BY <1>1 DEF Ledger, Names, EnabledOf
        <3>2. \A v : Rests(n, v) => Rests(n, v)'
            BY <1>3, <2>1, <3>1
        <3> QED BY <1>1, <3>1, <3>2 DEF Rests
    <2>3. ASSUME NEW d \in Untold \ {c}, d.name = n
          PROVE  Rests(n, d.old)'
        <3>1. d \in EnabledOf(tx) /\ Rests(n, d.old)
            BY <2>3 DEF Untold, Ledger
        <3>2. n # c.name \/ c.leaf # "enabled"
            BY <1>1, <2>3, <3>1 DEF ConfigInv, Distinct, EnabledOf
        <3> QED BY <1>3, <2>1, <3>1, <3>2
    <2> QED BY <2>2, <2>3
<1> QED BY <1>1, <1>4 DEF OldIsRunning, Accounted, RestoredLeaves, RolledBack,
           Undone, Undoing

(* A handler that fails unsettles what its transaction names.              *)
LEMMA ChangeEndsLedger ==
    ASSUME ConfigInv, LedgerInv, NEW c \in todo, ChangeRefused(c) \/ ChangeFails(c)
    PROVE  LedgerInv'
<1> USE DEF LedgerInv
<1>1. /\ phase' \in {"shelved", "refused"} /\ c \in tx
      /\ UNCHANGED <<kern, present, running, tx, pos, answer>>
      /\ settled' = settled \ Names(tx)
    BY DEF ChangeRefused, ChangeFails, ConfigInv, TypeOK
<1>2. Untold' \subseteq EnabledOf(tx) /\ Names(EnabledOf(tx)) \subseteq Names(tx)
    BY <1>1 DEF Untold, EnabledOf, Names
<1>3. \A n \in Ifaces \ Names(tx) : iface'[n] = iface[n]
    <2>1. UNCHANGED iface \/ \E i : iface' = [iface EXCEPT ![c.name] = i]
        BY DEF ChangeRefused, ChangeFails
    <2>2. c.name \in Names(tx)
        BY <1>1 DEF Names
    <2> QED BY <2>1, <2>2 DEF ConfigInv, TypeOK
<1>4. Ledger'
    <2> SUFFICES ASSUME NEW n \in settled' \cap present
                 PROVE  /\ Rests(n, running[n])'
                        /\ n \notin Names(EnabledOf(tx))
                        /\ \A d \in Untold' : d.name # n
        BY <1>1 DEF Ledger
    <2>1. n \in Ifaces \ Names(tx) /\ n \in settled
        BY <1>1 DEF ConfigInv, TypeOK
    <2>2. Rests(n, running[n])
        BY <1>2, <2>1 DEF Ledger
    <2> QED BY <1>1, <1>2, <1>3, <2>1, <2>2 DEF Rests, Admin, Names
<1> QED BY <1>1, <1>4 DEF OldIsRunning, Accounted, RestoredLeaves, RolledBack,
           Undone, Undoing

(* A leaf that is restored is carried, but for a link that fails.          *)
LEMMA RestoreLeafLedger ==
    ASSUME ConfigInv, LedgerInv, NEW c \in todo, RestoreLeaf(c)
    PROVE  LedgerInv'
<1> USE DEF LedgerInv
<1>1. /\ phase = "restore" /\ todo' = todo \ {c}
      /\ UNCHANGED <<kern, present, running, tx, pos, phase, answer>>
    BY DEF RestoreLeaf
<1>2. Untold = {} /\ Untold' = {} /\ Undoing
    BY <1>1 DEF Untold, Undoing
<1>3. CASE c \notin EnabledOf(tx)
    <2>1. UNCHANGED <<iface, faults, settled>>
        BY <1>3 DEF RestoreLeaf
    <2>2. EnabledOf(tx) \ todo' = EnabledOf(tx) \ todo
        BY <1>1, <1>3
    <2> QED BY <1>1, <1>2, <2>1, <2>2 DEF OldIsRunning, Ledger, Accounted,
               RestoredLeaves, Restored, Recoverable, RolledBack, Undone,
               Undoing, Rests, Admin
<1>4. CASE c \in EnabledOf(tx)
    <2> DEFINE n == c.name
    <2>1. n \in Ifaces /\ c.old \in LeafValue /\ c \in Change /\ c.leaf = "enabled"
          /\ n \in Names(EnabledOf(tx))
        BY <1>4, LeafShape DEF ConfigInv
    <2>2. PICK i \in SyncsOf(n) :
             /\ iface' = [iface EXCEPT ![n] =
                             IF Usable(i) THEN Edited(i, c, c.old) ELSE i]
             /\ IF Usable(i)
                   THEN UNCHANGED <<faults, settled>>
                   ELSE /\ Fails(n)
                        /\ settled' = settled \ (present \cap {n})
        BY <1>4 DEF RestoreLeaf
    <2>3. settled' \subseteq settled /\ faults' \in Nat /\ faults <= faults'
        BY <2>2 DEF Fails, ConfigInv, TypeOK
    <2>4. \A m \in Ifaces : m # n => iface'[m] = iface[m]
        BY <2>2 DEF ConfigInv, TypeOK
    <2>5. Ledger'
        <3> SUFFICES ASSUME NEW m \in settled' \cap present,
                            m \notin Names(EnabledOf(tx))
                     PROVE  Rests(m, running[m])'
            BY <1>1, <1>2 DEF Ledger
        <3>1. m \in Ifaces /\ m # n /\ Rests(m, running[m])
            BY <2>1, <2>3 DEF Ledger, ConfigInv, TypeOK
        <3> QED BY <1>1, <2>4, <3>1 DEF Rests, Admin
    <2>6. Accounted'
        BY <1>1, <2>3 DEF Accounted, Undoing, ConfigInv, TypeOK
    <2>7. Recoverable' => Recoverable
        BY <1>1, <1>2, <2>3, RecoverableBefore
    <2>8. RestoredLeaves'
        <3> SUFFICES ASSUME NEW d \in EnabledOf(tx) \ todo', d.name \in present,
                            d.name \in settled' \/ Recoverable'
                     PROVE  Restored(d)'
            BY <1>1 DEF RestoredLeaves
        <3>1. CASE d # c
            <4>1. d.name # n /\ d.name \in Ifaces
                BY <1>4, <3>1, LeafShape DEF ConfigInv, Distinct
            <4>2. Restored(d)
                BY <1>1, <1>2, <2>3, <2>7, <3>1 DEF RestoredLeaves
            <4> QED BY <2>4, <4>1, <4>2 DEF Restored
        <3>2. CASE d = c
            <4>1. CASE ~ Usable(i)
                <5>1. Fails(n) /\ n \notin settled'
                    BY <2>2, <3>2, <4>1
                <5>2. ~ Recoverable'
                    BY <1>1, <1>2, <3>2, <5>1, FaultIsFatal
                <5> QED BY <3>2, <5>1, <5>2
            <4>2. CASE Usable(i)
                <5>1. i \in IfaceRecord /\ Sound(i, kern[n])
                    BY <2>1, SyncsOfSound DEF ConfigInv
                <5>2. kern[n] \in Link
                    BY <2>1 DEF ConfigInv, TypeOK
                <5>3. /\ Usable(Edited(i, c, c.old))
                      /\ Edited(i, c, c.old).conf["up"] = Desired(c.old)
                    BY <2>1, <4>2, <5>1, <5>2, EditedSound
                <5>4. iface'[n] = Edited(i, c, c.old)
                    BY <2>1, <2>2, <4>2 DEF ConfigInv, TypeOK
                <5> QED BY <3>2, <5>3, <5>4 DEF Restored
            <4> QED BY <4>1, <4>2
        <3> QED BY <3>1, <3>2
    <2>9. OldIsRunning' /\ RolledBack'
        BY <1>1 DEF OldIsRunning, RolledBack, Undone
    <2> QED BY <2>5, <2>6, <2>8, <2>9
<1> QED BY <1>3, <1>4

(***************************************************************************)
(* The passes.                                                             *)
(***************************************************************************)
(* A step that applies nothing changes no entry of the ledger.             *)
LEMMA PassLedger ==
    ASSUME ConfigInv, LedgerInv, ChangesDone \/ RestoreDone \/ ApplySkips
    PROVE  LedgerInv'
<1>1. /\ UNCHANGED <<kern, present, iface, running, tx, todo, answer, faults,
                     settled>>
      /\ phase' \in {"apply", "reapply"}
      /\ Undoing' <=> Undoing
    BY DEF ChangesDone, RestoreDone, ApplySkips, Applying, Undoing
<1>2. Untold' = {}
    BY <1>1 DEF Untold
<1> QED BY <1>1, <1>2 DEF LedgerInv, OldIsRunning, Ledger, Accounted,
           RestoredLeaves, Restored, Recoverable, RolledBack, Undone, Rests,
           Admin

(* The pass is over: what was restored is in the kernel.                   *)
LEMMA ApplyDoneLedger ==
    ASSUME ConfigInv, LedgerInv, ApplyDone
    PROVE  LedgerInv'
<1> USE DEF LedgerInv
<1>1. /\ UNCHANGED <<kern, present, iface, running, tx, todo, faults, settled>>
      /\ phase \in {"apply", "reapply"} /\ pos = N + 1 /\ todo = {}
    BY DEF ApplyDone, ConfigInv, PassProgress
<1>2. \A n \in Ifaces : iface[n].state # "dirty"
    BY <1>1 DEF ConfigInv, PassProgress, Ifaces
<1>3. CASE phase = "apply"
    <2>1. phase' = "accepted" /\ Untold' = {}
        BY <1>3 DEF ApplyDone, Untold
    <2> QED BY <1>1, <1>3, <2>1 DEF OldIsRunning, Ledger, Accounted,
               RestoredLeaves, RolledBack, Undone, Undoing, Rests, Admin
<1>4. CASE phase = "reapply"
    <2>1. phase' \in {"rejected", "shelved", "aborted"} /\ Undoing
          /\ Untold' = EnabledOf(tx)
        BY <1>1, <1>4 DEF ApplyDone, Untold, Undoing, EnabledOf
    <2>2. ASSUME NEW c \in EnabledOf(tx), c.name \in present,
                 c.name \in settled \/ Recoverable
          PROVE  Rests(c.name, c.old)
        <3>1. Restored(c) /\ c.name \in Ifaces
            BY <1>1, <2>1, <2>2, LeafShape DEF RestoredLeaves, ConfigInv
        <3> QED BY <1>2, <3>1, RestoredRests
    <2>3. Ledger'
        BY <1>1, <2>1, <2>2 DEF Ledger, Rests, Admin
    <2>4. Undone' => Recoverable
        <3>1. phase' = "rejected" => answer = "reject"
            BY <1>4 DEF ApplyDone
        <3> QED BY <1>1, <3>1 DEF Undone, Recoverable, ConfigInv, TypeOK
    <2>5. RolledBack'
        BY <1>1, <2>2, <2>4 DEF RolledBack, Rests, Admin
    <2> QED BY <1>1, <2>1, <2>3, <2>5 DEF OldIsRunning, Accounted,
               RestoredLeaves, Undoing
<1> QED BY <1>1, <1>3, <1>4

(* An apply that succeeds makes the link what the object shows.            *)
LEMMA ApplySucceedsLedger ==
    ASSUME ConfigInv, LedgerInv, ApplySucceeds
    PROVE  LedgerInv'
<1> USE DEF LedgerInv
<1>1. /\ phase \in {"apply", "reapply"} /\ pos \in Ifaces
      /\ iface[pos].state = "dirty" /\ iface[pos] \in IfaceRecord
      /\ iface' = [iface EXCEPT ![pos] = Applied(@)]
      /\ UNCHANGED <<present, running, tx, todo, phase, answer, faults, settled>>
    BY DEF ApplySucceeds, Applying, ConfigInv, TypeOK
<1>2. \A m \in Ifaces : m # pos => iface'[m] = iface[m] /\ kern'[m] = kern[m]
    BY <1>1 DEF ApplySucceeds, ConfigInv, TypeOK
<1>3. Untold' = {}
    BY <1>1 DEF Untold
<1>4. Ledger'
    <2> SUFFICES ASSUME NEW m \in settled \cap present,
                        m \notin Names(EnabledOf(tx))
                 PROVE  Rests(m, running[m])'
        BY <1>1, <1>3 DEF Ledger
    <2>1. m \in Ifaces /\ Rests(m, running[m])
        BY DEF Ledger, ConfigInv, TypeOK
    <2>2. m # pos
        BY <1>1, <2>1 DEF Rests
    <2> QED BY <1>1, <1>2, <2>1, <2>2 DEF Rests, Admin
<1>5. ASSUME NEW c \in EnabledOf(tx), Restored(c)
      PROVE  Restored(c)'
    <2>1. c.name \in Ifaces
        BY LeafShape DEF ConfigInv
    <2>2. iface'[pos].state = "clean" /\ iface'[pos].conf = iface[pos].conf
        BY <1>1 DEF Applied, IfaceRecord, ConfigInv, TypeOK
    <2>3. CASE c.name = pos
        BY <1>5, <2>2, <2>3 DEF Restored, Usable
    <2>4. CASE c.name # pos
        BY <1>2, <1>5, <2>1, <2>4 DEF Restored
    <2> QED BY <2>3, <2>4
<1>6. RestoredLeaves'
    BY <1>1, <1>5 DEF RestoredLeaves, Recoverable, Undoing
<1> QED BY <1>1, <1>4, <1>6 DEF OldIsRunning, Accounted, RolledBack, Undone,
           Undoing

(* An apply that fails starts the restoration, or cannot be afforded.      *)
LEMMA ApplyFailsLedger ==
    ASSUME ConfigInv, LedgerInv, NEW D \in SUBSET Field, ApplyFails(D)
    PROVE  LedgerInv'
<1> USE DEF LedgerInv
<1>1. /\ phase \in {"apply", "reapply"} /\ pos \in Ifaces
      /\ iface[pos].state = "dirty" /\ Fails(pos)
      /\ iface' = [iface EXCEPT ![pos] = Invalidated(@)]
      /\ UNCHANGED <<present, running, tx>>
      /\ settled' = settled \ (present \cap {pos})
      /\ phase' \in {"restore", "reapply"}
    BY DEF ApplyFails, Applying
<1>2. \A m \in Ifaces : m # pos => iface'[m] = iface[m] /\ kern'[m] = kern[m]
    BY <1>1 DEF ApplyFails, ConfigInv, TypeOK
<1>3. Untold' = {}
    BY <1>1 DEF Untold
<1>4. faults' \in Nat /\ faults <= faults'
      /\ (pos \in present => faults' = faults + 1)
    BY <1>1 DEF Fails, ConfigInv, TypeOK
<1>5. Ledger'
    <2> SUFFICES ASSUME NEW m \in settled \cap present,
                        m \notin Names(EnabledOf(tx))
                 PROVE  Rests(m, running[m])'
        BY <1>1, <1>3 DEF Ledger
    <2>1. m \in Ifaces /\ Rests(m, running[m])
        BY DEF Ledger, ConfigInv, TypeOK
    <2>2. m # pos
        BY <1>1, <2>1 DEF Rests
    <2> QED BY <1>1, <1>2, <2>1, <2>2 DEF Rests, Admin
<1>6. OldIsRunning' /\ RolledBack'
    BY <1>1 DEF OldIsRunning, RolledBack, Undone
<1>7. CASE phase = "apply"
    <2>1. todo' = tx /\ EnabledOf(tx) \subseteq tx
        BY <1>7 DEF ApplyFails, EnabledOf
    <2>2. RestoredLeaves'
        BY <1>1, <2>1 DEF RestoredLeaves
    <2>3. Accounted'
        BY <1>1, <1>4 DEF Accounted, ConfigInv, TypeOK
    <2> QED BY <1>5, <1>6, <2>2, <2>3
<1>8. CASE phase = "reapply"
    <2>1. UNCHANGED <<phase, todo, answer>> /\ Undoing
        BY <1>8 DEF ApplyFails, Undoing
    <2>2. Recoverable' => Recoverable
        BY <1>1, <1>4, <2>1, RecoverableBefore
    <2>3. pos \in present => ~ Recoverable' /\ pos \notin settled'
        BY <1>1, <2>1, FaultIsFatal
    <2>4. ASSUME NEW c \in EnabledOf(tx) \ todo, c.name \in present,
                 c.name \in settled' \/ Recoverable'
          PROVE  Restored(c)'
        <3>1. c.name # pos /\ c.name \in Ifaces
            BY <2>3, <2>4, LeafShape DEF ConfigInv
        <3>2. Restored(c)
            BY <1>1, <2>1, <2>2, <2>4 DEF RestoredLeaves
        <3> QED BY <1>2, <3>1, <3>2 DEF Restored
    <2>5. RestoredLeaves'
        BY <1>1, <2>1, <2>4 DEF RestoredLeaves
    <2>6. Accounted'
        BY <1>1, <1>4, <2>1 DEF Accounted, Undoing, ConfigInv, TypeOK
    <2> QED BY <1>5, <1>6, <2>5, <2>6
<1> QED BY <1>1, <1>7, <1>8

(***************************************************************************)
(* The invariant and its consequences.                                     *)
(***************************************************************************)
(* Every step of the daemon and of its environment keeps the ledger.       *)
LEMMA StepLedger == ConfigInv /\ LedgerInv /\ [Next]_vars => LedgerInv'
<1> SUFFICES ASSUME ConfigInv, LedgerInv, [Next]_vars PROVE LedgerInv'
    OBVIOUS
<1>1. CASE UNCHANGED vars
    BY <1>1 DEF vars, LedgerInv, OldIsRunning, Ledger, Untold, Accounted,
       RestoredLeaves, Restored, Recoverable, RolledBack, Undone, Undoing,
       Rests, Admin
<1>2. CASE Daemon
    BY <1>2, ChangeLeafLedger, ChangeEndsLedger, PassLedger, ApplyDoneLedger,
       ApplySucceedsLedger, ApplyFailsLedger, RestoreLeafLedger DEF Daemon
<1>3. CASE Next /\ ~ Daemon
    BY <1>3, UnplugLedger, EditLedger, DeliverLedger, DoneLedger, AbortLedger,
       ConcludeLedger, ResyncLedger DEF Next
<1> QED BY <1>1, <1>2, <1>3

(* The ledger holds along every run of the daemon.                         *)
THEOREM LedgerInvariant == Spec => [](ConfigInv /\ LedgerInv)
<1>1. Init => ConfigInv /\ LedgerInv
    BY InitInv, InitLedger
<1>2. ConfigInv /\ LedgerInv /\ [Next]_vars => (ConfigInv /\ LedgerInv)'
    BY StepInv, StepLedger
<1> QED BY <1>1, <1>2, PTL DEF Spec

(* A transaction that is rejected, or aborted, and that met no fault but   *)
(* the one that had it rejected, leaves no trace in the kernel.            *)
THEOREM RollbackSafety == Spec => []RolledBack
<1>1. LedgerInv => RolledBack
    BY DEF LedgerInv
<1> QED BY <1>1, LedgerInvariant, PTL

(* The ledger is what makes kernel and datastore agree.                    *)
LEMMA InSyncHolds ==
    ASSUME ConfigInv, LedgerInv
    PROVE  InSync
<1> SUFFICES ASSUME phase = "idle", NEW n \in settled \cap present
             PROVE  Admin(n) = Desired(running[n])
    BY DEF InSync, Admin
<1>1. CASE n \notin Names(EnabledOf(tx))
    BY <1>1 DEF LedgerInv, Ledger, Rests
<1>2. CASE n \in Names(EnabledOf(tx))
    <2>1. PICK c \in EnabledOf(tx) : c.name = n
        BY <1>2 DEF Names
    <2>2. c \in Untold
        BY <2>1 DEF Untold
    <2> QED BY <2>1, <2>2 DEF LedgerInv, Ledger, OldIsRunning, Rests
<1> QED BY <1>1, <1>2

(* Kernel and running datastore agree between transactions, on every       *)
(* interface that is settled.                                              *)
THEOREM SyncSafety == Spec => []InSync
<1>1. ConfigInv /\ LedgerInv => InSync
    BY InSyncHolds
<1> QED BY <1>1, LedgerInvariant, PTL

-----------------------------------------------------------------------------
(* The refinement of Participant.                                          *)
Inv == ConfigInv /\ LedgerInv

(***************************************************************************)
(* The mapping.                                                            *)
(***************************************************************************)
(* A leaf asks for one of the two administrative states.                   *)
LEMMA DesiredIs ==
    ASSUME NEW v \in LeafValue
    PROVE  Desired(v) \in {"up", "down"}
    BY DEF LeafValue, Desired

(* A participant is asked what the leaves `enabled' say.                   *)
LEMMA AsksOf ==
    ASSUME ConfigInv, NEW c \in EnabledOf(tx)
    PROVE  Asks(c.name) = Desired(c.new)
<1> DEFINE d == CHOOSE e \in EnabledOf(tx) : e.name = c.name
<1>1. d \in EnabledOf(tx) /\ d.name = c.name
    OBVIOUS
<1>2. d = c
    BY <1>1 DEF ConfigInv, Distinct
<1> QED BY <1>2 DEF Asks

(* A transaction without leaves asks nothing of an interface.              *)
LEMMA AsksNothing ==
    ASSUME NEW n, n \notin Names(EnabledOf(tx))
    PROVE  Asks(n) = "same"
    BY DEF Asks, Names

(* What is asked is an administrative state, or nothing.                   *)
LEMMA AsksType ==
    ASSUME ConfigInv, NEW n \in Ifaces
    PROVE  /\ Asks(n) \in {"up", "down", "same"}
           /\ Asks(n) # "same" <=> n \in Names(EnabledOf(tx))
<1>1. CASE n \notin Names(EnabledOf(tx))
    BY <1>1, AsksNothing
<1>2. CASE n \in Names(EnabledOf(tx))
    <2>1. PICK c \in EnabledOf(tx) : c.name = n
        BY <1>2 DEF Names
    <2>2. Asks(n) = Desired(c.new) /\ c.new \in LeafValue
        BY <2>1, AsksOf, LeafShape DEF ConfigInv
    <2> QED BY <1>2, <2>2, DesiredIs
<1> QED BY <1>1, <1>2

(* The goal of a member: the leaf it is asked, or the one it has.          *)
LEMMA GoalIs ==
    ASSUME ConfigInv, NEW n \in Ifaces
    PROVE  /\ n \in Abstract!Asked <=> n \in Names(EnabledOf(tx))
           /\ \A c \in EnabledOf(tx) :
                 c.name = n => Abstract!Goal(n) = Desired(c.new)
           /\ n \notin Names(EnabledOf(tx)) =>
                 Abstract!Goal(n) = Desired(running[n])
<1>1. n \in Abstract!Asked <=> n \in Names(EnabledOf(tx))
    BY AsksType DEF Abstract!Asked
<1>2. ASSUME NEW c \in EnabledOf(tx), c.name = n
      PROVE  Abstract!Goal(n) = Desired(c.new)
    <2>1. n \in Names(EnabledOf(tx)) /\ Asks(n) = Desired(c.new)
        BY <1>2, AsksOf DEF Names
    <2> QED BY <1>1, <2>1 DEF Abstract!Goal
<1>3. n \notin Names(EnabledOf(tx)) => Abstract!Goal(n) = Desired(running[n])
    BY <1>1 DEF Abstract!Goal
<1> QED BY <1>1, <1>2, <1>3

(* What the kernel holds has a type of its own in the abstraction.         *)
LEMMA ActualType ==
    ASSUME TypeOK
    PROVE  [n \in Ifaces |-> kern[n].conf["up"]] \in [Ifaces -> {"up", "down"}]
    BY DEF TypeOK, Link, Conf

(* A step that neither edits the transaction nor sets a link.              *)
LEMMA Unmoved ==
    ASSUME UNCHANGED <<kern, running, tx>>
    PROVE  UNCHANGED <<[n \in Ifaces |-> Desired(running[n])],
                       [n \in Ifaces |-> kern[n].conf["up"]],
                       [n \in Ifaces |-> Asks(n)]>>
    BY DEF Asks, EnabledOf

(* Both start idle, with nothing asked.                                    *)
LEMMA InitRefines == Init => Abstract!Init
<1> SUFFICES ASSUME Init PROVE Abstract!Init
    OBVIOUS
<1>1. TypeOK
    BY InitInv DEF ConfigInv
<1>2. [n \in Ifaces |-> Desired(running[n])] \in [Ifaces -> {"up", "down"}]
    BY <1>1, DesiredIs DEF TypeOK
<1>3. \A n \in Ifaces : Asks(n) = "same"
    BY DEF Init, Asks, EnabledOf
<1> QED BY <1>1, <1>2, <1>3, ActualType
        DEF Init, Abstract!Init, Abstract!NothingAsked, Stage

(***************************************************************************)
(* Links, clients and sysrepo.                                             *)
(***************************************************************************)
(* A link that goes away is lost to the participant.                       *)
LEMMA UnplugRefines ==
    ASSUME NEW n \in Ifaces, Unplug(n)
    PROVE  Abstract!Lose(n)
<1>1. UNCHANGED <<kern, running, tx, phase, answer, settled>>
      /\ present' = present \ {n}
    BY DEF Unplug
<1> QED BY <1>1, Unmoved DEF Abstract!Lose, Stage

(* A client's edit is a proposal, or hidden when it is of a type.          *)
LEMMA EditRefines ==
    ASSUME Inv, Inv', NEW c \in Change, Edit(c)
    PROVE  \/ UNCHANGED Abstract!vars
           \/ \E m \in Ifaces : \E s \in {"up", "down"} : Abstract!Propose(m, s)
<1>1. /\ phase = "idle" /\ tx' = tx \cup {c}
      /\ \A d \in tx : d.name = c.name => d.leaf # c.leaf
      /\ UNCHANGED <<kern, present, running, phase, answer, settled>>
    BY DEF Edit
<1>2. EnabledOf(tx') = EnabledOf(tx) \cup (IF c.leaf = "enabled" THEN {c} ELSE {})
    BY <1>1 DEF EnabledOf
<1>3. CASE c.leaf # "enabled"
    <2>1. Asks(0)' = Asks(0) /\ \A n \in Ifaces : Asks(n)' = Asks(n)
        BY <1>2, <1>3 DEF Asks
    <2> QED BY <1>1, <2>1 DEF Abstract!vars, Stage
<1>4. CASE c.leaf = "enabled"
    <2> DEFINE n == c.name
               v == Desired(c.new)
    <2>1. c \in EnabledOf(tx)' /\ n \in Ifaces
        BY <1>2, <1>4, ChangeShape
    <2>2. Asks(n)' = v /\ v \in {"up", "down"}
        <3>1. \A d \in EnabledOf(tx') : d.name = n => d = c
            BY <2>1 DEF Inv, ConfigInv, Distinct
        <3>2. (CHOOSE d \in EnabledOf(tx') : d.name = n) = c
            BY <2>1, <3>1
        <3>3. Asks(n)' = v
            BY <2>1, <3>2 DEF Asks
        <3>4. c.new \in LeafValue
            BY <1>4, ChangeShape
        <3> QED BY <3>3, <3>4, DesiredIs
    <2>3. n \notin Names(EnabledOf(tx))
        BY <1>1, <1>4 DEF Names, EnabledOf
    <2>4. n \notin Abstract!Asked
        BY <2>1, <2>3, GoalIs DEF Inv
    <2>5. \A m \in Ifaces : m # n => Asks(m)' = Asks(m)
        <3> SUFFICES ASSUME NEW m \in Ifaces, m # n PROVE Asks(m)' = Asks(m)
            OBVIOUS
        <3>1. \A d : d \in EnabledOf(tx') /\ d.name = m
                     <=> d \in EnabledOf(tx) /\ d.name = m
            BY <1>2, <1>4
        <3>2. (CHOOSE d \in EnabledOf(tx') : d.name = m)
                 = (CHOOSE d \in EnabledOf(tx) : d.name = m)
            BY <3>1
        <3> QED BY <3>1, <3>2 DEF Asks
    <2>6. [m \in Ifaces |-> Asks(m)]' = [[m \in Ifaces |-> Asks(m)] EXCEPT ![n] = v]
        BY <2>1, <2>2, <2>5
    <2>7. Abstract!Propose(n, v)
        BY <1>1, <2>4, <2>6 DEF Abstract!Propose, Stage
    <2> QED BY <2>1, <2>2, <2>7
<1> QED BY <1>3, <1>4

(* Sysrepo's events, but for the end of a transaction.                     *)
LEMMA DeliverRefines ==
    ASSUME Commit \/ Redeliver \/ Abort
    PROVE  Abstract!Begin \/ UNCHANGED Abstract!vars \/ Abstract!GiveUp
<1>1. UNCHANGED <<kern, running, tx, present, settled>>
    BY DEF Commit, Redeliver, Abort
<1>2. CASE Commit
    BY <1>1, <1>2, Unmoved DEF Commit, Abstract!Begin, Stage
<1>3. CASE Redeliver
    BY <1>1, <1>3, Unmoved DEF Redeliver, Abstract!vars, Stage
<1>4. CASE Abort
    BY <1>1, <1>4, Unmoved DEF Abort, Abstract!GiveUp, Stage
<1> QED BY <1>2, <1>3, <1>4

(* The datastore takes up what was asked.                                  *)
LEMMA DoneRefines ==
    ASSUME Inv, Done
    PROVE  Abstract!Commit
<1>1. /\ phase = "accepted" /\ phase' = "idle" /\ tx' = {}
      /\ settled' = settled \cup Names(EnabledOf(tx))
      /\ UNCHANGED <<kern, present>>
    BY DEF Done
<1>2. ASSUME NEW n \in Ifaces
      PROVE  Desired(running'[n]) = Abstract!Goal(n)
    <2> DEFINE Of == {c \in EnabledOf(tx) : c.name = n}
    <2>1. running'[n] = IF Of = {} THEN running[n]
                                   ELSE (CHOOSE c \in Of : TRUE).new
        BY DEF Done
    <2>2. CASE Of = {}
        <3>1. n \notin Names(EnabledOf(tx))
            BY <2>2 DEF Names
        <3> QED BY <2>1, <2>2, <3>1, GoalIs DEF Inv
    <2>3. CASE Of # {}
        <3> DEFINE c == CHOOSE d \in Of : TRUE
        <3>1. c \in EnabledOf(tx) /\ c.name = n
            BY <2>3
        <3>2. running'[n] = c.new
            BY <2>1, <2>3
        <3> HIDE DEF c
        <3> QED BY <3>1, <3>2, GoalIs DEF Inv
    <2> QED BY <2>2, <2>3
<1>3. [n \in Ifaces |-> Desired(running'[n])] = [n \in Ifaces |-> Abstract!Goal(n)]
    BY <1>2
<1>4. \A n \in Ifaces : Asks(n)' = "same"
    BY <1>1 DEF Asks, EnabledOf
<1>5. Abstract!Asked = Names(EnabledOf(tx))
    <2>1. Names(EnabledOf(tx)) \subseteq Ifaces
        BY EnabledNames DEF Inv, ConfigInv, TypeOK
    <2> QED BY <2>1, GoalIs DEF Inv, Abstract!Asked
<1>6. /\ settled' \cap present \subseteq (settled \cap present) \cup Abstract!Asked
      /\ settled \cap present \subseteq settled' \cap present
    BY <1>1, <1>5
<1> QED BY <1>1, <1>3, <1>4, <1>6 DEF Abstract!Commit, Abstract!NothingAsked, Stage

(* A transaction that failed ends with the participant giving up.          *)
LEMMA ConcludeRefines ==
    ASSUME Conclude
    PROVE  Abstract!Conclude
<1>1. /\ phase \in {"refused", "rejected", "aborted"} /\ phase' = "idle"
      /\ tx' = {} /\ UNCHANGED <<kern, running, present, settled>>
    BY DEF Conclude
<1>2. \A n \in Ifaces : Asks(n)' = "same"
    BY <1>1 DEF Asks, EnabledOf
<1> QED BY <1>1, <1>2 DEF Abstract!Conclude, Abstract!NothingAsked, Stage

(***************************************************************************)
(* The passes.                                                             *)
(***************************************************************************)
(* An event that moves no link and ends nothing is work, or is hidden.     *)
LEMMA ToldRefines ==
    ASSUME Inv, UNCHANGED <<kern, running, tx, present>>,
           Stage \in {"working", "undoing"}, Stage' = Stage,
           settled' \subseteq settled
    PROVE  Abstract!Work
<1> DEFINE up == [n \in Ifaces |-> kern[n].conf["up"]]
<1>1. up \in [Ifaces -> {"up", "down"}]
    BY ActualType DEF Inv, ConfigInv
<1>2. settled' \cap present \in SUBSET (settled \cap present)
    OBVIOUS
<1> QED BY <1>1, <1>2, Unmoved DEF Abstract!Work

(* A trusted interface is as before once its transaction failed.           *)
LEMMA FailedRefines ==
    ASSUME Inv, Inv', UNCHANGED <<kern, running, tx, present>>,
           Stage \in {"working", "undoing"},
           phase' \in {"refused", "rejected", "aborted"},
           settled' \subseteq settled
    PROVE  Abstract!Fail
<1>1. ASSUME NEW n \in settled' \cap present
      PROVE  kern[n].conf["up"] = Desired(running[n]) /\ n \in Ifaces
    <2>1. n \in Ifaces
        BY DEF Inv, ConfigInv, TypeOK
    <2>2. CASE n \notin Names(EnabledOf(tx))
        BY <2>1, <2>2 DEF Inv, LedgerInv, Ledger, Rests, Admin
    <2>3. CASE n \in Names(EnabledOf(tx))
        <3>1. PICK c \in EnabledOf(tx) : c.name = n
            BY <2>3 DEF Names
        <3>2. phase' # "refused"
            BY <2>3 DEF Inv, LedgerInv, Ledger
        <3>3. c \in Untold'
            BY <3>1, <3>2 DEF Untold
        <3>4. Rests(n, c.old)'
            BY <3>1, <3>3 DEF Inv, LedgerInv, Ledger
        <3> QED BY <2>1, <3>1, <3>4
                DEF Rests, Admin, Inv, LedgerInv, OldIsRunning
    <2> QED BY <2>1, <2>2, <2>3
<1>2. settled' \cap present \in SUBSET (settled \cap present)
    OBVIOUS
<1>3. Stage' = "failed"
    BY DEF Stage
<1> QED BY <1>1, <1>2, <1>3, Unmoved DEF Abstract!Fail

(* A handler is work, or refuses the transaction.                          *)
LEMMA HandlerRefines ==
    ASSUME Inv, Inv', NEW c \in todo,
           ChangeLeaf(c) \/ ChangeRefused(c) \/ ChangeFails(c) \/ RestoreLeaf(c)
    PROVE  Abstract!Work \/ Abstract!Fail
<1>1. /\ UNCHANGED <<kern, running, tx, present, answer>>
      /\ settled' \subseteq settled
      /\ phase \in {"change", "restore"}
      /\ phase' \in {phase, "shelved", "refused"}
      /\ phase = "restore" => phase' = "restore"
    BY DEF ChangeLeaf, ChangeRefused, ChangeFails, RestoreLeaf
<1>2. Stage \in {"working", "undoing"}
    BY <1>1 DEF Stage
<1>3. CASE phase' = "refused"
    BY <1>1, <1>2, <1>3, FailedRefines
<1>4. CASE phase' # "refused"
    <2>1. Stage' = Stage
        BY <1>1, <1>4 DEF Stage
    <2> QED BY <1>1, <1>2, <2>1, ToldRefines
<1> QED BY <1>3, <1>4

(* Between two passes, or over an interface with nothing to apply.         *)
LEMMA HiddenRefines ==
    ASSUME (\E n \in Ifaces : Resync(n)) \/ ChangesDone \/ RestoreDone \/ ApplySkips
    PROVE  UNCHANGED Abstract!vars
<1>1. UNCHANGED <<kern, running, tx, present, settled>> /\ Stage' = Stage
    BY DEF Resync, ChangesDone, RestoreDone, ApplySkips, Applying, Stage
<1> QED BY <1>1, Unmoved DEF Abstract!vars

(* The end of a pass prepares the transaction, or fails it.                *)
LEMMA ApplyDoneRefines ==
    ASSUME Inv, Inv', ApplyDone
    PROVE  Abstract!Prepare \/ Abstract!Fail \/ UNCHANGED Abstract!vars
<1>1. UNCHANGED <<kern, present, iface, running, tx, settled>>
    BY DEF ApplyDone
<1>2. CASE phase' \in {"rejected", "aborted"}
    <2>1. Stage \in {"working", "undoing"}
        BY DEF ApplyDone, Stage
    <2> QED BY <1>1, <1>2, <2>1, FailedRefines
<1>3. CASE phase' = "shelved"
    <2>1. Stage' = Stage
        BY <1>3 DEF ApplyDone, Stage
    <2> QED BY <1>1, <2>1, Unmoved DEF Abstract!vars
<1>4. CASE phase = "apply"
    <2>1. Stage = "working" /\ Stage' = "prepared" /\ phase' = "accepted"
        BY <1>4 DEF ApplyDone, Stage
    <2>2. ASSUME NEW n \in Ifaces, n \in Names(EnabledOf(tx))
          PROVE  kern[n].conf["up"] = Abstract!Goal(n)
        <3>1. PICK c \in EnabledOf(tx) : c.name = n
            BY <2>2 DEF Names
        <3>2. c \in Handled
            BY <1>4 DEF Handled
        <3>3. Usable(iface[n]) /\ iface[n].conf["up"] = Desired(c.new)
            BY <3>1, <3>2 DEF Inv, ConfigInv, HandledCarried, Carries
        <3>4. iface[n].state # "dirty"
            BY <1>1, <2>1 DEF Inv, ConfigInv, NothingPending
        <3>5. kern[n].conf["up"] = Desired(c.new)
            BY <3>3, <3>4, CleanShows DEF Inv, Admin
        <3> QED BY <3>1, <3>5, GoalIs DEF Inv
    <2>3. ASSUME NEW n \in settled \cap present, n \notin Names(EnabledOf(tx))
          PROVE  n \in Ifaces /\ kern[n].conf["up"] = Abstract!Goal(n)
        <3>1. n \in Ifaces
            BY DEF Inv, ConfigInv, TypeOK
        <3>2. Rests(n, running[n])
            BY <2>3 DEF Inv, LedgerInv, Ledger
        <3> QED BY <2>3, <3>1, <3>2, GoalIs DEF Rests, Admin, Inv
    <2>4. ASSUME NEW n \in (settled \cap present) \cup Abstract!Asked
          PROVE  n \in Ifaces /\ kern[n].conf["up"] = Abstract!Goal(n)
        <3>1. n \in Ifaces
            BY DEF Abstract!Asked, Inv, ConfigInv, TypeOK
        <3>2. n \in Names(EnabledOf(tx)) \/ n \in settled \cap present
            BY <3>1, GoalIs DEF Inv
        <3> QED BY <2>2, <2>3, <3>1, <3>2
    <2> QED BY <1>1, <2>1, <2>4, Unmoved DEF Abstract!Prepare
<1> QED BY <1>2, <1>3, <1>4 DEF ApplyDone

(* A request sets a link to what the transaction asks for, or back.        *)
LEMMA ApplySucceedsRefines ==
    ASSUME Inv, Inv', ApplySucceeds
    PROVE  Abstract!Work
<1>1. /\ phase \in {"apply", "reapply"} /\ pos \in Ifaces /\ pos' = pos + 1
      /\ iface[pos].state = "dirty"
      /\ iface' = [iface EXCEPT ![pos] = Applied(@)]
      /\ UNCHANGED <<present, running, tx, todo, phase, answer, faults, settled>>
    BY DEF ApplySucceeds, Applying
<1>2. \A m \in Ifaces : m # pos => kern'[m] = kern[m]
    BY <1>1 DEF ApplySucceeds, Inv, ConfigInv, TypeOK
<1>3. Stage' = Stage /\ Stage \in {"working", "undoing"}
      /\ (phase = "apply" => Stage = "working")
    BY <1>1 DEF Stage
<1>4. /\ iface'[pos].conf = iface[pos].conf /\ iface'[pos].state = "clean"
      /\ iface'[pos].dirty = {}
    BY <1>1 DEF Applied, IfaceRecord, Inv, ConfigInv, TypeOK
<1>5. kern'[pos].conf["up"] = iface[pos].conf["up"]
    <2>1. Sound(iface'[pos], kern'[pos]) /\ "up" \in Field
        BY <1>1 DEF Inv, ConfigInv, ObjectsSound
    <2> QED BY <1>4, <2>1 DEF Sound, Usable
<1>6. ASSUME NEW m \in settled \cap present
      PROVE  /\ m \in Ifaces
             /\ \/ kern'[m].conf["up"] \in {kern[m].conf["up"], Desired(running[m])}
                \/ Stage = "working" /\ kern'[m].conf["up"] = Abstract!Goal(m)
    <2>1. m \in Ifaces
        BY DEF Inv, ConfigInv, TypeOK
    <2>2. CASE m # pos
        BY <1>2, <2>1, <2>2
    <2>3. CASE m = pos
        <3>1. m \in Names(EnabledOf(tx))
            BY <1>1, <2>3 DEF Inv, LedgerInv, Ledger, Rests
        <3>2. PICK c \in EnabledOf(tx) : c.name = m
            BY <3>1 DEF Names
        <3>3. CASE phase = "apply"
            <4>1. iface[m].conf["up"] = Desired(c.new)
                BY <3>2, <3>3 DEF Inv, ConfigInv, HandledCarried, Carries, Handled
            <4> QED BY <1>3, <1>5, <2>1, <2>3, <3>2, <3>3, <4>1, GoalIs DEF Inv
        <3>4. CASE phase = "reapply"
            <4>1. c \notin todo
                BY <3>4 DEF Inv, ConfigInv, PassProgress
            <4>2. Restored(c)
                BY <3>2, <3>4, <4>1 DEF Inv, LedgerInv, RestoredLeaves, Undoing
            <4> QED BY <1>5, <2>1, <2>3, <3>2, <4>2
                    DEF Restored, Inv, LedgerInv, OldIsRunning
        <3> QED BY <1>1, <3>3, <3>4
    <2> QED BY <2>1, <2>2, <2>3
<1>7. [n \in Ifaces |-> kern[n].conf["up"]]' \in [Ifaces -> {"up", "down"}]
    BY DEF Inv, ConfigInv, TypeOK, Link, Conf
<1>8. UNCHANGED <<[n \in Ifaces |-> Desired(running[n])],
                  [n \in Ifaces |-> Asks(n)], settled \cap present>>
    BY <1>1 DEF Asks
<1> QED BY <1>3, <1>6, <1>7, <1>8 DEF Abstract!Work

(* A request that fails is work as well: it may have set the link.         *)
LEMMA ApplyFailsRefines ==
    ASSUME Inv, Inv', NEW D \in SUBSET Field, ApplyFails(D)
    PROVE  Abstract!Work
<1>1. /\ phase \in {"apply", "reapply"} /\ pos \in Ifaces
      /\ UNCHANGED <<present, running, tx>>
      /\ settled' = settled \ (present \cap {pos})
    BY DEF ApplyFails, Applying
<1>2. \A m \in Ifaces : m # pos => kern'[m] = kern[m]
    BY <1>1 DEF ApplyFails, Inv, ConfigInv, TypeOK
<1>3. Stage \in {"working", "undoing"} /\ Stage' \in {Stage, "undoing"}
    BY <1>1 DEF ApplyFails, Stage
<1>4. settled' \cap present \in SUBSET (settled \cap present)
    BY <1>1
<1>5. \A m \in settled' \cap present : m \in Ifaces /\ kern'[m] = kern[m]
    BY <1>1, <1>2 DEF Inv, ConfigInv, TypeOK
<1>6. [n \in Ifaces |-> kern[n].conf["up"]]' \in [Ifaces -> {"up", "down"}]
    BY DEF Inv, ConfigInv, TypeOK, Link, Conf
<1>7. UNCHANGED <<[n \in Ifaces |-> Desired(running[n])],
                  [n \in Ifaces |-> Asks(n)]>>
    BY <1>1 DEF Asks
<1> QED BY <1>1, <1>3, <1>4, <1>5, <1>6, <1>7 DEF Abstract!Work

(***************************************************************************)
(* The refinement.                                                         *)
(***************************************************************************)
(* Every step of the daemon is one of the participant, or hidden.          *)
LEMMA StepRefines ==
    ASSUME Inv, Inv', [Next]_vars
    PROVE  [Abstract!Next]_(Abstract!vars)
<1>1. CASE UNCHANGED vars
    <2>1. UNCHANGED <<kern, running, tx, present, settled>> /\ Stage' = Stage
        BY <1>1 DEF vars, Stage
    <2> QED BY <2>1, Unmoved DEF Abstract!vars
<1>2. CASE Daemon
    BY <1>2, HandlerRefines, HiddenRefines, ApplyDoneRefines,
       ApplySucceedsRefines, ApplyFailsRefines DEF Daemon, Abstract!Next
<1>3. CASE Next /\ ~ Daemon
    BY <1>3, UnplugRefines, EditRefines, DeliverRefines, DoneRefines,
       ConcludeRefines, HiddenRefines DEF Next, Abstract!Next
<1> QED BY <1>1, <1>2, <1>3

(* The configuration events of the daemon keep the promise of a            *)
(* participant in sysrepo's transactions.                                  *)
THEOREM Refinement == Spec => Implements
<1>1. Inv /\ Inv' /\ [Next]_vars => [Abstract!Next]_(Abstract!vars)
    BY StepRefines
<1>2. Spec => []Inv
    BY LedgerInvariant DEF Inv
<1> QED BY <1>1, <1>2, InitRefines, PTL DEF Spec, Implements, Abstract!Spec
=============================================================================

----------------------------- MODULE IfaceProofs -----------------------------
(* What the operators of Iface return and preserve, for every set of       *)
(* attributes, values and operational states.                              *)
EXTENDS Iface, TLAPS

(* A configuration gives every attribute one of its values, and any such   *)
(* function is one.                                                        *)
LEMMA ConfIntro ==
    ASSUME NEW c, c = [f \in Field |-> c[f]],
           \A f \in Field : c[f] \in Value[f]
    PROVE  c \in Conf
<1>1. \A f \in Field : c[f] \in UNION {Value[g] : g \in Field}
    OBVIOUS
<1>2. c \in [Field -> UNION {Value[g] : g \in Field}]
    BY <1>1
<1> QED BY <1>2 DEF Conf

(* A configuration is a function that gives each attribute one of its      *)
(* values.                                                                 *)
LEMMA ConfElim ==
    ASSUME NEW c \in Conf
    PROVE  /\ c = [f \in Field |-> c[f]]
           /\ \A f \in Field : c[f] \in Value[f]
    BY DEF Conf

(* Filling, invalidating, refreshing and completing an apply keep the      *)
(* shape of an interface object.                                           *)
LEMMA FillType ==
    ASSUME NEW link \in Link
    PROVE  Fill(link) \in IfaceRecord
    BY DEF Link, IfaceRecord, Fill

(* Invalidating, applying and refreshing give objects.                     *)
LEMMA UpdateType ==
    ASSUME NEW i \in IfaceRecord, NEW o \in Oper
    PROVE  /\ Invalidated(i) \in IfaceRecord
           /\ Applied(i) \in IfaceRecord
           /\ Refreshed(i, o) \in IfaceRecord
    BY DEF IfaceRecord, Invalidated, Applied, Refreshed

(* A reload gives an object, whatever its outcome.                         *)
LEMMA ReloadsType ==
    ASSUME NEW i \in IfaceRecord, NEW link \in Link, NEW p \in BOOLEAN,
           NEW r \in Reloads(i, link, p)
    PROVE  r \in IfaceRecord
<1>1. Oper # {}
    BY DEF Link
<1>2. PICK o \in Oper : TRUE
    BY <1>1
<1>3. Invalidated(i) \in IfaceRecord /\ Fill(link) \in IfaceRecord
    BY <1>2, FillType, UpdateType
<1>4. Invalidated(Fill(link)) \in IfaceRecord
    BY <1>2, <1>3, UpdateType
<1> QED BY <1>3, <1>4 DEF Reloads

(* A synchronisation gives an object, whatever its outcome.                *)
LEMMA SyncsType ==
    ASSUME NEW i \in IfaceRecord, NEW link \in Link, NEW p \in BOOLEAN,
           NEW r \in Syncs(i, link, p)
    PROVE  r \in IfaceRecord
    BY ReloadsType DEF Syncs

(* Setting an attribute changes it alone, to the value asked for, and      *)
(* marks it; or it changes nothing.                                        *)
LEMMA WithFieldType ==
    ASSUME NEW i \in IfaceRecord, NEW f \in Field, NEW v \in Value[f]
    PROVE  WithField(i, f, v) \in IfaceRecord
<1>1. CASE v = i.conf[f] \/ Refuses(i, f, v)
    BY <1>1 DEF WithField
<1>2. CASE ~ (v = i.conf[f] \/ Refuses(i, f, v))
    <2> DEFINE c == [i.conf EXCEPT ![f] = v]
    <2>1. i.conf \in Conf
        BY DEF IfaceRecord
    <2>2. c = [g \in Field |-> c[g]] /\ \A g \in Field : c[g] \in Value[g]
        BY <2>1, ConfElim
    <2>3. c \in Conf
        BY <2>2, ConfIntro
    <2>4. WithField(i, f, v) =
            [state |-> "dirty", dirty |-> i.dirty \cup {f},
             conf |-> c, oper |-> i.oper]
        BY <1>2 DEF WithField, IfaceRecord
    <2> QED BY <2>3, <2>4 DEF IfaceRecord
<1> QED BY <1>1, <1>2

(* The links a setlink request may leave are links.                        *)
LEMMA CommitsType ==
    ASSUME NEW link \in Link, NEW i \in IfaceRecord, NEW D \in SUBSET Field,
           NEW new \in Commits(link, i, D)
    PROVE  /\ new \in Link
           /\ new.conf = Overlaid(link.conf, i, D)
<1> DEFINE c == Overlaid(link.conf, i, D)
<1>1. link.conf \in Conf /\ i.conf \in Conf /\ link.oper \in Oper
    BY DEF Link, IfaceRecord
<1>2. c = [f \in Field |-> c[f]] /\ \A f \in Field : c[f] \in Value[f]
    BY <1>1, ConfElim DEF Overlaid
<1>3. c \in Conf
    BY <1>2, ConfIntro
<1>4. PICK o \in Oper : new = [conf |-> c, oper |-> o]
    BY <1>1 DEF Commits
<1> QED BY <1>3, <1>4 DEF Link

(***************************************************************************)
(* An object is sound for a link when its masks agree with its state and,  *)
(* if it is usable, it shows the link's value of every attribute that is   *)
(* not dirty, two distinct identifiers and an MTU in range.                *)
(***************************************************************************)
MtuFits(conf) == "mtu" \in Field => conf["mtu"] \in MtuRange

Sound(i, link) ==
    /\ i.state = "clean" => i.dirty = {}
    /\ i.state = "dirty" => i.dirty # {}
    /\ Usable(i) => \A f \in Field \ i.dirty : i.conf[f] = link.conf[f]
    /\ Usable(i) => ~ Ambiguous(i.conf) /\ MtuFits(i.conf)

(* Whatever a reload leaves is sound, and shows the operational state of   *)
(* the link or the one it showed before.                                   *)
LEMMA ReloadsSound ==
    ASSUME NEW i \in IfaceRecord, NEW link \in Link, NEW p \in BOOLEAN,
           MtuFits(link.conf),
           NEW r \in Reloads(i, link, p)
    PROVE  /\ Sound(r, link)
           /\ r.oper \in {i.oper, link.oper}
           /\ r.state # "none"
<1>1. CASE r = Invalidated(i)
    BY <1>1 DEF Invalidated, Sound, Usable, IfaceRecord
<1>2. CASE r = Invalidated(Fill(link))
    BY <1>2 DEF Invalidated, Fill, Sound, Usable
<1>3. CASE r = Fill(link) /\ IsLinkValid(link)
    BY <1>3 DEF Fill, Sound, Usable, IsLinkValid
<1> QED BY <1>1, <1>2, <1>3 DEF Reloads

(* A synchronisation gives a sound object, whose operational state is the  *)
(* one it had or the link's.                                               *)
LEMMA SyncsSound ==
    ASSUME NEW i \in IfaceRecord, NEW link \in Link, NEW p \in BOOLEAN,
           MtuFits(link.conf), Sound(i, link), i.state # "none",
           NEW r \in Syncs(i, link, p)
    PROVE  /\ Sound(r, link)
           /\ r.oper \in {i.oper, link.oper}
           /\ r.state # "none"
    BY ReloadsSound DEF Syncs

(* Setting an attribute of a usable object keeps it sound.                 *)
LEMMA WithFieldSound ==
    ASSUME NEW i \in IfaceRecord, NEW link \in Link,
           Sound(i, link), Usable(i),
           NEW f \in Field, NEW v \in Value[f]
    PROVE  /\ Sound(WithField(i, f, v), link)
           /\ WithField(i, f, v).oper = i.oper
           /\ WithField(i, f, v).state # "none"
<1>1. CASE v = i.conf[f] \/ Refuses(i, f, v)
    BY <1>1 DEF WithField, Usable
<1>2. CASE ~ (v = i.conf[f] \/ Refuses(i, f, v))
    <2> DEFINE w == WithField(i, f, v)
    <2>1. /\ w.state = "dirty" /\ w.dirty = i.dirty \cup {f}
          /\ w.conf = [i.conf EXCEPT ![f] = v] /\ w.oper = i.oper
        BY <1>2 DEF WithField, IfaceRecord
    <2>2. i.conf = [g \in Field |-> i.conf[g]]
        BY ConfElim DEF IfaceRecord
    <2>3. w.conf[f] = v /\ \A g \in Field : g # f => w.conf[g] = i.conf[g]
        BY <2>1, <2>2
    <2>4. \A g \in Field \ w.dirty : w.conf[g] = link.conf[g]
        BY <2>1, <2>3 DEF Sound
    <2>5. ~ Ambiguous(w.conf)
        BY <1>2, <2>3 DEF Ambiguous, Refuses, Sound
    <2>6. MtuFits(w.conf)
        BY <1>2, <2>3 DEF MtuFits, Refuses, Sound
    <2> QED BY <2>1, <2>4, <2>5, <2>6 DEF Sound
<1> QED BY <1>1, <1>2

(* A setlink request that carries every dirty attribute of a sound object  *)
(* leaves the kernel with the configuration the object shows.              *)
LEMMA CommitsWhole ==
    ASSUME NEW i \in IfaceRecord, NEW link \in Link, Sound(i, link), Usable(i),
           NEW new \in Commits(link, i, i.dirty)
    PROVE  /\ new.conf = i.conf
           /\ Sound(Applied(i), new)
<1>1. i.dirty \in SUBSET Field
    BY DEF IfaceRecord
<1>2. new.conf = Overlaid(link.conf, i, i.dirty)
    BY <1>1, CommitsType
<1>3. i.conf = [f \in Field |-> i.conf[f]]
    BY ConfElim DEF IfaceRecord
<1>4. Overlaid(link.conf, i, i.dirty) = i.conf
    BY <1>3 DEF Overlaid, Sound
<1>5. /\ Applied(i).state = "clean" /\ Applied(i).dirty = {}
      /\ Applied(i).conf = i.conf
    BY DEF Applied, IfaceRecord
<1> QED BY <1>2, <1>4, <1>5 DEF Sound, Usable

(* Setting some of them leaves it with an MTU in range all the same.       *)
LEMMA CommitsFit ==
    ASSUME NEW i \in IfaceRecord, NEW link \in Link, NEW D \in SUBSET Field,
           MtuFits(link.conf), MtuFits(i.conf),
           NEW new \in Commits(link, i, D)
    PROVE  MtuFits(new.conf)
<1>1. new.conf = Overlaid(link.conf, i, D)
    BY CommitsType
<1> QED BY <1>1 DEF Overlaid, MtuFits
=============================================================================

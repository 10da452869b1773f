---------------------------- MODULE StoreProofs ----------------------------
(* Safety of the registry for every set of indices, strings and buckets,   *)
(* and every hash function.                                                *)
EXTENDS Store, IfaceProofs

USE StoreAssumption

Id == {"name", "alias"}

(* The bucket of a table, whether a string may be registered in it, and    *)
(* the same of what an object and its handle are about to become.          *)
BucketOf(n, f) == IF f = "name" THEN nameh[n] ELSE aliash[n]
May(n, f, s)   == IF f = "name" THEN MayName(n, s) ELSE MayAlias(n, s)
NextBucket(r, f) == IF f = "name" THEN r.name ELSE r.alias

Shows(i, f) == Usable(i) /\ f \notin i.dirty /\ i.conf[f] # NoAlias

Linked == \A h \in Index : \A f \in Id :
              Settled(h, f) => BucketOf(h, f) = Hash[iface[h].conf[f]]

StoreInv == TypeOK /\ Linked /\ SoleOwner

Outcome == [obj : IfaceRecord, name : Bucket \cup {NoBucket},
            alias : Bucket \cup {NoBucket}]

(* The identifiers an outcome shows are linked, and new ones were free.    *)
Fits(n, r) ==
    \A f \in Id : Shows(r.obj, f) =>
        /\ NextBucket(r, f) = Hash[r.obj.conf[f]]
        /\ \/ Settled(n, f) /\ r.obj.conf[f] = iface[n].conf[f]
           \/ May(n, f, r.obj.conf[f])

(***************************************************************************)
(* One object at a time.                                                   *)
(***************************************************************************)
(* A step over one object keeps the types, and the others as they are.     *)
LEMMA BecomesType ==
    ASSUME TypeOK, NEW n \in Index, NEW r \in Outcome, Becomes(n, r)
    PROVE  /\ iface' \in [Index -> IfaceRecord]
           /\ nameh' \in [Index -> Bucket \cup {NoBucket}]
           /\ aliash' \in [Index -> Bucket \cup {NoBucket}]
           /\ iface'[n] = r.obj /\ nameh'[n] = r.name /\ aliash'[n] = r.alias
           /\ \A h \in Index : h # n => /\ iface'[h] = iface[h]
                                        /\ nameh'[h] = nameh[h]
                                        /\ aliash'[h] = aliash[h]
<1>1. r.obj \in IfaceRecord /\ r.name \in Bucket \cup {NoBucket}
      /\ r.alias \in Bucket \cup {NoBucket}
    BY DEF Outcome
<1> QED BY <1>1 DEF TypeOK, Becomes

(* A string shown by another registered object is in its bucket, where the *)
(* check meets it.                                                         *)
LEMMA Met ==
    ASSUME Linked, NEW n \in Index, NEW h \in Index, h # n,
           NEW f \in Id, Settled(h, f)
    PROVE  ~ May(n, f, iface[h].conf[f])
<1>1. BucketOf(h, f) = Hash[iface[h].conf[f]] /\ h \in stored \ {n}
      /\ iface[h].conf[f] # NoAlias
    BY DEF Linked, Settled
<1>2. Matches(h, iface[h].conf[f])
    BY DEF Matches, Id
<1>3. CASE f = "name"
    BY <1>1, <1>2, <1>3 DEF BucketOf, May, MayName
<1>4. CASE f = "alias"
    BY <1>1, <1>2, <1>4 DEF BucketOf, May, MayAlias
<1> QED BY <1>3, <1>4 DEF Id

(* Replacing one object by an outcome that fits keeps the registry linked  *)
(* and its owners unique.                                                  *)
LEMMA BecomesSafe ==
    ASSUME StoreInv, NEW n \in Index, NEW r \in Outcome, Becomes(n, r),
           stored' \in {stored, stored \cup {n}}, n \in stored' => Fits(n, r)
    PROVE  Linked' /\ SoleOwner'
<1>1. /\ iface'[n] = r.obj /\ nameh'[n] = r.name /\ aliash'[n] = r.alias
      /\ \A h \in Index : h # n => /\ iface'[h] = iface[h]
                                   /\ nameh'[h] = nameh[h]
                                   /\ aliash'[h] = aliash[h]
    BY BecomesType DEF StoreInv
<1>2. ASSUME NEW h \in Index, h # n, NEW f \in Id
      PROVE  /\ Settled(h, f)' <=> Settled(h, f)
             /\ BucketOf(h, f)' = BucketOf(h, f)
    BY <1>1, <1>2 DEF Settled, BucketOf, Id
<1>3. ASSUME NEW f \in Id, Settled(n, f)'
      PROVE  /\ BucketOf(n, f)' = Hash[r.obj.conf[f]]
             /\ \/ Settled(n, f) /\ r.obj.conf[f] = iface[n].conf[f]
                \/ May(n, f, r.obj.conf[f])
    <2>1. n \in stored' /\ Shows(r.obj, f)
        BY <1>1, <1>3 DEF Settled, Shows, Id
    <2>2. BucketOf(n, f)' = NextBucket(r, f)
        BY <1>1 DEF BucketOf, NextBucket
    <2> QED BY <2>1, <2>2 DEF Fits
<1>4. Linked'
    <2> SUFFICES ASSUME NEW h \in Index, NEW f \in Id, Settled(h, f)'
                 PROVE  BucketOf(h, f)' = Hash[iface'[h].conf[f]]
        BY DEF Linked
    <2>1. CASE h = n
        BY <1>1, <1>3, <2>1
    <2>2. CASE h # n
        BY <1>1, <1>2, <2>2 DEF StoreInv, Linked
    <2> QED BY <2>1, <2>2
<1>5. ASSUME NEW f \in Id, NEW h \in Index, h # n,
             Settled(n, f)', Settled(h, f)', r.obj.conf[f] = iface[h].conf[f]
      PROVE  FALSE
    <2>1. Settled(h, f)
        BY <1>2, <1>5
    <2>2. ~ May(n, f, r.obj.conf[f])
        BY <1>5, <2>1, Met DEF StoreInv
    <2>3. Settled(n, f) /\ r.obj.conf[f] = iface[n].conf[f]
        BY <1>3, <1>5, <2>2
    <2> QED BY <1>5, <2>1, <2>3 DEF StoreInv, SoleOwner, Id
<1>6. SoleOwner'
    <2> SUFFICES ASSUME NEW f \in Id, NEW g \in Index, NEW h \in Index,
                        Settled(g, f)', Settled(h, f)',
                        iface'[g].conf[f] = iface'[h].conf[f], g # h
                 PROVE  FALSE
        BY DEF SoleOwner, Id
    <2>1. CASE g = n
        BY <1>1, <1>5, <2>1
    <2>2. CASE h = n
        BY <1>1, <1>5, <2>2
    <2>3. CASE g # n /\ h # n
        BY <1>1, <1>2, <2>3 DEF StoreInv, SoleOwner, Id
    <2> QED BY <2>1, <2>2, <2>3
<1> QED BY <1>4, <1>6

(***************************************************************************)
(* What becomes of an object fits.                                         *)
(***************************************************************************)
(* The strings of an object have buckets.                                  *)
LEMMA ConfStrings ==
    ASSUME NEW i \in IfaceRecord
    PROVE  /\ i.conf["name"] \in Value["name"] /\ i.conf["name"] # NoAlias
           /\ i.conf["alias"] \in Value["alias"]
           /\ Hash[i.conf["name"]] \in Bucket
           /\ i.conf["alias"] # NoAlias => Hash[i.conf["alias"]] \in Bucket
           /\ AliasBucket(i.conf["alias"]) \in Bucket \cup {NoBucket}
<1>1. i.conf \in Conf
    BY DEF IfaceRecord
<1>2. /\ i.conf["name"] \in Value["name"] /\ i.conf["name"] # NoAlias
      /\ i.conf["alias"] \in Value["alias"]
    BY <1>1, ConfElim, IfaceAssumption
<1> QED BY <1>2 DEF AliasBucket

(* An object that shows no identifier it did not show fits where its       *)
(* handle is.                                                              *)
LEMMA AsFits ==
    ASSUME StoreInv, NEW n \in Index, NEW i \in IfaceRecord,
           \A f \in Id : Shows(i, f) /\ n \in stored =>
               Shows(iface[n], f) /\ i.conf[f] = iface[n].conf[f]
    PROVE  As(n, i) \in Outcome /\ (n \in stored => Fits(n, As(n, i)))
<1> DEFINE r == As(n, i)
<1>1. r.obj = i /\ r.name = nameh[n] /\ r.alias = aliash[n]
    BY DEF As
<1>2. r \in Outcome
    BY DEF As, Outcome, StoreInv, TypeOK
<1>3. ASSUME n \in stored, NEW f \in Id, Shows(i, f)
      PROVE  /\ NextBucket(r, f) = Hash[i.conf[f]]
             /\ Settled(n, f) /\ i.conf[f] = iface[n].conf[f]
    <2>1. Settled(n, f) /\ i.conf[f] = iface[n].conf[f]
        BY <1>3 DEF Shows, Settled
    <2> QED BY <1>1, <2>1 DEF StoreInv, Linked, BucketOf, NextBucket
<1> HIDE DEF r
<1>4. n \in stored => Fits(n, r)
    BY <1>1, <1>3 DEF Fits
<1> QED BY <1>2, <1>4 DEF r

(* A rehash of the attributes that changed gives an outcome that fits:     *)
(* linked where the object now belongs, or not shown.                      *)
LEMMA RehashedFits ==
    ASSUME StoreInv, NEW n \in Index, NEW i \in IfaceRecord,
           NEW F \in SUBSET Id,
           \A f \in Id \ F : i.conf[f] # NoAlias =>
               Settled(n, f) /\ i.conf[f] = iface[n].conf[f]
    PROVE  Rehashed(n, i, F) \in Outcome /\ Fits(n, Rehashed(n, i, F))
<1> DEFINE r == Rehashed(n, i, F)
           may == "name" \in F => MayName(n, i.conf["name"])
           fit == "alias" \in F => MayAlias(n, i.conf["alias"])
<1>0. i.oper \in Oper
    BY DEF IfaceRecord
<1>1. /\ r.obj = IF may /\ fit THEN Applied(i) ELSE Invalidated(i)
      /\ r.name = IF "name" \notin F THEN nameh[n]
                  ELSE IF may THEN Hash[i.conf["name"]] ELSE NoBucket
      /\ r.alias = IF "alias" \notin F \/ ~ may THEN aliash[n]
                   ELSE IF fit THEN AliasBucket(i.conf["alias"]) ELSE NoBucket
      /\ r = [obj |-> r.obj, name |-> r.name, alias |-> r.alias]
    BY DEF Rehashed
<1> HIDE DEF r
<1>2. r.obj \in IfaceRecord
    BY <1>0, <1>1, UpdateType
<1>3. r.name \in Bucket \cup {NoBucket} /\ r.alias \in Bucket \cup {NoBucket}
    BY <1>1, ConfStrings DEF StoreInv, TypeOK
<1>4. r \in Outcome
    BY <1>1, <1>2, <1>3 DEF Outcome
<1>5. ASSUME NEW f \in Id, Shows(r.obj, f)
      PROVE  /\ NextBucket(r, f) = Hash[r.obj.conf[f]]
             /\ \/ Settled(n, f) /\ r.obj.conf[f] = iface[n].conf[f]
                \/ May(n, f, r.obj.conf[f])
    <2>1. may /\ fit
        BY <1>1, <1>5 DEF Shows, Usable, Invalidated, IfaceRecord
    <2>2. r.obj.conf = i.conf
        BY <1>1, <2>1 DEF Applied, IfaceRecord
    <2>3. i.conf[f] # NoAlias
        BY <1>5, <2>2 DEF Shows
    <2>4. CASE f \notin F
        <3>1. Settled(n, f) /\ i.conf[f] = iface[n].conf[f]
            BY <2>3, <2>4
        <3>2. BucketOf(n, f) = Hash[i.conf[f]]
            BY <3>1 DEF StoreInv, Linked
        <3>3. NextBucket(r, f) = BucketOf(n, f)
            BY <1>1, <2>4 DEF NextBucket, BucketOf, Id
        <3> QED BY <2>2, <3>1, <3>2, <3>3
    <2>5. CASE f \in F /\ f = "name"
        BY <1>1, <2>1, <2>2, <2>5 DEF NextBucket, May
    <2>6. CASE f \in F /\ f = "alias"
        BY <1>1, <2>1, <2>2, <2>3, <2>6 DEF NextBucket, May, AliasBucket
    <2> QED BY <2>4, <2>5, <2>6 DEF Id
<1>6. Fits(n, r)
    BY <1>5 DEF Fits
<1> QED BY <1>4, <1>6 DEF r

(* An invalid object shows nothing, so fits anywhere.                      *)
LEMMA InvalidFits ==
    ASSUME StoreInv, NEW n \in Index
    PROVE  LET r == As(n, Invalidated(iface[n]))
           IN  r \in Outcome /\ (n \in stored => Fits(n, r))
<1>1. iface[n] \in IfaceRecord /\ iface[n].oper \in Oper
    BY DEF StoreInv, TypeOK, IfaceRecord
<1>2. Invalidated(iface[n]) \in IfaceRecord
    BY <1>1, UpdateType
<1>3. \A f : ~ Shows(Invalidated(iface[n]), f)
    BY <1>1 DEF Shows, Usable, Invalidated, IfaceRecord
<1> QED BY <1>2, <1>3, AsFits

(* A reload of a registered object gives an outcome that fits.             *)
LEMMA ReloadsFit ==
    ASSUME StoreInv, NEW n \in stored, NEW r \in ReloadsOf(n)
    PROVE  r \in Outcome /\ Fits(n, r)
<1>1. n \in Index /\ kern[n] \in Link
    BY DEF StoreInv, TypeOK
<1>2. Fill(kern[n]) \in IfaceRecord
    BY <1>1, FillType
<1>3. Rehashed(n, Fill(kern[n]), Field) \in Outcome
      /\ Fits(n, Rehashed(n, Fill(kern[n]), Field))
    BY <1>1, <1>2, RehashedFits DEF Id
<1> QED BY <1>1, <1>3, InvalidFits DEF ReloadsOf

(* So does a synchronisation, which leaves an object the store does not    *)
(* hold as it is.                                                          *)
LEMMA SyncsFit ==
    ASSUME StoreInv, NEW n \in Index, NEW r \in SyncsOf(n),
           n \notin stored => Usable(iface[n])
    PROVE  r \in Outcome /\ (n \in stored => Fits(n, r))
           /\ (n \notin stored => r = As(n, iface[n]))
<1>1. iface[n] \in IfaceRecord
    BY DEF StoreInv, TypeOK
<1>2. CASE iface[n].state = "invalid"
    BY <1>2, ReloadsFit DEF SyncsOf, Usable
<1>3. CASE iface[n].state # "invalid"
    BY <1>1, <1>3, AsFits DEF SyncsOf
<1> QED BY <1>2, <1>3

(* Setting an attribute shows nothing that was not shown.                  *)
LEMMA WithFieldShows ==
    ASSUME NEW i \in IfaceRecord, Usable(i), NEW f \in Field, NEW v \in Value[f],
           NEW g \in Id, Shows(WithField(i, f, v), g)
    PROVE  Shows(i, g) /\ WithField(i, f, v).conf[g] = i.conf[g]
<1>1. CASE v = i.conf[f] \/ Refuses(i, f, v)
    BY <1>1 DEF WithField
<1>2. CASE ~ (v = i.conf[f] \/ Refuses(i, f, v))
    <2> DEFINE w == WithField(i, f, v)
    <2>1. w.dirty = i.dirty \cup {f} /\ w.conf = [i.conf EXCEPT ![f] = v]
        BY <1>2 DEF WithField, IfaceRecord
    <2>2. g \notin i.dirty /\ g # f /\ w.conf[g] # NoAlias
        BY <2>1 DEF Shows
    <2>3. i.conf = [h \in Field |-> i.conf[h]]
        BY ConfElim DEF IfaceRecord
    <2>4. w.conf[g] = i.conf[g]
        BY <2>1, <2>2, <2>3 DEF Id
    <2> QED BY <2>2, <2>4 DEF Shows
<1> QED BY <1>1, <1>2

(***************************************************************************)
(* The actions.                                                            *)
(***************************************************************************)
(* A step over one object that fits keeps the invariant.                   *)
LEMMA BecomesInv ==
    ASSUME StoreInv, NEW n \in Index, NEW r \in Outcome, Becomes(n, r),
           stored' \in {stored, stored \cup {n}}, n \in stored' => Fits(n, r),
           n \notin stored' => r.name = NoBucket /\ r.alias = NoBucket,
           kern' \in [Index -> Link], present' \subseteq Index,
           dump' \subseteq Index, crashed' \in BOOLEAN
    PROVE  StoreInv'
<1>1. Linked' /\ SoleOwner'
    <2>1. n \in stored => Fits(n, r)
        OBVIOUS
    <2> QED BY <2>1, BecomesSafe
<1>2. stored' \subseteq Index
    BY DEF StoreInv, TypeOK
<1>3. \A m \in Index \ stored' : nameh'[m] = NoBucket /\ aliash'[m] = NoBucket
    BY BecomesType DEF StoreInv, TypeOK
<1>4. TypeOK'
    BY <1>2, <1>3, BecomesType DEF StoreInv, TypeOK
<1> QED BY <1>1, <1>4 DEF StoreInv

(* Steps that touch neither objects nor tables keep both.                  *)
LEMMA Same ==
    ASSUME UNCHANGED <<iface, stored, nameh, aliash>>, Linked, SoleOwner
    PROVE  Linked' /\ SoleOwner'
    BY DEF Linked, SoleOwner, Settled, BucketOf

(* The object that is not there is an object.                              *)
LEMMA NoneType ==
    ASSUME NEW link \in Link
    PROVE  None \in IfaceRecord
<1>1. (CHOOSE l \in Link : TRUE) \in Link
    OBVIOUS
<1>2. Fill(CHOOSE l \in Link : TRUE) \in IfaceRecord
    BY <1>1, FillType
<1> QED BY <1>2 DEF None, IfaceRecord

(* An enrolment that passed its checks keeps the invariant.                *)
LEMMA EnrolledInv ==
    ASSUME StoreInv, NEW n \in Index, NEW i \in IfaceRecord,
           MayEnroll(n, i.conf), Enrolled(n, i),
           kern' = kern, present' = present, dump' \subseteq Index,
           crashed' = crashed
    PROVE  StoreInv'
<1> DEFINE r == [obj |-> i, name |-> Hash[i.conf["name"]],
                 alias |-> AliasBucket(i.conf["alias"])]
<1>1. r \in Outcome
    BY ConfStrings DEF Outcome
<1>2. Becomes(n, r) /\ stored' = stored \cup {n}
    BY DEF Enrolled
<1>3. r.obj = i /\ r.name = Hash[i.conf["name"]]
      /\ r.alias = AliasBucket(i.conf["alias"])
    OBVIOUS
<1> HIDE DEF r
<1>4. ASSUME NEW f \in Id, Shows(r.obj, f)
      PROVE  NextBucket(r, f) = Hash[r.obj.conf[f]] /\ May(n, f, r.obj.conf[f])
    <2>1. i.conf[f] # NoAlias
        BY <1>3, <1>4 DEF Shows
    <2>2. CASE f = "name"
        BY <1>3, <2>2 DEF NextBucket, May, MayEnroll
    <2>3. CASE f = "alias"
        BY <1>3, <2>1, <2>3 DEF NextBucket, May, MayEnroll, AliasBucket
    <2> QED BY <2>2, <2>3 DEF Id
<1>5. Fits(n, r)
    BY <1>4 DEF Fits
<1>6. /\ kern' \in [Index -> Link] /\ present' \subseteq Index
      /\ crashed' \in BOOLEAN /\ stored' \in {stored, stored \cup {n}}
      /\ n \in stored'
    BY <1>2 DEF StoreInv, TypeOK
<1> QED BY <1>1, <1>2, <1>5, <1>6, BecomesInv

(* Loading, clearing, and what leaves objects and tables alone.            *)
LEMMA LoadStep ==
    ASSUME StoreInv, NEW n \in Index, Load \/ Unplug(n) \/ Unknown(n) \/ LoadLink(n)
    PROVE  StoreInv'
<1>1. CASE Load \/ Unplug(n) \/ Unknown(n)
    <2>1. TypeOK'
        BY <1>1 DEF Load, Unplug, Unknown, StoreInv, TypeOK
    <2>2. UNCHANGED <<iface, stored, nameh, aliash>>
        BY <1>1 DEF Load, Unplug, Unknown
    <2> QED BY <2>1, <2>2, Same DEF StoreInv
<1>2. CASE LoadLink(n)
    <2>1. kern[n] \in Link /\ dump' \subseteq Index
        BY <1>2 DEF LoadLink, StoreInv, TypeOK
    <2>2. Fill(kern[n]) \in IfaceRecord /\ Fill(kern[n]).conf = kern[n].conf
        BY <2>1, FillType DEF Fill
    <2>3. CASE IsLinkValid(kern[n]) /\ MayEnroll(n, kern[n].conf)
        BY <1>2, <2>1, <2>2, <2>3, EnrolledInv DEF LoadLink
    <2>4. CASE ~ (IsLinkValid(kern[n]) /\ MayEnroll(n, kern[n].conf))
        <3>1. UNCHANGED <<iface, stored, nameh, aliash>>
            BY <1>2, <2>4 DEF LoadLink
        <3>2. TypeOK'
            BY <1>2, <2>1, <3>1 DEF LoadLink, StoreInv, TypeOK
        <3> QED BY <3>1, <3>2, Same DEF StoreInv
    <2> QED BY <2>3, <2>4
<1> QED BY <1>1, <1>2

(* Clearing the store keeps the invariant.                                 *)
LEMMA ClearStep ==
    ASSUME StoreInv, Clear
    PROVE  StoreInv'
<1>1. ASSUME NEW n \in Index
      PROVE  (IF n \in stored THEN None ELSE iface[n]) \in IfaceRecord
    <2>1. kern[n] \in Link /\ iface[n] \in IfaceRecord
        BY DEF StoreInv, TypeOK
    <2> QED BY <2>1, NoneType
<1>2. iface' \in [Index -> IfaceRecord]
    BY <1>1 DEF Clear
<1>3. TypeOK'
    BY <1>2 DEF Clear, StoreInv, TypeOK
<1>4. Linked' /\ SoleOwner'
    BY DEF Clear, Linked, SoleOwner, Settled
<1> QED BY <1>3, <1>4 DEF StoreInv

(* Objects that are created, given up, registered and withdrawn.           *)
LEMMA OwnerStep ==
    ASSUME StoreInv, NEW n \in Index,
           Create(n) \/ Destroy(n) \/ Enroll(n) \/ Withdraw(n)
    PROVE  StoreInv'
<1>0. kern[n] \in Link /\ iface[n] \in IfaceRecord
    BY DEF StoreInv, TypeOK
<1>1. CASE Create(n) \/ Destroy(n)
    <2>1. PICK i \in IfaceRecord : iface' = [iface EXCEPT ![n] = i]
        BY <1>0, <1>1, NoneType, FillType DEF Create, Destroy
    <2>2. /\ UNCHANGED <<kern, present, dump, stored, nameh, aliash, crashed>>
          /\ n \notin stored
        BY <1>1 DEF Create, Destroy
    <2>3. TypeOK'
        BY <2>1, <2>2 DEF StoreInv, TypeOK
    <2>4. \A h \in Index, f \in Id : Settled(h, f)' =>
              Settled(h, f) /\ iface'[h] = iface[h]
        BY <2>1, <2>2 DEF Settled, StoreInv, TypeOK
    <2>5. Linked'
        BY <2>2, <2>4 DEF Linked, BucketOf, StoreInv
    <2>6. SoleOwner'
        BY <2>4 DEF SoleOwner, Id, StoreInv
    <2> QED BY <2>3, <2>5, <2>6 DEF StoreInv
<1>2. CASE Enroll(n)
    BY <1>0, <1>2, EnrolledInv DEF Enroll, StoreInv, TypeOK
<1>3. CASE Withdraw(n)
    <2>1. TypeOK'
        BY <1>3 DEF Withdraw, StoreInv, TypeOK
    <2>2. ASSUME NEW h \in Index, NEW f \in Id, Settled(h, f)'
          PROVE  /\ Settled(h, f) /\ iface'[h] = iface[h]
                 /\ BucketOf(h, f)' = BucketOf(h, f)
        <3>1. h # n /\ h \in stored /\ iface' = iface
            BY <1>3, <2>2 DEF Withdraw, Settled
        <3>2. nameh'[h] = nameh[h] /\ aliash'[h] = aliash[h]
            BY <1>3, <3>1 DEF Withdraw, StoreInv, TypeOK
        <3> QED BY <2>2, <3>1, <3>2 DEF Settled, BucketOf
    <2>3. Linked' /\ SoleOwner'
        BY <2>2 DEF Linked, SoleOwner, Id, StoreInv
    <2> QED BY <2>1, <2>3 DEF StoreInv
<1> QED BY <1>1, <1>2, <1>3

(* Setting and reloading.                                                  *)
LEMMA SetStep ==
    ASSUME StoreInv, NEW n \in Index, NEW f \in Field, NEW v \in Value[f],
           Set(n, f, v)
    PROVE  StoreInv'
<1>1. PICK r \in SyncsOf(n) :
         Becomes(n, [r EXCEPT !.obj = IF Usable(@) THEN WithField(@, f, v) ELSE @])
    BY DEF Set
<1> DEFINE i == IF Usable(r.obj) THEN WithField(r.obj, f, v) ELSE r.obj
           q == [r EXCEPT !.obj = i]
<1>2. r \in Outcome /\ (n \in stored => Fits(n, r))
      /\ (n \notin stored => r = As(n, iface[n]))
    BY SyncsFit DEF Set
<1>3. r.obj \in IfaceRecord
    BY <1>2 DEF Outcome
<1>4. i \in IfaceRecord
    BY <1>3, WithFieldType
<1>5. ASSUME NEW g \in Id, Shows(i, g)
      PROVE  Shows(r.obj, g) /\ i.conf[g] = r.obj.conf[g]
    BY <1>3, <1>5, WithFieldShows
<1>6. Becomes(n, q)
    BY <1>1
<1> HIDE DEF i
<1>7. q \in Outcome /\ q.obj = i /\ q.name = r.name /\ q.alias = r.alias
    BY <1>2, <1>4 DEF Outcome
<1> HIDE DEF q
<1>8. n \in stored => Fits(n, q)
    <2> SUFFICES ASSUME n \in stored, NEW g \in Id, Shows(i, g)
                 PROVE  /\ NextBucket(q, g) = Hash[i.conf[g]]
                        /\ \/ Settled(n, g) /\ i.conf[g] = iface[n].conf[g]
                           \/ May(n, g, i.conf[g])
        BY <1>7 DEF Fits
    <2>1. Shows(r.obj, g) /\ i.conf[g] = r.obj.conf[g]
        BY <1>5
    <2>2. NextBucket(q, g) = NextBucket(r, g)
        BY <1>7 DEF NextBucket
    <2> QED BY <1>2, <2>1, <2>2 DEF Fits
<1>9. n \notin stored => q.name = NoBucket /\ q.alias = NoBucket
    BY <1>2, <1>7 DEF As, StoreInv, TypeOK
<1> QED BY <1>6, <1>7, <1>8, <1>9, BecomesInv DEF Set, StoreInv, TypeOK

(* A reload keeps the invariant.                                           *)
LEMMA ReloadStep ==
    ASSUME StoreInv, NEW n \in Index, Reload(n)
    PROVE  StoreInv'
<1>1. PICK r \in ReloadsOf(n) : Becomes(n, r)
    BY DEF Reload
<1>2. n \in stored /\ r \in Outcome /\ Fits(n, r)
    BY <1>1, ReloadsFit DEF Reload
<1> QED BY <1>1, <1>2, BecomesInv DEF Reload, StoreInv, TypeOK

(* Applying.                                                               *)
LEMMA ApplyStep ==
    ASSUME StoreInv, NEW n \in Index, Apply(n)
    PROVE  StoreInv'
<1>1. /\ iface[n] \in IfaceRecord /\ kern[n] \in Link /\ n \in stored
      /\ iface[n].state = "dirty" /\ iface[n].dirty \in SUBSET Field
    BY DEF Apply, Held, StoreInv, TypeOK, IfaceRecord
<1>2. kern' \in [Index -> Link]
    <2>1. PICK new \in Commits(kern[n], iface[n], iface[n].dirty) :
             kern' = [kern EXCEPT ![n] = new]
        BY DEF Apply
    <2>2. new \in Link
        BY <1>1, <2>1, CommitsType
    <2> QED BY <2>1, <2>2 DEF StoreInv, TypeOK
<1> DEFINE r == Rehashed(n, iface[n], iface[n].dirty)
<1>3. \A f \in Id \ iface[n].dirty : iface[n].conf[f] # NoAlias => Settled(n, f)
    BY <1>1 DEF Settled, Usable
<1>4. r \in Outcome /\ Fits(n, r)
    BY <1>1, <1>3, RehashedFits DEF Id
<1>5. Becomes(n, r)
    BY DEF Apply
<1> HIDE DEF r
<1> QED BY <1>1, <1>2, <1>4, <1>5, BecomesInv DEF Apply, StoreInv, TypeOK

(* An apply that fails keeps the invariant.                                *)
LEMMA ApplyFailsStep ==
    ASSUME StoreInv, NEW n \in Index, NEW D \in SUBSET Field, ApplyFails(n, D)
    PROVE  StoreInv'
<1>1. iface[n] \in IfaceRecord /\ kern[n] \in Link
    BY DEF StoreInv, TypeOK
<1>2. kern' \in [Index -> Link]
    <2>1. PICK new \in Commits(kern[n], iface[n], D) :
             kern' = [kern EXCEPT ![n] = new]
        BY DEF ApplyFails
    <2>2. new \in Link
        BY <1>1, <2>1, CommitsType
    <2> QED BY <2>1, <2>2 DEF StoreInv, TypeOK
<1> DEFINE r == As(n, Invalidated(iface[n]))
<1>3. r \in Outcome /\ (n \in stored => Fits(n, r))
    BY InvalidFits
<1>4. Becomes(n, r)
    BY DEF ApplyFails
<1>5. n \notin stored => r.name = NoBucket /\ r.alias = NoBucket
    BY DEF As, StoreInv, TypeOK
<1> HIDE DEF r
<1> QED BY <1>2, <1>3, <1>4, <1>5, BecomesInv DEF ApplyFails, StoreInv, TypeOK

(* The invariant holds of an empty store.                                  *)
LEMMA InitStore == Init => StoreInv
<1> SUFFICES ASSUME Init PROVE StoreInv
    OBVIOUS
<1>1. ASSUME NEW n \in Index PROVE iface[n] \in IfaceRecord
    BY NoneType DEF Init
<1>2. TypeOK
    BY <1>1 DEF Init, TypeOK
<1> QED BY <1>2 DEF Init, StoreInv, Linked, SoleOwner, Settled

(* The invariant is inductive.                                             *)
LEMMA StepStore == StoreInv /\ [Next]_vars => StoreInv'
<1> SUFFICES ASSUME StoreInv, [Next]_vars PROVE StoreInv'
    OBVIOUS
<1>1. CASE UNCHANGED vars
    BY <1>1, Same DEF vars, StoreInv, TypeOK
<1>2. CASE Load \/ Clear
    <2>1. CASE Load
        <3>1. TypeOK' /\ UNCHANGED <<iface, stored, nameh, aliash>>
            BY <2>1 DEF Load, StoreInv, TypeOK
        <3> QED BY <3>1, Same DEF StoreInv
    <2> QED BY <1>2, <2>1, ClearStep
<1>3. CASE \E n \in Index : LoadLink(n) \/ Unplug(n) \/ Unknown(n)
    BY <1>3, LoadStep
<1>4. CASE \E n \in Index : Create(n) \/ Destroy(n) \/ Enroll(n) \/ Withdraw(n)
    BY <1>4, OwnerStep
<1>5. CASE \E n \in Index : \/ Reload(n) \/ Apply(n)
                            \/ \E f \in Field : \E v \in Value[f] : Set(n, f, v)
                            \/ \E D \in SUBSET Field : ApplyFails(n, D)
    BY <1>5, ReloadStep, ApplyStep, SetStep, ApplyFailsStep
<1> QED BY <1>1, <1>2, <1>3, <1>4, <1>5 DEF Next

(* The inductive invariant of the registry: usable objects are linked      *)
(* under what they show, and own it alone.                                 *)
THEOREM StoreInvariant == Spec => []StoreInv
    BY InitStore, StepStore, PTL DEF Spec

(* Every variable keeps its type, and what is not stored is not linked.    *)
THEOREM StoreTyped == Spec => []TypeOK
<1>1. StoreInv => TypeOK
    BY DEF StoreInv
<1> QED BY <1>1, StoreInvariant, PTL

(* What an interface is known by leads to it.                              *)
THEOREM Lookup == Spec => []Findable
<1>1. StoreInv => Findable
    <2> SUFFICES ASSUME StoreInv, NEW h \in Index
                 PROVE  /\ Settled(h, "name")  => h \in FoundByName(iface[h].conf["name"])
                        /\ Settled(h, "alias") => h \in FoundByAlias(iface[h].conf["alias"])
        BY DEF Findable
    <2> QED BY DEF StoreInv, Linked, BucketOf, Id, Settled, FoundByName, FoundByAlias
<1> QED BY <1>1, StoreInvariant, PTL

(* No two interfaces are known by the same name, or the same alias.        *)
THEOREM Ownership == Spec => []SoleOwner
<1>1. StoreInv => SoleOwner
    BY DEF StoreInv
<1> QED BY <1>1, StoreInvariant, PTL

(***************************************************************************)
(* Handles in the table of aliases.                                        *)
(***************************************************************************)
(* An object that shows that it has no alias.                              *)
Bare(i) == Usable(i) /\ "alias" \notin i.dirty /\ i.conf["alias"] = NoAlias

(* A step over one object that leaves a bare one out of the table of       *)
(* aliases keeps all the others as they are.                               *)
LEMMA BecomesKnown ==
    ASSUME StoreInv, AliasKnown, NEW n \in Index, NEW r \in Outcome,
           Becomes(n, r), stored' \in {stored, stored \cup {n}},
           Bare(r.obj) => n \notin stored' \/ r.alias = NoBucket
    PROVE  AliasKnown'
<1> SUFFICES ASSUME NEW h \in stored', Bare(iface'[h])
             PROVE  aliash'[h] = NoBucket
    BY DEF AliasKnown, Bare
<1>1. h \in Index
    BY DEF StoreInv, TypeOK
<1>2. CASE h = n
    BY <1>2, BecomesType DEF StoreInv
<1>3. CASE h # n
    <2>1. h \in stored /\ iface'[h] = iface[h] /\ aliash'[h] = aliash[h]
        BY <1>1, <1>3, BecomesType DEF StoreInv
    <2> QED BY <2>1 DEF AliasKnown, Bare
<1> QED BY <1>2, <1>3

(* A rehash of the attributes that changed links no object that is bare.   *)
LEMMA RehashedKnown ==
    ASSUME StoreInv, NEW n \in Index, NEW i \in IfaceRecord,
           NEW F \in SUBSET Id,
           "alias" \notin F /\ i.conf["alias"] = NoAlias => aliash[n] = NoBucket,
           Bare(Rehashed(n, i, F).obj)
    PROVE  Rehashed(n, i, F).alias = NoBucket
<1> DEFINE r == Rehashed(n, i, F)
           may == "name" \in F => MayName(n, i.conf["name"])
           fit == "alias" \in F => MayAlias(n, i.conf["alias"])
<1>1. /\ r.obj = IF may /\ fit THEN Applied(i) ELSE Invalidated(i)
      /\ r.alias = IF "alias" \notin F \/ ~ may THEN aliash[n]
                   ELSE IF fit THEN AliasBucket(i.conf["alias"]) ELSE NoBucket
    BY DEF Rehashed
<1> HIDE DEF r
<1>2. may /\ fit
    BY <1>1 DEF r, Bare, Usable, Invalidated, IfaceRecord
<1>3. i.conf["alias"] = NoAlias
    BY <1>1, <1>2 DEF r, Bare, Applied, IfaceRecord
<1> QED BY <1>1, <1>2, <1>3 DEF r, AliasBucket

(* Nor does a reload.                                                      *)
LEMMA ReloadsKnown ==
    ASSUME StoreInv, NEW n \in Index, NEW r \in ReloadsOf(n), Bare(r.obj)
    PROVE  r.alias = NoBucket
<1>1. kern[n] \in Link /\ iface[n] \in IfaceRecord
    BY DEF StoreInv, TypeOK
<1>2. ~ Bare(As(n, Invalidated(iface[n])).obj)
    BY <1>1 DEF As, Bare, Usable, Invalidated, IfaceRecord
<1>3. Fill(kern[n]) \in IfaceRecord
    BY <1>1, FillType
<1>4. r = Rehashed(n, Fill(kern[n]), Field)
    BY <1>2 DEF ReloadsOf
<1> QED BY <1>3, <1>4, RehashedKnown DEF Id

(* Nor does a synchronisation of a registered object.                      *)
LEMMA SyncsKnown ==
    ASSUME StoreInv, AliasKnown, NEW n \in stored, NEW r \in SyncsOf(n),
           Bare(r.obj)
    PROVE  r.alias = NoBucket
<1>1. n \in Index
    BY DEF StoreInv, TypeOK
<1>2. CASE iface[n].state = "invalid"
    BY <1>1, <1>2, ReloadsKnown DEF SyncsOf
<1>3. CASE iface[n].state # "invalid"
    BY <1>3 DEF SyncsOf, As, AliasKnown, Bare
<1> QED BY <1>2, <1>3

(* Setting an attribute makes no object bare: an alias that is removed is  *)
(* dirty.                                                                  *)
LEMMA WithFieldKnown ==
    ASSUME NEW i \in IfaceRecord, Usable(i), NEW f \in Field, NEW v \in Value[f],
           Bare(WithField(i, f, v))
    PROVE  Bare(i)
<1>1. CASE v = i.conf[f] \/ Refuses(i, f, v)
    BY <1>1 DEF WithField
<1>2. CASE ~ (v = i.conf[f] \/ Refuses(i, f, v))
    <2> DEFINE w == WithField(i, f, v)
    <2>1. w.dirty = i.dirty \cup {f} /\ w.conf = [i.conf EXCEPT ![f] = v]
        BY <1>2 DEF WithField, IfaceRecord
    <2>2. "alias" \notin i.dirty /\ f # "alias" /\ w.conf["alias"] = NoAlias
        BY <2>1 DEF Bare
    <2>3. i.conf = [h \in Field |-> i.conf[h]]
        BY ConfElim DEF IfaceRecord
    <2>4. i.conf["alias"] = NoAlias
        BY <2>1, <2>2, <2>3
    <2> QED BY <2>2, <2>4 DEF Bare
<1> QED BY <1>1, <1>2

(* Setting keeps bare objects out of the table.                            *)
LEMMA SetKnown ==
    ASSUME StoreInv, AliasKnown, NEW n \in Index, NEW f \in Field,
           NEW v \in Value[f], Set(n, f, v)
    PROVE  AliasKnown'
<1>1. PICK r \in SyncsOf(n) :
         Becomes(n, [r EXCEPT !.obj = IF Usable(@) THEN WithField(@, f, v) ELSE @])
    BY DEF Set
<1> DEFINE i == IF Usable(r.obj) THEN WithField(r.obj, f, v) ELSE r.obj
           q == [r EXCEPT !.obj = i]
<1>2. r \in Outcome
    BY SyncsFit DEF Set
<1>3. r.obj \in IfaceRecord
    BY <1>2 DEF Outcome
<1>4. i \in IfaceRecord
    BY <1>3, WithFieldType
<1>5. Bare(i) => Bare(r.obj)
    BY <1>3, WithFieldKnown
<1>6. Becomes(n, q)
    BY <1>1
<1> HIDE DEF i
<1>7. q \in Outcome /\ q.obj = i /\ q.alias = r.alias
    BY <1>2, <1>4 DEF Outcome
<1> HIDE DEF q
<1>8. stored' = stored
    BY DEF Set
<1>9. Bare(q.obj) => n \notin stored' \/ q.alias = NoBucket
    BY <1>5, <1>7, <1>8, SyncsKnown
<1> QED BY <1>6, <1>7, <1>8, <1>9, BecomesKnown

(* Applying: an alias that was dirty is registered as it is now.           *)
LEMMA ApplyKnown ==
    ASSUME StoreInv, AliasKnown, NEW n \in Index, Apply(n)
    PROVE  AliasKnown'
<1> DEFINE r == Rehashed(n, iface[n], iface[n].dirty)
<1>1. /\ iface[n] \in IfaceRecord /\ n \in stored /\ stored' = stored
      /\ iface[n].state = "dirty" /\ iface[n].dirty \in SUBSET Id
    BY DEF Apply, Held, StoreInv, TypeOK, IfaceRecord, Id
<1>2. \A f \in Id \ iface[n].dirty : iface[n].conf[f] # NoAlias => Settled(n, f)
    BY <1>1 DEF Settled, Usable
<1>3. r \in Outcome
    BY <1>1, <1>2, RehashedFits
<1>4. "alias" \notin iface[n].dirty /\ iface[n].conf["alias"] = NoAlias
          => aliash[n] = NoBucket
    BY <1>1 DEF AliasKnown, Usable
<1>5. Bare(r.obj) => r.alias = NoBucket
    BY <1>1, <1>4, RehashedKnown
<1>6. Becomes(n, r)
    BY DEF Apply
<1> HIDE DEF r
<1> QED BY <1>1, <1>3, <1>5, <1>6, BecomesKnown

(* Reloading: an object whose link lost its alias leaves the table.        *)
LEMMA ReloadKnown ==
    ASSUME StoreInv, AliasKnown, NEW n \in Index, Reload(n)
    PROVE  AliasKnown'
<1>1. PICK r \in ReloadsOf(n) : Becomes(n, r)
    BY DEF Reload
<1>2. r \in Outcome /\ stored' = stored
    BY ReloadsFit DEF Reload
<1> QED BY <1>1, <1>2, ReloadsKnown, BecomesKnown

(* An apply that fails leaves nothing that is shown.                      *)
LEMMA ApplyFailsKnown ==
    ASSUME StoreInv, AliasKnown, NEW n \in Index, NEW D \in SUBSET Field,
           ApplyFails(n, D)
    PROVE  AliasKnown'
<1> DEFINE r == As(n, Invalidated(iface[n]))
<1>1. r \in Outcome
    BY InvalidFits
<1>2. iface[n] \in IfaceRecord
    BY DEF StoreInv, TypeOK
<1>3. ~ Bare(r.obj)
    BY <1>2 DEF As, Bare, Usable, Invalidated, IfaceRecord
<1>4. Becomes(n, r) /\ stored' = stored
    BY DEF ApplyFails
<1> HIDE DEF r
<1> QED BY <1>1, <1>3, <1>4, BecomesKnown

(* An object that is registered goes into the table if it has an alias.    *)
LEMMA EnrolledKnown ==
    ASSUME StoreInv, AliasKnown, NEW n \in Index, NEW i \in IfaceRecord,
           Enrolled(n, i)
    PROVE  AliasKnown'
<1> DEFINE r == [obj |-> i, name |-> Hash[i.conf["name"]],
                 alias |-> AliasBucket(i.conf["alias"])]
<1>1. r \in Outcome
    BY ConfStrings DEF Outcome
<1>2. Becomes(n, r) /\ stored' = stored \cup {n}
    BY DEF Enrolled
<1>3. Bare(r.obj) => r.alias = NoBucket
    BY DEF Bare, AliasBucket
<1> HIDE DEF r
<1> QED BY <1>1, <1>2, <1>3, BecomesKnown

(* No step puts a bare object into the table of aliases.                   *)
LEMMA StepKnown == StoreInv /\ AliasKnown /\ [Next]_vars => AliasKnown'
<1> SUFFICES ASSUME StoreInv, AliasKnown, [Next]_vars PROVE AliasKnown'
    OBVIOUS
<1>0. ASSUME NEW n \in Index
      PROVE  /\ iface[n] \in IfaceRecord
             /\ Fill(kern[n]) \in IfaceRecord /\ Fill(kern[n]).conf = kern[n].conf
    BY FillType DEF StoreInv, TypeOK, Fill
<1>1. CASE \/ UNCHANGED vars \/ Load
           \/ \E n \in Index : Unplug(n) \/ Unknown(n)
    BY <1>1 DEF vars, Load, Unplug, Unknown, AliasKnown
<1>2. CASE Clear
    BY <1>2 DEF Clear, AliasKnown
<1>3. ASSUME NEW n \in Index, LoadLink(n)
      PROVE  AliasKnown'
    <2>1. CASE UNCHANGED <<iface, stored, nameh, aliash>>
        BY <2>1 DEF AliasKnown
    <2>2. CASE Enrolled(n, Fill(kern[n]))
        BY <1>0, <2>2, EnrolledKnown
    <2> QED BY <1>3, <2>1, <2>2 DEF LoadLink
<1>4. ASSUME NEW n \in Index, Create(n) \/ Destroy(n)
      PROVE  AliasKnown'
    <2>1. /\ n \notin stored /\ stored' = stored /\ aliash' = aliash
          /\ \A h \in Index \ {n} : iface'[h] = iface[h]
        BY <1>4 DEF Create, Destroy, StoreInv, TypeOK
    <2> QED BY <2>1 DEF AliasKnown, StoreInv, TypeOK
<1>5. ASSUME NEW n \in Index, Enroll(n)
      PROVE  AliasKnown'
    BY <1>0, <1>5, EnrolledKnown DEF Enroll
<1>6. ASSUME NEW n \in Index, Withdraw(n)
      PROVE  AliasKnown'
    <2>1. /\ stored' = stored \ {n} /\ iface' = iface
          /\ \A h \in Index \ {n} : aliash'[h] = aliash[h]
        BY <1>6 DEF Withdraw, StoreInv, TypeOK
    <2> QED BY <2>1 DEF AliasKnown, StoreInv, TypeOK
<1>7. CASE \E n \in Index : \/ Reload(n) \/ Apply(n)
                            \/ \E f \in Field : \E v \in Value[f] : Set(n, f, v)
                            \/ \E D \in SUBSET Field : ApplyFails(n, D)
    BY <1>7, ReloadKnown, ApplyKnown, SetKnown, ApplyFailsKnown
<1> QED BY <1>1, <1>2, <1>3, <1>4, <1>5, <1>6, <1>7 DEF Next

(* A handle in the table of aliases is that of an object with an alias, if *)
(* the object can be trusted and its alias is not being removed.           *)
THEOREM AliasSafety == Spec => []AliasKnown
<1>1. Init => AliasKnown
    BY DEF Init, AliasKnown
<1> QED BY <1>1, StepKnown, StoreInvariant, PTL DEF Spec

(***************************************************************************)
(* Lookups.                                                                *)
(***************************************************************************)
Found(s, f) == IF f = "name" THEN FoundByName(s) ELSE FoundByAlias(s)

(* What a walk of the chain of s matches either owns s, alone, or shows it *)
(* while it is in doubt.                                                   *)
LEMMA MatchOwns ==
    ASSUME StoreInv, NEW s \in DOMAIN Hash, NEW f \in Id, NEW a \in Found(s, f)
    PROVE  Owners(s, f) = {a} \/ a \in Doubtful(s, f)
<1>1. a \in Chain(s, f) /\ a \in Index /\ iface[a].conf[f] = s /\ s # NoAlias
    BY IfaceAssumption DEF Found, FoundByName, FoundByAlias, Chain, Id, StoreInv, TypeOK
<1>2. SUFFICES ASSUME a \notin Doubtful(s, f)
               PROVE  Owners(s, f) = {a}
    OBVIOUS
<1>3. Settled(a, f)
    BY <1>1, <1>2 DEF Doubtful, Chain, Settled
<1>4. \A h \in Owners(s, f) : h = a
    BY <1>1, <1>3 DEF Owners, StoreInv, SoleOwner, Id
<1> QED BY <1>1, <1>3, <1>4 DEF Owners

(* What owns s is in the chain of s.                                       *)
LEMMA OwnerMatches ==
    ASSUME StoreInv, NEW s \in DOMAIN Hash, NEW f \in Id
    PROVE  Owners(s, f) \subseteq Found(s, f)
<1> SUFFICES ASSUME NEW h \in Owners(s, f) PROVE h \in Found(s, f)
    OBVIOUS
<1>1. h \in stored /\ iface[h].conf[f] = s /\ BucketOf(h, f) = Hash[s]
    BY DEF Owners, Settled, StoreInv, Linked
<1> QED BY <1>1 DEF Found, FoundByName, FoundByAlias, BucketOf, Id

(* A handle of the chain that has no alias is in doubt.                    *)
LEMMA UnaliasedDoubtful ==
    ASSUME StoreInv, AliasKnown, NEW s \in DOMAIN Hash
    PROVE  Unaliased(s) \subseteq Doubtful(s, "alias")
<1>1. Hash[s] # NoBucket
    OBVIOUS
<1> QED BY <1>1 DEF Unaliased, Doubtful, Chain, AliasKnown

(* A lookup by name, and one by alias.                                     *)
LEMMA ExactByName ==
    ASSUME StoreInv, NEW s \in DOMAIN Hash
    PROVE  Exact(AnswersByName(s), Owners(s, "name"), Doubtful(s, "name"))
<1>1. /\ Found(s, "name") = FoundByName(s)
      /\ Owners(s, "name") \subseteq FoundByName(s)
    BY OwnerMatches DEF Found, Id
<1>2. \A a \in FoundByName(s) : Owners(s, "name") = {a} \/ a \in Doubtful(s, "name")
    BY <1>1, MatchOwns DEF Id
<1> QED BY <1>1, <1>2 DEF Exact, AnswersByName

LEMMA ExactByAlias ==
    ASSUME StoreInv, AliasKnown, NEW s \in DOMAIN Hash
    PROVE  Exact(AnswersByAlias(s), Owners(s, "alias"), Doubtful(s, "alias"))
<1>1. /\ Found(s, "alias") = FoundByAlias(s)
      /\ Owners(s, "alias") \subseteq FoundByAlias(s)
    BY OwnerMatches DEF Found, Id
<1>2. \A a \in FoundByAlias(s) : Owners(s, "alias") = {a} \/ a \in Doubtful(s, "alias")
    BY <1>1, MatchOwns DEF Id
<1>3. Unaliased(s) \subseteq Doubtful(s, "alias")
    BY UnaliasedDoubtful
<1> QED BY <1>1, <1>2, <1>3 DEF Exact, AnswersByAlias

(* Whatever the order of its chains, a lookup answers the one interface    *)
(* that owns the string, unless one in the chain is being changed or       *)
(* cannot be trusted.                                                      *)
THEOREM LookupAnswers == Spec => []LookupExact
<1>1. StoreInv /\ AliasKnown => LookupExact
    <2> SUFFICES ASSUME StoreInv, AliasKnown, NEW s \in DOMAIN Hash
                 PROVE  Exact(AnswersByStrid(s),
                              IF Owners(s, "name") # {} THEN Owners(s, "name")
                              ELSE Owners(s, "alias"),
                              Doubtful(s, "name") \cup Doubtful(s, "alias"))
        BY ExactByName, ExactByAlias DEF LookupExact
    <2>1. Owners(s, "name") \subseteq FoundByName(s)
        BY OwnerMatches DEF Found, Id
    <2>2. CASE FoundByName(s) # {}
        <3>1. AnswersByStrid(s) = FoundByName(s)
            BY <2>2 DEF AnswersByStrid, AnswersByName
        <3>2. \A a \in FoundByName(s) :
                 Owners(s, "name") = {a} \/ a \in Doubtful(s, "name")
            BY MatchOwns DEF Found, Id
        <3> QED BY <3>1, <3>2 DEF Exact
    <2>3. CASE FoundByName(s) = {}
        <3>1. AnswersByStrid(s) = AnswersByAlias(s) /\ Owners(s, "name") = {}
            BY <2>1, <2>3 DEF AnswersByStrid
        <3> QED BY <3>1, ExactByAlias DEF Exact
    <2> QED BY <2>2, <2>3
<1> QED BY <1>1, StoreInvariant, AliasSafety, PTL
=============================================================================

--------------------------- MODULE StringsProofs ---------------------------
(* Ownership of the strings for every set of objects and of blocks: none   *)
(* is lost, and while every reload could read its link each has one owner. *)
EXTENDS Strings, TLAPS

USE StringsAssumption

LinkRecord == [alias : BOOLEAN, kind : BOOLEAN]

HeapRecord == [live : SUBSET Block, corrupt : BOOLEAN]

Outcome == [obj : ObjectRecord, heap : HeapRecord]

(* The blocks that object n has no pointer to.                             *)
Others(n) == live \ Pointers(obj[n])

(* An outcome whose object reaches what it did not leave to others, and    *)
(* has a string only when it is loaded.                                    *)
Reaches(n, r) ==
    /\ r.heap.live \subseteq Others(n) \cup Pointers(r.obj)
    /\ r.obj.state = "none" => Pointers(r.obj) = {}

(* An outcome whose object owns its strings, and them only.                *)
Owns(n, r) ==
    /\ ~ r.heap.corrupt
    /\ r.heap.live = Others(n) \cup Pointers(r.obj)
    /\ Others(n) \cap Pointers(r.obj) = {}
    /\ r.obj.alias = r.obj.kind => r.obj.alias = Null

StringsInv == TypeOK /\ NothingLost /\ OwnedOnce

(***************************************************************************)
(* One object at a time.                                                   *)
(***************************************************************************)
(* A step over one object keeps the types and the others.                  *)
LEMMA BecomesType ==
    ASSUME TypeOK, NEW n \in Object, NEW r \in Outcome, Becomes(n, r)
    PROVE  /\ obj' \in [Object -> ObjectRecord]
           /\ live' \subseteq Block /\ corrupt' \in BOOLEAN
           /\ live' = r.heap.live /\ corrupt' = r.heap.corrupt
           /\ obj'[n] = r.obj
           /\ \A m \in Object : m # n => obj'[m] = obj[m]
    BY DEF TypeOK, Becomes, Outcome, HeapRecord

(* Where the object reaches what it should, no block is lost.              *)
LEMMA BecomesLost ==
    ASSUME TypeOK, NothingLost, NEW n \in Object, NEW r \in Outcome,
           Becomes(n, r), Reaches(n, r)
    PROVE  /\ NothingLost'
           /\ \A m \in Object : obj'[m].state = "none" => Pointers(obj'[m]) = {}
<1>1. \A m \in Object : obj'[m].state = "none" => Pointers(obj'[m]) = {}
    BY BecomesType DEF Reaches, TypeOK
<1>2. ASSUME NEW b \in live'
      PROVE  \E m \in Object : b \in Pointers(obj'[m])
    <2>1. CASE b \in Pointers(r.obj)
        BY <2>1, BecomesType
    <2>2. CASE b \notin Pointers(r.obj)
        <3>1. b \in live /\ b \notin Pointers(obj[n])
            BY <1>2, <2>2, BecomesType DEF Reaches, Others
        <3>2. PICK m \in Object : b \in Pointers(obj[m])
            BY <3>1 DEF NothingLost
        <3> QED BY <3>1, <3>2, BecomesType
    <2> QED BY <2>1, <2>2
<1>3. NothingLost'
    BY <1>2 DEF NothingLost
<1> QED BY <1>1, <1>3

(* Where the object owns its strings alone, all of them have one owner.    *)
LEMMA BecomesOwned ==
    ASSUME TypeOK, OwnedOnce, ~ torn, NEW n \in Object, NEW r \in Outcome,
           Becomes(n, r), Owns(n, r)
    PROVE  OwnedOnce'
<1>1. ~ corrupt'
    BY BecomesType DEF Owns
<1>2. ASSUME NEW m \in Object, m # n
      PROVE  Pointers(obj[m]) \subseteq Others(n)
    BY <1>2 DEF OwnedOnce, Others
<1>3. ASSUME NEW m \in Object
      PROVE  /\ Pointers(obj'[m]) \subseteq live'
             /\ obj'[m].alias = obj'[m].kind => obj'[m].alias = Null
    <2>1. CASE m = n
        BY <2>1, BecomesType DEF Owns
    <2>2. CASE m # n
        BY <1>2, <2>2, BecomesType DEF Owns, OwnedOnce
    <2> QED BY <2>1, <2>2
<1>4. ASSUME NEW l \in Object, NEW m \in Object, l # m
      PROVE  Pointers(obj'[l]) \cap Pointers(obj'[m]) = {}
    <2>1. CASE l = n
        BY <1>2, <1>4, <2>1, BecomesType DEF Owns
    <2>2. CASE m = n
        BY <1>2, <1>4, <2>2, BecomesType DEF Owns
    <2>3. CASE l # n /\ m # n
        BY <1>4, <2>3, BecomesType DEF OwnedOnce
    <2> QED BY <2>1, <2>2, <2>3
<1> QED BY <1>1, <1>3, <1>4 DEF OwnedOnce

(***************************************************************************)
(* What becomes of an object and of the heap.                              *)
(***************************************************************************)
(* An object that is not torn owns what it has.                            *)
LEMMA OwnsItself ==
    ASSUME TypeOK, NEW n \in Object
    PROVE  LET r == [obj |-> obj[n], heap |-> Heap]
           IN  r \in Outcome /\ Reaches(n, r)
               /\ (OwnedOnce /\ ~ torn => Owns(n, r))
<1>1. obj[n] \in ObjectRecord /\ Heap \in HeapRecord
      /\ Heap.live = live /\ Heap.corrupt = corrupt
    BY DEF TypeOK, Heap, HeapRecord
<1>2. live \subseteq Others(n) \cup Pointers(obj[n])
      /\ Others(n) \cap Pointers(obj[n]) = {}
    BY DEF Others
<1>3. OwnedOnce /\ ~ torn =>
          /\ ~ corrupt /\ Pointers(obj[n]) \subseteq live
          /\ obj[n].alias = obj[n].kind => obj[n].alias = Null
    BY DEF OwnedOnce
<1> QED BY <1>1, <1>2, <1>3 DEF Outcome, Reaches, Owns, Others, TypeOK

(* Finalising an object leaves what others have; it frees each string once *)
(* when the object owned them.                                             *)
LEMMA FiniHeap ==
    ASSUME TypeOK, NEW n \in Object
    PROVE  /\ Fini(obj[n], Heap) \in HeapRecord
           /\ Fini(obj[n], Heap).live = Others(n)
           /\ OwnedOnce /\ ~ torn => ~ Fini(obj[n], Heap).corrupt
<1> DEFINE g == Free(Pointers(obj[n]), Heap)
           again == obj[n].alias # Null /\ obj[n].alias = obj[n].kind
<1>1. /\ g \in HeapRecord /\ g.live = Others(n)
      /\ g.corrupt = (corrupt \/ ~ Pointers(obj[n]) \subseteq live)
    BY DEF TypeOK, Heap, HeapRecord, Free, Others
<1>2. Fini(obj[n], Heap) = [g EXCEPT !.corrupt = @ \/ again]
    BY DEF Fini
<1> HIDE DEF g
<1>3. again \in BOOLEAN
    OBVIOUS
<1> HIDE DEF again
<1>4. /\ Fini(obj[n], Heap) \in HeapRecord
      /\ Fini(obj[n], Heap).live = g.live
      /\ Fini(obj[n], Heap).corrupt = (g.corrupt \/ again)
    BY <1>1, <1>2, <1>3 DEF HeapRecord
<1>5. OwnedOnce /\ ~ torn =>
          ~ corrupt /\ Pointers(obj[n]) \subseteq live /\ ~ again
    BY DEF OwnedOnce, again
<1> QED BY <1>1, <1>4, <1>5

(* Filling allocates blocks that nobody has.                               *)
LEMMA FillsFresh ==
    ASSUME NEW l \in LinkRecord, NEW s \in {"loaded", "invalid"},
           NEW h \in HeapRecord, NEW r \in Fills(l, s, h)
    PROVE  /\ r \in Outcome /\ r.obj.state = s
           /\ r.heap.live = h.live \cup Pointers(r.obj)
           /\ h.live \cap Pointers(r.obj) = {}
           /\ r.heap.corrupt = h.corrupt
           /\ r.obj.alias = r.obj.kind => r.obj.alias = Null
<1>1. PICK p \in (Pointer \ h.live) \X (Pointer \ h.live) :
         /\ r = [obj |-> [state |-> s, alias |-> p[1], kind |-> p[2]],
                 heap |-> [h EXCEPT !.live = @ \cup ({p[1], p[2]} \ {Null})]]
         /\ p[1] = p[2] => p[1] = Null
    BY DEF Fills
<1>2. p[1] \in Pointer \ h.live /\ p[2] \in Pointer \ h.live
    BY <1>1
<1>3. r.obj \in ObjectRecord /\ Pointers(r.obj) = {p[1], p[2]} \ {Null}
    BY <1>1, <1>2 DEF ObjectRecord, Pointers
<1>4. /\ r.heap \in HeapRecord /\ r.heap.corrupt = h.corrupt
      /\ r.heap.live = h.live \cup Pointers(r.obj)
    BY <1>1, <1>2, <1>3 DEF HeapRecord, Pointer
<1> QED BY <1>1, <1>2, <1>3, <1>4 DEF Outcome

(* A reload that reads its link replaces the strings of the object.        *)
LEMMA ReadsOwn ==
    ASSUME TypeOK, NEW n \in Object, NEW r \in Reads(n)
    PROVE  /\ r \in Outcome /\ Reaches(n, r) /\ r.obj.state # "none"
           /\ OwnedOnce /\ ~ torn => Owns(n, r)
<1>1. PICK s \in {"loaded", "invalid"} : r \in Fills(link[n], s, Fini(obj[n], Heap))
    BY DEF Reads
<1>2. link[n] \in LinkRecord
    BY DEF TypeOK, LinkRecord
<1>3. /\ r \in Outcome /\ r.obj.state = s
      /\ r.heap.live = Others(n) \cup Pointers(r.obj)
      /\ Others(n) \cap Pointers(r.obj) = {}
      /\ r.heap.corrupt = Fini(obj[n], Heap).corrupt
      /\ r.obj.alias = r.obj.kind => r.obj.alias = Null
    BY <1>1, <1>2, FiniHeap, FillsFresh
<1> QED BY <1>3, FiniHeap DEF Reaches, Owns

(* So does a synchronisation.                                              *)
LEMMA SyncsOwn ==
    ASSUME TypeOK, NEW n \in Object, NEW r \in Syncs(n), obj[n].state # "none"
    PROVE  /\ r \in Outcome /\ Reaches(n, r) /\ r.obj.state # "none"
           /\ OwnedOnce /\ ~ torn => Owns(n, r)
    BY ReadsOwn, OwnsItself DEF Syncs

(* An alias that is replaced is freed, and no other string.                *)
LEMMA ReplaceOwn ==
    ASSUME TypeOK, NEW n \in Object, NEW r \in Outcome, Reaches(n, r),
           r.obj.state # "none", NEW p \in Pointer,
           NEW q \in Outcome,
           p # Null => p \notin r.heap.live \ {r.obj.alias},
           q = [obj |-> [r.obj EXCEPT !.alias = p],
                heap |-> [Free({r.obj.alias} \ {Null}, r.heap)
                             EXCEPT !.live = @ \cup ({p} \ {Null})]]
    PROVE  Reaches(n, q) /\ (Owns(n, r) => Owns(n, q))
<1>1. r.obj \in ObjectRecord /\ r.heap \in HeapRecord
    BY DEF Outcome
<1>2. /\ q.obj.alias = p /\ q.obj.kind = r.obj.kind /\ q.obj.state # "none"
      /\ q.heap.live = (r.heap.live \ ({r.obj.alias} \ {Null})) \cup ({p} \ {Null})
      /\ q.heap.corrupt = (r.heap.corrupt \/ ~ {r.obj.alias} \ {Null} \subseteq r.heap.live)
    BY <1>1 DEF ObjectRecord, HeapRecord, Free
<1>3. /\ Pointers(r.obj) = {r.obj.alias, r.obj.kind} \ {Null}
      /\ Pointers(q.obj) = {p, r.obj.kind} \ {Null}
    BY <1>2 DEF Pointers
<1>4. Reaches(n, q)
    BY <1>2, <1>3 DEF Reaches
<1>5. ASSUME Owns(n, r)
      PROVE  Owns(n, q)
    <2>1. /\ ~ r.heap.corrupt /\ r.heap.live = Others(n) \cup Pointers(r.obj)
          /\ Others(n) \cap Pointers(r.obj) = {}
          /\ r.obj.alias = r.obj.kind => r.obj.alias = Null
        BY <1>5 DEF Owns
    <2>2. Null \notin r.heap.live
        BY <1>1 DEF HeapRecord
    <2>3. ~ q.heap.corrupt
        BY <1>2, <1>3, <2>1
    <2>4. q.heap.live = Others(n) \cup Pointers(q.obj)
        BY <1>2, <1>3, <2>1
    <2>5. Others(n) \cap Pointers(q.obj) = {}
        BY <1>2, <1>3, <2>1
    <2>6. q.obj.alias = q.obj.kind => q.obj.alias = Null
        BY <1>2, <1>3, <2>1
    <2> QED BY <2>3, <2>4, <2>5, <2>6 DEF Owns
<1> QED BY <1>4, <1>5

(***************************************************************************)
(* The actions.                                                            *)
(***************************************************************************)
(* A step over one object that ends as it should keeps the invariant.      *)
LEMMA BecomesInv ==
    ASSUME StringsInv, NEW n \in Object, NEW r \in Outcome, Becomes(n, r),
           Reaches(n, r), OwnedOnce /\ ~ torn => Owns(n, r),
           link' = link, torn' = torn
    PROVE  StringsInv'
<1>1. TypeOK'
    BY BecomesType, BecomesLost DEF StringsInv, TypeOK
<1>2. NothingLost'
    BY BecomesLost DEF StringsInv
<1>3. OwnedOnce'
    <2>1. CASE torn
        BY <2>1 DEF OwnedOnce
    <2>2. CASE ~ torn
        BY <2>2, BecomesOwned DEF StringsInv
    <2> QED BY <2>1, <2>2
<1> QED BY <1>1, <1>2, <1>3 DEF StringsInv

(* Creating an object allocates its strings.                               *)
LEMMA CreateStep ==
    ASSUME StringsInv, NEW n \in Object, Create(n)
    PROVE  StringsInv'
<1>1. PICK r \in Fills(link[n], "loaded", Heap) : Becomes(n, r)
    BY DEF Create
<1>2. /\ link[n] \in LinkRecord /\ Heap \in HeapRecord
      /\ Heap.live = live /\ Heap.corrupt = corrupt
      /\ Others(n) = live
    BY DEF StringsInv, TypeOK, LinkRecord, Heap, HeapRecord, Create, Others
<1>3. /\ r \in Outcome /\ r.obj.state = "loaded"
      /\ r.heap.live = live \cup Pointers(r.obj)
      /\ live \cap Pointers(r.obj) = {} /\ r.heap.corrupt = corrupt
      /\ r.obj.alias = r.obj.kind => r.obj.alias = Null
    BY <1>1, <1>2, FillsFresh
<1>4. Reaches(n, r)
    BY <1>2, <1>3 DEF Reaches
<1>5. OwnedOnce /\ ~ torn => Owns(n, r)
    BY <1>2, <1>3 DEF OwnedOnce, Owns
<1> QED BY <1>1, <1>3, <1>4, <1>5, BecomesInv DEF Create

(* Destroying it frees them.                                               *)
LEMMA DestroyStep ==
    ASSUME StringsInv, NEW n \in Object, Destroy(n)
    PROVE  StringsInv'
<1> DEFINE r == [obj |-> Unloaded, heap |-> Fini(obj[n], Heap)]
<1>1. Unloaded \in ObjectRecord /\ Pointers(Unloaded) = {}
      /\ Unloaded.alias = Null
    BY DEF Unloaded, ObjectRecord, Pointer, Pointers
<1>2. r \in Outcome
    BY <1>1, FiniHeap DEF Outcome, StringsInv
<1>3. Reaches(n, r) /\ (OwnedOnce /\ ~ torn => Owns(n, r))
    BY <1>1, FiniHeap DEF Reaches, Owns, StringsInv
<1>4. Becomes(n, r)
    BY DEF Destroy
<1> HIDE DEF r
<1> QED BY <1>2, <1>3, <1>4, BecomesInv DEF Destroy

(* Reloading and synchronising replace them.                               *)
LEMMA ReloadStep ==
    ASSUME StringsInv, NEW n \in Object, Reload(n) \/ Get(n)
    PROVE  StringsInv'
<1>1. PICK r \in Reads(n) : Becomes(n, r)
    BY DEF Reload, Get, Syncs
<1>2. r \in Outcome /\ Reaches(n, r) /\ (OwnedOnce /\ ~ torn => Owns(n, r))
    BY ReadsOwn DEF StringsInv
<1> QED BY <1>1, <1>2, BecomesInv DEF Reload, Get

(* A reload that cannot read its link frees them too: the object then      *)
(* points to blocks of others, or of nobody.                               *)
LEMMA ReloadFailsStep ==
    ASSUME StringsInv, NEW n \in Object, ReloadFails(n)
    PROVE  StringsInv'
<1> DEFINE r == Unread(obj[n], Fini(obj[n], Heap))
<1>1. obj[n] \in ObjectRecord /\ Fini(obj[n], Heap) \in HeapRecord
      /\ Fini(obj[n], Heap).live = Others(n)
    BY FiniHeap DEF StringsInv, TypeOK
<1>2. r.heap = Fini(obj[n], Heap) /\ r.obj = [obj[n] EXCEPT !.state = "invalid"]
      /\ r = [obj |-> r.obj, heap |-> r.heap]
    BY DEF Unread
<1>3. Becomes(n, r)
    BY DEF ReloadFails
<1> HIDE DEF r
<1>4. r.obj \in ObjectRecord /\ r.obj.state = "invalid"
    BY <1>1, <1>2 DEF ObjectRecord
<1>5. r \in Outcome
    BY <1>1, <1>2, <1>4 DEF Outcome
<1>6. Reaches(n, r)
    BY <1>1, <1>2, <1>4 DEF Reaches
<1>7. NothingLost' /\ \A m \in Object : obj'[m].state = "none" => Pointers(obj'[m]) = {}
    BY <1>3, <1>5, <1>6, BecomesLost DEF StringsInv
<1>8. TypeOK'
    BY <1>3, <1>5, <1>7, BecomesType DEF ReloadFails, StringsInv, TypeOK
<1>9. OwnedOnce'
    BY DEF ReloadFails, OwnedOnce
<1> QED BY <1>7, <1>8, <1>9 DEF StringsInv

(* The alias is removed.                                                   *)
LEMMA RemoveStep ==
    ASSUME StringsInv, NEW n \in Object, RemoveAlias(n)
    PROVE  StringsInv'
<1>1. PICK r \in Syncs(n) :
          Becomes(n, IF r.obj.state # "loaded" THEN r
                     ELSE [r EXCEPT !.obj.alias = Null,
                                    !.heap = Free({r.obj.alias} \ {Null}, @)])
    BY DEF RemoveAlias
<1>2. /\ r \in Outcome /\ Reaches(n, r) /\ r.obj.state # "none"
      /\ OwnedOnce /\ ~ torn => Owns(n, r)
    BY SyncsOwn DEF RemoveAlias, StringsInv
<1>3. CASE r.obj.state # "loaded"
    BY <1>1, <1>2, <1>3, BecomesInv DEF RemoveAlias
<1>4. CASE r.obj.state = "loaded"
    <2> DEFINE o == [r.obj EXCEPT !.alias = Null]
               g == Free({r.obj.alias} \ {Null}, r.heap)
               q == [obj |-> o, heap |-> g]
               z == [r EXCEPT !.obj.alias = Null,
                              !.heap = Free({r.obj.alias} \ {Null}, @)]
    <2>1. r.obj \in ObjectRecord /\ r.heap \in HeapRecord
        BY <1>2 DEF Outcome
    <2>2. Becomes(n, q)
        <3>1. Becomes(n, z)
            BY <1>1, <1>4
        <3>2. z.obj = o /\ z.heap = g
            BY <1>2 DEF Outcome
        <3> HIDE DEF z, o, g
        <3> QED BY <3>1, <3>2 DEF Becomes
    <2>3. o \in ObjectRecord
        BY <2>1 DEF ObjectRecord, Pointer
    <2>4. g \in HeapRecord /\ g = [g EXCEPT !.live = @ \cup ({Null} \ {Null})]
        BY <2>1 DEF HeapRecord, Free
    <2>5. q \in Outcome
        BY <2>3, <2>4 DEF Outcome
    <2>6. q = [obj |-> [r.obj EXCEPT !.alias = Null],
               heap |-> [g EXCEPT !.live = @ \cup ({Null} \ {Null})]]
        BY <2>4
    <2>7. Reaches(n, q) /\ (Owns(n, r) => Owns(n, q))
        <3> HIDE DEF q
        <3>1. Null \in Pointer
            BY DEF Pointer
        <3>2. TypeOK
            BY DEF StringsInv
        <3> QED BY <1>2, <2>5, <2>6, <3>1, <3>2, ReplaceOwn, ZenonT(60)
    <2> HIDE DEF q
    <2> QED BY <1>2, <2>2, <2>5, <2>7, BecomesInv DEF RemoveAlias
<1> QED BY <1>3, <1>4

(* The new alias takes a block that was free, maybe that of the old one.   *)
LEMMA SetStep ==
    ASSUME StringsInv, NEW n \in Object, NEW b \in Pointer, SetAlias(n, b)
    PROVE  StringsInv'
<1>1. PICK r \in Syncs(n) :
          IF r.obj.state # "loaded"
             THEN b = Null /\ Becomes(n, r)
             ELSE LET h == Free({r.obj.alias} \ {Null}, r.heap)
                  IN  /\ b \in Block \ h.live
                      /\ Becomes(n, [obj |-> [r.obj EXCEPT !.alias = b],
                                     heap |-> [h EXCEPT !.live = @ \cup {b}]])
    BY DEF SetAlias
<1>2. /\ r \in Outcome /\ Reaches(n, r) /\ r.obj.state # "none"
      /\ OwnedOnce /\ ~ torn => Owns(n, r)
    BY SyncsOwn DEF SetAlias, StringsInv
<1>3. CASE r.obj.state # "loaded"
    BY <1>1, <1>2, <1>3, BecomesInv DEF SetAlias
<1>4. CASE r.obj.state = "loaded"
    <2> DEFINE o == [r.obj EXCEPT !.alias = b]
               h == Free({r.obj.alias} \ {Null}, r.heap)
               g == [h EXCEPT !.live = @ \cup {b}]
               q == [obj |-> o, heap |-> g]
    <2>1. r.obj \in ObjectRecord /\ r.heap \in HeapRecord
        BY <1>2 DEF Outcome
    <2>2. b \in Block \ h.live /\ Becomes(n, q)
        BY <1>1, <1>4
    <2>3. o \in ObjectRecord
        BY <2>1 DEF ObjectRecord
    <2>4. h \in HeapRecord /\ h.live = r.heap.live \ ({r.obj.alias} \ {Null})
        BY <2>1 DEF HeapRecord, Free
    <2>5. g \in HeapRecord /\ g = [h EXCEPT !.live = @ \cup ({b} \ {Null})]
        BY <2>2, <2>4 DEF HeapRecord
    <2>6. q \in Outcome
        BY <2>3, <2>5 DEF Outcome
    <2>7. b \notin r.heap.live \ {r.obj.alias}
        BY <2>2, <2>4
    <2>8. q = [obj |-> [r.obj EXCEPT !.alias = b],
               heap |-> [h EXCEPT !.live = @ \cup ({b} \ {Null})]]
        BY <2>5
    <2>9. Reaches(n, q) /\ (Owns(n, r) => Owns(n, q))
        <3> HIDE DEF q
        <3>1. TypeOK
            BY DEF StringsInv
        <3> QED BY <1>2, <2>6, <2>7, <2>8, <3>1, ReplaceOwn, ZenonT(60)
    <2> HIDE DEF q
    <2> QED BY <1>2, <2>2, <2>6, <2>9, BecomesInv DEF SetAlias
<1> QED BY <1>3, <1>4

(* Applying moves no string.                                               *)
LEMMA ApplyStep ==
    ASSUME StringsInv, NEW n \in Object, Apply(n)
    PROVE  StringsInv'
<1>1. link' \in [Object -> LinkRecord]
    <2> DEFINE has == obj[n].alias # Null
    <2>1. has \in BOOLEAN
        OBVIOUS
    <2>2. link' \in {link, [link EXCEPT ![n].alias = has]}
        BY DEF Apply
    <2> HIDE DEF has
    <2> QED BY <2>1, <2>2 DEF StringsInv, TypeOK, LinkRecord
<1>2. /\ obj' \in [Object -> ObjectRecord]
      /\ \A m \in Object : /\ obj'[m].alias = obj[m].alias
                           /\ obj'[m].kind = obj[m].kind
                           /\ obj'[m].state = "none" => obj[m].state = "none"
    BY DEF Apply, StringsInv, TypeOK, ObjectRecord
<1>3. \A m \in Object : Pointers(obj'[m]) = Pointers(obj[m])
    BY <1>2 DEF Pointers
<1>4. UNCHANGED <<live, corrupt, torn>>
    BY DEF Apply
<1>5. TypeOK'
    BY <1>1, <1>2, <1>3, <1>4 DEF StringsInv, TypeOK, LinkRecord
<1>6. NothingLost'
    BY <1>3, <1>4 DEF StringsInv, NothingLost
<1>7. OwnedOnce'
    BY <1>2, <1>3, <1>4 DEF StringsInv, OwnedOnce
<1> QED BY <1>5, <1>6, <1>7 DEF StringsInv

(* Before the first object there is no string.                             *)
LEMMA InitStrings == Init => StringsInv
<1> SUFFICES ASSUME Init PROVE StringsInv
    OBVIOUS
<1>1. Unloaded \in ObjectRecord /\ Pointers(Unloaded) = {}
      /\ Unloaded.alias = Null
    BY DEF Unloaded, ObjectRecord, Pointer, Pointers
<1>2. live = {} /\ ~ corrupt /\ \A n \in Object : obj[n] = Unloaded
    BY DEF Init
<1>3. TypeOK
    BY <1>1 DEF Init, TypeOK
<1> QED BY <1>1, <1>2, <1>3 DEF StringsInv, NothingLost, OwnedOnce

(* The invariant is inductive.                                             *)
LEMMA StepStrings == StringsInv /\ [Next]_vars => StringsInv'
<1> SUFFICES ASSUME StringsInv, [Next]_vars PROVE StringsInv'
    OBVIOUS
<1>1. CASE UNCHANGED vars
    BY <1>1 DEF vars, StringsInv, TypeOK, NothingLost, OwnedOnce
<1>2. CASE Next
    BY <1>2, CreateStep, DestroyStep, ReloadStep, ReloadFailsStep, RemoveStep,
       SetStep, ApplyStep DEF Next
<1> QED BY <1>1, <1>2

(* The inductive invariant: types, reachability and ownership together, as *)
(* an object that is created must have had no string.                      *)
THEOREM StringsInvariant == Spec => []StringsInv
    BY InitStrings, StepStrings, PTL DEF Spec

(* Every variable keeps its type, and unloaded objects have no string.     *)
THEOREM StringsTyped == Spec => []TypeOK
<1>1. StringsInv => TypeOK
    BY DEF StringsInv
<1> QED BY <1>1, StringsInvariant, PTL

(* No string is lost, whichever calls fail.                                *)
THEOREM NoLeak == Spec => []NothingLost
<1>1. StringsInv => NothingLost
    BY DEF StringsInv
<1> QED BY <1>1, StringsInvariant, PTL

(* While every reload read its link, each string has one owner and is      *)
(* freed once.                                                             *)
THEOREM SingleOwner == Spec => []OwnedOnce
<1>1. StringsInv => OwnedOnce
    BY DEF StringsInv
<1> QED BY <1>1, StringsInvariant, PTL
=============================================================================

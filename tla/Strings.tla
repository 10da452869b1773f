------------------------------ MODULE Strings ------------------------------
(***************************************************************************)
(* Who owns the strings of the interface objects of lib/iface.c: an object *)
(* allocates its alias and its kind when it is filled, replaces its alias  *)
(* when it is set, and frees both when it is reloaded or destroyed.        *)
(* Contents are left out; a string is the block of the heap it lies in,    *)
(* and a block that was freed may be allocated again, by any object.       *)
(***************************************************************************)
EXTENDS Naturals

CONSTANTS Object,
          Block,   \* blocks of the heap; as many as the instance allocates
          Null

ASSUME StringsAssumption == Null \notin Block

VARIABLES
    link,     \* link[n]: whether the link of object n has an alias, a kind
    obj,      \* obj[n]: state and strings of object n
    live,     \* the blocks that are allocated
    corrupt,  \* a block was freed twice
    torn      \* a reload could not read its link

vars == <<link, obj, live, corrupt, torn>>

Pointer == Block \cup {Null}

ObjectRecord == [state : {"none", "invalid", "loaded"},
                 alias : Pointer, kind : Pointer]

Pointers(i) == {i.alias, i.kind} \ {Null}

Unloaded == [state |-> "none", alias |-> Null, kind |-> Null]

Init ==
    /\ link \in [Object -> [alias : BOOLEAN, kind : BOOLEAN]]
    /\ obj = [n \in Object |-> Unloaded]
    /\ live = {}
    /\ corrupt = FALSE
    /\ torn = FALSE

(***************************************************************************)
(* What the functions of lib/iface.c make of an object i and of the heap   *)
(* h: records of both.                                                     *)
(***************************************************************************)
Heap == [live |-> live, corrupt |-> corrupt]

(* free() of each pointer in P, in any order.                              *)
Free(P, h) == [live |-> h.live \ P, corrupt |-> h.corrupt \/ ~ P \subseteq h.live]

(* nlif_iface_fini(): the object keeps both pointers.                      *)
Fini(i, h) ==
    LET g == Free(Pointers(i), h)
    IN  [g EXCEPT !.corrupt = @ \/ (i.alias # Null /\ i.alias = i.kind)]

(* nlif_iface_fill(): two blocks, as far as the link has both strings.     *)
Fills(l, s, h) ==
    {[obj |-> [state |-> s, alias |-> p[1], kind |-> p[2]],
      heap |-> [h EXCEPT !.live = @ \cup ({p[1], p[2]} \ {Null})]] :
        p \in {q \in (Pointer \ h.live) \X (Pointer \ h.live) :
                  /\ (q[1] # Null) = l.alias
                  /\ (q[2] # Null) = l.kind
                  /\ q[1] = q[2] => q[1] = Null}}

Unread(i, h) == [obj |-> [i EXCEPT !.state = "invalid"], heap |-> h]

(* Mutant: the object is filled over the strings it has.                   *)
ReadsOver(n) ==
    UNION {Fills(link[n], s, Heap) : s \in {"loaded", "invalid"}}

(* nlif_iface_reload() when the link is read; the store may then refuse.   *)
Reads(n) ==
    UNION {Fills(link[n], s, Fini(obj[n], Heap)) : s \in {"loaded", "invalid"}}

(* nlif_iface_sync()                                                       *)
Syncs(n) ==
    IF obj[n].state = "invalid"
       THEN Reads(n) ELSE {[obj |-> obj[n], heap |-> Heap]}

Becomes(n, r) ==
    /\ obj' = [obj EXCEPT ![n] = r.obj]
    /\ live' = r.heap.live
    /\ corrupt' = r.heap.corrupt

(***************************************************************************)
(* The calls.                                                              *)
(***************************************************************************)
(* nlif_iface_create_*() and the load of the store.                        *)
Create(n) ==
    /\ obj[n].state = "none"
    /\ \E r \in Fills(link[n], "loaded", Heap) : Becomes(n, r)
    /\ UNCHANGED <<link, torn>>

(* Mutant: the object is freed through a copy, and keeps its strings.      *)
DestroyKeeps(n) ==
    /\ obj[n].state # "none"
    /\ Becomes(n, [obj |-> [obj[n] EXCEPT !.state = "none"],
                   heap |-> Fini(obj[n], Heap)])
    /\ UNCHANGED <<link, torn>>

(* nlif_iface_destroy(), and clearing the store.                           *)
Destroy(n) ==
    /\ obj[n].state # "none"
    /\ Becomes(n, [obj |-> Unloaded, heap |-> Fini(obj[n], Heap)])
    /\ UNCHANGED <<link, torn>>

Reload(n) ==
    /\ obj[n].state # "none"
    /\ \E r \in Reads(n) : Becomes(n, r)
    /\ UNCHANGED <<link, torn>>

(* The link is gone, or cannot be read: the strings were freed before.     *)
ReloadFails(n) ==
    /\ obj[n].state # "none"
    /\ Becomes(n, Unread(obj[n], Fini(obj[n], Heap)))
    /\ torn' = TRUE
    /\ UNCHANGED link

(* A getter of an invalid object; setters of numbers are like it.          *)
Get(n) ==
    /\ obj[n].state = "invalid"
    /\ \E r \in Syncs(n) : Becomes(n, r)
    /\ UNCHANGED <<link, torn>>

(* Mutants: the alias that is removed, or replaced, is forgotten.          *)
RemoveAliasKept(n) ==
    /\ obj[n].state # "none"
    /\ \E r \in Syncs(n) :
          Becomes(n, IF r.obj.state # "loaded" THEN r
                     ELSE [r EXCEPT !.heap = Free({r.obj.alias} \ {Null}, @)])
    /\ UNCHANGED <<link, torn>>
SetAliasForgets(n, b) ==
    /\ obj[n].state # "none"
    /\ \E r \in Syncs(n) :
          IF r.obj.state # "loaded"
             THEN b = Null /\ Becomes(n, r)
             ELSE /\ b \in Block \ r.heap.live
                  /\ Becomes(n, [r EXCEPT !.obj.alias = b, !.heap.live = @ \cup {b}])
    /\ UNCHANGED <<link, torn>>

(* nlif_iface_set_alias() of NULL.                                         *)
RemoveAlias(n) ==
    /\ obj[n].state # "none"
    /\ \E r \in Syncs(n) :
          Becomes(n, IF r.obj.state # "loaded" THEN r
                     ELSE [r EXCEPT !.obj.alias = Null,
                                    !.heap = Free({r.obj.alias} \ {Null}, @)])
    /\ UNCHANGED <<link, torn>>

(* nlif_iface_set_alias() of another alias, duplicated into block b.       *)
SetAlias(n, b) ==
    /\ obj[n].state # "none"
    /\ \E r \in Syncs(n) :
          IF r.obj.state # "loaded"
             THEN b = Null /\ Becomes(n, r)
             ELSE LET h == Free({r.obj.alias} \ {Null}, r.heap)
                  IN  /\ b \in Block \ h.live
                      /\ Becomes(n, [obj |-> [r.obj EXCEPT !.alias = b],
                                     heap |-> [h EXCEPT !.live = @ \cup {b}]])
    /\ UNCHANGED <<link, torn>>

(* A setlink request that fails, before or after the alias was set.        *)
Apply(n) ==
    /\ obj[n].state = "loaded"
    /\ link' \in {link, [link EXCEPT ![n].alias = obj[n].alias # Null]}
    /\ obj' \in {obj, [obj EXCEPT ![n].state = "invalid"]}
    /\ UNCHANGED <<live, corrupt, torn>>

Next ==
    \E n \in Object :
        \/ Create(n) \/ Destroy(n)
        \/ Reload(n) \/ ReloadFails(n) \/ Get(n)
        \/ RemoveAlias(n)
        \/ \E b \in Pointer : SetAlias(n, b)
        \/ Apply(n)

Spec == Init /\ [][Next]_vars

-----------------------------------------------------------------------------
(* Types, and objects that are not loaded have no string.                  *)
TypeOK ==
    /\ link \in [Object -> [alias : BOOLEAN, kind : BOOLEAN]]
    /\ obj \in [Object -> ObjectRecord]
    /\ live \subseteq Block
    /\ corrupt \in BOOLEAN /\ torn \in BOOLEAN
    /\ \A n \in Object : obj[n].state = "none" => Pointers(obj[n]) = {}

(* Every string that is allocated is reachable from an object: nothing is  *)
(* lost, not even by reloads that fail.                                    *)
NothingLost == live \subseteq UNION {Pointers(obj[n]) : n \in Object}

(* As long as no reload failed to read its link, every string belongs to   *)
(* one object and one of its two fields, and none was freed: applies that  *)
(* failed and events the store refused leave the strings whole.            *)
OwnedOnce ==
    ~ torn =>
        /\ ~ corrupt
        /\ \A n \in Object :
              /\ Pointers(obj[n]) \subseteq live
              /\ obj[n].alias = obj[n].kind => obj[n].alias = Null
        /\ \A m, n \in Object :
              Pointers(obj[m]) \cap Pointers(obj[n]) # {} => m = n

(* The strings of an object are strings: every function that takes it      *)
(* measures its alias (iface.h:58).                                        *)
StringsValid ==
    \A n \in Object : obj[n].state # "none" => Pointers(obj[n]) \subseteq live
=============================================================================

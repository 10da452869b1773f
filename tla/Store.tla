------------------------------- MODULE Store -------------------------------
(***************************************************************************)
(* The store of lib/store.c: interface objects registered under their      *)
(* index, name and alias, and how its hash tables follow the objects while *)
(* these are set, applied and reloaded.  The gate tells the store of an    *)
(* object that was reloaded (RELOAD) or applied (MODIFY); the store then   *)
(* moves its handle to the buckets of the new name and alias, or refuses.  *)
(*                                                                         *)
(* The tables are chained: a lookup, and a check that a name or an alias   *)
(* may be registered, see the handles of one bucket only, under what their *)
(* objects show at that time.                                              *)
(***************************************************************************)
EXTENDS Iface, FiniteSets

CONSTANTS Index,    \* interface indices
          Bucket,   \* buckets of the tables of names and aliases
          Hash,     \* Hash[s]: the bucket of string s
          NoBucket, \* where the node of an unlinked handle is
          Nobody,   \* the answer of a lookup that finds no interface
          Crash     \* that of one which compares with a NULL alias

ASSUME StoreAssumption ==
    /\ Field = {"name", "alias"}
    /\ Hash \in [Value["name"] \cup (Value["alias"] \ {NoAlias}) -> Bucket]
    /\ NoBucket \notin Bucket
    /\ Nobody \notin Index /\ Crash \notin Index /\ Nobody # Crash

VARIABLES
    kern,     \* kern[n]: link n, as the kernel holds it
    present,  \* the links that exist
    dump,     \* links of the dump being loaded, not registered yet
    iface,    \* iface[n]: the object of link n, state "none" if there is none
    stored,   \* the objects registered in the store
    nameh,    \* nameh[n]: the bucket of names the handle of n is linked in
    aliash,   \* aliash[n]: the bucket of aliases
    crashed   \* the store was told of an object it does not hold

vars == <<kern, present, dump, iface, stored, nameh, aliash, crashed>>

None == [Fill(CHOOSE link \in Link : TRUE) EXCEPT !.state = "none"]

(* The kernel refuses two links of one name, not two of one alias.         *)
KernelNames(k, P) ==
    \A m, n \in P : k[m].conf["name"] = k[n].conf["name"] => m = n

Init ==
    /\ kern \in [Index -> Link]
    /\ KernelNames(kern, Index)
    /\ present = Index
    /\ dump = {}
    /\ iface = [n \in Index |-> None]
    /\ stored = {}
    /\ nameh = [n \in Index |-> NoBucket]
    /\ aliash = [n \in Index |-> NoBucket]
    /\ crashed = FALSE

(***************************************************************************)
(* Registration.                                                           *)
(***************************************************************************)
(* nlif_store_match_iface_bystrid()                                        *)
Matches(h, s) == s \in {iface[h].conf["name"], iface[h].conf["alias"]}

MayName(n, s) ==
    \A h \in stored \ {n} : nameh[h] = Hash[s] => ~ Matches(h, s)

(* Mutant: only a clean object holds its alias.                            *)
MayAliasDirty(n, s) ==
    \A h \in stored \ {n} :
        s # NoAlias /\ aliash[h] = Hash[s] /\ iface[h].state = "clean"
            => ~ Matches(h, s)

MayAlias(n, s) ==
    \A h \in stored \ {n} :
        s # NoAlias /\ aliash[h] = Hash[s] => ~ Matches(h, s)

AliasBucket(s) == IF s = NoAlias THEN NoBucket ELSE Hash[s]

(* Object n becomes i, its handle being linked in the buckets given.       *)
Becomes(n, r) ==
    /\ iface' = [iface EXCEPT ![n] = r.obj]
    /\ nameh' = [nameh EXCEPT ![n] = r.name]
    /\ aliash' = [aliash EXCEPT ![n] = r.alias]

MayEnroll(n, conf) ==
    n \notin stored /\ MayName(n, conf["name"]) /\ MayAlias(n, conf["alias"])

Enrolled(n, i) ==
    /\ Becomes(n, [obj |-> i, name |-> Hash[i.conf["name"]],
                   alias |-> AliasBucket(i.conf["alias"])])
    /\ stored' = stored \cup {n}

(***************************************************************************)
(* The store is told that the attributes F of object n changed to those of *)
(* i: the handle leaves its buckets, then is linked anew unless another    *)
(* one holds the name or the alias, which stops it and fails the caller.   *)
(***************************************************************************)
(* Mutant: RELOAD goes for MODIFY, an object that is filled anew not being *)
(* dirty.                                                                  *)
RehashedDirtyOnly(n, i, F) ==
    LET G   == IF i.state = "clean" THEN {} ELSE F
        may == "name" \in G => MayName(n, i.conf["name"])
        fit == "alias" \in G => MayAlias(n, i.conf["alias"])
    IN  [obj   |-> IF may /\ fit THEN Applied(i) ELSE Invalidated(i),
         name  |-> IF "name" \notin G THEN nameh[n]
                   ELSE IF may THEN Hash[i.conf["name"]] ELSE NoBucket,
         alias |-> IF "alias" \notin G \/ ~ may THEN aliash[n]
                   ELSE IF fit THEN AliasBucket(i.conf["alias"]) ELSE NoBucket]

Rehashed(n, i, F) ==
    LET may == "name" \in F => MayName(n, i.conf["name"])
        fit == "alias" \in F => MayAlias(n, i.conf["alias"])
    IN  [obj   |-> IF may /\ fit THEN Applied(i) ELSE Invalidated(i),
         name  |-> IF "name" \notin F THEN nameh[n]
                   ELSE IF may THEN Hash[i.conf["name"]] ELSE NoBucket,
         alias |-> IF "alias" \notin F \/ ~ may THEN aliash[n]
                   ELSE IF fit THEN AliasBucket(i.conf["alias"]) ELSE NoBucket]

As(n, i) == [obj |-> i, name |-> nameh[n], alias |-> aliash[n]]

Readable(n) == n \in present /\ IsLinkValid(kern[n])

(* nlif_iface_reload() of a registered object, and nlif_iface_sync().      *)
ReloadsOf(n) ==
    {As(n, Invalidated(iface[n]))} \cup
    (IF Readable(n) THEN {Rehashed(n, Fill(kern[n]), Field)} ELSE {})

SyncsOf(n) ==
    IF iface[n].state = "invalid" THEN ReloadsOf(n) ELSE {As(n, iface[n])}

(***************************************************************************)
(* Loading: the links of one dump, in its order.  There is one object of a *)
(* link at a time: callers gave up those that they held.                   *)
(***************************************************************************)
Load ==
    /\ dump = {} /\ stored = {} /\ ~ crashed
    /\ \A n \in Index : iface[n].state = "none"
    /\ dump' = present
    /\ UNCHANGED <<kern, present, iface, stored, nameh, aliash, crashed>>

LoadLink(n) ==
    /\ n \in dump
    /\ dump' = dump \ {n}
    /\ IF IsLinkValid(kern[n]) /\ MayEnroll(n, kern[n].conf)
          THEN Enrolled(n, Fill(kern[n]))
          ELSE UNCHANGED <<iface, stored, nameh, aliash>>
    /\ UNCHANGED <<kern, present, crashed>>

(* nlif_store_clear()                                                      *)
Clear ==
    /\ dump = {} /\ ~ crashed
    /\ iface' = [n \in Index |-> IF n \in stored THEN None ELSE iface[n]]
    /\ nameh' = [n \in Index |-> NoBucket]
    /\ aliash' = [n \in Index |-> NoBucket]
    /\ stored' = {}
    /\ UNCHANGED <<kern, present, dump, crashed>>

(***************************************************************************)
(* Objects a caller creates, registers and withdraws by itself.            *)
(***************************************************************************)
Held(n) == dump = {} /\ ~ crashed /\ iface[n].state # "none"

(* A store is loaded before anything is enrolled, if ever.                 *)
Create(n) ==
    /\ dump = {} /\ stored # {} /\ ~ crashed
    /\ n \notin stored /\ iface[n].state = "none" /\ Readable(n)
    /\ iface' = [iface EXCEPT ![n] = Fill(kern[n])]
    /\ UNCHANGED <<kern, present, dump, stored, nameh, aliash, crashed>>

Destroy(n) ==
    /\ Held(n) /\ n \notin stored
    /\ iface' = [iface EXCEPT ![n] = None]
    /\ UNCHANGED <<kern, present, dump, stored, nameh, aliash, crashed>>

Enroll(n) ==
    /\ Held(n) /\ MayEnroll(n, iface[n].conf)
    /\ Enrolled(n, iface[n])
    /\ UNCHANGED <<kern, present, dump, crashed>>

(* Mutant: the handle is freed, still linked in the table of aliases.      *)
WithdrawButAlias(n) ==
    /\ Held(n) /\ n \in stored
    /\ stored' = stored \ {n}
    /\ nameh' = [nameh EXCEPT ![n] = NoBucket]
    /\ UNCHANGED <<kern, present, dump, iface, aliash, crashed>>

Withdraw(n) ==
    /\ Held(n) /\ n \in stored
    /\ stored' = stored \ {n}
    /\ nameh' = [nameh EXCEPT ![n] = NoBucket]
    /\ aliash' = [aliash EXCEPT ![n] = NoBucket]
    /\ UNCHANGED <<kern, present, dump, iface, crashed>>

(* The gate tells the store of every object that is read anew, or applied. *)
(* The store does not find the handle of one that it does not hold.        *)
Unknown(n) ==
    /\ Held(n) /\ n \notin stored
    /\ Readable(n)
    /\ crashed' = TRUE
    /\ UNCHANGED <<kern, present, dump, iface, stored, nameh, aliash>>

(***************************************************************************)
(* Calls of the API on an object.  What nlif_iface_set_name() does to one  *)
(* without alias is in IfaceCache.                                         *)
(***************************************************************************)
Set(n, f, v) ==
    /\ Held(n) /\ (n \notin stored => Usable(iface[n]))
    /\ \E r \in SyncsOf(n) :
          /\ ~ ComparesNull(r.obj, f, v)
          /\ Becomes(n, [r EXCEPT !.obj = IF Usable(@) THEN WithField(@, f, v) ELSE @])
    /\ UNCHANGED <<kern, present, dump, stored, crashed>>

Reload(n) ==
    /\ Held(n) /\ n \in stored
    /\ \E r \in ReloadsOf(n) : Becomes(n, r)
    /\ UNCHANGED <<kern, present, dump, stored, crashed>>

Apply(n) ==
    /\ Held(n) /\ n \in stored /\ n \in present
    /\ iface[n].state = "dirty"
    /\ \E new \in Commits(kern[n], iface[n], iface[n].dirty) :
          kern' = [kern EXCEPT ![n] = new]
    /\ KernelNames(kern', present)
    /\ Becomes(n, Rehashed(n, iface[n], iface[n].dirty))
    /\ UNCHANGED <<present, dump, stored, crashed>>

(* The request fails, having set the attributes D nevertheless.            *)
ApplyFails(n, D) ==
    /\ Held(n) /\ iface[n].state = "dirty"
    /\ D \subseteq iface[n].dirty /\ (D # {} => n \in present)
    /\ \E new \in Commits(kern[n], iface[n], D) : kern' = [kern EXCEPT ![n] = new]
    /\ KernelNames(kern', present)
    /\ Becomes(n, As(n, Invalidated(iface[n])))
    /\ UNCHANGED <<present, dump, stored, crashed>>

Unplug(n) ==
    /\ n \in present
    /\ present' = present \ {n}
    /\ UNCHANGED <<kern, dump, iface, stored, nameh, aliash, crashed>>

Next ==
    \/ Load \/ Clear
    \/ \E n \in Index :
          \/ LoadLink(n)
          \/ Create(n) \/ Destroy(n) \/ Enroll(n) \/ Withdraw(n) \/ Unknown(n)
          \/ \E f \in Field : \E v \in Value[f] : Set(n, f, v)
          \/ Reload(n)
          \/ Apply(n)
          \/ \E D \in SUBSET Field : ApplyFails(n, D)
          \/ Unplug(n)

Spec == Init /\ [][Next]_vars

-----------------------------------------------------------------------------
(***************************************************************************)
(* Lookups.  Each walks one chain and stops at the first match.  The order *)
(* of a chain is that of the hash lists, external to the store: a lookup   *)
(* may give any of the answers below, where another order gives another.   *)
(***************************************************************************)
(* The handles of the chain whose object shows s, registered under s or    *)
(* not: names and aliases that were set, and not applied yet, are shown.   *)
FoundByName(s)  == {h \in stored : nameh[h] = Hash[s] /\ iface[h].conf["name"] = s}
FoundByAlias(s) == {h \in stored : aliash[h] = Hash[s] /\ iface[h].conf["alias"] = s}

(* The handles of the chain with no alias to compare with, strcmp() being  *)
(* called with that of each up to the match.                               *)
Unaliased(s) == {h \in stored : aliash[h] = Hash[s] /\ iface[h].conf["alias"] = NoAlias}

(* nlif_store_find_iface_byname(), _byalias() and _bystrid().              *)
AnswersByName(s) == IF FoundByName(s) = {} THEN {Nobody} ELSE FoundByName(s)

AnswersByAlias(s) ==
    IF FoundByAlias(s) \cup Unaliased(s) = {}
       THEN {Nobody}
       ELSE FoundByAlias(s) \cup {Crash : h \in Unaliased(s)}

(* Mutant: aliases first.                                                  *)
AnswersByStridAliasFirst(s) ==
    IF FoundByAlias(s) # {} THEN AnswersByAlias(s) ELSE AnswersByName(s)

AnswersByStrid(s) ==
    IF FoundByName(s) # {} THEN AnswersByName(s) ELSE AnswersByAlias(s)

(* The identifiers by which a caller may expect to find an interface:      *)
(* those of a usable object that it has not changed since.                 *)
Settled(h, f) ==
    /\ h \in stored /\ Usable(iface[h]) /\ f \notin iface[h].dirty
    /\ iface[h].conf[f] # NoAlias

(* Besides the types, the nodes of a handle the store does not hold are    *)
(* linked in no table.                                                     *)
TypeOK ==
    /\ kern \in [Index -> Link]
    /\ present \subseteq Index /\ dump \subseteq Index /\ stored \subseteq Index
    /\ iface \in [Index -> IfaceRecord]
    /\ nameh \in [Index -> Bucket \cup {NoBucket}]
    /\ aliash \in [Index -> Bucket \cup {NoBucket}]
    /\ crashed \in BOOLEAN
    /\ \A n \in Index \ stored : nameh[n] = NoBucket /\ aliash[n] = NoBucket

(* An interface is found by its name and by its alias, unless they are     *)
(* being changed: no sequence of partial failures, refused events and      *)
(* reloads leaves its handle unlinked, or linked under what it was.        *)
Findable ==
    \A h \in Index :
        /\ Settled(h, "name")  => h \in FoundByName(iface[h].conf["name"])
        /\ Settled(h, "alias") => h \in FoundByAlias(iface[h].conf["alias"])

(* No two interfaces share a name or an alias, though the kernel lets two  *)
(* links share an alias, values that were set are not registered before    *)
(* they are applied, and a check sees one bucket only.                     *)
SoleOwner ==
    \A f \in {"name", "alias"} : \A g, h \in Index :
        Settled(g, f) /\ Settled(h, f) /\ iface[g].conf[f] = iface[h].conf[f]
            => g = h

(* A lookup answers the interface that owns the string, or nobody when     *)
(* none does.  Only an interface of the chain whose own string is being    *)
(* changed, or whose object cannot be trusted, makes it answer otherwise,  *)
(* and then with that interface, or with a NULL alias compared: neither    *)
(* an unlinked owner, nor a second one, nor a bare object left in the      *)
(* table does.  A string that is the name of one and the alias of another  *)
(* is the name.                                                            *)
Owners(s, f) == {h \in Index : Settled(h, f) /\ iface[h].conf[f] = s}

Chain(s, f) == {h \in stored : Hash[s] = IF f = "name" THEN nameh[h] ELSE aliash[h]}

Doubtful(s, f) == {h \in Chain(s, f) : ~ Usable(iface[h]) \/ f \in iface[h].dirty}

Exact(answers, owners, doubtful) ==
    \A a \in answers :
        \/ owners = {a}
        \/ owners = {} /\ a = Nobody
        \/ a \in doubtful
        \/ a = Crash /\ doubtful # {}

LookupExact ==
    \A s \in DOMAIN Hash :
        /\ Exact(AnswersByName(s), Owners(s, "name"), Doubtful(s, "name"))
        /\ Exact(AnswersByAlias(s), Owners(s, "alias"), Doubtful(s, "alias"))
        /\ Exact(AnswersByStrid(s),
                 IF Owners(s, "name") # {} THEN Owners(s, "name")
                 ELSE Owners(s, "alias"),
                 Doubtful(s, "name") \cup Doubtful(s, "alias"))

(* The strcmp() of a lookup by alias (store.c:75) meets an object without  *)
(* one only while its alias is being removed, or when it cannot be trusted *)
(* at all: a link that lost its alias leaves the table with its reload.    *)
AliasKnown ==
    \A h \in stored :
        /\ aliash[h] # NoBucket
        /\ Usable(iface[h]) /\ "alias" \notin iface[h].dirty
        => iface[h].conf["alias"] # NoAlias

(* The owner of a name is found by it, whatever others are renamed to.     *)
OwnerAnswered ==
    \A s \in DOMAIN Hash :
        Owners(s, "name") # {} => AnswersByName(s) = Owners(s, "name")

(* Every object a lookup by alias goes through has one (store.c:73), as    *)
(* the alias of each is handed to strcmp().                                *)
AliasedInTable ==
    \A h \in stored : aliash[h] # NoBucket => iface[h].conf["alias"] # NoAlias

(* The store holds the object it is told of (store.c:502 and 532).         *)
HandleFound == ~ crashed
=============================================================================

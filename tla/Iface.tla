------------------------------- MODULE Iface -------------------------------
(***************************************************************************)
(* The interface object of lib/iface.[ch] as a value, and what its         *)
(* operations compute.  A kernel link is [conf, oper]: its configurable    *)
(* attributes and its operational state (volatile flags, operstate and     *)
(* linkmode together).  An interface object caches a link and remembers    *)
(* which attributes its caller changed since: state and dirty stand for    *)
(* `state', and for `dirty_fields' with `dirty_flags'.                     *)
(* This module has no variable: IfaceCache, Config and Store are the       *)
(* machines that hold such records.                                        *)
(***************************************************************************)
EXTENDS Naturals

CONSTANTS Field,     \* the configurable attributes of the instance
          Value,     \* Value[f]: the values attribute f may take
          NoAlias,   \* the alias of a link that has none (NULL)
          MtuRange,  \* the MTUs within [min_mtu, max_mtu]
          Oper       \* the operational states

ASSUME IfaceAssumption ==
    /\ Field \subseteq {"group", "name", "alias", "mtu", "hwadr", "up"}
    /\ "name" \in Field => NoAlias \notin Value["name"]

Conf == {c \in [Field -> UNION {Value[f] : f \in Field}] :
            \A f \in Field : c[f] \in Value[f]}

Link == [conf : Conf, oper : Oper]

(* "none" is an object not loaded yet (state NLIF_STAT_NR).                *)
IfaceRecord == [state : {"none", "invalid", "clean", "dirty"},
                dirty : SUBSET Field, conf : Conf, oper : Oper]

Usable(i) == i.state \in {"clean", "dirty"}

(* A name and an alias that are the same string make a link ambiguous.     *)
Ambiguous(conf) ==
    /\ {"name", "alias"} \subseteq Field
    /\ conf["name"] = conf["alias"]

IsLinkValid(link) == ~ Ambiguous(link.conf)

(***************************************************************************)
(* Loading.                                                                *)
(***************************************************************************)
Fill(link) ==
    [state |-> "clean", dirty |-> {}, conf |-> link.conf, oper |-> link.oper]

Invalidated(i) == [i EXCEPT !.state = "invalid"]

(* What a reload may leave behind: the link as it is now, the same when    *)
(* the subscriber of the gate then refuses the RELOAD event, or the object *)
(* as it was when the link cannot be read.                                 *)
Reloads(i, link, present) ==
    {Invalidated(i)} \cup
    IF present /\ IsLinkValid(link)
        THEN {Fill(link), Invalidated(Fill(link))}
        ELSE {}

(* Mutant: synchronising reloads whatever is not clean.                    *)
SyncsUnlessClean(i, link, present) ==
    IF i.state # "clean" THEN Reloads(i, link, present) ELSE {i}

Syncs(i, link, present) ==
    IF i.state = "invalid" THEN Reloads(i, link, present) ELSE {i}

Refreshed(i, oper) == [i EXCEPT !.oper = oper]

(***************************************************************************)
(* Setting an attribute.                                                   *)
(***************************************************************************)
(* Mutant: nlif_iface_set_alias() does not look at the name.               *)
RefusesNameOnly(i, f, v) ==
    \/ f = "name" /\ "alias" \in Field /\ v = i.conf["alias"]
    \/ f = "mtu"  /\ v \notin MtuRange

Refuses(i, f, v) ==
    \/ f = "name"  /\ "alias" \in Field /\ v = i.conf["alias"]
    \/ f = "alias" /\ "name" \in Field  /\ v = i.conf["name"]
    \/ f = "mtu"   /\ v \notin MtuRange

(* nlif_iface_set_name() hands the alias of the object to strcmp(), which  *)
(* is undefined for the NULL of an object that has no alias.               *)
ComparesNull(i, f, v) ==
    /\ f = "name" /\ "alias" \in Field
    /\ v # i.conf["name"]
    /\ i.conf["alias"] = NoAlias

(* Mutants: the state is not updated; a bit of no attribute is set.        *)
WithFieldStillClean(i, f, v) ==
    IF v = i.conf[f] \/ Refuses(i, f, v)
        THEN i ELSE [i EXCEPT !.dirty = @ \cup {f}, !.conf[f] = v]
WithFieldStrayBit(i, f, v) ==
    IF v = i.conf[f] \/ Refuses(i, f, v)
        THEN i ELSE [i EXCEPT !.state = "dirty", !.dirty = @ \cup {"flags"},
                              !.conf[f] = v]

WithField(i, f, v) ==
    IF v = i.conf[f] \/ Refuses(i, f, v)
        THEN i
        ELSE [i EXCEPT !.state = "dirty", !.dirty = @ \cup {f},
                       !.conf[f] = v]

(***************************************************************************)
(* Applying: a setlink request carries the dirty attributes only.  The     *)
(* kernel sets them one after the other, so a request that fails may have  *)
(* set some of them, D; the administrative state may move the operational  *)
(* one at once.                                                            *)
(***************************************************************************)
(* Mutant: a removed alias has no attribute in the request, as in a build  *)
(* without NLIF_YNL_NULL_STR.                                              *)
OverlaidButNull(conf, i, D) ==
    [f \in Field |-> IF f \in D /\ i.conf[f] # NoAlias THEN i.conf[f] ELSE conf[f]]

Overlaid(conf, i, D) ==
    [f \in Field |-> IF f \in D THEN i.conf[f] ELSE conf[f]]

Commits(link, i, D) ==
    {[conf |-> Overlaid(link.conf, i, D), oper |-> o] :
        o \in IF "up" \in D THEN Oper ELSE {link.oper}}

Applied(i) == [i EXCEPT !.state = "clean", !.dirty = {}]

============================================================================

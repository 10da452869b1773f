------------------------------ MODULE Session ------------------------------
(***************************************************************************)
(* What a program of the library holds between its start and its end, and  *)
(* in which order it takes it and gives it back: nlifd as its main() does  *)
(* (src/nlifd.c), every step of which may fail, and another program as the *)
(* assertions of the library (lib/gate.[ch], store.[ch], obsrv.h) let it.  *)
(***************************************************************************)
EXTENDS Naturals

CONSTANT Links  \* how many links a dump brings

ASSUME SessionAssumption == Links \in Nat

(* "sysrepo": connection and session;  "socket": that of the gate;         *)
(* "store": an initialised store;  "events": the subscriber of the gate;   *)
(* "observer": oper_sub in the list of the store;  "member": of the group; *)
(* "worker": polls the socket;  "context": that of libyang;  "changes" and *)
(* "gets": the subscriptions of sysrepo.                                   *)
Resource == {"sysrepo", "socket", "store", "events", "observer", "member",
             "worker", "context", "changes", "gets"}

VARIABLES
    at,     \* what the daemon does next; "any" for another program
    held,   \* the resources held
    count,  \* the interfaces of the store
    tree,   \* the data tree of the reset: "none", "live", "freed", "twice"
    failed  \* a step failed: the daemon ends with an error

vars == <<at, held, count, tree, failed>>

Init ==
    /\ held = {} /\ count = 0
    /\ tree = "none" /\ failed = FALSE

(***************************************************************************)
(* Steps: from a place of main() to another.                               *)
(***************************************************************************)
Takes(from, to, R) ==
    /\ at = from /\ at' = to
    /\ R \cap held = {} /\ held' = held \cup R
    /\ UNCHANGED <<count, tree, failed>>

Gives(from, to, R) ==
    /\ at = from /\ at' = to
    /\ held' = held \ R
    /\ UNCHANGED <<count, tree, failed>>

Fails(from, to) ==
    /\ at = from /\ at' = to
    /\ failed' = TRUE
    /\ UNCHANGED <<held, count, tree>>

(***************************************************************************)
(* nlifd_open().                                                           *)
(***************************************************************************)
(* Mutant: the notifier keeps the subscriber when the membership fails.    *)
OpenKeepsObserver ==
    \/ Takes("open", "gate", {"sysrepo"})     \/ Fails("open", "end")
    \/ Takes("gate", "store", {"socket"})     \/ Fails("gate", "close_daemon")
    \/ Takes("store", "notif", {"store", "events"})
    \/ Takes("notif", "join", {"observer"})
    \/ Takes("join", "worker", {"member"})    \/ Fails("join", "fini_store")
    \/ Takes("worker", "load", {"worker"})    \/ Fails("worker", "disable")

Open ==
    \/ Takes("open", "gate", {"sysrepo"})     \/ Fails("open", "end")
    \/ Takes("gate", "store", {"socket"})     \/ Fails("gate", "close_daemon")
    \/ Takes("store", "notif", {"store", "events"})
    \/ Takes("notif", "join", {"observer"})
    \/ Takes("join", "worker", {"member"})    \/ Fails("join", "unsubscribe")
    \/ Takes("worker", "load", {"worker"})    \/ Fails("worker", "disable")

(* nlif_store_load(): the gate tells its subscriber of each link; one that *)
(* is refused is left out, and a dump may break off.                       *)
Load ==
    /\ at = "load"
    /\ \E n \in 0 .. Links : count' = IF "events" \in held THEN n ELSE 0
    /\ \/ at' = "acquire" /\ UNCHANGED failed
       \/ at' = "disable_notif" /\ failed' = TRUE
    /\ UNCHANGED <<held, tree>>

(***************************************************************************)
(* nlifd_load().  The label release gives the context back on the way.     *)
(***************************************************************************)
Enter ==
    \/ Takes("acquire", "probe", {"context"}) \/ Fails("acquire", "close")
    \/ Gives("probe", "empty", {})            \/ Fails("probe", "release")
    \/ Gives("empty", "reset", {})
    \/ Gives("empty", "subscribe", {})        \/ Fails("empty", "release")

(* Mutant: the tree is left when an entry fails.                           *)
CreateTreeLeft ==
    /\ at = "reset"
    /\ \/ tree' = "live"  /\ at' = "replace" /\ UNCHANGED failed
       \/ tree' = "none"  /\ at' = "release" /\ failed' = TRUE
       \/ tree' = "live"  /\ at' = "release" /\ failed' = TRUE /\ count > 0
    /\ UNCHANGED <<held, count>>

(* nlifd_iface_reset_config_dstore(): a container, an entry per interface. *)
CreateTree ==
    /\ at = "reset"
    /\ \/ tree' = "live"  /\ at' = "replace" /\ UNCHANGED failed
       \/ tree' = "none"  /\ at' = "release" /\ failed' = TRUE
       \/ tree' = "freed" /\ at' = "release" /\ failed' = TRUE /\ count > 0
    /\ UNCHANGED <<held, count>>

(* srepo_replace_config() frees the tree, whatever it answers; the error   *)
(* path frees it again.                                                    *)
ReplaceConfig ==
    /\ at = "replace"
    /\ \/ tree' = "freed" /\ at' = "subscribe" /\ UNCHANGED failed
       \/ tree' = "twice" /\ at' = "release"   /\ failed' = TRUE
    /\ UNCHANGED <<held, count>>

Subscribe ==
    \/ Takes("subscribe", "publish", {"changes"})
    \/ Fails("subscribe", "release")
    \/ Gives("publish", "answer", {})         \/ Fails("publish", "release")
    \/ Takes("answer", "leave", {"gets"})     \/ Fails("answer", "release")
    \/ Gives("leave", "poll", {"context"})
    \/ Gives("release", "close", {"context"})

(* Mutant: the daemon polls again.                                         *)
PollAgain == Gives("poll", "close", {}) \/ Fails("poll", "poll")

(* nlifd_poll() returns when the daemon is told to stop, or fails.         *)
Poll == Gives("poll", "close", {}) \/ Fails("poll", "close")

(***************************************************************************)
(* nlifd_close(), and the labels of nlifd_open() and nlifd_enable_notif()  *)
(* that it shares.  Closing the socket ends the membership; closing the    *)
(* connection ends the subscriptions.                                      *)
(***************************************************************************)
(* Mutant: the store is finalised before notifications are disabled.       *)
CloseStoreFirst ==
    \/ Gives("close", "fini_store", {"worker"})
    \/ Gives("disable_notif", "disable", {"worker"})
    \/ Gives("disable", "unsubscribe", {"events"})
    \/ Gives("unsubscribe", "fini_store", {"observer"})
    \/ Gives("fini_gate", "close_daemon", {"socket", "member"})
    \/ Gives("close_daemon", "end", {"sysrepo", "changes", "gets"})

Close ==
    \/ Gives("close", "disable_notif", {})
    \/ Gives("disable_notif", "disable", {"worker"})
    \/ Gives("disable", "unsubscribe", {"events"})
    \/ Gives("unsubscribe", "fini_store", {"observer"})
    \/ Gives("fini_gate", "close_daemon", {"socket", "member"})
    \/ Gives("close_daemon", "end", {"sysrepo", "changes", "gets"})

(* nlif_store_fini(): the store leaves the gate, then destroys its objects.*)
FiniStore ==
    /\ at = "fini_store" /\ at' = "fini_gate"
    /\ held' = held \ {"events", "store"}
    /\ count' = 0
    /\ UNCHANGED <<tree, failed>>

DaemonInit == Init /\ at = "open"

Runs == Open \/ Load \/ Enter \/ CreateTree \/ ReplaceConfig \/ Subscribe
        \/ Close \/ FiniStore

(* The daemon goes on with its start and its end; it may poll for ever.    *)
DaemonSpec == DaemonInit /\ [][Runs \/ Poll]_vars /\ WF_vars(Runs)

(***************************************************************************)
(* Another program, which keeps the gate and the store it opened, loads    *)
(* the store now and then, and enables and disables notifications.         *)
(***************************************************************************)
Calls(from, to, needs, R) ==
    needs \subseteq held /\ Takes(from, to, R)

Enabled(to) ==
    /\ at = "disabled" /\ at' = to
    /\ {"socket", "store"} \subseteq held
    /\ held' = held \cup {"member"}
    /\ UNCHANGED <<count, tree, failed>>

(* nlif_store_disable_change_notif() takes the store from the gate and     *)
(* leaves the membership.                                                  *)
Disabled == Gives("enabled", "disabled", {"events"})

Program ==
    \/ Calls("disabled", "disabled", {}, {"socket"})
    \/ Calls("disabled", "disabled", {"socket"}, {"store", "events"})
    \/ Enabled("enabled")
    \/ Disabled
    \/ \E p \in {"enabled", "disabled"} :
          \/ Calls(p, p, {"store"}, {"observer"})
          \/ "observer" \in held /\ Gives(p, p, {"observer"})
    \/ /\ "store" \in held
       /\ \E n \in 0 .. Links :
             count' = IF "events" \in held THEN n ELSE 0
       /\ UNCHANGED <<at, held, tree, failed>>

ProgramSpec == Init /\ at = "disabled" /\ [][Program]_vars

-----------------------------------------------------------------------------
(* What is held is built on what is held below it: the socket that is      *)
(* polled is open, nobody is told through a store that is gone.            *)
Needs == {<<"worker", "socket">>, <<"member", "socket">>, <<"store", "socket">>,
          <<"events", "store">>, <<"observer", "store">>,
          <<"socket", "sysrepo">>, <<"context", "sysrepo">>,
          <<"changes", "sysrepo">>, <<"gets", "sysrepo">>}

TypeOK ==
    /\ held \subseteq Resource
    /\ count \in 0 .. Links
    /\ tree \in {"none", "live", "freed", "twice"}
    /\ failed \in BOOLEAN
    /\ tree = "live" => at = "replace"

(* At every step of the daemon, whichever failed before, each thing it     *)
(* holds outlives what was built on it, interfaces without store included. *)
InOrder ==
    /\ \A p \in Needs : p[1] \in held => p[2] \in held
    /\ count > 0 => "store" \in held

(* Whatever fails in the start of the daemon, it ends with nothing left.   *)
NothingLeft == at = "end" => held = {} /\ count = 0 /\ tree # "live"

(* A daemon that failed ends.                                              *)
FailedEnds == failed ~> at = "end"

(* "We are not requested to call lyd_free_tree() on it from now on"        *)
(* (nlifd.c:1247-1248): the tree is freed once.                            *)
TreeFreedOnce == tree # "twice"

(* Whoever enables notifications has the gate's events told to the store   *)
(* (gate.c:286), notifications that were disabled before included.         *)
EnablesWithSubscriber ==
    at = "disabled" /\ "store" \in held => "events" \in held
=============================================================================

--------------------------- MODULE SessionProofs ---------------------------
(* What the daemon and other programs hold at every step, for any number   *)
(* of links.                                                               *)
EXTENDS Session, TLAPS

USE SessionAssumption

(***************************************************************************)
(* What the daemon holds, by the place of main() it is at.                 *)
(***************************************************************************)
Opened == {"sysrepo", "socket", "store", "events", "observer", "member", "worker"}
Subscriptions == {"changes", "gets"}

Starting == {"open", "gate", "store", "notif", "join", "worker", "load", "acquire"}
Entering == {"probe", "empty", "reset", "replace", "subscribe", "publish",
             "answer", "leave", "release"}
Ending   == {"poll", "close", "disable_notif", "disable", "unsubscribe",
             "fini_store", "fini_gate", "close_daemon", "end"}

(* At the places P the daemon holds what is in lo, and nothing beyond hi.  *)
Within(P, lo, hi) == at \in P => lo \subseteq held /\ held \subseteq hi

Exactly(P, R) == Within(P, R, R)

WhileStarting ==
    /\ Exactly({"open"}, {})
    /\ Exactly({"gate"}, {"sysrepo"})
    /\ Exactly({"store"}, {"sysrepo", "socket"})
    /\ Exactly({"notif"}, {"sysrepo", "socket", "store", "events"})
    /\ Exactly({"join"}, {"sysrepo", "socket", "store", "events", "observer"})
    /\ Exactly({"worker"}, Opened \ {"worker"})
    /\ Exactly({"load", "acquire"}, Opened)

WhileEntering ==
    /\ Exactly({"probe", "empty", "reset", "replace", "subscribe"},
               Opened \cup {"context"})
    /\ Exactly({"publish", "answer"}, Opened \cup {"context", "changes"})
    /\ Exactly({"leave"}, Opened \cup {"context"} \cup Subscriptions)
    /\ Within({"release"}, Opened \cup {"context"},
              Opened \cup {"context"} \cup Subscriptions)

(* Failures lead to the labels of the end with more or less of the start   *)
(* behind them.                                                            *)
WhileEnding ==
    /\ Exactly({"poll"}, Opened \cup Subscriptions)
    /\ Within({"close", "disable_notif"}, Opened, Opened \cup Subscriptions)
    /\ Within({"disable"}, Opened \ {"worker"}, (Opened \ {"worker"}) \cup Subscriptions)
    /\ Within({"unsubscribe"}, {"sysrepo", "socket", "store", "observer"},
              (Opened \ {"worker"}) \cup Subscriptions)
    /\ Within({"fini_store"}, {"sysrepo", "socket", "store"},
              (Opened \ {"worker", "observer"}) \cup Subscriptions)
    /\ Within({"fini_gate"}, {"sysrepo", "socket"},
              {"sysrepo", "socket", "member"} \cup Subscriptions)
    /\ Within({"close_daemon"}, {"sysrepo"}, {"sysrepo"} \cup Subscriptions)
    /\ Exactly({"end"}, {})

Staged ==
    /\ at \in Starting \cup Entering \cup Ending
    /\ WhileStarting /\ WhileEntering /\ WhileEnding

SessionInv == TypeOK /\ Staged /\ InOrder

(* Each step leads to a place where what is held is in its bounds.         *)
LEMMA StagedStep ==
    ASSUME SessionInv, Runs \/ Poll
    PROVE  Staged'
<1> USE DEF SessionInv, Staged, WhileStarting, WhileEntering, WhileEnding,
            Within, Exactly, Starting, Entering, Ending, Opened, Subscriptions
<1>1. CASE Open
    BY <1>1 DEF Open, Takes, Fails
<1>2. CASE Load
    BY <1>2 DEF Load
<1>3. CASE Enter
    BY <1>3 DEF Enter, Takes, Gives, Fails
<1>4. CASE CreateTree \/ ReplaceConfig
    BY <1>4 DEF CreateTree, ReplaceConfig
<1>5. CASE Subscribe
    BY <1>5 DEF Subscribe, Takes, Gives, Fails
<1>6. CASE Close
    BY <1>6 DEF Close, Gives
<1>7. CASE FiniStore \/ Poll
    BY <1>7 DEF FiniStore, Poll, Gives, Fails
<1> QED BY <1>1, <1>2, <1>3, <1>4, <1>5, <1>6, <1>7 DEF Runs

(* What is built on what, at each place.                                   *)
LEMMA StagedOrder == Staged => \A p \in Needs : p[1] \in held => p[2] \in held
    BY DEF Needs, Staged, WhileStarting, WhileEntering, WhileEnding, Within,
           Exactly, Starting, Entering, Ending, Opened, Subscriptions

(* A step of the kinds main() is made of keeps the types, and the store as *)
(* long as it has interfaces.                                              *)
LEMMA KindsStep ==
    ASSUME SessionInv, NEW from, NEW to, from # "replace",
           NEW R \in SUBSET (Resource \ {"store"}),
           \/ Takes(from, to, R) \/ Gives(from, to, R) \/ Fails(from, to)
    PROVE  TypeOK' /\ (count' > 0 => "store" \in held')
    BY DEF SessionInv, TypeOK, InOrder, Takes, Gives, Fails

(* So does every step of the daemon; the store that goes takes its         *)
(* interfaces with it, and the tree lives for one step.                    *)
LEMMA DaemonStep ==
    ASSUME SessionInv, Runs \/ Poll
    PROVE  TypeOK' /\ (count' > 0 => "store" \in held')
<1>1. CASE Open
    <2>1. CASE Takes("store", "notif", {"store", "events"})
        BY <2>1 DEF Takes, SessionInv, TypeOK, InOrder, Resource
    <2>2. CASE \/ Takes("open", "gate", {"sysrepo"}) \/ Fails("open", "end")
               \/ Takes("gate", "store", {"socket"})
               \/ Fails("gate", "close_daemon")
        BY <2>2, KindsStep DEF Resource
    <2>3. CASE \/ Takes("notif", "join", {"observer"})
               \/ Takes("join", "worker", {"member"})
               \/ Fails("join", "unsubscribe")
               \/ Takes("worker", "load", {"worker"}) \/ Fails("worker", "disable")
        BY <2>3, KindsStep DEF Resource
    <2> QED BY <1>1, <2>1, <2>2, <2>3 DEF Open
<1>2. CASE Load
    <2>1. "store" \in held
        BY <1>2 DEF Load, SessionInv, Staged, WhileStarting, Exactly, Within, Opened
    <2>2. count' \in 0 .. Links
        BY <1>2 DEF Load
    <2> QED BY <1>2, <2>1, <2>2 DEF Load, SessionInv, TypeOK
<1>3. CASE Enter
    BY <1>3, KindsStep DEF Enter, Resource
<1>4. CASE CreateTree \/ ReplaceConfig
    BY <1>4 DEF CreateTree, ReplaceConfig, SessionInv, TypeOK, InOrder
<1>5. CASE Subscribe
    BY <1>5, KindsStep DEF Subscribe, Resource
<1>6. CASE Close
    BY <1>6, KindsStep DEF Close, Resource
<1>7. CASE FiniStore
    BY <1>7 DEF FiniStore, SessionInv, TypeOK
<1>8. CASE Poll
    BY <1>8, KindsStep DEF Poll, Resource
<1> QED BY <1>1, <1>2, <1>3, <1>4, <1>5, <1>6, <1>7, <1>8 DEF Runs

(* The invariant of the daemon holds at first.                             *)
LEMMA InitSession == DaemonInit => SessionInv
<1> SUFFICES ASSUME DaemonInit PROVE SessionInv
    OBVIOUS
<1>1. held = {} /\ count = 0 /\ tree = "none" /\ failed = FALSE /\ at = "open"
    BY DEF DaemonInit, Init
<1>2. Staged
    BY <1>1 DEF Staged, WhileStarting, WhileEntering, WhileEnding, Within,
                Exactly, Starting, Entering, Ending
<1>3. TypeOK
    <2>1. failed \in BOOLEAN
        BY <1>1
    <2>2. count \in 0 .. Links
        BY <1>1
    <2> QED BY <1>1, <2>1, <2>2 DEF TypeOK
<1>4. InOrder
    BY <1>1 DEF InOrder
<1> QED BY <1>2, <1>3, <1>4 DEF SessionInv

(* A step of the daemon keeps it.                                          *)
LEMMA StepSession == SessionInv /\ [Runs \/ Poll]_vars => SessionInv'
<1> SUFFICES ASSUME SessionInv, [Runs \/ Poll]_vars PROVE SessionInv'
    OBVIOUS
<1>1. CASE UNCHANGED vars
    BY <1>1 DEF vars, SessionInv, TypeOK, InOrder, Staged, WhileStarting,
                WhileEntering, WhileEnding, Within, Exactly
<1>2. CASE Runs \/ Poll
    <2>1. Staged' /\ TypeOK' /\ (count' > 0 => "store" \in held')
        BY <1>2, StagedStep, DaemonStep
    <2>2. (Staged => \A p \in Needs : p[1] \in held => p[2] \in held)'
        BY StagedOrder, PTL
    <2>3. \A p \in Needs : p[1] \in held' => p[2] \in held'
        BY <2>1, <2>2 DEF Needs
    <2> QED BY <2>1, <2>3 DEF SessionInv, InOrder
<1> QED BY <1>1, <1>2

(* The inductive invariant: the daemon holds what its place in main() asks *)
(* for and may have, in order.                                             *)
THEOREM SessionInvariant == DaemonSpec => []SessionInv
    BY InitSession, StepSession, PTL DEF DaemonSpec

(* Every variable keeps its type, and the tree of the reset lives for one  *)
(* step.                                                                   *)
THEOREM SessionTyped == DaemonSpec => []TypeOK
<1>1. SessionInv => TypeOK
    BY DEF SessionInv
<1> QED BY <1>1, SessionInvariant, PTL

(* Whatever fails, what is held outlives what is built on it.              *)
THEOREM Order == DaemonSpec => []InOrder
<1>1. SessionInv => InOrder
    BY DEF SessionInv
<1> QED BY <1>1, SessionInvariant, PTL

(* Whatever fails, the daemon that ended holds nothing.                    *)
THEOREM Cleanup == DaemonSpec => []NothingLeft
<1>1. SessionInv => NothingLeft
    <2> SUFFICES ASSUME SessionInv, at = "end"
                 PROVE  held = {} /\ count = 0 /\ tree # "live"
        BY DEF NothingLeft
    <2>1. held = {}
        BY DEF SessionInv, Staged, WhileEnding, Exactly, Within
    <2> QED BY <2>1 DEF SessionInv, TypeOK, InOrder
<1> QED BY <1>1, SessionInvariant, PTL

(***************************************************************************)
(* Another program.                                                        *)
(***************************************************************************)
(* What a program has, but for the connection to sysrepo: it has none, nor *)
(* what rests on one.                                                      *)
ProgramOrder ==
    /\ held \subseteq {"socket", "store", "events", "observer", "member"}
    /\ {"store", "member"} \cap held # {} => "socket" \in held
    /\ {"events", "observer"} \cap held # {} => "store" \in held
    /\ count > 0 => "store" \in held

(* No call of a program disturbs it.                                       *)
LEMMA ProgramStep == ProgramOrder /\ [Program]_vars => ProgramOrder'
<1> SUFFICES ASSUME ProgramOrder, [Program]_vars PROVE ProgramOrder'
    OBVIOUS
<1> USE DEF ProgramOrder
<1>1. CASE UNCHANGED vars
    BY <1>1 DEF vars
<1>2. CASE Program
    BY <1>2 DEF Program, Calls, Enabled, Disabled, Takes, Gives
<1> QED BY <1>1, <1>2

(* However a program enables, disables, subscribes and loads, its store    *)
(* and its membership are backed by a socket, its interfaces, events and   *)
(* observer by the store.                                                  *)
THEOREM ProgramInOrder == ProgramSpec => []ProgramOrder
<1>1. Init /\ at = "disabled" => ProgramOrder
    BY DEF Init, ProgramOrder
<1> QED BY <1>1, ProgramStep, PTL DEF ProgramSpec
=============================================================================

-------------------------- MODULE IfaceCacheProofs --------------------------
(* The safety of IfaceCache, and of the daemon that publishes what it      *)
(* reads there, for every set of attributes, values and operational        *)
(* states, every buffer size and every number of events and failures.      *)
EXTENDS Publish, IfaceRefinement, IfaceProofs, SequenceTheorems

USE BoundAssumption

Newest(q) == q[Len(q)]

(* The newest element survives what the machine does to its queues.        *)
LEMMA NewestAppend ==
    ASSUME NEW S, NEW q \in Seq(S), NEW e \in S
    PROVE  /\ Append(q, e) \in Seq(S)
           /\ Append(q, e) # <<>>
           /\ Newest(Append(q, e)) = e
    BY DEF Newest

(* Taking the first element leaves the newest, unless it was the only one. *)
LEMMA NewestTail ==
    ASSUME NEW S, NEW q \in Seq(S), q # <<>>
    PROVE  /\ Tail(q) \in Seq(S)
           /\ Tail(q) # <<>> => Newest(Tail(q)) = Newest(q)
           /\ Tail(q) = <<>> => Head(q) = Newest(q)
           /\ Head(q) \in S
<1>1. /\ Head(q) \in S /\ Tail(q) \in Seq(S) /\ Len(Tail(q)) = Len(q) - 1
      /\ \A k \in 1 .. Len(Tail(q)) : Tail(q)[k] = q[k + 1]
    BY HeadTailProperties
<1>2. Len(q) \in Nat \ {0}
    OBVIOUS
<1>3. CASE Tail(q) = <<>>
    <2>0. \A t : t = <<>> => Len(t) = 0
        OBVIOUS
    <2>1. Len(q) - 1 = 0
        BY <1>1, <1>3, <2>0, Zenon
    <2>2. Len(q) = 1
        BY <1>2, <2>1
    <2> QED BY <1>1, <1>3, <2>2 DEF Newest
<1>4. CASE Tail(q) # <<>>
    <2>1. Len(Tail(q)) \in Nat \ {0}
        BY <1>1, <1>4
    <2> QED BY <1>1, <1>2, <1>4, <2>1 DEF Newest
<1> QED BY <1>3, <1>4

(* The newest element of two queues is that of the second, if it has any.  *)
LEMMA NewestConcat ==
    ASSUME NEW S, NEW p \in Seq(S), NEW q \in Seq(S)
    PROVE  /\ p \o q \in Seq(S)
           /\ q = <<>> => p \o q = p
           /\ q # <<>> => p \o q # <<>> /\ Newest(p \o q) = Newest(q)
<1>1. /\ p \o q \in Seq(S) /\ Len(p \o q) = Len(p) + Len(q)
      /\ \A k \in 1 .. Len(p) + Len(q) :
            (p \o q)[k] = IF k <= Len(p) THEN p[k] ELSE q[k - Len(p)]
    BY ConcatProperties
<1>2. CASE q = <<>>
    BY <1>1, <1>2, ConcatEmptySeq
<1>3. CASE q # <<>>
    <2>1. Len(q) \in Nat \ {0} /\ Len(p) \in Nat
        BY <1>3
    <2>2. (p \o q)[Len(p) + Len(q)] = q[Len(q)]
        BY <1>1, <2>1
    <2> QED BY <1>1, <1>3, <2>1, <2>2 DEF Newest
<1> QED BY <1>2, <1>3

(***************************************************************************)
(* Type correctness.                                                       *)
(***************************************************************************)
(* The notifications of a link are messages.                               *)
LEMMA MessageType ==
    ASSUME NEW link \in Link
    PROVE  NewLink(link) \in Message /\ DelLink(link) \in Message
    BY DEF Link, Message, NewLink, DelLink, IsLinkValid, Ambiguous

(* A notification the kernel posts, or drops, leaves a queue.              *)
LEMMA PostedType ==
    ASSUME TypeOK, NEW msg \in Message
    PROVE  Posted(msg) \in Seq(Message)
    BY NewestAppend DEF TypeOK, Posted

(* The three ways of using the socket leave queues.                        *)
LEMMA SocketType ==
    ASSUME TypeOK, NEW msg \in Message
    PROVE  /\ Post(msg) => sockq' \in Seq(Message) /\ ntfq' \in Seq(Message)
                             /\ lost' \in BOOLEAN
           /\ Request => sockq' \in Seq(Message) /\ ntfq' \in Seq(Message)
                            /\ lost' \in BOOLEAN
           /\ RequestChange(msg) =>
                sockq' \in Seq(Message) /\ ntfq' \in Seq(Message)
                /\ lost' \in BOOLEAN
<1>1. ntfq \o sockq \in Seq(Message) /\ ntfq \o Posted(msg) \in Seq(Message)
    BY PostedType, NewestConcat DEF TypeOK
<1>2. <<>> \in Seq(Message)
    OBVIOUS
<1>3. Overruns \in BOOLEAN
    BY DEF Overruns, TypeOK
<1> QED BY <1>1, <1>2, <1>3, PostedType DEF TypeOK, Post, Request, RequestChange

(* The initial states are well typed.                                      *)
LEMMA InitType == Init => TypeOK
<1> SUFFICES ASSUME Init PROVE TypeOK
    OBVIOUS
<1>1. [Fill(kern) EXCEPT !.state = "none"] \in IfaceRecord
    BY FillType DEF Init, IfaceRecord
<1>2. iface \in IfaceRecord
    BY <1>1 DEF Init
<1>3. sockq \in Seq(Message) /\ ntfq \in Seq(Message)
    BY DEF Init
<1>4. events \in 0 .. MaxEvents
    BY DEF Init
<1>5. kern \in Link /\ present \in BOOLEAN /\ joined \in BOOLEAN
      /\ lost \in BOOLEAN /\ crashed \in BOOLEAN /\ loop \in {"idle", "notify"}
    BY DEF Init
<1> QED BY <1>2, <1>3, <1>4, <1>5 DEF TypeOK

(* The steps of the kernel keep the types.                                 *)
LEMMA KernelType ==
    ASSUME TypeOK
    PROVE  /\ \A o \in Oper : KernelOper(o) => TypeOK'
           /\ KernelRemove => TypeOK'
<1>1. ASSUME NEW o \in Oper, KernelOper(o) PROVE TypeOK'
    <2>1. kern' \in Link
        BY <1>1 DEF TypeOK, KernelOper, Link
    <2>2. events' \in 0 .. MaxEvents
        BY <1>1 DEF TypeOK, KernelOper
    <2> QED BY <1>1, <2>1, <2>2, MessageType, SocketType DEF TypeOK, KernelOper
<1>2. ASSUME KernelRemove PROVE TypeOK'
    <2>1. DelLink(kern) \in Message
        BY MessageType DEF TypeOK
    <2> QED BY <1>2, <2>1, SocketType DEF TypeOK, KernelRemove
<1> QED BY <1>1, <1>2

(* Loading, setting, getting and reloading keep the types.                 *)
LEMMA CallType ==
    ASSUME TypeOK
    PROVE  /\ Load => TypeOK'
           /\ \A f \in Field : \A v \in Value[f] : Set(f, v) => TypeOK'
           /\ Get => TypeOK'
           /\ Reload => TypeOK'
           /\ LoadStats => TypeOK'
<1> USE MessageType
<1>0. kern \in Link /\ iface \in IfaceRecord /\ present \in BOOLEAN
    BY DEF TypeOK
<1>1. ASSUME Load PROVE TypeOK'
    BY <1>0, <1>1, FillType, SocketType DEF TypeOK, Load
<1>2. ASSUME NEW f \in Field, NEW v \in Value[f], Set(f, v) PROVE TypeOK'
    <2>1. PICK i \in Syncs(iface, kern, present) :
            /\ crashed' = (Usable(i) /\ ComparesNull(i, f, v))
            /\ iface' = IF Usable(i) THEN WithField(i, f, v) ELSE i
        BY <1>2 DEF Set
    <2>2. iface' \in IfaceRecord
        BY <1>0, <2>1, SyncsType, WithFieldType
    <2>3. crashed' \in BOOLEAN
        BY <2>1
    <2> QED BY <1>0, <1>2, <2>2, <2>3, SocketType DEF TypeOK, Set, SyncRequest
<1>3. ASSUME Get PROVE TypeOK'
    <2>1. iface' \in IfaceRecord
        BY <1>0, <1>3, SyncsType DEF Get
    <2> QED BY <1>0, <1>3, <2>1, SocketType DEF TypeOK, Get, SyncRequest
<1>4. ASSUME Reload PROVE TypeOK'
    <2>1. iface' \in IfaceRecord
        BY <1>0, <1>4, ReloadsType DEF Reload
    <2> QED BY <1>0, <1>4, <2>1, SocketType DEF TypeOK, Reload
<1>5. ASSUME LoadStats PROVE TypeOK'
    BY <1>0, <1>5, SocketType DEF TypeOK, LoadStats
<1> QED BY <1>1, <1>2, <1>3, <1>4, <1>5

(* An apply keeps the types, whatever the kernel does of it.               *)
LEMMA ApplyType ==
    ASSUME TypeOK
    PROVE  /\ Apply => TypeOK'
           /\ \A D \in SUBSET Field : ApplyFails(D) => TypeOK'
<1>0. /\ kern \in Link /\ iface \in IfaceRecord
      /\ iface.dirty \in SUBSET Field /\ kern.oper \in Oper
    BY DEF TypeOK, IfaceRecord, Link
<1>1. Applied(iface) \in IfaceRecord /\ Invalidated(iface) \in IfaceRecord
    BY <1>0, UpdateType
<1>2. ASSUME Apply PROVE TypeOK'
    <2>1. kern' \in Link
        BY <1>0, <1>2, CommitsType DEF Apply
    <2>2. NewLink(kern') \in Message
        BY <2>1, MessageType
    <2>3. events' \in 0 .. MaxEvents
        BY <1>2 DEF TypeOK, Apply
    <2> QED BY <1>1, <1>2, <2>1, <2>2, <2>3, SocketType DEF TypeOK, Apply
<1>3. ASSUME NEW D \in SUBSET Field, ApplyFails(D) PROVE TypeOK'
    <2>1. CASE D = {}
        <3>1. NewLink(kern) \in Message
            BY <1>0, MessageType
        <3> QED BY <1>1, <1>3, <2>1, <3>1, SocketType DEF TypeOK, ApplyFails
    <2>2. CASE D # {}
        <3>1. kern' \in Link
            BY <1>0, <1>3, <2>2, CommitsType DEF ApplyFails
        <3>2. NewLink(kern') \in Message
            BY <3>1, MessageType
        <3>3. events' \in 0 .. MaxEvents
            BY <1>3, <2>2 DEF TypeOK, ApplyFails
        <3> QED BY <1>1, <1>3, <2>2, <3>1, <3>2, <3>3, SocketType
                DEF TypeOK, ApplyFails
    <2> QED BY <2>1, <2>2
<1> QED BY <1>2, <1>3

(* The object as the head of the list leaves it, before any reload.        *)
Notified ==
    LET msg == Head(ntfq)
    IN  IF msg.cmd = "newlink" /\ msg.valid /\ iface.state # "none"
            THEN Refreshed(iface, msg.oper) ELSE iface

(* An object refreshed by a notification is an object.                     *)
LEMMA NotifiedType ==
    ASSUME TypeOK, ntfq # <<>>
    PROVE  Notified \in IfaceRecord
<1>1. Head(ntfq) \in Message
    BY NewestTail DEF TypeOK
<1>2. Head(ntfq).oper \in Oper
    BY <1>1 DEF Message
<1> QED BY <1>2, UpdateType DEF TypeOK, Notified

(* Joining the group and dispatching keep the types.                       *)
LEMMA NotifyType ==
    ASSUME TypeOK
    PROVE  /\ EnableNotif => TypeOK'
           /\ Dispatch => TypeOK'
           /\ Process => TypeOK'
           /\ DispatchEnds => TypeOK'
<1>1. EnableNotif => TypeOK'
    BY DEF TypeOK, EnableNotif
<1>2. ASSUME Dispatch PROVE TypeOK'
    <2>1. NewLink(kern) \in Message
        BY MessageType DEF TypeOK
    <2> QED BY <1>2, <2>1, SocketType DEF TypeOK, Dispatch
<1>3. ASSUME Process PROVE TypeOK'
    <2>1. ntfq # <<>> /\ Notified \in IfaceRecord
        BY <1>3, NotifiedType DEF Process
    <2>2. iface' \in Syncs(Notified, kern, present) \/ iface' = iface
        BY <1>3 DEF Process, Notified
    <2>3. iface' \in IfaceRecord
        BY <2>1, <2>2, SyncsType DEF TypeOK
    <2>4. /\ Tail(ntfq) \in Seq(Message)
          /\ Tail(ntfq) \o sockq \in Seq(Message)
          /\ <<>> \in Seq(Message)
        BY <2>1, NewestTail, NewestConcat DEF TypeOK
    <2>5. /\ ntfq' \in {Tail(ntfq), Tail(ntfq) \o sockq}
          /\ sockq' \in {sockq, <<>>}
        BY <1>3 DEF Process
    <2>6. ntfq' \in Seq(Message) /\ sockq' \in Seq(Message)
        BY <2>4, <2>5 DEF TypeOK
    <2> QED BY <1>3, <2>3, <2>6 DEF TypeOK, Process
<1>4. DispatchEnds => TypeOK'
    BY DEF TypeOK, DispatchEnds
<1> QED BY <1>1, <1>2, <1>3, <1>4

(* Type correctness is inductive by itself.                                *)
LEMMA NextType == TypeOK /\ [Next]_vars => TypeOK'
<1>1. TypeOK /\ UNCHANGED vars => TypeOK'
    BY DEF TypeOK, vars
<1> QED BY <1>1, KernelType, CallType, ApplyType, NotifyType DEF Next

(* Type correctness: every variable keeps its shape, the object's          *)
(* attributes the values of their kind, and events its bound.              *)
THEOREM TypeCorrect == Spec => []TypeOK
<1>1. Init => TypeOK
    BY InitType
<1>2. TypeOK /\ [Next]_vars => TypeOK'
    BY NextType
<1> QED BY <1>1, <1>2, PTL DEF Spec

(***************************************************************************)
(* Safety.  The object stays sound for the kernel's link because the only  *)
(* writers of the link are its own requests, and each either carries every *)
(* dirty attribute and succeeds, or makes the object invalid.  Its         *)
(* operational state is tracked because the queue that ends last always    *)
(* ends with the link as it is.                                            *)
(***************************************************************************)
IfaceInv ==
    /\ TypeOK
    /\ Sound(iface, kern)
    /\ MtuFits(kern.conf)
    /\ ~ joined => sockq = <<>> /\ ntfq = <<>> /\ iface.state = "none"
    /\ OperTracked

(* What a step must leave in the object for it to be tracked when nothing  *)
(* is waiting: the operational state of the link, or the one it had.       *)
OperKept ==
    iface'.state # "none" =>
        \/ iface'.oper = kern'.oper
        \/ iface.state # "none" /\ iface'.oper = iface.oper

(* Each way of using the socket keeps the object tracked.                  *)
LEMMA PostTracks ==
    ASSUME TypeOK, NEW msg \in Message, Post(msg), UNCHANGED joined,
           present' => msg = NewLink(kern'),
           ~ joined => sockq = <<>> /\ ntfq = <<>> /\ iface.state = "none"
    PROVE  OperTracked' /\ (~ joined => UNCHANGED <<sockq, ntfq>>)
<1>1. CASE joined /\ ~ Overruns
    <2>1. sockq' # <<>> /\ Newest(sockq') = msg
        BY <1>1, NewestAppend DEF TypeOK, Post, Posted
    <2> QED BY <1>1, <2>1 DEF OperTracked, Newest
<1>2. CASE Overruns
    <2>1. lost'
        BY <1>2 DEF Post
    <2> QED BY <1>2, <2>1 DEF OperTracked, Overruns
<1>3. CASE ~ joined
    BY <1>3 DEF OperTracked, Post, Posted
<1> QED BY <1>1, <1>2, <1>3

(* A request moves the newest notification to the list, where it is still  *)
(* the newest.                                                             *)
LEMMA RequestTracks ==
    ASSUME TypeOK, OperTracked, Request, UNCHANGED <<kern, present, joined>>,
           OperKept
    PROVE  OperTracked'
<1>1. sockq' = <<>> /\ ntfq' = ntfq \o sockq /\ lost' = lost
    BY DEF Request
<1>2. CASE sockq # <<>>
    <2>1. ntfq' # <<>> /\ Newest(ntfq') = Newest(sockq)
        BY <1>1, <1>2, NewestConcat DEF TypeOK
    <2> QED BY <1>1, <1>2, <2>1 DEF OperTracked, Newest, NewLink
<1>3. CASE sockq = <<>>
    <2>1. ntfq' = ntfq
        BY <1>1, <1>3, NewestConcat DEF TypeOK
    <2> QED BY <1>1, <1>3, <2>1 DEF OperTracked, OperKept, NewLink
<1> QED BY <1>2, <1>3

(* A request that changes the link has its own notification listed last,   *)
(* or dropped.                                                             *)
LEMMA RequestChangeTracks ==
    ASSUME TypeOK, joined, UNCHANGED joined, NewLink(kern') \in Message,
           RequestChange(NewLink(kern'))
    PROVE  OperTracked'
<1>1. CASE Overruns
    BY <1>1 DEF OperTracked, RequestChange
<1>2. CASE ~ Overruns
    <2>1. /\ Posted(NewLink(kern')) \in Seq(Message)
          /\ Posted(NewLink(kern')) # <<>>
          /\ Newest(Posted(NewLink(kern'))) = NewLink(kern')
        BY <1>2, NewestAppend DEF TypeOK, Posted
    <2>2. ntfq' # <<>> /\ Newest(ntfq') = NewLink(kern') /\ sockq' = <<>>
        BY <2>1, NewestConcat DEF TypeOK, RequestChange
    <2> QED BY <2>2 DEF OperTracked, Newest
<1> QED BY <1>1, <1>2

(* A step that leaves the socket alone and keeps the operational state of  *)
(* the object, or takes the link's, loses nothing.                         *)
LEMMA QuietTracks ==
    ASSUME OperTracked, UNCHANGED <<kern, present, joined, sockq, ntfq, lost>>,
           OperKept
    PROVE  OperTracked'
    BY DEF OperTracked, OperKept, NewLink

(* The invariant holds of a program that has not joined the group yet.     *)
LEMMA InitInv == Init => IfaceInv
<1> SUFFICES ASSUME Init PROVE IfaceInv
    OBVIOUS
<1>1. iface.state = "none"
    BY DEF Init, Fill
<1>2. Sound(iface, kern)
    BY <1>1 DEF Sound, Usable
<1> QED BY <1>1, <1>2, InitType DEF IfaceInv, Init, OperTracked, MtuFits

(* The steps of the kernel, and the membership, keep the invariant.        *)
LEMMA KernelInv ==
    ASSUME IfaceInv
    PROVE  /\ \A o \in Oper : KernelOper(o) => IfaceInv'
           /\ KernelRemove => IfaceInv'
           /\ EnableNotif => IfaceInv'
<1>0. TypeOK /\ kern \in Link
    BY DEF IfaceInv, TypeOK
<1>1. ASSUME NEW o \in Oper, KernelOper(o) PROVE IfaceInv'
    <2>1. TypeOK' /\ kern' \in Link
        BY <1>0, <1>1, KernelType DEF TypeOK
    <2>2. kern'.conf = kern.conf
        BY <1>0, <1>1 DEF KernelOper, Link
    <2>3. Sound(iface', kern') /\ MtuFits(kern'.conf)
        BY <1>1, <2>2 DEF IfaceInv, KernelOper, Sound
    <2>4. OperTracked' /\ (~ joined => UNCHANGED <<sockq, ntfq>>)
        BY <1>0, <1>1, <2>1, MessageType, PostTracks DEF IfaceInv, KernelOper
    <2> QED BY <1>1, <2>1, <2>3, <2>4 DEF IfaceInv, KernelOper
<1>2. ASSUME KernelRemove PROVE IfaceInv'
    <2>1. TypeOK'
        BY <1>0, <1>2, KernelType
    <2>2. OperTracked' /\ (~ joined => UNCHANGED <<sockq, ntfq>>)
        BY <1>0, <1>2, MessageType, PostTracks DEF IfaceInv, KernelRemove
    <2> QED BY <1>2, <2>1, <2>2 DEF IfaceInv, KernelRemove
<1>3. ASSUME EnableNotif PROVE IfaceInv'
    <2>1. TypeOK'
        BY <1>0, <1>3, NotifyType
    <2> QED BY <1>3, <2>1 DEF IfaceInv, EnableNotif, OperTracked
<1> QED BY <1>1, <1>2, <1>3

(* A synchronisation is a request or leaves the socket alone.              *)
LEMMA SyncTracks ==
    ASSUME TypeOK, OperTracked, SyncRequest, UNCHANGED <<kern, present, joined>>,
           OperKept
    PROVE  OperTracked'
    BY RequestTracks, QuietTracks DEF SyncRequest

(* Loading, setting, getting and reloading keep the invariant.             *)
LEMMA CallInv ==
    ASSUME IfaceInv
    PROVE  /\ Load => IfaceInv'
           /\ \A f \in Field : \A v \in Value[f] : Set(f, v) => IfaceInv'
           /\ Get => IfaceInv'
           /\ Reload => IfaceInv'
           /\ LoadStats => IfaceInv'
<1>0. /\ TypeOK /\ OperTracked /\ kern \in Link /\ iface \in IfaceRecord
      /\ present \in BOOLEAN /\ Sound(iface, kern) /\ MtuFits(kern.conf)
      /\ Callable => joined /\ iface.state # "none"
    BY DEF IfaceInv, TypeOK, Callable
<1>1. ASSUME Load PROVE IfaceInv'
    <2>1. TypeOK'
        BY <1>0, <1>1, CallType
    <2>2. CASE present /\ IsLinkValid(kern)
        <3>1. Fill(kern) \in Reloads(iface, kern, present)
            BY <2>2 DEF Reloads
        <3>2. Sound(iface', kern)
            BY <1>0, <1>1, <2>2, <3>1, ReloadsSound DEF Load
        <3>3. OperKept
            BY <1>1, <2>2 DEF OperKept, Load, Fill
        <3>4. OperTracked'
            BY <1>0, <1>1, <3>3, RequestTracks DEF Load
        <3> QED BY <1>0, <1>1, <2>1, <3>2, <3>4 DEF IfaceInv, Load
    <2>3. CASE ~ (present /\ IsLinkValid(kern))
        <3>1. OperKept
            BY <1>1, <2>3 DEF OperKept, Load
        <3>2. OperTracked'
            BY <1>0, <1>1, <3>1, RequestTracks DEF Load
        <3> QED BY <1>0, <1>1, <2>1, <2>3, <3>2 DEF IfaceInv, Load
    <2> QED BY <2>2, <2>3
<1>2. ASSUME NEW f \in Field, NEW v \in Value[f], Set(f, v) PROVE IfaceInv'
    <2>1. TypeOK'
        BY <1>0, <1>2, CallType
    <2>2. PICK i \in Syncs(iface, kern, present) :
            iface' = IF Usable(i) THEN WithField(i, f, v) ELSE i
        BY <1>2 DEF Set
    <2>3. /\ i \in IfaceRecord /\ Sound(i, kern) /\ i.state # "none"
          /\ i.oper \in {iface.oper, kern.oper}
        BY <1>0, <1>2, SyncsType, SyncsSound DEF Set
    <2>4. Sound(iface', kern) /\ iface'.oper = i.oper /\ iface'.state # "none"
        BY <1>0, <2>2, <2>3, WithFieldSound
    <2>5. OperTracked'
        BY <1>0, <1>2, <2>3, <2>4, SyncTracks DEF OperKept, Set
    <2> QED BY <1>0, <1>2, <2>1, <2>4, <2>5 DEF IfaceInv, Set
<1>3. ASSUME Get PROVE IfaceInv'
    <2>1. TypeOK'
        BY <1>0, <1>3, CallType
    <2>2. /\ Sound(iface', kern) /\ iface'.state # "none"
          /\ iface'.oper \in {iface.oper, kern.oper}
        BY <1>0, <1>3, SyncsSound DEF Get
    <2>3. OperTracked'
        BY <1>0, <1>3, <2>2, SyncTracks DEF OperKept, Get
    <2> QED BY <1>0, <1>3, <2>1, <2>2, <2>3 DEF IfaceInv, Get
<1>4. ASSUME Reload PROVE IfaceInv'
    <2>1. TypeOK'
        BY <1>0, <1>4, CallType
    <2>2. /\ Sound(iface', kern) /\ iface'.state # "none"
          /\ iface'.oper \in {iface.oper, kern.oper}
        BY <1>0, <1>4, ReloadsSound DEF Reload
    <2>3. OperTracked'
        BY <1>0, <1>4, <2>2, RequestTracks DEF OperKept, Reload
    <2> QED BY <1>0, <1>4, <2>1, <2>2, <2>3 DEF IfaceInv, Reload
<1>5. ASSUME LoadStats PROVE IfaceInv'
    <2>1. TypeOK'
        BY <1>0, <1>5, CallType
    <2>2. OperTracked'
        BY <1>0, <1>5, RequestTracks DEF OperKept, LoadStats
    <2> QED BY <1>0, <1>5, <2>1, <2>2 DEF IfaceInv, LoadStats
<1> QED BY <1>1, <1>2, <1>3, <1>4, <1>5

(* An apply keeps the invariant; one that succeeds leaves the object's     *)
(* attributes in the kernel.                                               *)
LEMMA ApplyInv ==
    ASSUME IfaceInv
    PROVE  /\ Apply => IfaceInv' /\ kern'.conf = iface.conf
           /\ \A D \in SUBSET Field : ApplyFails(D) => IfaceInv'
<1>0. /\ TypeOK /\ OperTracked /\ kern \in Link /\ iface \in IfaceRecord
      /\ Sound(iface, kern) /\ MtuFits(kern.conf)
      /\ Callable => joined /\ iface.state # "none"
      /\ iface.dirty \in SUBSET Field
      /\ iface.state = "dirty" => Usable(iface) /\ MtuFits(iface.conf)
    BY DEF IfaceInv, TypeOK, Callable, IfaceRecord, Sound, Usable
<1>1. Invalidated(iface).state = "invalid" /\ Invalidated(iface).oper = iface.oper
    BY <1>0 DEF Invalidated, IfaceRecord
<1>2. \A link : Sound(Invalidated(iface), link)
    BY <1>1 DEF Sound, Usable
<1>3. ASSUME Apply PROVE IfaceInv' /\ kern'.conf = iface.conf
    <2>1. TypeOK' /\ kern' \in Link
        BY <1>0, <1>3, ApplyType DEF TypeOK
    <2>2. kern' \in Commits(kern, iface, iface.dirty) /\ Usable(iface)
        BY <1>0, <1>3 DEF Apply
    <2>3. kern'.conf = iface.conf /\ Sound(Applied(iface), kern')
        BY <1>0, <2>2, CommitsWhole
    <2>4. Sound(iface', kern') /\ MtuFits(kern'.conf)
        BY <1>0, <1>2, <1>3, <2>3 DEF Apply
    <2>5. OperTracked'
        BY <1>0, <1>3, <2>1, MessageType, RequestChangeTracks DEF Apply
    <2> QED BY <1>0, <1>3, <2>1, <2>3, <2>4, <2>5 DEF IfaceInv, Apply
<1>4. ASSUME NEW D \in SUBSET Field, ApplyFails(D) PROVE IfaceInv'
    <2>1. TypeOK' /\ kern' \in Link
        BY <1>0, <1>4, ApplyType DEF TypeOK
    <2>2. Sound(iface', kern')
        BY <1>2, <1>4 DEF ApplyFails
    <2>3. CASE D = {}
        <3>1. OperKept
            BY <1>0, <1>1, <1>4, <2>3 DEF OperKept, ApplyFails
        <3>2. OperTracked'
            BY <1>0, <1>4, <2>3, <3>1, RequestTracks DEF ApplyFails
        <3> QED BY <1>0, <1>4, <2>1, <2>2, <2>3, <3>2 DEF IfaceInv, ApplyFails
    <2>4. CASE D # {}
        <3>1. kern' \in Commits(kern, iface, D)
            BY <1>4, <2>4 DEF ApplyFails
        <3>2. MtuFits(kern'.conf)
            BY <1>0, <1>4, <3>1, CommitsFit DEF ApplyFails
        <3>3. OperTracked'
            BY <1>0, <1>4, <2>1, <2>4, MessageType, RequestChangeTracks
                DEF ApplyFails
        <3> QED BY <1>0, <1>4, <2>1, <2>2, <3>2, <3>3 DEF IfaceInv, ApplyFails
    <2> QED BY <2>3, <2>4
<1> QED BY <1>3, <1>4

(* The object after the head of the list is sound, keeps what is pending,  *)
(* and, if that head was the newest update, shows the kernel's state.      *)
LEMMA NotifiedSound ==
    ASSUME IfaceInv, ntfq # <<>>
    PROVE  /\ Sound(Notified, kern)
           /\ Notified.state = iface.state
           /\ [Notified EXCEPT !.oper = iface.oper] = iface
           /\ Head(ntfq) = NewLink(kern) /\ IsLinkValid(kern)
                 /\ iface.state # "none" => Notified.oper = kern.oper
<1>0. TypeOK /\ iface \in IfaceRecord /\ Sound(iface, kern)
    BY DEF IfaceInv, TypeOK
<1>1. ASSUME NEW o \in Oper
      PROVE  /\ Refreshed(iface, o).state = iface.state
             /\ Refreshed(iface, o).dirty = iface.dirty
             /\ Refreshed(iface, o).conf = iface.conf
             /\ Refreshed(iface, o).oper = o
             /\ [Refreshed(iface, o) EXCEPT !.oper = iface.oper] = iface
    BY <1>0 DEF Refreshed, IfaceRecord
<1>2. Head(ntfq).oper \in Oper
    <2>1. Head(ntfq) \in Message
        BY <1>0, NewestTail DEF TypeOK
    <2> QED BY <2>1 DEF Message
<1>3. Notified \in {iface, Refreshed(iface, Head(ntfq).oper)}
    BY DEF Notified
<1>4. [iface EXCEPT !.oper = iface.oper] = iface
    BY <1>0 DEF IfaceRecord
<1>5. Sound(Notified, kern)
    BY <1>0, <1>1, <1>2, <1>3 DEF Sound, Usable
<1>6. Head(ntfq) = NewLink(kern) /\ IsLinkValid(kern)
        /\ iface.state # "none" => Notified.oper = kern.oper
    BY <1>1, <1>2 DEF Notified, NewLink
<1> QED BY <1>1, <1>2, <1>3, <1>4, <1>5, <1>6

(* Dispatching keeps the invariant: an object taken back in time by an old *)
(* notification is corrected by a later one.                               *)
LEMMA NotifyInv ==
    ASSUME IfaceInv
    PROVE  /\ Dispatch => IfaceInv'
           /\ Process => IfaceInv'
           /\ DispatchEnds => IfaceInv'
<1>0. TypeOK /\ OperTracked /\ kern \in Link /\ present \in BOOLEAN
      /\ MtuFits(kern.conf) /\ (sockq # <<>> => joined) /\ (ntfq # <<>> => joined)
    BY DEF IfaceInv, TypeOK
<1>1. ASSUME Dispatch PROVE IfaceInv'
    <2>1. TypeOK'
        BY <1>0, <1>1, NotifyType
    <2>2. OperTracked'
        BY <1>0, <1>1, RequestTracks DEF Dispatch, OperKept
    <2> QED BY <1>0, <1>1, <2>1, <2>2 DEF IfaceInv, Dispatch
<1>2. ASSUME Process PROVE IfaceInv'
    <2> DEFINE t == Tail(ntfq)
    <2>1. TypeOK' /\ ntfq # <<>> /\ joined
        BY <1>0, <1>2, NotifyType DEF Process
    <2>2. /\ t \in Seq(Message) /\ (t # <<>> => Newest(t) = Newest(ntfq))
          /\ (t = <<>> => Head(ntfq) = Newest(ntfq))
        BY <1>0, <2>1, NewestTail DEF TypeOK
    <2> HIDE DEF t
    <2>3. /\ Notified \in IfaceRecord /\ Sound(Notified, kern)
          /\ Notified.state = iface.state
        BY <1>0, <2>1, NotifiedType, NotifiedSound
    <2>4. /\ Sound(iface', kern)
          /\ iface'.state # "none" => iface.state # "none"
          /\ iface'.oper \in {Notified.oper, kern.oper}
        <3>1. CASE Notified = iface
            BY <1>2, <2>3, <3>1 DEF Process, Notified
        <3>2. CASE Notified # iface
            <4>1. iface.state # "none"
                BY <3>2 DEF Notified
            <4>2. iface' \in Syncs(Notified, kern, present)
                BY <1>2, <3>2 DEF Process, Notified
            <4> QED BY <1>0, <2>3, <4>1, <4>2, SyncsSound
        <3> QED BY <3>1, <3>2
    <2>5. \/ ntfq' = t /\ sockq' = sockq
          \/ ntfq' = t \o sockq /\ sockq' = <<>>
        BY <1>2 DEF Process, t
    <2>6. UNCHANGED <<kern, present, joined, lost>>
        BY <1>2 DEF Process
    <2>7. CASE sockq # <<>>
        <3>1. t \o sockq # <<>> /\ Newest(t \o sockq) = Newest(sockq)
            BY <1>0, <2>2, <2>7, NewestConcat DEF TypeOK
        <3>2. OperTracked'
            BY <1>0, <2>5, <2>6, <2>7, <3>1 DEF OperTracked, Newest, NewLink
        <3> QED BY <1>0, <2>1, <2>4, <2>6, <3>2 DEF IfaceInv
    <2>8. CASE sockq = <<>>
        <3>1. ntfq' = t /\ sockq' = <<>>
            BY <1>0, <2>2, <2>5, <2>8, NewestConcat DEF TypeOK
        <3>2. present /\ ~ lost => Newest(ntfq) = NewLink(kern)
            BY <1>0, <2>1, <2>8 DEF OperTracked, Newest
        <3>3. CASE t # <<>>
            <4>1. OperTracked'
                BY <2>2, <2>6, <3>1, <3>2, <3>3 DEF OperTracked, Newest, NewLink
            <4> QED BY <1>0, <2>1, <2>4, <2>6, <4>1 DEF IfaceInv
        <3>4. CASE t = <<>>
            <4>1. present /\ ~ lost /\ iface'.state # "none" /\ IsLinkValid(kern)
                    => iface'.oper = kern.oper
                BY <2>1, <2>2, <2>4, <3>2, <3>4, NotifiedSound
            <4>2. OperTracked'
                BY <2>6, <3>1, <3>4, <4>1 DEF OperTracked, IsLinkValid
            <4> QED BY <1>0, <2>1, <2>4, <2>6, <4>2 DEF IfaceInv
        <3> QED BY <3>3, <3>4
    <2> QED BY <2>7, <2>8
<1>3. ASSUME DispatchEnds PROVE IfaceInv'
    <2>1. TypeOK'
        BY <1>0, <1>3, NotifyType
    <2> QED BY <1>3, <2>1 DEF IfaceInv, DispatchEnds, OperTracked
<1> QED BY <1>1, <1>2, <1>3

(* The invariant is inductive.                                             *)
LEMMA NextInv == IfaceInv /\ [Next]_vars => IfaceInv'
<1>1. IfaceInv /\ UNCHANGED vars => IfaceInv'
    <2> SUFFICES ASSUME IfaceInv, UNCHANGED vars PROVE IfaceInv'
        OBVIOUS
    <2>1. TypeOK'
        BY NextType DEF IfaceInv
    <2> QED BY <2>1 DEF IfaceInv, vars, OperTracked
<1> QED BY <1>1, KernelInv, CallInv, ApplyInv, NotifyInv DEF Next

(* The invariant holds in every reachable state.                           *)
LEMMA SpecInv == Spec => []IfaceInv
    BY InitInv, NextInv, PTL DEF Spec

(* The masks of the object agree with its state.                           *)
THEOREM MaskSafety == Spec => []DirtyMask
<1>1. IfaceInv => DirtyMask
    BY DEF IfaceInv, Sound, DirtyMask
<1> QED BY <1>1, SpecInv, PTL

(* A usable object shows the kernel's value of every attribute that is not *)
(* dirty.                                                                  *)
THEOREM CoherenceSafety == Spec => []CacheCoherent
<1>1. IfaceInv => CacheCoherent
    BY DEF IfaceInv, Sound, CacheCoherent
<1> QED BY <1>1, SpecInv, PTL

(* A usable object has distinct identifiers and an MTU in range.           *)
THEOREM FormSafety == Spec => []WellFormed
<1>1. IfaceInv => WellFormed
    BY DEF IfaceInv, Sound, WellFormed, MtuFits
<1> QED BY <1>1, SpecInv, PTL

(* No update of the operational state is lost on the way to the object.    *)
THEOREM TrackingSafety == Spec => []OperTracked
<1>1. IfaceInv => OperTracked
    BY DEF IfaceInv
<1> QED BY <1>1, SpecInv, PTL

(* A successful apply leaves the kernel with every attribute the object    *)
(* showed its caller.                                                      *)
THEOREM ApplyWhole == Spec => AppliedIsWhole
<1> DEFINE Whole == iface.state = "dirty" /\ iface'.state = "clean" /\ kern' # kern
                        => kern'.conf = iface.conf
<1>1. ASSUME IfaceInv, [Next]_vars PROVE [Whole]_vars
    <2>1. CASE \E o \in Oper : KernelOper(o)
        BY <2>1 DEF KernelOper
    <2>2. CASE Apply
        BY <1>1, <2>2, ApplyInv
    <2>3. CASE \E D \in SUBSET Field : ApplyFails(D)
        <3>1. iface' = Invalidated(iface)
            BY <2>3 DEF ApplyFails
        <3>2. iface'.state = "invalid"
            BY <1>1, <3>1 DEF IfaceInv, TypeOK, IfaceRecord, Invalidated
        <3> QED BY <3>2
    <2>4. CASE kern' = kern
        BY <2>4
    <2>5. CASE \E f \in Field : \E v \in Value[f] : Set(f, v)
        BY <2>4, <2>5 DEF Set
    <2> QED BY <1>1, <2>1, <2>2, <2>3, <2>4, <2>5
            DEF Next, vars, KernelRemove, EnableNotif, Load, Get, Reload,
                LoadStats, Dispatch, Process, DispatchEnds
<1>2. Spec => [][Whole]_vars
    BY <1>1, SpecInv, PTL DEF Spec
<1> QED BY <1>2 DEF AppliedIsWhole

(* No notification touches what a caller set and did not apply yet.        *)
THEOREM PendingKept == Spec => NotifKeepsPending
<1> DEFINE Kept == loop = "notify" /\ iface.state = "dirty"
                       => [iface' EXCEPT !.oper = iface.oper] = iface
<1>1. ASSUME IfaceInv, [Next]_vars PROVE [Kept]_vars
    <2> SUFFICES ASSUME loop = "notify", iface.state = "dirty"
                 PROVE  [iface' EXCEPT !.oper = iface.oper] = iface
        OBVIOUS
    <2>1. [iface EXCEPT !.oper = iface.oper] = iface
        BY <1>1 DEF IfaceInv, TypeOK, IfaceRecord
    <2>2. CASE Process
        <3>1. ntfq # <<>> /\ (iface' = iface \/ iface' \in Syncs(Notified, kern, present))
            BY <2>2 DEF Process, Notified
        <3>2. /\ Notified.state = "dirty"
              /\ [Notified EXCEPT !.oper = iface.oper] = iface
            BY <1>1, <3>1, NotifiedSound
        <3>3. iface' = iface \/ iface' = Notified
            BY <3>1, <3>2 DEF Syncs
        <3> QED BY <2>1, <3>2, <3>3
    <2>3. CASE iface' = iface
        BY <2>1, <2>3
    <2> QED BY <1>1, <2>2, <2>3
            DEF Next, vars, KernelOper, KernelRemove, EnableNotif, Load, Set,
                Get, Reload, LoadStats, Apply, ApplyFails, Callable, Dispatch, DispatchEnds
<1>2. Spec => [][Kept]_vars
    BY <1>1, SpecInv, PTL DEF Spec
<1> QED BY <1>2 DEF NotifKeepsPending

(***************************************************************************)
(* Refinement: the object acts as a draft of its link.  The mask of a      *)
(* sound object names all in which it differs from the link, so what an    *)
(* apply sends is as good as the whole draft.                              *)
(***************************************************************************)
Shown == IF Usable(iface) THEN iface.conf ELSE Closed

(* A usable object shows a proper configuration.                           *)
LEMMA SoundProper ==
    ASSUME NEW i \in IfaceRecord, NEW link \in Link, Sound(i, link), Usable(i)
    PROVE  i.conf \in ProperConf /\ i.conf # Closed
    BY ClosedAssumption DEF Sound, MtuFits, ProperConf, IfaceRecord

(* An outcome of a reload opens the draft anew, or closes it.              *)
LEMMA ReloadsOpen ==
    ASSUME IfaceInv, UNCHANGED kern, NEW i \in IfaceRecord,
           iface' \in Reloads(i, kern, present)
    PROVE  Abstract!Open \/ Abstract!Close
<1>1. CASE Usable(iface')
    <2>1. /\ iface' = Fill(kern) /\ IsLinkValid(kern) /\ kern \in Link
          /\ MtuFits(kern.conf)
        BY <1>1 DEF Reloads, Invalidated, Fill, Usable, IfaceRecord, IfaceInv, TypeOK
    <2>2. kern.conf \in ProperConf /\ iface'.conf = kern.conf
        BY <2>1 DEF ProperConf, MtuFits, IsLinkValid, Link, Fill
    <2> QED BY <1>1, <2>2 DEF Abstract!Open
<1>2. CASE ~ Usable(iface')
    BY <1>2 DEF Abstract!Close
<1> QED BY <1>1, <1>2

(* A call that sets an attribute edits the draft, opened first if need be, *)
(* or finds that it cannot be opened.                                      *)
LEMMA SetEdits ==
    ASSUME IfaceInv, IfaceInv', NEW f \in Field, NEW v \in Value[f], Set(f, v)
    PROVE  Abstract!Edit(f) \/ Abstract!Close
<1>0. /\ kern \in Link /\ iface \in IfaceRecord /\ present \in BOOLEAN
      /\ Sound(iface, kern) /\ MtuFits(kern.conf) /\ iface.state # "none"
      /\ UNCHANGED kern
    BY DEF IfaceInv, TypeOK, Set, Callable
<1>1. PICK i \in Syncs(iface, kern, present) :
        iface' = IF Usable(i) THEN WithField(i, f, v) ELSE i
    BY DEF Set
<1>2. i \in IfaceRecord /\ Sound(i, kern)
    BY <1>0, SyncsType, SyncsSound
<1>3. CASE ~ Usable(i)
    BY <1>0, <1>1, <1>3 DEF Abstract!Close
<1>4. CASE Usable(i)
    <2>1. i.conf = Abstract!Base
        <3>1. CASE iface.state = "invalid"
            <4>1. i = Fill(kern)
                BY <1>0, <1>4, <3>1
                   DEF Syncs, Reloads, Invalidated, Fill, Usable, IfaceRecord
            <4> QED BY <3>1, <4>1 DEF Abstract!Base, Usable, Fill
        <3>2. CASE iface.state # "invalid"
            <4>1. i = iface
                BY <3>2 DEF Syncs
            <4> QED BY <1>0, <1>4, <4>1, SoundProper DEF Abstract!Base
        <3> QED BY <3>1, <3>2
    <2>2. i.conf \in ProperConf
        BY <1>0, <1>2, <1>4, SoundProper
    <2>3. /\ Usable(iface')
          /\ \A g \in Field \ {f} : iface'.conf[g] = i.conf[g]
        BY <1>1, <1>2, <1>4 DEF WithField, Usable, IfaceRecord, Conf
    <2>4. iface'.conf \in ProperConf
        BY <2>3, SoundProper DEF IfaceInv, TypeOK
    <2> QED BY <1>0, <2>1, <2>2, <2>3, <2>4 DEF Abstract!Edit
<1> QED BY <1>3, <1>4

(* An apply commits the draft, and one that fails may do so in part.       *)
LEMMA ApplyCommits ==
    ASSUME IfaceInv
    PROVE  /\ Apply => Abstract!Commit
           /\ \A D \in SUBSET Field : ApplyFails(D) => Abstract!CommitFails
<1>0. /\ kern \in Link /\ iface \in IfaceRecord /\ Sound(iface, kern)
      /\ iface.state = "dirty" => Usable(iface)
    BY DEF IfaceInv, TypeOK, Usable
<1>1. ~ Usable(Invalidated(iface))
    BY <1>0 DEF Invalidated, Usable, IfaceRecord
<1>2. ASSUME Apply PROVE Abstract!Commit
    <2>1. Usable(iface) /\ iface.conf # Closed
        BY <1>0, <1>2, SoundProper DEF Apply
    <2>2. kern'.conf = iface.conf
        BY <1>2, ApplyInv
    <2>3. Shown' \in {iface.conf, Closed}
        BY <1>0, <1>1, <1>2 DEF Apply, Applied, Usable, IfaceRecord, Shown
    <2> QED BY <2>1, <2>2, <2>3 DEF Abstract!Commit, Shown
<1>3. ASSUME NEW D \in SUBSET Field, ApplyFails(D) PROVE Abstract!CommitFails
    <2>1. Usable(iface) /\ iface.conf # Closed /\ ~ Usable(iface')
        BY <1>0, <1>1, <1>3, SoundProper DEF ApplyFails
    <2>2. kern' \in Link
        BY <1>0, <1>3, CommitsType DEF ApplyFails
    <2>3. \A g \in Field : kern'.conf[g] \in {kern.conf[g], iface.conf[g]}
        <3>1. CASE D = {}
            BY <1>3, <3>1 DEF ApplyFails
        <3>2. CASE D # {}
            <4>1. kern'.conf = Overlaid(kern.conf, iface, D)
                BY <1>0, <1>3, <3>2, CommitsType DEF ApplyFails
            <4> QED BY <4>1 DEF Overlaid
        <3> QED BY <3>1, <3>2
    <2>4. kern'.conf \in Conf
        BY <2>2 DEF Link
    <2> QED BY <2>1, <2>3, <2>4 DEF Abstract!CommitFails
<1> QED BY <1>2, <1>3

(* A notification leaves the draft alone, or opens one that was closed.    *)
LEMMA ProcessOpens ==
    ASSUME IfaceInv, Process
    PROVE  Abstract!Open \/ Abstract!Close \/ UNCHANGED <<kern, Shown>>
<1>0. iface \in IfaceRecord /\ kern \in Link /\ UNCHANGED kern
      /\ Notified \in IfaceRecord
    BY NotifiedType DEF IfaceInv, TypeOK, Process
<1>1. Notified.state = iface.state /\ Notified.conf = iface.conf
    BY <1>0 DEF Notified, Refreshed, IfaceRecord
<1>2. iface' = iface \/ iface' \in Syncs(Notified, kern, present)
    BY DEF Process, Notified
<1>3. CASE iface' = iface
    BY <1>0, <1>3 DEF Shown
<1>4. CASE iface' \in Syncs(Notified, kern, present) /\ Notified.state = "invalid"
    BY <1>0, <1>4, ReloadsOpen DEF Syncs
<1>5. CASE iface' \in Syncs(Notified, kern, present) /\ Notified.state # "invalid"
    BY <1>0, <1>1, <1>5 DEF Syncs, Shown, Usable
<1> QED BY <1>2, <1>3, <1>4, <1>5

(* Every step is one of the draft, or leaves it alone.                     *)
LEMMA StepDrafts ==
    ASSUME IfaceInv, IfaceInv', [Next]_vars
    PROVE  [Abstract!Next]_(Abstract!vars)
<1> USE DEF Shown
<1>0. kern \in Link /\ iface \in IfaceRecord
    BY DEF IfaceInv, TypeOK
<1>1. CASE (\E o \in Oper : KernelOper(o)) \/ KernelRemove \/ EnableNotif
           \/ LoadStats \/ Dispatch \/ DispatchEnds \/ UNCHANGED vars
    <2>1. kern'.conf = kern.conf /\ iface' = iface
        BY <1>0, <1>1 DEF KernelOper, KernelRemove, EnableNotif, LoadStats,
               Dispatch, DispatchEnds, vars, Link
    <2> QED BY <2>1 DEF Abstract!vars
<1>2. CASE Load
    <2>1. CASE present /\ IsLinkValid(kern)
        BY <1>0, <1>2, <2>1, ReloadsOpen DEF Load, Reloads, Abstract!Next
    <2>2. CASE ~ (present /\ IsLinkValid(kern))
        BY <1>2, <2>2 DEF Load, Abstract!vars
    <2> QED BY <2>1, <2>2
<1>3. CASE \E f \in Field : \E v \in Value[f] : Set(f, v)
    BY <1>3, SetEdits DEF Abstract!Next
<1>4. CASE Get
    <2>1. CASE iface.state = "invalid"
        BY <1>0, <1>4, <2>1, ReloadsOpen DEF Get, Syncs, Abstract!Next
    <2>2. CASE iface.state # "invalid"
        BY <1>4, <2>2 DEF Get, Syncs, Abstract!vars
    <2> QED BY <2>1, <2>2
<1>5. CASE Reload
    BY <1>0, <1>5, ReloadsOpen DEF Reload, Abstract!Next
<1>6. CASE Apply \/ \E D \in SUBSET Field : ApplyFails(D)
    BY <1>6, ApplyCommits DEF Abstract!Next
<1>7. CASE Process
    BY <1>7, ProcessOpens DEF Abstract!Next, Abstract!vars
<1> QED BY <1>1, <1>2, <1>3, <1>4, <1>5, <1>6, <1>7 DEF Next

(* The object implements a draft of its link, for every set of attributes  *)
(* and values, whatever fails and whatever the kernel does meanwhile.      *)
THEOREM DraftRefinement == Spec => ImplementsDraft
<1>1. Init => Abstract!Init
    BY DEF Init, Link, Fill, Usable, Abstract!Init
<1>2. IfaceInv /\ IfaceInv' /\ [Next]_vars => [Abstract!Next]_(Abstract!vars)
    BY StepDrafts
<1> QED BY <1>1, <1>2, SpecInv, PTL DEF Spec, ImplementsDraft, Abstract!Spec

-----------------------------------------------------------------------------
(* Publication: the machine of Publish runs that of IfaceCache, whose      *)
(* invariant carries over.                                                 *)
USE PublishAssumption

(* Every step of the daemon is one of the interface, or leaves it alone.   *)
LEMMA PublishSteps == [PNext]_pvars => [Next]_vars
    BY DEF PNext, Next, Silent, Call, Setup, Push, PushFails, pvars

(* The daemon is one of the programs the interface is modelled under: what *)
(* is proved of every behaviour of IfaceCache holds of it.                 *)
THEOREM PublishImplements == PSpec => Spec
<1>1. PInit => Init
    BY DEF PInit
<1> QED BY <1>1, PublishSteps, PTL DEF PSpec, Spec

(* The invariant of the interface holds under the daemon.                  *)
LEMMA PublishIface == PSpec => []IfaceInv
<1>1. PInit => IfaceInv
    BY InitInv DEF PInit
<1>2. IfaceInv /\ [PNext]_pvars => IfaceInv'
    BY PublishSteps, NextInv
<1> QED BY <1>1, <1>2, PTL DEF PSpec

(* An object that was loaded stays loaded.                                 *)
LEMMA StaysLoaded ==
    ASSUME IfaceInv, iface.state # "none", [Next]_vars
    PROVE  iface'.state # "none"
<1>0. /\ TypeOK /\ kern \in Link /\ iface \in IfaceRecord
      /\ present \in BOOLEAN /\ Sound(iface, kern) /\ MtuFits(kern.conf)
    BY DEF IfaceInv, TypeOK
<1>1. ASSUME NEW i \in IfaceRecord
      PROVE  Applied(i).state # "none" /\ Invalidated(i).state # "none"
    BY <1>1 DEF Applied, Invalidated, IfaceRecord
<1>2. ASSUME NEW f \in Field, NEW v \in Value[f], Set(f, v)
      PROVE  iface'.state # "none"
    <2>1. PICK i \in Syncs(iface, kern, present) :
            iface' = IF Usable(i) THEN WithField(i, f, v) ELSE i
        BY <1>2 DEF Set
    <2>2. i \in IfaceRecord /\ Sound(i, kern) /\ i.state # "none"
        BY <1>0, <1>2, SyncsType, SyncsSound DEF Set
    <2> QED BY <1>0, <2>1, <2>2, WithFieldSound
<1>3. ASSUME Get PROVE iface'.state # "none"
    BY <1>0, <1>3, SyncsSound DEF Get
<1>4. ASSUME Reload PROVE iface'.state # "none"
    BY <1>0, <1>4, ReloadsSound DEF Reload
<1>5. ASSUME Apply PROVE iface'.state # "none"
    BY <1>0, <1>1, <1>5 DEF Apply
<1>6. ASSUME NEW D \in SUBSET Field, ApplyFails(D) PROVE iface'.state # "none"
    BY <1>0, <1>1, <1>6 DEF ApplyFails
<1>7. ASSUME Process PROVE iface'.state # "none"
    <2>1. ntfq # <<>> /\ (iface' = iface \/ iface' \in Syncs(Notified, kern, present))
        BY <1>7 DEF Process, Notified
    <2>2. /\ Notified \in IfaceRecord /\ Sound(Notified, kern)
          /\ Notified.state = iface.state
        BY <1>0, <2>1, NotifiedType, NotifiedSound
    <2> QED BY <1>0, <2>1, <2>2, SyncsSound
<1>8. CASE iface' = iface
    BY <1>8
<1> QED BY <1>2, <1>3, <1>4, <1>5, <1>6, <1>7, <1>8
        DEF Next, vars, KernelOper, KernelRemove, EnableNotif, Load, LoadStats,
            Dispatch, DispatchEnds

(***************************************************************************)
(* The leaves follow the object unless the daemon is behind.               *)
(***************************************************************************)
PublishInv ==
    /\ PublishTypeOK
    /\ ready => joined /\ iface.state # "none"
    /\ ready /\ ~ behind => status = OperstateStr[iface.oper]

(* Before anything is published there is nothing to keep in line.          *)
LEMMA PublishInit == PInit => PublishInv
<1> SUFFICES ASSUME PInit PROVE PublishInv
    OBVIOUS
<1>1. /\ ready = FALSE /\ behind = FALSE /\ failures = 0
      /\ status = "none" /\ admin = "none"
    BY DEF PInit
<1>2. failures \in 0 .. MaxFailures
    BY <1>1
<1> QED BY <1>1, <1>2 DEF PublishInv, PublishTypeOK

(* What the daemon publishes has the types of the leaves.                  *)
LEMMA PublishesType ==
    ASSUME NEW i \in IfaceRecord, Publishable(i), Publishes(i)
    PROVE  /\ status' \in OperStatus /\ admin' \in Value["up"]
           /\ status' = OperstateStr[i.oper] /\ behind' = FALSE
<1>1. i.conf["up"] \in Value["up"]
    BY ConfElim DEF IfaceRecord
<1> QED BY <1>1 DEF Publishes, Publishable

(* A step that publishes nothing keeps the leaves in line.                 *)
LEMMA SilentInv ==
    ASSUME IfaceInv, PublishInv, [Next]_vars, joined' = joined \/ ~ ready,
           behind' = (behind \/ (ready /\ iface'.oper # iface.oper)),
           UNCHANGED <<ready, status, admin, failures>>
    PROVE  PublishInv'
<1>1. PublishTypeOK'
    BY DEF PublishInv, PublishTypeOK
<1>2. ready' => joined' /\ iface'.state # "none"
    BY StaysLoaded DEF PublishInv
<1> QED BY <1>1, <1>2 DEF PublishInv

(* The leaves stay in line whatever the daemon does.                       *)
LEMMA PublishNext ==
    IfaceInv /\ PublishInv /\ [PNext]_pvars => PublishInv'
<1> SUFFICES ASSUME IfaceInv, PublishInv, [PNext]_pvars PROVE PublishInv'
    OBVIOUS
<1>0. /\ [Next]_vars /\ IfaceInv' /\ TypeOK'
      /\ iface \in IfaceRecord /\ iface' \in IfaceRecord
    BY PublishSteps, NextInv DEF IfaceInv, TypeOK
<1>1. CASE UNCHANGED pvars
    BY <1>1 DEF pvars, vars, leaves, PublishInv, PublishTypeOK
<1>2. CASE Setup
    <2>1. joined
        BY <1>2 DEF Setup, IfaceInv
    <2>2. UNCHANGED <<joined, iface, failures>> /\ ready' = TRUE
        BY <1>2 DEF Setup, vars
    <2>3. /\ status' \in OperStatus /\ admin' \in Value["up"]
          /\ status' = OperstateStr[iface.oper] /\ behind' = FALSE
        BY <1>0, <1>2, PublishesType DEF Setup
    <2> QED BY <1>2, <2>1, <2>2, <2>3 DEF Setup, PublishInv, PublishTypeOK
<1>3. ASSUME Process, UNCHANGED ready
      PROVE  ready' => joined' /\ iface'.state # "none"
    BY <1>0, <1>3, StaysLoaded DEF PublishInv, Process
<1>4. CASE Push
    <2>1. /\ status' \in OperStatus /\ admin' \in Value["up"]
          /\ status' = OperstateStr[iface'.oper] /\ behind' = FALSE
        BY <1>0, <1>4, PublishesType DEF Push
    <2> QED BY <1>3, <1>4, <2>1 DEF Push, PublishInv, PublishTypeOK
<1>5. CASE PushFails
    <2>1. failures' \in 0 .. MaxFailures
        BY <1>5 DEF PushFails, PublishInv, PublishTypeOK
    <2>2. status' \in {status, "none"} /\ admin' \in {admin, "none"}
        BY <1>5 DEF PushFails
    <2> QED BY <1>3, <1>5, <2>1, <2>2 DEF PushFails, PublishInv, PublishTypeOK
<1>6. CASE \/ Silent(\E o \in Oper : KernelOper(o))
           \/ Silent(KernelRemove)
           \/ ~ ready /\ Silent(EnableNotif)
           \/ ~ ready /\ Silent(Load)
           \/ ready /\ Silent(Call)
           \/ ready /\ Silent(Dispatch)
           \/ ~ Tells /\ Silent(Process)
           \/ Silent(DispatchEnds)
    <2>1. joined' = joined \/ ~ ready
        BY <1>6 DEF Silent, Call, KernelOper, KernelRemove, Set, Get, LoadStats,
                    Apply, ApplyFails, Dispatch, Process, DispatchEnds
    <2>2. /\ behind' = (behind \/ (ready /\ iface'.oper # iface.oper))
          /\ UNCHANGED <<ready, status, admin, failures>>
        BY <1>6 DEF Silent
    <2> QED BY <1>0, <2>1, <2>2, SilentInv
<1> QED BY <1>1, <1>2, <1>4, <1>5, <1>6 DEF PNext

(* A daemon that caught up, and whose last publication succeeded, shows    *)
(* the state of the link: no interleaving of notifications, requests and   *)
(* reloads leaves an older one in the datastore.                           *)
THEOREM PublicationSafety == PSpec => []PublishedCurrent
<1>1. PSpec => [](IfaceInv /\ PublishInv)
    BY PublishInit, PublishIface, PublishNext, PTL DEF PSpec
<1>2. IfaceInv /\ PublishInv => PublishedCurrent
    <2> SUFFICES ASSUME IfaceInv, PublishInv, AtRest, ~ behind
                 PROVE  status = OperstateStr[kern.oper]
        BY DEF PublishedCurrent
    <2>1. sockq = <<>> /\ ntfq = <<>>
        <3>1. sockq \in Seq(Message) /\ ntfq \in Seq(Message)
            BY DEF IfaceInv, TypeOK
        <3>2. sockq # <<>> => sockq \o ntfq # <<>>
            BY <3>1, ConcatProperties DEF AtRest
        <3> QED BY <3>1, <3>2, NewestConcat DEF AtRest
    <2>2. iface.oper = kern.oper
        BY <2>1 DEF AtRest, IfaceInv, PublishInv, OperTracked
    <2> QED BY <2>2 DEF AtRest, PublishInv
<1> QED BY <1>1, <1>2, PTL

(* Types of what is published.                                             *)
THEOREM PublicationTyped == PSpec => []PublishTypeOK
<1>1. PublishInv => PublishTypeOK
    BY DEF PublishInv
<1> QED BY <1>1, PublishInit, PublishIface, PublishNext, PTL DEF PSpec
=============================================================================

---------------------------- MODULE ObsrvProofs ----------------------------
(* What an iteration over the subscribers keeps, for any set of them, and  *)
(* callbacks that end their own subscriptions and subscribe others.        *)
EXTENDS Obsrv, SequenceTheorems, TLAPS

USE ObsrvAssumption

Node == Subscriber \cup {ListHead}

(* The callbacks the iterations are written for: obsrv.h leaves a plain    *)
(* iteration alone, and in a safe one a callback may end its own           *)
(* subscription.                                                           *)
OwnLeaves == {<<"safe", "self">>}

(* The next subscriber is another one that is in the list; those before it *)
(* were told, those from it on were not.                                   *)
Pending ==
    kind # "idle" =>
        /\ at # after
        /\ after \in Subscribed \cup {ListHead}
        /\ after = ListHead => \A s \in began : told[s] = 1
        /\ \A i, j \in DOMAIN subs :
              subs[i] \in began /\ subs[j] = after =>
                  told[subs[i]] = IF i < j THEN 1 ELSE 0
        /\ kind = "plain" => at \in Subscribed /\ after = Successor(at)

ObsrvInv == TypeOK /\ Pending

(***************************************************************************)
(* The list.                                                               *)
(***************************************************************************)
(* A sequence without the element at p: those after it move up.            *)
LEMMA RemovedAt ==
    ASSUME NEW S, NEW q \in Seq(S), NEW p \in DOMAIN q
    PROVE  /\ RemoveAt(q, p) \in Seq(S)
           /\ Len(RemoveAt(q, p)) = Len(q) - 1
           /\ \A k \in 1 .. Len(q) - 1 :
                 RemoveAt(q, p)[k] = IF k < p THEN q[k] ELSE q[k + 1]
<1> DEFINE a == SubSeq(q, 1, p - 1)
           b == SubSeq(q, p + 1, Len(q))
<1>1. Len(q) \in Nat /\ p \in 1 .. Len(q)
    BY LenProperties
<1>2. a \in Seq(S) /\ Len(a) = p - 1 /\ \A k \in 1 .. p - 1 : a[k] = q[k]
    BY <1>1, SubSeqProperties
<1>3. /\ b \in Seq(S) /\ Len(b) = Len(q) - p
      /\ \A k \in 1 .. Len(q) - p : b[k] = q[p + k]
    <2>1. \A k \in p + 1 .. Len(q) : q[k] \in S
        BY <1>1, ElementOfSeq
    <2> QED BY <1>1, <2>1, SubSeqProperties
<1> HIDE DEF a, b
<1>4. /\ a \o b \in Seq(S) /\ Len(a \o b) = Len(a) + Len(b)
      /\ \A k \in 1 .. Len(a) + Len(b) :
            (a \o b)[k] = IF k <= Len(a) THEN a[k] ELSE b[k - Len(a)]
    BY <1>2, <1>3, ConcatProperties
<1>5. RemoveAt(q, p) = a \o b
    BY DEF RemoveAt, a, b
<1>6. ASSUME NEW k \in 1 .. Len(q) - 1
      PROVE  (a \o b)[k] = IF k < p THEN q[k] ELSE q[k + 1]
    <2>1. CASE k < p
        <3>1. k \in 1 .. Len(a) + Len(b) /\ k <= Len(a) /\ k \in 1 .. p - 1
            BY <1>1, <1>2, <1>3, <2>1
        <3>2. (a \o b)[k] = a[k]
            BY <1>4, <3>1
        <3>3. a[k] = q[k]
            BY <1>2, <3>1
        <3> QED BY <2>1, <3>2, <3>3
    <2>2. CASE ~ k < p
        <3> DEFINE x == k - (p - 1)
        <3>1. x \in 1 .. Len(q) - p /\ p + x = k + 1
            BY <1>1, <2>2
        <3>2. (a \o b)[k] = b[x]
            <4>1. k \in 1 .. Len(a) + Len(b) /\ ~ k <= Len(a) /\ x = k - Len(a)
                BY <1>1, <1>2, <1>3, <2>2
            <4> HIDE DEF x
            <4> QED BY <1>4, <4>1
        <3> HIDE DEF x
        <3>3. b[x] = q[k + 1]
            BY <1>3, <3>1
        <3> QED BY <1>1, <2>2, <3>2, <3>3
    <2> QED BY <2>1, <2>2
<1>7. Len(a \o b) = Len(q) - 1
    BY <1>1, <1>2, <1>3, <1>4
<1>8. /\ a \o b \in Seq(S) /\ Len(a \o b) = Len(q) - 1
      /\ \A k \in 1 .. Len(q) - 1 : (a \o b)[k] = IF k < p THEN q[k] ELSE q[k + 1]
    BY <1>4, <1>6, <1>7
<1> QED BY <1>5, <1>8

(* A subscriber has one position.                                          *)
LEMMA PositionOf ==
    ASSUME TypeOK, NEW s \in Subscribed
    PROVE  /\ Position(s) \in DOMAIN subs /\ subs[Position(s)] = s
           /\ \A j \in DOMAIN subs : subs[j] = s => j = Position(s)
<1>1. \E i \in DOMAIN subs : subs[i] = s
    BY DEF Subscribed, ToSet
<1>2. Position(s) \in DOMAIN subs /\ subs[Position(s)] = s
    BY <1>1 DEF Position
<1> QED BY <1>2 DEF TypeOK, IsInjective

(* What is first, or follows a subscriber, is in the list or its head, and *)
(* nobody follows himself.                                                 *)
LEMMA SuccessorOf ==
    ASSUME TypeOK
    PROVE  /\ Subscribed \subseteq Subscriber
           /\ First \in Subscribed \cup {ListHead}
           /\ \A n \in Node : Successor(n) \in Node
           /\ \A n \in Subscribed :
                 /\ Successor(n) \in Subscribed \cup {ListHead}
                 /\ Successor(n) # n
                 /\ Successor(n) = IF Position(n) = Len(subs) THEN ListHead
                                   ELSE subs[Position(n) + 1]
<1>1. Len(subs) \in Nat /\ DOMAIN subs = 1 .. Len(subs)
      /\ \A i \in 1 .. Len(subs) : subs[i] \in Subscriber
    BY LenProperties, ElementOfSeq DEF TypeOK
<1>2. Subscribed \subseteq Subscriber
    BY <1>1 DEF Subscribed, ToSet
<1>3. First \in Subscribed \cup {ListHead}
    <2>1. subs # <<>> => 1 \in DOMAIN subs
        BY <1>1, EmptySeq DEF TypeOK
    <2> QED BY <2>1 DEF First, Subscribed, ToSet
<1>4. ASSUME NEW n \in Subscribed
      PROVE  /\ Successor(n) \in Subscribed \cup {ListHead}
             /\ Successor(n) # n
             /\ Successor(n) = IF Position(n) = Len(subs) THEN ListHead
                               ELSE subs[Position(n) + 1]
    <2>1. n # ListHead
        BY <1>2
    <2>2. Successor(n) = IF Position(n) = Len(subs) THEN ListHead
                         ELSE subs[Position(n) + 1]
        BY <2>1 DEF Successor
    <2>3. CASE Position(n) = Len(subs)
        BY <2>1, <2>2, <2>3
    <2>4. CASE Position(n) # Len(subs)
        <3>1. Position(n) + 1 \in DOMAIN subs /\ Position(n) + 1 # Position(n)
            BY <1>1, <2>4, PositionOf
        <3>2. subs[Position(n) + 1] # n
            BY <3>1, PositionOf
        <3>3. subs[Position(n) + 1] \in Subscribed
            BY <3>1 DEF Subscribed, ToSet
        <3> QED BY <2>2, <2>4, <3>2, <3>3
    <2> QED BY <2>2, <2>3, <2>4
<1>5. ASSUME NEW n \in Node
      PROVE  Successor(n) \in Node
    <2>1. CASE n \in Subscribed
        BY <1>2, <1>4, <2>1 DEF Node
    <2>2. CASE n \notin Subscribed
        BY <1>2, <1>3, <2>2 DEF Node, Successor
    <2> QED BY <2>1, <2>2
<1> QED BY <1>2, <1>3, <1>4, <1>5

(* Whoever subscribes comes last, and the others keep their places.        *)
LEMMA Joined ==
    ASSUME TypeOK, NEW s \in Subscriber \ Subscribed, subs' = Append(subs, s)
    PROVE  /\ subs' \in Seq(Subscriber) /\ IsInjective(subs')
           /\ Subscribed' = Subscribed \cup {s}
           /\ DOMAIN subs' = DOMAIN subs \cup {Len(subs) + 1}
           /\ \A i \in DOMAIN subs : subs'[i] = subs[i]
           /\ subs'[Len(subs) + 1] = s
<1>1. subs \in Seq(Subscriber) /\ Len(subs) \in Nat /\ DOMAIN subs = 1 .. Len(subs)
    BY LenProperties DEF TypeOK
<1>2. /\ subs' \in Seq(Subscriber) /\ Len(subs') = Len(subs) + 1
      /\ \A i \in 1 .. Len(subs) : subs'[i] = subs[i]
      /\ subs'[Len(subs) + 1] = s
    BY <1>1, AppendProperties
<1>3. DOMAIN subs' = DOMAIN subs \cup {Len(subs) + 1}
    BY <1>1, <1>2, LenProperties
<1>4. \A i \in DOMAIN subs : subs[i] # s
    BY DEF Subscribed, ToSet
<1>5. IsInjective(subs')
    BY <1>1, <1>2, <1>3, <1>4 DEF IsInjective, TypeOK
<1>6. Subscribed' = Subscribed \cup {s}
    BY <1>1, <1>2, <1>3 DEF Subscribed, ToSet
<1> QED BY <1>1, <1>2, <1>3, <1>5, <1>6

(* Whoever leaves is not in the list any more, and the others keep their   *)
(* order: what was at position Was(i) is at i.                             *)
Was(p, i) == IF i < p THEN i ELSE i + 1

LEMMA Left ==
    ASSUME TypeOK, NEW s \in Subscribed, subs' = RemoveAt(subs, Position(s))
    PROVE  /\ subs' \in Seq(Subscriber) /\ IsInjective(subs')
           /\ Subscribed' = Subscribed \ {s}
           /\ \A i \in DOMAIN subs' :
                 /\ Was(Position(s), i) \in DOMAIN subs
                 /\ subs'[i] = subs[Was(Position(s), i)]
           /\ \A i, j \in DOMAIN subs' :
                 i < j <=> Was(Position(s), i) < Was(Position(s), j)
<1> DEFINE p == Position(s)
<1>1. /\ subs \in Seq(Subscriber) /\ Len(subs) \in Nat
      /\ DOMAIN subs = 1 .. Len(subs) /\ p \in 1 .. Len(subs)
      /\ subs[p] = s /\ \A j \in 1 .. Len(subs) : subs[j] = s => j = p
    BY LenProperties, PositionOf DEF TypeOK
<1> HIDE DEF p
<1>2. subs' = RemoveAt(subs, p)
    BY DEF p
<1>3. /\ subs' \in Seq(Subscriber) /\ Len(subs') = Len(subs) - 1
      /\ \A k \in 1 .. Len(subs) - 1 :
            subs'[k] = IF k < p THEN subs[k] ELSE subs[k + 1]
    <2>1. p \in DOMAIN subs
        BY <1>1
    <2> QED BY <1>1, <1>2, <2>1, RemovedAt
<1>4. DOMAIN subs' = 1 .. Len(subs) - 1
    BY <1>3, LenProperties
<1>5. \A i \in 1 .. Len(subs) - 1 :
         /\ Was(p, i) \in 1 .. Len(subs) /\ Was(p, i) # p
         /\ subs'[i] = subs[Was(p, i)]
    BY <1>1, <1>3 DEF Was
<1>6. \A i, j \in 1 .. Len(subs) - 1 :
         /\ i < j <=> Was(p, i) < Was(p, j)
         /\ Was(p, i) = Was(p, j) => i = j
    BY <1>1 DEF Was
<1>7. IsInjective(subs')
    BY <1>1, <1>4, <1>5, <1>6 DEF IsInjective, TypeOK
<1>8. Subscribed' = Subscribed \ {s}
    <2>1. ASSUME NEW i \in DOMAIN subs'
          PROVE  subs'[i] \in Subscribed \ {s}
        BY <1>1, <1>4, <1>5 DEF Subscribed, ToSet
    <2>2. ASSUME NEW j \in DOMAIN subs, subs[j] # s
          PROVE  \E i \in DOMAIN subs' : subs'[i] = subs[j]
        <3>1. CASE j < p
            BY <1>1, <1>3, <1>4, <3>1
        <3>2. CASE j > p
            <4>1. j - 1 \in 1 .. Len(subs) - 1 /\ ~ j - 1 < p /\ j - 1 + 1 = j
                BY <1>1, <3>2
            <4> QED BY <1>3, <1>4, <4>1
        <3> QED BY <1>1, <2>2, <3>1, <3>2
    <2> QED BY <2>1, <2>2 DEF Subscribed, ToSet
<1> QED BY <1>1, <1>3, <1>4, <1>5, <1>6, <1>7, <1>8 DEF p

(***************************************************************************)
(* Types, whichever subscriptions a callback may end.                      *)
(***************************************************************************)
(* A step of the iteration keeps the types.                                *)
LEMMA ReachType ==
    ASSUME TypeOK, NEW n \in Node, kind # "idle", Reach(n),
           n # ListHead => kind' = kind, UNCHANGED <<subs, began>>
    PROVE  TypeOK'
<1>1. at' = n /\ Subscribed' = Subscribed
    BY DEF Reach, Subscribed
<1>2. CASE n = ListHead
    BY <1>1, <1>2 DEF Reach, TypeOK, IsInjective
<1>3. CASE n # ListHead
    <2>1. Successor(n) \in Node
        BY SuccessorOf
    <2>2. /\ after' = Successor(n) /\ kind' = kind
          /\ told' = [told EXCEPT ![n] = IF @ = 2 THEN 2 ELSE @ + 1]
        BY <1>3 DEF Reach
    <2>3. told' \in [Subscriber -> 0 .. 2]
        <3>1. n \in Subscriber /\ told[n] \in 0 .. 2
            BY <1>3 DEF Node, TypeOK
        <3> QED BY <2>2, <3>1 DEF TypeOK
    <2> QED BY <1>1, <1>3, <2>1, <2>2, <2>3 DEF TypeOK, Node, IsInjective
<1> QED BY <1>2, <1>3

(* A callback returns, and the iteration goes on to a node.                *)
LEMMA AdvanceReaches ==
    ASSUME TypeOK, Advance
    PROVE  LET n == IF kind = "safe" THEN after ELSE Successor(at)
           IN  /\ n \in Node /\ kind # "idle" /\ Reach(n)
               /\ n # ListHead => kind' = kind
               /\ UNCHANGED <<subs, began>>
<1>1. Successor(at) \in Node /\ after \in Node
    BY SuccessorOf DEF TypeOK, Node
<1> QED BY <1>1 DEF Advance

(* The types are inductive.                                                *)
LEMMA StepType == TypeOK /\ [Next]_vars => TypeOK'
<1> SUFFICES ASSUME TypeOK, [Next]_vars PROVE TypeOK'
    OBVIOUS
<1>1. CASE UNCHANGED vars
    BY <1>1 DEF vars, TypeOK, Subscribed, IsInjective
<1>2. ASSUME NEW s \in Subscriber, Subscribe(s)
      PROVE  TypeOK'
    BY <1>2, Joined DEF Subscribe, TypeOK
<1>3. ASSUME NEW s \in Subscriber, Unsubscribe(s)
      PROVE  TypeOK'
    BY <1>3, Left DEF Unsubscribe, TypeOK
<1>4. ASSUME NEW k \in {"plain", "safe"}, Notify(k)
      PROVE  TypeOK'
    <2>1. First \in Subscribed
        <3>1. Len(subs) \in Nat /\ DOMAIN subs = 1 .. Len(subs) /\ Len(subs) # 0
            BY <1>4, LenProperties, EmptySeq DEF Notify, TypeOK
        <3>2. First = subs[1] /\ 1 \in DOMAIN subs
            BY <1>4, <3>1 DEF Notify, First
        <3> QED BY <3>2 DEF Subscribed, ToSet
    <2>2. First \in Subscriber /\ Successor(First) \in Node
        BY <2>1, SuccessorOf DEF Node
    <2> QED BY <1>4, <2>2 DEF Notify, TypeOK, Subscribed, Node, IsInjective
<1>5. CASE Advance
    <2> DEFINE n == IF kind = "safe" THEN after ELSE Successor(at)
    <2>1. /\ n \in Node /\ kind # "idle" /\ Reach(n)
          /\ n # ListHead => kind' = kind
          /\ UNCHANGED <<subs, began>>
        BY <1>5, AdvanceReaches
    <2> HIDE DEF n
    <2> QED BY <2>1, ReachType
<1> QED BY <1>1, <1>2, <1>3, <1>4, <1>5 DEF Next

(* At first nobody is subscribed.                                          *)
LEMMA InitType == Init => TypeOK /\ Pending
<1> SUFFICES ASSUME Init PROVE TypeOK /\ Pending
    OBVIOUS
<1>1. <<>> \in Seq(Subscriber) /\ DOMAIN <<>> = {}
    BY EmptySeq
<1> QED BY <1>1 DEF Init, TypeOK, Pending, IsInjective

(***************************************************************************)
(* The iteration, while callbacks end no subscription but their own.       *)
(***************************************************************************)
(* The sequence as a function, and its members.                            *)
LEMMA Listed ==
    ASSUME TypeOK
    PROVE  /\ Len(subs) \in Nat /\ DOMAIN subs = 1 .. Len(subs)
           /\ \A s \in Subscribed : \E i \in DOMAIN subs : subs[i] = s
           /\ \A i \in DOMAIN subs : subs[i] \in Subscribed
           /\ \A i, j \in DOMAIN subs : subs[i] = subs[j] => i = j
           /\ Subscribed \subseteq Subscriber
    BY LenProperties, SuccessorOf DEF TypeOK, Subscribed, ToSet, IsInjective

(* A notification begins with the first subscriber.                        *)
LEMMA NotifyStep ==
    ASSUME TypeOK, NEW k \in {"plain", "safe"}, Notify(k)
    PROVE  Pending'
<1>1. /\ subs' = subs /\ at' = First /\ after' = Successor(First)
      /\ began' = Subscribed /\ kind' = k /\ subs # <<>>
      /\ told' = [s \in Subscriber |-> IF s = First THEN 1 ELSE 0]
    BY DEF Notify
<1>2. First = subs[1] /\ 1 \in DOMAIN subs
    BY <1>1, Listed, EmptySeq DEF First, TypeOK
<1>3. First \in Subscribed /\ Position(First) = 1
    BY <1>2, Listed, PositionOf
<1>4. /\ Successor(First) \in Subscribed \cup {ListHead}
      /\ Successor(First) # First
      /\ Successor(First) = IF 1 = Len(subs) THEN ListHead ELSE subs[2]
    <2>1. /\ Successor(First) \in Subscribed \cup {ListHead}
          /\ Successor(First) # First
          /\ Successor(First) = IF Position(First) = Len(subs) THEN ListHead
                                ELSE subs[Position(First) + 1]
        BY <1>3, SuccessorOf
    <2>2. Position(First) + 1 = 2
        BY <1>3
    <2> QED BY <1>3, <2>1, <2>2
<1>5. \A i \in DOMAIN subs : told'[subs[i]] = IF i = 1 THEN 1 ELSE 0
    BY <1>1, <1>2, Listed
<1>6. after' = ListHead => \A s \in began' : told'[s] = 1
    <2> SUFFICES ASSUME after' = ListHead, NEW s \in Subscribed
                 PROVE  told'[s] = 1
        BY <1>1
    <2>1. 1 = Len(subs)
        <3>1. 1 # Len(subs) => 2 \in DOMAIN subs
            BY <1>2, Listed
        <3> QED BY <1>1, <1>4, <3>1, Listed
    <2> QED BY <1>5, <2>1, Listed
<1>7. ASSUME NEW i \in DOMAIN subs, NEW j \in DOMAIN subs, subs[j] = after'
      PROVE  told'[subs[i]] = IF i < j THEN 1 ELSE 0
    <2>1. subs[j] # ListHead
        BY Listed
    <2>2. 1 # Len(subs) /\ subs[j] = subs[2] /\ 2 \in DOMAIN subs
        BY <1>1, <1>2, <1>4, <1>7, <2>1, Listed
    <2>3. j = 2
        BY <2>2, Listed
    <2> QED BY <1>5, <2>3, Listed
<1>8. Subscribed' = Subscribed
    BY <1>1 DEF Subscribed
<1>9. Successor(at)' = Successor(First)
    BY <1>1, <1>8 DEF Successor, Position, First
<1> QED BY <1>1, <1>3, <1>4, <1>6, <1>7, <1>8, <1>9 DEF Pending

(* An iteration goes on with the subscriber that comes next in the list,   *)
(* whichever of the two ways it is found.                                  *)
LEMMA AdvanceStep ==
    ASSUME TypeOK, Pending, Advance
    PROVE  Pending'
<1>1. kind # "idle" /\ (kind = "plain" => after = Successor(at))
    BY DEF Advance, Pending
<1>2. Reach(after) /\ (after # ListHead => kind' = kind)
      /\ UNCHANGED <<subs, began>>
    BY <1>1 DEF Advance, TypeOK
<1>3. CASE after = ListHead
    BY <1>2, <1>3 DEF Reach, Pending
<1>4. CASE after # ListHead
    <2> DEFINE p == Position(after)
    <2>1. after \in Subscribed
        BY <1>1, <1>4 DEF Pending
    <2>2. /\ p \in DOMAIN subs /\ subs[p] = after
          /\ \A j \in DOMAIN subs : subs[j] = after => j = p
        BY <2>1, PositionOf
    <2>3. /\ Successor(after) \in Subscribed \cup {ListHead}
          /\ Successor(after) # after
          /\ Successor(after) = IF p = Len(subs) THEN ListHead ELSE subs[p + 1]
        BY <2>1, SuccessorOf
    <2>4. /\ at' = after /\ after' = Successor(after) /\ kind' = kind
          /\ told' = [told EXCEPT ![after] = IF @ = 2 THEN 2 ELSE @ + 1]
        BY <1>2, <1>4 DEF Reach
    <2> HIDE DEF p
    <2>5. ASSUME NEW i \in DOMAIN subs, subs[i] \in began
          PROVE  told'[subs[i]] = IF i <= p THEN 1 ELSE 0
        <3>1. told[subs[i]] = IF i < p THEN 1 ELSE 0
            BY <1>1, <2>2, <2>5 DEF Pending
        <3>2. subs[i] \in Subscriber /\ (subs[i] = after <=> i = p)
            BY <2>2, Listed
        <3>3. i \in Nat /\ p \in Nat
            BY <2>2, Listed
        <3>4. CASE i = p
            BY <2>4, <3>1, <3>2, <3>3, <3>4 DEF TypeOK
        <3>5. CASE i # p
            BY <2>4, <3>1, <3>2, <3>3, <3>5 DEF TypeOK
        <3> QED BY <3>4, <3>5
    <2>6. after' = ListHead => \A s \in began' : told'[s] = 1
        <3> SUFFICES ASSUME after' = ListHead, NEW s \in began
                     PROVE  told'[s] = 1
            BY <1>2
        <3>1. p = Len(subs)
            <4>1. p # Len(subs) => p + 1 \in DOMAIN subs
                BY <2>2, Listed
            <4> QED BY <2>3, <2>4, <4>1, Listed
        <3>2. PICK i \in DOMAIN subs : subs[i] = s
            BY Listed DEF TypeOK
        <3> QED BY <2>5, <3>1, <3>2, Listed
    <2>7. ASSUME NEW i \in DOMAIN subs, NEW j \in DOMAIN subs,
                 subs[i] \in began, subs[j] = after'
          PROVE  told'[subs[i]] = IF i < j THEN 1 ELSE 0
        <3>1. subs[j] # ListHead
            BY Listed
        <3>2. p # Len(subs) /\ subs[j] = subs[p + 1] /\ p + 1 \in DOMAIN subs
            BY <2>2, <2>3, <2>4, <2>7, <3>1, Listed
        <3>3. j = p + 1
            BY <3>2, Listed
        <3>4. i <= p <=> i < j
            BY <2>2, <3>3, Listed
        <3> QED BY <2>5, <2>7, <3>4
    <2>8. Subscribed' = Subscribed
        BY <1>2 DEF Subscribed
    <2>9. Successor(at)' = Successor(after)
        BY <1>2, <2>4, <2>8 DEF Successor, Position, First
    <2> QED BY <1>2, <2>1, <2>3, <2>4, <2>6, <2>7, <2>8, <2>9 DEF Pending
<1> QED BY <1>3, <1>4

(* Who subscribes while others are told comes after all of them.           *)
LEMMA SubscribeStep ==
    ASSUME TypeOK, Pending, NEW s \in Subscriber, Subscribe(s)
    PROVE  Pending'
<1>1. /\ UNCHANGED <<kind, at, after, began, told>>
      /\ kind \in {"idle", "safe"} /\ s \notin Subscribed
      /\ subs' = Append(subs, s)
    BY DEF Subscribe, MayJoin
<1>2. /\ Subscribed' = Subscribed \cup {s}
      /\ DOMAIN subs' = DOMAIN subs \cup {Len(subs) + 1}
      /\ \A i \in DOMAIN subs : subs'[i] = subs[i]
      /\ subs'[Len(subs) + 1] = s
    BY <1>1, Joined
<1>3. CASE kind = "idle"
    BY <1>1, <1>3 DEF Pending
<1>4. CASE kind = "safe"
    <2>1. s \notin began /\ s # after
        BY <1>1, <1>4 DEF Pending, TypeOK
    <2>2. ASSUME NEW i \in DOMAIN subs', NEW j \in DOMAIN subs',
                 subs'[i] \in began, subs'[j] = after
          PROVE  told[subs'[i]] = IF i < j THEN 1 ELSE 0
        <3>1. /\ i \in DOMAIN subs /\ subs'[i] = subs[i]
              /\ j \in DOMAIN subs /\ subs'[j] = subs[j]
            BY <1>2, <2>1, <2>2
        <3> QED BY <1>4, <2>2, <3>1 DEF Pending
    <2> QED BY <1>1, <1>2, <1>4, <2>2 DEF Pending
<1> QED BY <1>1, <1>3, <1>4

(* Who ends his own subscription is not the one that comes next.           *)
LEMMA UnsubscribeStep ==
    ASSUME TypeOK, Pending, Leaves \subseteq OwnLeaves,
           NEW s \in Subscriber, Unsubscribe(s)
    PROVE  Pending'
<1>1. /\ UNCHANGED <<kind, at, after, told>> /\ began' = began \ {s}
      /\ s \in Subscribed /\ subs' = RemoveAt(subs, Position(s))
    BY DEF Unsubscribe
<1>2. CASE kind = "idle"
    BY <1>1, <1>2 DEF Pending
<1>3. CASE kind # "idle"
    <2>1. kind = "safe" /\ s = at
        BY <1>3 DEF Unsubscribe, MayLeave, OwnLeaves
    <2>2. s # after
        BY <1>3, <2>1 DEF Pending
    <2> DEFINE p == Position(s)
    <2>3. /\ Subscribed' = Subscribed \ {s}
          /\ \A i \in DOMAIN subs' :
                Was(p, i) \in DOMAIN subs /\ subs'[i] = subs[Was(p, i)]
          /\ \A i, j \in DOMAIN subs' : i < j <=> Was(p, i) < Was(p, j)
        BY <1>1, Left
    <2> HIDE DEF p
    <2>4. ASSUME NEW i \in DOMAIN subs', NEW j \in DOMAIN subs',
                 subs'[i] \in began', subs'[j] = after
          PROVE  told[subs'[i]] = IF i < j THEN 1 ELSE 0
        <3>1. told[subs[Was(p, i)]] = IF Was(p, i) < Was(p, j) THEN 1 ELSE 0
            BY <1>1, <1>3, <2>3, <2>4 DEF Pending
        <3> QED BY <2>3, <3>1
    <2> QED BY <1>1, <1>3, <2>1, <2>2, <2>3, <2>4 DEF Pending
<1> QED BY <1>2, <1>3

(* The invariant of the iteration is inductive.                            *)
LEMMA StepObsrv ==
    ASSUME Leaves \subseteq OwnLeaves
    PROVE  ObsrvInv /\ [Next]_vars => ObsrvInv'
<1> SUFFICES ASSUME ObsrvInv, [Next]_vars PROVE Pending'
    BY StepType DEF ObsrvInv
<1>1. CASE UNCHANGED vars
    BY <1>1 DEF vars, ObsrvInv, Pending, Subscribed, Successor, Position, First
<1>2. CASE Next
    BY <1>2, NotifyStep, AdvanceStep, SubscribeStep, UnsubscribeStep
       DEF Next, ObsrvInv
<1> QED BY <1>1, <1>2

(* Every variable keeps its type, nobody is subscribed twice, and those    *)
(* that were there from the beginning still are, whichever subscriptions   *)
(* callbacks end.                                                          *)
THEOREM ObsrvTyped == Spec => []TypeOK
    BY InitType, StepType, PTL DEF Spec

(* The inductive invariant of an iteration, for callbacks that end no      *)
(* subscription but their own.                                             *)
THEOREM ObsrvInvariant ==
    ASSUME Leaves \subseteq OwnLeaves
    PROVE  Spec => []ObsrvInv
<1>1. Init => ObsrvInv
    BY InitType DEF ObsrvInv
<1>2. ObsrvInv /\ [Next]_vars => ObsrvInv'
    BY StepObsrv
<1> QED BY <1>1, <1>2, PTL DEF Spec

(* Whoever stays subscribed is told exactly once.                          *)
THEOREM EveryoneTold ==
    ASSUME Leaves \subseteq OwnLeaves
    PROVE  Spec => ToldOnce
<1>1. ObsrvInv /\ [Next]_vars =>
          [kind # "idle" /\ kind' = "idle" => \A s \in began : told[s] = 1]_vars
    <2> SUFFICES ASSUME ObsrvInv, [Next]_vars, kind # "idle", kind' = "idle"
                 PROVE  \A s \in began : told[s] = 1
        OBVIOUS
    <2>1. Advance
        BY DEF Next, Subscribe, Unsubscribe, Notify, vars
    <2>2. kind = "safe" \/ after = Successor(at)
        BY DEF ObsrvInv, Pending, TypeOK
    <2>3. after = ListHead
        BY <2>1, <2>2 DEF Advance, Reach
    <2> QED BY <2>3 DEF ObsrvInv, Pending
<1> QED BY <1>1, ObsrvInvariant, PTL DEF Spec, ToldOnce

(* Nobody is told whose subscription ended.                                *)
THEOREM NobodyElseTold ==
    ASSUME Leaves \subseteq OwnLeaves
    PROVE  Spec => OnlySubscribersTold
<1>1. ObsrvInv /\ [Next]_vars =>
          [kind' # "idle" /\ told' # told => at' \in Subscribed]_vars
    <2> SUFFICES ASSUME ObsrvInv, [Next]_vars, kind' # "idle", told' # told
                 PROVE  at' \in Subscribed
        OBVIOUS
    <2>1. Advance \/ \E k \in {"plain", "safe"} : Notify(k)
        BY DEF Next, Subscribe, Unsubscribe, vars
    <2>2. CASE Advance
        <3>1. Reach(after) /\ kind # "idle"
            BY <2>2 DEF Advance, ObsrvInv, Pending, TypeOK
        <3> QED BY <3>1 DEF Reach, ObsrvInv, Pending
    <2>3. ASSUME NEW k \in {"plain", "safe"}, Notify(k)
          PROVE  at' \in Subscribed
        <3>1. at' = First /\ subs # <<>>
            BY <2>3 DEF Notify
        <3>2. First = subs[1] /\ 1 \in DOMAIN subs
            BY <3>1, Listed, EmptySeq DEF First, ObsrvInv, TypeOK
        <3> QED BY <3>1, <3>2, Listed DEF ObsrvInv
    <2> QED BY <2>1, <2>2, <2>3
<1> QED BY <1>1, ObsrvInvariant, PTL DEF Spec, OnlySubscribersTold
=============================================================================

------------------------------- MODULE Obsrv -------------------------------
(***************************************************************************)
(* The notifier of lib/obsrv.[ch]: a circular list of subscribers, told    *)
(* one after the other by nlif_obsrv_notify() or nlif_obsrv_notify_safe(), *)
(* which reads the next subscriber before it tells this one.  What is told *)
(* may subscribe others, or end subscriptions.                             *)
(*                                                                         *)
(* stroll_dlist_remove_init() makes a node its own successor, so the list  *)
(* is a sequence and the successor of any other node is itself.            *)
(***************************************************************************)
EXTENDS Naturals, SequencesExt

CONSTANTS Subscriber,
          ListHead,  \* no subscriber
          Leaves     \* whose subscription a callback may end, by iteration

ASSUME ObsrvAssumption ==
    /\ ListHead \notin Subscriber
    /\ Leaves \subseteq {"plain", "safe"} \X {"self", "other"}

VARIABLES
    subs,   \* the subscribers, in the order of the list
    kind,   \* the iteration that is running: "idle", "plain" or "safe"
    at,     \* the subscriber being told, or ListHead
    after,  \* the one read before that
    began,  \* subscribed when the iteration began, and ever since
    told    \* how often each was told in this iteration, 2 for more

vars == <<subs, kind, at, after, began, told>>

Subscribed == ToSet(subs)

Init ==
    /\ subs = <<>>
    /\ kind = "idle"
    /\ at = ListHead /\ after = ListHead
    /\ began = {}
    /\ told = [s \in Subscriber |-> 0]

First == IF subs = <<>> THEN ListHead ELSE subs[1]

Position(n) == CHOOSE i \in DOMAIN subs : subs[i] = n

Successor(n) ==
    IF n = ListHead THEN First
    ELSE IF n \notin Subscribed THEN n
    ELSE IF Position(n) = Len(subs) THEN ListHead
    ELSE subs[Position(n) + 1]

(* Debug builds refuse both in a plain iteration.                          *)
MayJoin == kind \in {"idle", "safe"}

MayLeave(s) ==
    \/ kind = "idle"
    \/ <<kind, IF s = at THEN "self" ELSE "other">> \in Leaves

Subscribe(s) ==
    /\ MayJoin /\ s \notin Subscribed
    /\ subs' = Append(subs, s)
    /\ UNCHANGED <<kind, at, after, began, told>>

(* Mutant: who left still counts as subscribed.                            *)
UnsubscribeCounted(s) ==
    /\ MayLeave(s) /\ s \in Subscribed
    /\ subs' = RemoveAt(subs, Position(s))
    /\ UNCHANGED <<kind, at, after, began, told>>

Unsubscribe(s) ==
    /\ MayLeave(s) /\ s \in Subscribed
    /\ subs' = RemoveAt(subs, Position(s))
    /\ began' = began \ {s}
    /\ UNCHANGED <<kind, at, after, told>>

(* The iteration comes to node n, and is over at the head.                 *)
Reach(n) ==
    /\ at' = n
    /\ IF n = ListHead
          THEN kind' = "idle" /\ after' = ListHead /\ told' = told
          ELSE /\ after' = Successor(n)
               /\ told' = [told EXCEPT ![n] = IF @ = 2 THEN 2 ELSE @ + 1]

Notify(k) ==
    /\ kind = "idle" /\ subs # <<>>
    /\ kind' = k
    /\ at' = First /\ after' = Successor(First)
    /\ began' = Subscribed
    /\ told' = [s \in Subscriber |-> IF s = First THEN 1 ELSE 0]
    /\ UNCHANGED subs

(* Mutant: the next subscriber is read once this one was told.             *)
AdvanceUnsafe ==
    /\ kind # "idle"
    /\ Reach(Successor(at))
    /\ (Successor(at) # ListHead => UNCHANGED kind)
    /\ UNCHANGED <<subs, began>>

(* The callback returned.                                                  *)
Advance ==
    /\ kind # "idle"
    /\ LET n == IF kind = "safe" THEN after ELSE Successor(at)
       IN  Reach(n) /\ (n # ListHead => UNCHANGED kind)
    /\ UNCHANGED <<subs, began>>

Next ==
    \/ \E s \in Subscriber : Subscribe(s) \/ Unsubscribe(s)
    \/ \E k \in {"plain", "safe"} : Notify(k)
    \/ Advance

Spec == Init /\ [][Next]_vars

(* A callback returns.                                                     *)
FairSpec == Spec /\ WF_vars(Advance)

-----------------------------------------------------------------------------
(* Besides the types, the list holds nobody twice, and those that were     *)
(* there from the beginning are still in it.                               *)
TypeOK ==
    /\ subs \in Seq(Subscriber) /\ IsInjective(subs)
    /\ kind \in {"idle", "plain", "safe"}
    /\ at \in Subscriber \cup {ListHead} /\ after \in Subscriber \cup {ListHead}
    /\ (kind = "idle") = (at = ListHead)
    /\ began \subseteq Subscribed
    /\ told \in [Subscriber -> 0 .. 2]

(* Whoever was subscribed all the while was told exactly once when the     *)
(* iteration is over, whatever the others did to their subscriptions.      *)
ToldOnce ==
    [][kind # "idle" /\ kind' = "idle" => \A s \in began : told[s] = 1]_vars

(* The subscriber the iteration comes to is in the list (obsrv.c:11).      *)
OnlySubscribersTold ==
    [][kind' # "idle" /\ told' # told => at' \in Subscribed]_vars

(* Iterations come to their end, unless callbacks subscribe for ever: those *)
(* that are appended are told too, and may follow each other.              *)
NotificationEnds ==
    \/ []<>(kind = "idle")
    \/ []<><<\E s \in Subscriber : Subscribe(s)>>_vars
=============================================================================

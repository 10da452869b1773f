---------------------------- MODULE Participant ----------------------------
(***************************************************************************)
(* What the daemon promises to the datastore: it takes part in             *)
(* transactions over the administrative states of its members, prepares    *)
(* one or fails it, and is told the outcome of what it prepared.  Neither  *)
(* objects, passes nor requests appear here: a member is trusted while     *)
(* nothing went wrong with it, and the promise is about trusted members:   *)
(* the steps below let nothing of a transaction reach one but between what *)
(* is stored and what is asked, and let none end in between.               *)
(***************************************************************************)
CONSTANTS Member,   \* the interfaces
          Setting,  \* the administrative states
          Same      \* no setting: the transaction does not change a member

VARIABLES
    running,  \* running[m]: what the datastore holds of member m
    actual,   \* actual[m]: what the kernel holds
    trusted,  \* the members under the promise
    asked,    \* asked[m]: what the transaction asks for, or Same
    stage     \* where the transaction is

vars == <<running, actual, trusted, asked, stage>>

Asked == {m \in Member : asked[m] # Same}

Goal(m) == IF m \in Asked THEN asked[m] ELSE running[m]
NothingAsked == [m \in Member |-> Same]

Init ==
    /\ running \in [Member -> Setting]
    /\ actual \in [Member -> Setting]
    /\ trusted = {}
    /\ asked = NothingAsked
    /\ stage = "idle"

(* The datastore: a transaction is put together, then handed over.         *)
Propose(m, s) ==
    /\ stage = "idle" /\ m \notin Asked
    /\ asked' = [asked EXCEPT ![m] = s]
    /\ UNCHANGED <<running, actual, trusted, stage>>

Begin ==
    /\ stage = "idle"
    /\ stage' = "working"
    /\ UNCHANGED <<running, actual, trusted, asked>>

(* A link may go at any time.                                              *)
Lose(m) ==
    /\ trusted' = trusted \ {m}
    /\ UNCHANGED <<running, actual, asked, stage>>

(* A trusted member moves between what the datastore holds and what the    *)
(* transaction asks for, and only backwards once it is being undone; the   *)
(* others do as they like, and a member may lose its trust.                *)
Work ==
    /\ stage \in {"working", "undoing"}
    /\ stage' \in {stage, "undoing"}
    /\ trusted' \in SUBSET trusted
    /\ actual' \in [Member -> Setting]
    /\ \A m \in trusted' :
          \/ actual'[m] \in {actual[m], running[m]}
          \/ stage = "working" /\ actual'[m] = Goal(m)
    /\ UNCHANGED <<running, asked>>

(* The vote: whatever is asked is done, trusted or not.                    *)
Prepare ==
    /\ stage = "working"
    /\ \A m \in trusted \cup Asked : actual[m] = Goal(m)
    /\ stage' = "prepared"
    /\ UNCHANGED <<running, actual, trusted, asked>>

Fail ==
    /\ stage \in {"working", "undoing"}
    /\ trusted' \in SUBSET trusted
    /\ \A m \in trusted' : actual[m] = running[m]
    /\ stage' = "failed"
    /\ UNCHANGED <<running, actual, asked>>

(* The outcome, which the datastore decides.                               *)
Commit ==
    /\ stage = "prepared"
    /\ running' = [m \in Member |-> Goal(m)]
    /\ trusted' \in SUBSET (trusted \cup Asked) /\ trusted \subseteq trusted'
    /\ asked' = NothingAsked /\ stage' = "idle"
    /\ UNCHANGED actual

GiveUp ==
    /\ stage = "prepared"
    /\ stage' = "undoing"
    /\ UNCHANGED <<running, actual, trusted, asked>>

Conclude ==
    /\ stage = "failed"
    /\ asked' = NothingAsked /\ stage' = "idle"
    /\ UNCHANGED <<running, actual, trusted>>

Next ==
    \/ \E m \in Member : Lose(m) \/ \E s \in Setting : Propose(m, s)
    \/ Begin \/ Work \/ Prepare \/ Fail \/ Commit \/ GiveUp \/ Conclude

Spec == Init /\ [][Next]_vars

(***************************************************************************)
(* A participant that comes and goes.  While it is away the datastore      *)
(* stores what it is asked for without a vote, and a member may come back  *)
(* in any state: neither is to touch a member that stays trusted.          *)
(***************************************************************************)
StoreUnheard ==
    /\ stage = "idle"
    /\ running' \in [Member -> Setting]
    /\ trusted' \in SUBSET trusted
    /\ \A m \in trusted' : running'[m] = running[m]
    /\ asked' = NothingAsked
    /\ UNCHANGED <<actual, stage>>

Return(m) ==
    /\ stage = "idle" /\ m \notin trusted
    /\ \E s \in Setting : actual' = [actual EXCEPT ![m] = s]
    /\ UNCHANGED <<running, trusted, asked, stage>>

MortalNext == Next \/ StoreUnheard \/ \E m \in Member : Return(m)

MortalSpec == Init /\ [][MortalNext]_vars

=============================================================================

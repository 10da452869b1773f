------------------------------- MODULE Draft -------------------------------
(***************************************************************************)
(* What an interface object promises to its caller: a draft of the         *)
(* configuration of its link, edited one attribute at a time and then      *)
(* committed as a whole.  Neither cache, mask nor socket appear here: the  *)
(* draft is what the caller is shown and what a commit makes of the link,  *)
(* and the link changes by commits only.  A commit that fails half way     *)
(* leaves a mix of both, and no draft.                                     *)
(***************************************************************************)
CONSTANTS Attribute,      \* the attributes of a configuration
          Configuration,  \* what a link may hold
          Proper,         \* what a draft may be
          Closed          \* no draft

VARIABLES
    link,   \* the configuration of the link
    draft   \* the one the caller is shown, or Closed

vars == <<link, draft>>

Init == link \in Configuration /\ draft = Closed

(* What an edit starts from: a draft opened before, or one opened for it.  *)
Base == IF draft = Closed THEN link ELSE draft

(* Also drops a draft in favour of what the link holds.                    *)
Open ==
    /\ link \in Proper
    /\ draft' = link
    /\ UNCHANGED link

Edit(a) ==
    /\ Base \in Proper
    /\ draft' \in Proper
    /\ \A b \in Attribute \ {a} : draft'[b] = Base[b]
    /\ UNCHANGED link

Close ==
    /\ draft' = Closed
    /\ UNCHANGED link

(* The draft may have to be opened again.                                  *)
Commit ==
    /\ draft # Closed
    /\ link' = draft
    /\ draft' \in {draft, Closed}

CommitFails ==
    /\ draft # Closed
    /\ link' \in Configuration
    /\ \A a \in Attribute : link'[a] \in {link[a], draft[a]}
    /\ draft' = Closed

Next ==
    \/ Open
    \/ \E a \in Attribute : Edit(a)
    \/ Close
    \/ Commit
    \/ CommitFails

Spec == Init /\ [][Next]_vars

=============================================================================

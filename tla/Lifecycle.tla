----------------------------- MODULE Lifecycle -----------------------------
(***************************************************************************)
(* The daemon around its configuration events: src/nlifd.c loads the links *)
(* of the kernel, resets a datastore that is empty, subscribes, publishes  *)
(* and polls; it stops, or dies, and is started again.  Objects and        *)
(* whatever was pending in them die with it; the kernel and the running    *)
(* datastore do not, nor the clients, who go on editing meanwhile.         *)
(***************************************************************************)
EXTENDS ConfigRefinement

CONSTANT MaxDeaths  \* bound on the ends of the daemon

ASSUME LifecycleAssumption == MaxDeaths \in Nat

VARIABLES
    stage,   \* how far the daemon is in its life
    stored,  \* the interfaces its store holds
    deaths   \* ends of the daemon so far

lvars == <<vars, stage, stored, deaths>>

Subscribed == stage \in {"subscribed", "up"}

(* The daemon has just loaded the links for the first time.                *)
LInit ==
    /\ Init
    /\ stage = "loaded"
    /\ stored = present
    /\ deaths = 0

(* A step of Config, with the life of the daemon as it is.                 *)
Lives(A) == A /\ UNCHANGED <<stage, stored, deaths>>

(***************************************************************************)
(* Start: nlifd_open(), then nlifd_load().                                 *)
(***************************************************************************)
(* Mutant: objects take their values from the datastore.                   *)
LoadFromRunning ==
    /\ stage = "down" /\ stage' = "loaded"
    /\ iface' = [n \in Ifaces |->
                    Fill([kern[n] EXCEPT !.conf["up"] = Desired(running[n])])]
    /\ stored' = present
    /\ UNCHANGED <<kern, present, running, tx, todo, pos, phase, answer,
                   faults, settled, deaths>>

(* A link that is gone has no object; its record means nothing.            *)
Load ==
    /\ stage = "down" /\ stage' = "loaded"
    /\ iface' = [n \in Ifaces |-> Fill(kern[n])]
    /\ stored' = present
    /\ UNCHANGED <<kern, present, running, tx, todo, pos, phase, answer,
                   faults, settled, deaths>>

(* A datastore with no entry has no leaf; one without leaves may have      *)
(* entries.                                                                *)
Check ==
    /\ stage = "loaded"
    /\ \/ stage' = "checked"
       \/ stage' = "empty" /\ \A n \in Ifaces : running[n] = "unset"
    /\ UNCHANGED <<vars, stored, deaths>>

(* Every interface gets an entry without leaf, whatever was stored since   *)
(* the check; clients put their transactions together anew.                *)
Reset ==
    /\ stage = "empty" /\ stage' = "checked"
    /\ phase = "idle"
    /\ running' = [n \in Ifaces |-> "unset"]
    /\ settled' = {n \in settled : running[n] = "unset"}
    /\ tx' = {}
    /\ UNCHANGED <<kern, present, iface, todo, pos, phase, answer, faults,
                   stored, deaths>>

(* sysrepo subscribes nobody in the middle of a transaction.               *)
Subscribe ==
    /\ stage = "checked" /\ stage' = "subscribed"
    /\ phase = "idle"
    /\ UNCHANGED <<vars, stored, deaths>>

Publish ==
    /\ stage = "subscribed" /\ stage' = "up"
    /\ UNCHANGED <<vars, stored, deaths>>

(***************************************************************************)
(* End: a step of the start fails, the daemon is told to stop, or dies.    *)
(* sysrepo fails the event it was processing, or waiting for.              *)
(***************************************************************************)
Unanswered == phase \in {"change", "shelved", "apply", "restore", "reapply"}

Fallen ==
    /\ settled' = settled \ Names(tx)
    /\ phase' = "refused"
    /\ todo' = {} /\ pos' = 1 /\ answer' = "none"

Die ==
    /\ stage # "down" /\ stage' = "down"
    /\ deaths < MaxDeaths /\ deaths' = deaths + 1
    /\ iface' = [n \in Ifaces |-> Fill(kern[n])]
    /\ stored' = {}
    /\ IF Unanswered
          THEN Fallen
          ELSE UNCHANGED <<todo, pos, phase, answer, settled>>
    /\ UNCHANGED <<kern, present, running, tx, faults>>

(* Nobody hears of the abort of what a daemon accepted before it died.     *)
AbortLost ==
    /\ phase = "restore" /\ ~ Subscribed
    /\ Fallen
    /\ UNCHANGED <<kern, present, iface, running, tx, faults, stage, stored,
                   deaths>>

(***************************************************************************)
(* The world meanwhile.                                                    *)
(***************************************************************************)
(* A link comes back, between transactions, while no daemon looks.  To a   *)
(* daemon that runs it is another link, which it does not know; present    *)
(* are those that were there when it started.                              *)
Replug(n) ==
    /\ stage = "down" /\ phase = "idle"
    /\ n \notin present
    /\ present' = present \cup {n}
    /\ kern' \in {[kern EXCEPT ![n] = link] : link \in Link}
    /\ iface' = [iface EXCEPT ![n] = Fill(kern'[n])]
    /\ settled' = settled \ {n}
    /\ UNCHANGED <<running, tx, todo, pos, phase, answer, faults, stage,
                   stored, deaths>>

(* A transaction no daemon is subscribed to is stored at once.             *)
CommitUnheard ==
    /\ ~ Subscribed
    /\ phase = "idle" /\ tx # {}
    /\ running' = [n \in Ifaces |->
                      LET cs == {c \in EnabledOf(tx) : c.name = n}
                      IN  IF cs = {} THEN running[n] ELSE (CHOOSE c \in cs : TRUE).new]
    /\ settled' = settled \ Names(tx)
    /\ tx' = {}
    /\ UNCHANGED <<kern, present, iface, todo, pos, phase, answer, faults,
                   stage, stored, deaths>>

(***************************************************************************)
(* The events, over the interfaces the store holds.  A transaction that    *)
(* names another never gets as far as its restoration.                     *)
(***************************************************************************)
Found(c) == c.name \in stored

(* Mutant: an interface that is not there may come later.                  *)
ChangeNotFoundShelves(c) ==
    /\ phase = "change" /\ c.name \in Ifaces \ stored
    /\ phase' = "shelved" /\ todo' = {}
    /\ settled' = settled \ Names(tx)
    /\ UNCHANGED <<kern, present, iface, running, tx, pos, answer, faults>>

ChangeNotFound(c) ==
    /\ phase = "change" /\ c.name \in Ifaces \ stored
    /\ phase' = "refused" /\ todo' = {}
    /\ settled' = settled \ Names(tx)
    /\ UNCHANGED <<kern, present, iface, running, tx, pos, answer, faults>>

Handle ==
    \/ \E c \in todo :
          \/ Found(c) /\ ChangeLeaf(c)
          \/ (c.name \in Ifaces => Found(c)) /\ ChangeRefused(c)
          \/ Found(c) /\ ChangeFails(c)
          \/ ChangeNotFound(c)
          \/ RestoreLeaf(c)
    \/ ChangesDone
    \/ ApplySkips
    \/ ApplySucceeds
    \/ \E D \in SUBSET Field : ApplyFails(D)
    \/ ApplyDone
    \/ RestoreDone

Start == Check \/ Reset \/ Subscribe \/ Publish

LNext ==
    \/ Load \/ Start \/ Die \/ AbortLost
    \/ \E n \in Ifaces : Replug(n) \/ Lives(Unplug(n))
    \/ \E c \in Change : Lives(Edit(c))
    \/ CommitUnheard
    \/ Subscribed /\ Lives(Commit)
    \/ Lives(Done \/ Abort \/ Conclude)
    \/ stage = "up" /\ Lives(Redeliver \/ Handle \/ \E n \in Ifaces : Resync(n))

LSpec == LInit /\ [][LNext]_lvars

(* A daemon that runs goes on with its start, then with its events, and    *)
(* sysrepo sees every transaction it was given to its end.  Nothing        *)
(* obliges anyone to start the daemon again.                               *)
LFairSpec ==
    /\ LSpec
    /\ WF_lvars(Start)
    /\ WF_lvars(stage = "up" /\ Lives(Redeliver \/ Handle))
    /\ WF_lvars(Lives(Done \/ Abort \/ Conclude))
    /\ WF_lvars(AbortLost)

-----------------------------------------------------------------------------
LifecycleTypeOK ==
    /\ TypeOK
    /\ stage \in {"down", "loaded", "empty", "checked", "subscribed", "up"}
    /\ stored \subseteq Ifaces
    /\ deaths \in 0 .. MaxDeaths

(* No transaction waits for ever, neither for a daemon that died in it nor *)
(* for one that is subscribed and does not poll yet.                       *)
EveryTransactionConcluded == phase = "change" ~> phase = "idle"

(* A daemon that dies in any step, and one that starts over what it left,  *)
(* keep the promise of a participant that comes and goes: what it accepted *)
(* is in the kernel when sysrepo stores it after its death, and of what it *)
(* did not answer nothing reaches an interface that stays trusted.         *)
ImplementsAcrossLives == Abstract!MortalSpec

(* "Systems that implement the IF-MIB use the value of this leaf in the    *)
(* intended configuration to set IF-MIB.ifAdminStatus to 'up' or 'down'    *)
(* after an ifEntry has been initialized" (notes.txt:138-140).             *)
IntendedAtStart ==
    [][stage # "up" /\ stage' = "up" =>
          \A n \in present : running[n] # "unset" =>
              kern[n].conf["up"] = running[n]]_lvars
=============================================================================

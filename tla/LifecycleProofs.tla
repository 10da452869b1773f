-------------------------- MODULE LifecycleProofs --------------------------
(* Kernel and datastore agree over every life of the daemon, for any       *)
(* number of interfaces, leaves, failures and deaths: the invariants of    *)
(* Config and of its rollback hold under the steps a life adds.            *)
EXTENDS Lifecycle, ConfigProofs

USE ConfigAssumption, LifecycleAssumption

(* What no daemon is subscribed to is not being processed, and an abort of *)
(* it was not heard yet.                                                   *)
Unheard ==
    ~ Subscribed =>
        /\ phase \in {"idle", "accepted", "refused", "rejected", "aborted",
                      "restore"}
        /\ phase = "restore" => todo = tx

LifeInv == LifecycleTypeOK /\ ConfigInv /\ LedgerInv /\ Unheard

(* An object that was just filled is sound for its link.                   *)
LEMMA FilledSound ==
    ASSUME NEW link \in Link
    PROVE  /\ Fill(link) \in IfaceRecord
           /\ Sound(Fill(link), link)
           /\ Fill(link).state = "clean" /\ Usable(Fill(link))
           /\ Fill(link).conf = link.conf
    BY FillType, UpFits DEF Fill, Sound, Usable, Ambiguous

(* What Config says of an accepted change, of the invariant alone.         *)
LEMMA AcceptedHolds ==
    ASSUME ConfigInv, phase = "accepted", NEW c \in EnabledOf(tx)
    PROVE  c.name \in Ifaces /\ Admin(c.name) = Desired(c.new)
<1>1. c.name \in Ifaces /\ c \in Handled
    BY LeafShape DEF ConfigInv, Handled
<1>2. Carries(c) /\ iface[c.name].state # "dirty"
    BY <1>1 DEF ConfigInv, HandledCarried, NothingPending
<1> QED BY <1>1, <1>2, CleanShows DEF Carries

(* Reading all links anew, in a phase no object is needed for, keeps what  *)
(* Config and its ledger say.                                              *)
LEMMA RefillInv ==
    ASSUME ConfigInv, LedgerInv,
           phase \in {"idle", "accepted", "refused", "rejected", "aborted",
                      "restore"},
           phase = "restore" => todo = tx,
           iface' = [n \in Ifaces |-> Fill(kern[n])],
           UNCHANGED <<kern, present, running, tx, todo, pos, phase, answer,
                       faults, settled>>
    PROVE  ConfigInv' /\ LedgerInv'
<1>1. \A n \in Ifaces : kern[n] \in Link
    BY DEF ConfigInv, TypeOK
<1>2. ASSUME NEW n \in Ifaces
      PROVE  /\ iface'[n] \in IfaceRecord /\ Sound(iface'[n], kern'[n])
             /\ iface'[n].state = "clean" /\ Usable(iface'[n])
             /\ iface'[n].conf = kern[n].conf
    <2>1. iface'[n] = Fill(kern[n])
        OBVIOUS
    <2> QED BY <1>1, <2>1, FilledSound
<1>3. TypeOK'
    BY <1>2 DEF ConfigInv, TypeOK
<1>4. ObjectsSound' /\ Distinct' /\ PassProgress' /\ NothingPending'
    BY <1>2 DEF ConfigInv, ObjectsSound, Distinct, EnabledOf, PassProgress,
                NothingPending
<1>5. HandledCarried'
    <2> SUFFICES ASSUME phase = "accepted", NEW c \in EnabledOf(tx)
                 PROVE  Carries(c)'
        BY DEF HandledCarried, Handled, EnabledOf
    <2>1. c.name \in Ifaces /\ Admin(c.name) = Desired(c.new)
        BY AcceptedHolds
    <2> QED BY <1>2, <2>1 DEF Carries, Admin
<1>6. Ledger'
    <2>1. \A n \in Ifaces : \A v : Rests(n, v) => Rests(n, v)'
        BY <1>2 DEF Rests, Admin
    <2>2. settled \subseteq Ifaces
        BY DEF ConfigInv, TypeOK
    <2> QED BY <2>1, <2>2 DEF LedgerInv, Ledger, Untold, EnabledOf, Names
<1>7. RestoredLeaves'
    BY DEF RestoredLeaves, Undoing, EnabledOf
<1>8. OldIsRunning' /\ Accounted' /\ RolledBack'
    BY DEF LedgerInv, OldIsRunning, Accounted, Undoing, RolledBack, Undone,
           EnabledOf
<1> QED BY <1>3, <1>4, <1>5, <1>6, <1>7, <1>8 DEF ConfigInv, LedgerInv

(* A transaction sysrepo fails for want of an answer leaves the other      *)
(* interfaces as the ledger has them.                                      *)
LEMMA FallenInv ==
    ASSUME ConfigInv, LedgerInv, Fallen,
           \/ iface' = [n \in Ifaces |-> Fill(kern[n])]
           \/ UNCHANGED iface /\ \A n \in Ifaces : iface[n].state # "none",
           UNCHANGED <<kern, present, running, tx, faults>>
    PROVE  ConfigInv' /\ LedgerInv'
<1>1. \A n \in Ifaces : kern[n] \in Link
    BY DEF ConfigInv, TypeOK
<1>2. /\ phase' = "refused" /\ todo' = {} /\ pos' = 1 /\ answer' = "none"
      /\ settled' = settled \ Names(tx)
    BY DEF Fallen
<1>3. ASSUME NEW n \in Ifaces
      PROVE  /\ iface'[n] \in IfaceRecord /\ Sound(iface'[n], kern'[n])
             /\ iface'[n].state # "none"
             /\ iface[n].state # "dirty" => iface'[n].state # "dirty"
    <2>1. CASE UNCHANGED iface
        BY <2>1 DEF ConfigInv, TypeOK, ObjectsSound
    <2>2. CASE iface' = [m \in Ifaces |-> Fill(kern[m])]
        <3>1. iface'[n] = Fill(kern[n])
            BY <2>2
        <3> QED BY <1>1, <3>1, FilledSound
    <2> QED BY <2>1, <2>2
<1>4. TypeOK'
    <2>1. iface' \in [Ifaces -> IfaceRecord]
        <3>1. CASE UNCHANGED iface
            BY <3>1 DEF ConfigInv, TypeOK
        <3>2. CASE iface' = [m \in Ifaces |-> Fill(kern[m])]
            BY <1>1, <3>2, FilledSound
        <3> QED BY <3>1, <3>2
    <2> QED BY <1>2, <2>1 DEF ConfigInv, TypeOK
<1>5. ConfigInv'
    BY <1>2, <1>3, <1>4 DEF ConfigInv, ObjectsSound, Distinct, EnabledOf,
       HandledCarried, Handled, PassProgress, NothingPending
<1>6. Ledger'
    <2> SUFFICES ASSUME NEW n \in settled' \cap present, n \in Ifaces
                 PROVE  n \notin Names(tx) /\ Rests(n, running[n])'
        BY <1>2 DEF Ledger, Untold, EnabledOf, Names, ConfigInv, TypeOK
    <2>1. n \in settled /\ n \notin Names(tx) /\ n \notin Names(EnabledOf(tx))
        BY <1>2 DEF Names, EnabledOf
    <2> QED BY <1>3, <2>1 DEF LedgerInv, Ledger, Rests, Admin
<1>7. OldIsRunning' /\ Accounted' /\ RolledBack' /\ RestoredLeaves'
    BY <1>2 DEF LedgerInv, OldIsRunning, Accounted, Undoing, RolledBack,
       Undone, RestoredLeaves, EnabledOf
<1> QED BY <1>5, <1>6, <1>7 DEF LedgerInv

(* A link that comes back is a new one: nothing is settled about it.       *)
LEMMA ReplugInv ==
    ASSUME ConfigInv, LedgerInv, NEW n \in Ifaces, Replug(n)
    PROVE  ConfigInv' /\ LedgerInv'
<1>0. PICK link \in Link : kern' = [kern EXCEPT ![n] = link]
    BY DEF Replug
<1>1. /\ phase = "idle" /\ present' = present \cup {n} /\ n \notin present
      /\ iface' = [iface EXCEPT ![n] = Fill(kern'[n])]
      /\ settled' = settled \ {n}
      /\ UNCHANGED <<running, tx, todo, pos, phase, answer, faults>>
    BY DEF Replug
<1>2. /\ kern \in [Ifaces -> Link] /\ iface \in [Ifaces -> IfaceRecord]
    BY DEF ConfigInv, TypeOK
<1>3. /\ kern' \in [Ifaces -> Link] /\ kern'[n] = link
      /\ iface'[n] = Fill(link)
      /\ \A m \in Ifaces : m # n => kern'[m] = kern[m] /\ iface'[m] = iface[m]
    BY <1>0, <1>1, <1>2
<1>4. ASSUME NEW m \in Ifaces
      PROVE  Sound(iface'[m], kern'[m]) /\ iface'[m].state # "none"
    BY <1>3, FilledSound DEF ConfigInv, ObjectsSound
<1>5. TypeOK'
    <2>1. iface' \in [Ifaces -> IfaceRecord]
        BY <1>1, <1>2, <1>3, FilledSound
    <2> QED BY <1>1, <1>3, <2>1 DEF ConfigInv, TypeOK
<1>6. ConfigInv'
    BY <1>1, <1>4, <1>5 DEF ConfigInv, ObjectsSound, Distinct, EnabledOf,
       HandledCarried, Handled, PassProgress, NothingPending
<1>7. Ledger'
    <2>1. \A m \in settled' \cap present' :
             /\ m \in settled \cap present
             /\ \A v : Rests(m, v) => Rests(m, v)'
        BY <1>1, <1>3 DEF Rests, Admin, ConfigInv, TypeOK
    <2> QED BY <1>1, <2>1 DEF LedgerInv, Ledger, Untold, EnabledOf, Names
<1>8. OldIsRunning' /\ Accounted' /\ RolledBack' /\ RestoredLeaves'
    BY <1>1 DEF LedgerInv, OldIsRunning, Accounted, Undoing, RolledBack,
       Undone, RestoredLeaves, EnabledOf
<1> QED BY <1>6, <1>7, <1>8 DEF LedgerInv

(* What is stored behind the daemon's back concerns no settled interface   *)
(* any more.                                                               *)
LEMMA StoredInv ==
    ASSUME ConfigInv, LedgerInv, phase = "idle",
           running' \in [Ifaces -> LeafValue],
           settled' \subseteq settled, tx' = {},
           \A n \in settled' : n \in Ifaces => running'[n] = running[n],
           UNCHANGED <<kern, present, iface, todo, pos, phase, answer, faults>>
    PROVE  ConfigInv' /\ LedgerInv'
<1>1. EnabledOf(tx') = {} /\ Names(EnabledOf(tx')) = {} /\ todo = {}
    BY DEF EnabledOf, Names, ConfigInv, PassProgress
<1>2. ConfigInv'
    BY <1>1 DEF ConfigInv, TypeOK, ObjectsSound, Distinct, HandledCarried,
       Handled, PassProgress, NothingPending
<1>3. Ledger'
    <2> SUFFICES ASSUME NEW n \in settled' \cap present
                 PROVE  Rests(n, running'[n])
        BY <1>1 DEF Ledger, Untold, Rests, Admin
    <2>1. n \in settled /\ n \in Ifaces /\ running'[n] = running[n]
        BY DEF ConfigInv, TypeOK
    <2>2. CASE n \notin Names(EnabledOf(tx))
        BY <2>1, <2>2 DEF LedgerInv, Ledger
    <2>3. CASE n \in Names(EnabledOf(tx))
        <3>1. PICK c \in EnabledOf(tx) : c.name = n
            BY <2>3 DEF Names
        <3>2. c \in Untold /\ c.old = running[n]
            BY <3>1 DEF Untold, LedgerInv, OldIsRunning
        <3> QED BY <2>1, <3>1, <3>2 DEF LedgerInv, Ledger
    <2> QED BY <2>2, <2>3
<1>4. OldIsRunning' /\ Accounted' /\ RolledBack' /\ RestoredLeaves'
    BY <1>1 DEF OldIsRunning, Accounted, Undoing, RolledBack, Undone,
       RestoredLeaves
<1> QED BY <1>2, <1>3, <1>4 DEF LedgerInv

(* Both ways of storing without the daemon, reset included.                *)
LEMMA UnheardStores ==
    ASSUME ConfigInv, LedgerInv, CommitUnheard \/ Reset
    PROVE  ConfigInv' /\ LedgerInv'
<1>1. CASE CommitUnheard
    <2> DEFINE Of(n) == {c \in EnabledOf(tx) : c.name = n}
    <2>1. ASSUME NEW n \in Ifaces, Of(n) # {}
          PROVE  (CHOOSE c \in Of(n) : TRUE).new \in LeafValue
        <3>1. PICK c \in Of(n) : TRUE
            BY <2>1
        <3>2. (CHOOSE d \in Of(n) : TRUE) \in Of(n)
            BY <3>1
        <3> QED BY <3>2, LeafShape DEF ConfigInv
    <2>2. running' = [n \in Ifaces |-> IF Of(n) = {} THEN running[n]
                                        ELSE (CHOOSE c \in Of(n) : TRUE).new]
        BY <1>1 DEF CommitUnheard
    <2>3. ASSUME NEW n \in settled', n \in Ifaces PROVE running'[n] = running[n]
        <3>1. Of(n) = {}
            BY <1>1, <2>3 DEF CommitUnheard, Names, EnabledOf
        <3> QED BY <2>2, <2>3, <3>1
    <2> HIDE DEF Of
    <2>4. running' \in [Ifaces -> LeafValue]
        BY <2>1, <2>2 DEF ConfigInv, TypeOK
    <2> QED BY <1>1, <2>3, <2>4, StoredInv DEF CommitUnheard
<1>2. CASE Reset
    <2>1. /\ running' \in [Ifaces -> LeafValue] /\ settled' \subseteq settled
          /\ \A n \in settled' : n \in Ifaces => running'[n] = running[n]
        BY <1>2 DEF Reset, LeafValue
    <2> QED BY <1>2, <2>1, StoredInv DEF Reset
<1> QED BY <1>1, <1>2

(* A change of an interface the store does not hold is refused.            *)
LEMMA NotFoundInv ==
    ASSUME ConfigInv, LedgerInv, NEW c \in todo, ChangeNotFound(c)
    PROVE  ConfigInv' /\ LedgerInv'
<1>1. /\ phase = "change" /\ pos = 1 /\ \A n \in Ifaces : iface[n].state # "none"
    BY DEF ChangeNotFound, ConfigInv, PassProgress, ObjectsSound
<1>2. ConfigInv'
    BY <1>1 DEF ChangeNotFound, ConfigInv, TypeOK, ObjectsSound, Distinct,
       EnabledOf, HandledCarried, Handled, PassProgress, NothingPending
<1>3. Ledger'
    <2> SUFFICES ASSUME NEW n \in settled' \cap present
                 PROVE  n \notin Names(tx) /\ Rests(n, running[n])
        BY DEF ChangeNotFound, Ledger, Untold, EnabledOf, Names, Rests, Admin
    <2>1. n \in settled /\ n \notin Names(tx) /\ n \notin Names(EnabledOf(tx))
        BY DEF ChangeNotFound, Names, EnabledOf
    <2> QED BY <2>1 DEF LedgerInv, Ledger
<1>4. OldIsRunning' /\ Accounted' /\ RolledBack' /\ RestoredLeaves'
    BY DEF ChangeNotFound, LedgerInv, OldIsRunning, Accounted, Undoing,
       RolledBack, Undone, RestoredLeaves, EnabledOf
<1> QED BY <1>2, <1>3, <1>4 DEF LedgerInv

(* The steps a life shares with Config are steps of Config.                *)
LEMMA LivesSteps ==
    ASSUME Handle, \A c \in todo : ~ ChangeNotFound(c)
    PROVE  Next
    BY DEF Handle, Next, Daemon

(***************************************************************************)
(* The invariant.                                                          *)
(***************************************************************************)
(* The first load is the start of Config.                                  *)
LEMMA InitLife == LInit => LifeInv
<1> SUFFICES ASSUME LInit PROVE LifeInv
    OBVIOUS
<1>1. ConfigInv /\ LedgerInv
    BY InitInv, InitLedger DEF LInit
<1>2. deaths \in 0 .. MaxDeaths /\ stored \subseteq Ifaces
    BY DEF LInit, Init
<1> QED BY <1>1, <1>2 DEF LifeInv, LifecycleTypeOK, ConfigInv, LInit, Unheard,
        Init

(* The invariants of Config hold under every step of a life.               *)
LEMMA LifeConfig ==
    ASSUME LifeInv, [LNext]_lvars
    PROVE  ConfigInv' /\ LedgerInv'
<1>0. ConfigInv /\ LedgerInv /\ \A n \in Ifaces : iface[n].state # "none"
    BY DEF LifeInv, ConfigInv, ObjectsSound
<1>1. ASSUME [Next]_vars PROVE ConfigInv' /\ LedgerInv'
    BY <1>0, <1>1, StepInv, StepLedger
<1>2. CASE Load
    <2>1. /\ phase \in {"idle", "accepted", "refused", "rejected", "aborted",
                          "restore"}
          /\ phase = "restore" => todo = tx
        BY <1>2 DEF Load, LifeInv, Unheard, Subscribed
    <2> QED BY <1>0, <1>2, <2>1, RefillInv DEF Load
<1>3. CASE Die
    <2>1. CASE Unanswered
        BY <1>0, <1>3, <2>1, FallenInv DEF Die
    <2>2. CASE ~ Unanswered
        <3>1. phase \in {"idle", "accepted", "refused", "rejected", "aborted"}
            BY <1>0, <2>2 DEF Unanswered, ConfigInv, TypeOK
        <3> QED BY <1>0, <1>3, <2>2, <3>1, RefillInv DEF Die
    <2> QED BY <2>1, <2>2
<1>4. CASE AbortLost
    BY <1>0, <1>4, FallenInv DEF AbortLost
<1>5. CASE \E n \in Ifaces : Replug(n)
    BY <1>0, <1>5, ReplugInv
<1>6. CASE CommitUnheard \/ Reset
    BY <1>0, <1>6, UnheardStores
<1>7. CASE \E c \in todo : ChangeNotFound(c)
    BY <1>0, <1>7, NotFoundInv
<1>8. CASE \/ Check \/ Subscribe \/ Publish \/ UNCHANGED lvars
    BY <1>1, <1>8 DEF Check, Subscribe, Publish, lvars
<1>9. CASE \/ \E n \in Ifaces : Lives(Unplug(n))
           \/ \E c \in Change : Lives(Edit(c))
           \/ Lives(Commit)
           \/ Lives(Done \/ Abort \/ Conclude)
           \/ Lives(Redeliver \/ \E n \in Ifaces : Resync(n))
    BY <1>1, <1>9 DEF Lives, Next
<1>10. CASE Lives(Handle) /\ \A c \in todo : ~ ChangeNotFound(c)
    BY <1>1, <1>10, LivesSteps DEF Lives
<1> QED BY <1>2, <1>3, <1>4, <1>5, <1>6, <1>7, <1>8, <1>9, <1>10
        DEF LNext, Start, Lives

(* What nobody is subscribed to stays unheard.                             *)
LEMMA LifeUnheard ==
    ASSUME LifeInv, [LNext]_lvars, TypeOK'
    PROVE  LifecycleTypeOK' /\ Unheard'
<1>1. LifecycleTypeOK'
    <2>1. stored \subseteq Ifaces /\ present \subseteq Ifaces
          /\ deaths \in 0 .. MaxDeaths
        BY DEF LifeInv, LifecycleTypeOK, ConfigInv, TypeOK
    <2>2. deaths' \in 0 .. MaxDeaths
        BY <2>1 DEF LNext, Start, Load, Check, Reset, Subscribe, Publish, Die,
           AbortLost, Replug, CommitUnheard, Lives, lvars
    <2>3. stored' \subseteq Ifaces
        BY <2>1 DEF LNext, Start, Load, Check, Reset, Subscribe, Publish, Die,
           AbortLost, Replug, CommitUnheard, Lives, lvars
    <2> QED BY <2>2, <2>3 DEF LifeInv, LifecycleTypeOK, LNext, Start, Load,
            Check, Reset, Subscribe, Publish, Die, AbortLost, Replug,
            CommitUnheard, Lives, lvars
<1>2. Unheard'
    <2> SUFFICES ASSUME ~ Subscribed' PROVE Unheard'
        BY DEF Unheard
    <2>1. CASE Die
        BY <2>1 DEF Die, Fallen, Unanswered, LifeInv, LifecycleTypeOK, TypeOK,
           Unheard
    <2>2. CASE ~ Die
        <3>1. ~ Subscribed
            BY <2>2 DEF LNext, Start, Load, Check, Reset, Subscribe, Publish,
               AbortLost, Replug, CommitUnheard, Lives, lvars, Subscribed
        <3>2. /\ phase \in {"idle", "accepted", "refused", "rejected",
                              "aborted", "restore"}
              /\ phase = "restore" => todo = tx
            BY <3>1 DEF LifeInv, Unheard
        <3>3. CASE \/ Load \/ Check \/ UNCHANGED lvars \/ CommitUnheard \/ Reset
                   \/ \E n \in Ifaces : Replug(n)
            BY <3>2, <3>3 DEF Load, Check, lvars, vars, CommitUnheard, Reset,
               Replug, Unheard
        <3>4. CASE AbortLost \/ Lives(Done \/ Abort \/ Conclude)
            BY <3>2, <3>4 DEF AbortLost, Fallen, Lives, Done, Abort, Conclude,
               Unheard
        <3>5. CASE \/ \E n \in Ifaces : Lives(Unplug(n))
                   \/ \E c \in Change : Lives(Edit(c))
            BY <3>2, <3>5 DEF Lives, Unplug, Edit, Unheard
        <3> QED BY <2>2, <3>1, <3>3, <3>4, <3>5
                DEF LNext, Start, Subscribe, Publish, Subscribed
    <2> QED BY <2>1, <2>2
<1> QED BY <1>1, <1>2

(* The invariant holds in every state of every life.                       *)
LEMMA LifeInvariant == LSpec => []LifeInv
<1>1. LifeInv /\ [LNext]_lvars => LifeInv'
    <2> SUFFICES ASSUME LifeInv, [LNext]_lvars PROVE LifeInv'
        OBVIOUS
    <2>1. ConfigInv' /\ LedgerInv' /\ TypeOK'
        BY LifeConfig DEF ConfigInv
    <2> QED BY <2>1, LifeUnheard DEF LifeInv
<1> QED BY <1>1, InitLife, PTL DEF LSpec

(* Types of the daemon's state over its lives.                             *)
THEOREM LifecycleTyped == LSpec => []LifecycleTypeOK
<1>1. LifeInv => LifecycleTypeOK
    BY DEF LifeInv
<1> QED BY <1>1, LifeInvariant, PTL

(* Between transactions the kernel holds what the running datastore says   *)
(* of every settled interface, whenever and however often the daemon died  *)
(* and was started again, and whatever was stored meanwhile.               *)
THEOREM SyncAcrossLives == LSpec => []InSync
<1>1. LifeInv => InSync
    BY InSyncHolds DEF LifeInv
<1> QED BY <1>1, LifeInvariant, PTL

(***************************************************************************)
(* The refinement: the steps a life adds, on top of those of Config.       *)
(***************************************************************************)
(* What sysrepo fails for want of an answer, or the daemon for want of an  *)
(* object, fails for the participant.                                      *)
LEMMA FallenRefines ==
    ASSUME Inv, Inv', UNCHANGED <<kern, running, tx, present>>,
           (Die /\ Unanswered) \/ AbortLost \/ \E c \in todo : ChangeNotFound(c)
    PROVE  Abstract!Fail
<1>1. /\ phase \in {"change", "shelved", "apply", "restore", "reapply"}
      /\ phase' = "refused" /\ settled' \subseteq settled
    BY DEF Die, Unanswered, AbortLost, ChangeNotFound, Fallen
<1>2. Stage \in {"working", "undoing"}
    BY <1>1 DEF Stage
<1> QED BY <1>1, <1>2, FailedRefines

(* Objects and the progress of the daemon are hidden.                      *)
LEMMA LifeHidden ==
    ASSUME \/ Load \/ Check \/ Subscribe \/ Publish \/ UNCHANGED lvars
           \/ Die /\ ~ Unanswered
    PROVE  UNCHANGED Abstract!vars
<1>1. UNCHANGED <<kern, running, tx, present, settled, phase, answer>>
    BY DEF Load, Check, Subscribe, Publish, Die, lvars, vars
<1> QED BY <1>1, Unmoved DEF Abstract!vars, Stage

(* What the datastore stores without the daemon leaves what is trusted as  *)
(* it was.                                                                 *)
LEMMA UnheardRefines ==
    ASSUME Inv, Inv', CommitUnheard \/ Reset
    PROVE  Abstract!StoreUnheard
<1>1. /\ phase = "idle" /\ phase' = "idle" /\ tx' = {}
      /\ settled' \subseteq settled
      /\ UNCHANGED <<kern, present>>
    BY DEF CommitUnheard, Reset
<1>2. ASSUME NEW n \in settled', n \in Ifaces
      PROVE  running'[n] = running[n]
    <2>1. CASE Reset
        BY <1>2, <2>1 DEF Reset
    <2>2. CASE CommitUnheard
        <3>1. {c \in EnabledOf(tx) : c.name = n} = {}
            BY <1>2, <2>2 DEF CommitUnheard, Names, EnabledOf
        <3> QED BY <1>2, <2>2, <3>1 DEF CommitUnheard
    <2> QED BY <2>1, <2>2
<1>3. \A n \in Ifaces : Asks(n)' = "same"
    BY <1>1 DEF Asks, EnabledOf
<1>4. [n \in Ifaces |-> Desired(running[n])]' \in [Ifaces -> {"up", "down"}]
    BY DesiredIs DEF Inv, ConfigInv, TypeOK
<1>5. settled' \cap present \in SUBSET (settled \cap present)
      /\ settled' \subseteq Ifaces
    BY <1>1 DEF Inv, ConfigInv, TypeOK
<1> QED BY <1>1, <1>2, <1>3, <1>4, <1>5
        DEF Abstract!StoreUnheard, Abstract!NothingAsked, Stage

(* A link that comes back is a member in any state, and not trusted.       *)
LEMMA ReplugRefines ==
    ASSUME Inv, NEW n \in Ifaces, Replug(n)
    PROVE  Abstract!Return(n)
<1>0. PICK link \in Link : kern' = [kern EXCEPT ![n] = link]
    BY DEF Replug
<1>1. /\ phase = "idle" /\ n \notin present
      /\ present' = present \cup {n} /\ settled' = settled \ {n}
      /\ UNCHANGED <<running, tx, phase, answer>>
    BY DEF Replug
<1>2. link.conf["up"] \in {"up", "down"}
    BY DEF Link, Conf
<1>3. [m \in Ifaces |-> kern'[m].conf["up"]]
        = [[m \in Ifaces |-> kern[m].conf["up"]] EXCEPT ![n] = link.conf["up"]]
    BY <1>0 DEF Inv, ConfigInv, TypeOK
<1>4. settled' \cap present' = settled \cap present
    BY <1>1
<1>5. UNCHANGED <<[m \in Ifaces |-> Desired(running[m])],
                  [m \in Ifaces |-> Asks(m)]>> /\ Stage = "idle" /\ Stage' = Stage
    BY <1>1 DEF Asks, EnabledOf, Stage
<1> QED BY <1>1, <1>2, <1>3, <1>4, <1>5 DEF Abstract!Return

(* Every step of every life is one of a participant that comes and goes.   *)
LEMMA LifeRefines ==
    ASSUME Inv, Inv', [LNext]_lvars
    PROVE  [Abstract!MortalNext]_(Abstract!vars)
<1>1. ASSUME [Next]_vars PROVE [Abstract!MortalNext]_(Abstract!vars)
    BY <1>1, StepRefines DEF Abstract!MortalNext
<1>2. CASE (Die /\ Unanswered) \/ AbortLost \/ \E c \in todo : ChangeNotFound(c)
    <2>1. UNCHANGED <<kern, running, tx, present>>
        BY <1>2 DEF Die, AbortLost, ChangeNotFound
    <2>2. Abstract!Fail
        BY <1>2, <2>1, FallenRefines
    <2> QED BY <2>2 DEF Abstract!MortalNext, Abstract!Next
<1>3. CASE \/ Load \/ Check \/ Subscribe \/ Publish \/ UNCHANGED lvars
           \/ Die /\ ~ Unanswered
    BY <1>3, LifeHidden
<1>4. CASE \E n \in Ifaces : Replug(n)
    BY <1>4, ReplugRefines DEF Abstract!MortalNext
<1>5. CASE CommitUnheard \/ Reset
    BY <1>5, UnheardRefines DEF Abstract!MortalNext
<1>6. CASE \/ \E n \in Ifaces : Lives(Unplug(n))
           \/ \E c \in Change : Lives(Edit(c))
           \/ Lives(Commit)
           \/ Lives(Done \/ Abort \/ Conclude)
           \/ Lives(Redeliver \/ \E n \in Ifaces : Resync(n))
    BY <1>1, <1>6 DEF Lives, Next
<1>7. CASE Lives(Handle) /\ \A c \in todo : ~ ChangeNotFound(c)
    BY <1>1, <1>7, LivesSteps DEF Lives
<1> QED BY <1>2, <1>3, <1>4, <1>5, <1>6, <1>7 DEF LNext, Start, Lives

(* The daemon keeps the promise of a participant across its lives, for any *)
(* number of interfaces, leaves, failures and deaths.                      *)
THEOREM RefinementAcrossLives == LSpec => ImplementsAcrossLives
<1>1. Inv /\ Inv' /\ [LNext]_lvars => [Abstract!MortalNext]_(Abstract!vars)
    BY LifeRefines
<1>2. LifeInv => Inv
    BY DEF LifeInv, Inv
<1>3. LInit => Abstract!Init
    BY InitRefines DEF LInit
<1> QED BY <1>1, <1>2, <1>3, LifeInvariant, PTL
        DEF LSpec, ImplementsAcrossLives, Abstract!MortalSpec
=============================================================================

# A TLA+ model of nlif

nlif is a C library that configures the network interfaces of Linux through
rtnetlink, and `nlifd`, a daemon that puts the library behind the
ietf-interfaces YANG model of a sysrepo datastore. The modules here model the
core of both, TLC checks them on small instances, and TLAPS proves the main
safety results for every value of the constants. Paths such as `lib/iface.c`
are relative to the root of the repository.

## 1. The system

### Components

| part | state | operations | correct when |
|---|---|---|---|
| common (`lib/common.[ch]`) | logger | allocate, duplicate strings, log | - |
| link (`lib/link.[ch]`) | none | validate names and aliases, format flags, states, addresses | formats agree with the YANG enumerations |
| gate (`lib/gate.[ch]`) | the netlink socket, the library's list of parsed notifications, one subscriber | getlink, setlink, dump, join and leave the group, `nlif_gate_notify_changes()`, tell the subscriber of NEW, CHANGE, MODIFY, RELOAD | no change of a link is missed, every object event reaches the subscriber |
| interface object (`lib/iface.[ch]`) | state (invalid, clean, dirty), dirty masks, cached attributes | load, reload, refresh, setters, coherent getters, apply, print | the cache never lies about what its caller did not change; an apply sends all of what was changed |
| store (`lib/store.[ch]`) | list of handles, tables by index, name and alias | load, clear, enroll, withdraw, look up; rehash on MODIFY and RELOAD; refresh on CHANGE | an interface is found by what it is called, and nobody shares a name or an alias |
| obsrv (`lib/obsrv.[ch]`) | list of subscribers | subscribe, unsubscribe, notify | each subscriber is told once |
| daemon, configuration (`src/nlifd.c:603-1038`) | none of its own: the objects of the store | a handler per leaf, apply pass, restoration | an accepted change is in the kernel, another leaves no trace |
| daemon, operational state (`src/nlifd.c:347-469, 1050-1129`) | what was published to the operational datastore | publish on a change, dispatch notifications | what is published is what the link is |
| daemon, statistics (`src/nlifd.c:471-597`) | none | answer an operational get | - |
| daemon, start and stop (`src/nlifd.c:1131-1526`) | datastores | reset an empty datastore, subscribe, open, poll, close | datastore and kernel agree after a start |
| repo (`src/repo.[ch]`) | none | sysrepo helpers no makefile builds | - |
| samples (`sample/`) | none | show, set and monitor from the command line | - |

External: the kernel (rtnetlink, `do_setlink()`, multicast to RTNLGRP_LINK),
libynl (one socket for requests and notifications), sysrepo (CHANGE, DONE,
ABORT, redelivery of shelved events), stroll and upoll.

### Interactions

Everything in the daemon runs in one thread under upoll. sysrepo's events call
`nlifd_on_iface_change()`, which looks objects up in the store, sets and
applies them; an object makes requests through the gate; the gate tells the
store of each object that was applied (MODIFY) or read anew (RELOAD), and the
store may refuse, which fails the caller. When the socket is readable
`nlifd_dispatch_notif()` has the gate list and process notifications; the store
refreshes the object and tells `nlifd_push_oper()`, which asks for the object's
coherent name, hence may reload it *by a request on the very socket whose list
is being processed*. The kernel runs concurrently with all of it.

### What is hard

* Requests and notifications share a socket: a request reads whatever waits
  there and moves notifications to a list that no poll looks at.
* A setlink request may fail with some attributes set.
* An object may be reloaded in the middle of a list of older notifications.
* The buffer of the socket overruns; links go away unnoticed.
* A transaction runs over all interfaces of the store in two passes, whatever
  other transactions left in them, and is undone step by step.
* What is published follows the notifications, and requests bring changes that
  no notification tells of.
* The daemon dies anywhere in a transaction and starts over what it left; any
  step of its start may fail.
* An object frees its strings before it knows whether it gets others.
* Subscribers leave while they are told.
* Registration follows values that are set, not applied yet, refused by the
  store after the kernel accepted them, or shared in the kernel.

`PROJECT.json` lists these at their lines, under `hazards`.

## 2. Modules

| module | models |
|---|---|
| `Iface` | the interface object as a value: loading, setting, refreshing and applying as operators (`lib/iface.c`, `islink_valid` of `lib/gate.c`) |
| `IfaceCache` | one object, its link, the socket and the event loop (`lib/iface.c`, `lib/gate.c`, the CHANGE event of `lib/store.c`, `nlifd_dispatch_notif()`) |
| `Publish` | `IfaceCache` under the daemon, and the leaves it publishes (`src/nlifd.c:369-469, 1050-1106, 1266-1316`, `nlif_link_operstate_str()`) |
| `Config` | the configuration events of the daemon over all objects of the store (`src/nlifd.c:603-1020`) |
| `Draft`, `IfaceRefinement` | what an object promises to its caller: a draft of its link, committed as a whole; the mapping from `IfaceCache` |
| `Participant` | what `Config` promises to the datastore: a participant in its transactions; and, for `Lifecycle`, one that comes and goes |
| `ConfigRefinement` | the mapping from `Config`, and so from `Lifecycle`, to `Participant` |
| `Lifecycle` | `Config` in a daemon that starts, ends, dies and starts again (`src/nlifd.c:1186-1526`) |
| `Store` | the registry of names and aliases over all objects (`lib/store.c`) |
| `Strings` | the ownership of the alias and kind strings of the objects (`lib/iface.c`) |
| `Obsrv` | the list of subscribers, and subscribers that come and go while they are told (`lib/obsrv.[ch]`) |
| `Session` | what the daemon, or another program, opens and closes, and in which order (`src/nlifd.c:1131-1526`, `lib/gate.[ch]`, `lib/store.[ch]`) |
| `IfaceProofs` | lemmas about the operators of `Iface` |
| `IfaceCacheProofs` | theorems of `IfaceCache`, its refinement of `Draft`, and `Publish` |
| `ConfigProofs` | theorems of `Config`: its objects and passes, what a transaction that fails leaves, and its refinement of `Participant` |
| `LifecycleProofs` | the same across the lives of the daemon, on top of `ConfigProofs` |
| `StoreProofs`, `StringsProofs`, `ObsrvProofs`, `SessionProofs` | theorems of the module each is named after |
| `MC...` | constants for TLC |

`IfaceCache`, `Config` and `Store` share `Iface` and look at the objects from
three sides; each abstracts what the others detail. `IfaceCache` has the socket
and one object, `Config` all objects and the failures of requests but no queue,
`Store` all objects and the tables but no queue and no daemon. `Publish` extends
the first and `Lifecycle` the second, and take its actions as they are.
`Strings`, `Obsrv` and `Session` stand alone: each has a state of its own that
the values of the others do not depend on.

### Iface

An object is `[state, dirty, conf, oper]`. `conf` holds the configurable
attributes (a subset `Field` of group, name, alias, mtu, hwadr and up),
`oper` the volatile flags, operstate and linkmode as one value, `dirty` stands
for `dirty_fields` and `dirty_flags`. Type, kind, lower link and master are
never set by the library and are left out. `state = "none"` is an object not
loaded yet (`NLIF_STAT_NR`). Where the code has several outcomes depending on a
request, an operator returns the set of them: `Reloads` and `Syncs` (read,
read and then refused by the subscriber, not read) and `Commits` (what the
kernel holds after a setlink that set the attributes `D`: setting the
administrative state may move the operational one).

### IfaceCache

| action | code |
|---|---|
| `KernelOper`, `KernelRemove` | the kernel changes or removes the link and posts a notification |
| `EnableNotif`, `Load` | `nlifd_open()`: membership, then the dump |
| `Set`, `Get` | `nlif_iface_set_*()`, `nlif_iface_coherent_*()`, with the reload of an invalid object |
| `Reload` | `nlif_iface_reload()` |
| `Apply`, `ApplyFails` | `nlif_iface_apply()`; the setlink fails having set any subset of what was dirty; the store refuses MODIFY |
| `LoadStats` | `nlifd_iface_get_stats()`: a request, and with it what it does to the socket |
| `Dispatch`, `Process`, `DispatchEnds` | `nlif_gate_notify_changes()`: list what waits, process the list to its end, each notification refreshing the object and possibly reloading it |

`sockq` is the receive buffer, `ntfq` the library's list; `Request` moves the
first to the second. `lost` records an overrun and `crashed` the comparison
with NULL of `nlif_iface_set_name()`, after which nothing is claimed. API calls are atomic: the program has one
thread, and what the kernel does during a call is the same as doing it before
or after the request of the call, except for notifications, which is what
`RequestChange` and the actions of a dispatch are about.

### Draft and IfaceRefinement

A draft is opened on what the link holds, edited one attribute at a time within
what is proper (the asserts of `lib/iface.h:56-64`), dropped, or committed; a
commit that fails leaves the link with some attributes of each, and no draft.
The mapping shows what a usable object shows, and hides the masks, the
operational state, the socket and the membership. An apply sends the dirty
attributes alone; that this is a commit of the whole draft is what the
refinement is about, after any history of reloads, refusals and applies that
failed half way.

### Config

Entry `n` of the interface list names interface `n` of the store; entry `N + 1`
stands for all those that name none. A transaction is a set of leaf changes
(`enabled` with old and new value, or `type`). `phase` walks through

    change -> apply -> accepted -> (DONE) idle
       |        |          \-> (ABORT) restore -> reapply -> aborted -> idle
       |        \-> restore -> reapply -> rejected -> idle, or shelved
       \-> refused -> idle, or shelved                shelved -> change

with an action for each handler call (`ChangeLeaf`, `ChangeRefused`,
`ChangeFails`, `RestoreLeaf`) and each `nlif_iface_apply()` (`ApplySkips`,
`ApplySucceeds`, `ApplyFails`). Handlers run in any order, as sysrepo's
iterator is not specified by the code here; applies run in the order of the
store's list. `Resync` is the reload an operational change causes between
events. `faults` counts the requests that failed for a link that is there and
`settled` the interfaces a change of which was accepted and for which no
request and no handler failed since: both exist only to state properties.
A refused change gets no ABORT, since sysrepo sends it to the subscribers that
had accepted.

### Publish

`PNext` restricts `IfaceCache` to the daemon: membership and load come before
`ready`, dispatches and calls after it. `Setup` publishes what was loaded;
`Push` and `PushFails` are the step of `Process` that changes the object, with
`nlifd_push_oper()` in the same step, which first makes the object coherent and
so may reload it. `PushFails` has the three ways to fail: no name, a value the
leaf does not have, a refusal of sysrepo (`MaxFailures` of these). sysrepo then
discards changes of the module; whether only those of the failed call or all
that were published is its own affair, so both are possible. Every other step
is `Silent`: it publishes nothing. `behind` records that the object's state
changed without being published.

### Participant and ConfigRefinement

A participant is asked for a set of administrative states, works, and prepares
or fails. While it works a trusted member moves only between what the datastore
holds and what is asked, and only backwards once it undoes; it may vote for a
transaction only with everything asked in place, and may fail it only with
every trusted member as the datastore has it. `ConfigRefinement` hides the objects, the masks, the position
of the passes and the leaves not told yet. Members trusted are the settled ones
that are present; a transaction that is shelved and delivered again is one that
still works.

`MortalSpec` adds what happens while the participant is away: the datastore
stores without a vote, and members come back as others. The same mapping carries
`Lifecycle` to it: a death in the middle of an event is a `Fail`, a start is
hidden, and what was accepted before a death may still be committed.

### Lifecycle

`stage` is how far the daemon is: down, loaded, empty (the datastore was), reset
or not, subscribed, up. `Die` covers a step of the start that fails, the end of
the daemon and its death in the middle of an event, which sysrepo fails for it;
an accepted transaction may still be committed after that, or its abort be heard
by nobody (`AbortLost`). While nobody is subscribed clients edit the datastore
(`CommitUnheard`) and links come back (`Replug`). `stored` is what the load
found, so a transaction may name a link that is there and has no object
(`ChangeNotFound`). `Check` and `Reset` are two steps, as in the code: a client
may store something in between.

### Strings, Obsrv, Session

`Strings` has a heap of blocks, and pointers to them in the objects: what is
freed, allocated again and by whom. `Apply` is there for the states it leaves.
`Obsrv` reads the list the way the iterations do: the plain one asks for the
successor after the callback, the safe one before it. A node that was removed
is its own successor. Callbacks may leave or subscribe others in the safe
iteration only, as debug builds assert. `Session` walks through `main()`: `at`
is the place, `held` what the daemon holds; `Program` is any other program that
follows the assertions of the headers, as `sample/mon.c` does.

### Store

`nameh[n]` and `aliash[n]` are the buckets handle `n` is linked in, `NoBucket`
when it is in none. `Rehashed` is what MODIFY and RELOAD do: unlink, check,
link or fail. The checks see one bucket and compare with what objects *show*
(`Matches`), as the code does, so whether names stay unique is a question and
not an assumption. The kernel refuses two links of one name and allows two of
one alias.

`AnswersByName`, `AnswersByAlias` and `AnswersByStrid` are the lookups, each as
the set of its possible answers: an interface, `Nobody` or `Crash`. The code
answers the first match of a chain whose order is that of stroll's hash lists,
so any match may be it; and it hands the alias of each handle before the match
to `strcmp()`, NULL included, so a handle without alias anywhere in the chain
may crash the lookup of another's (`Unaliased`). A match is what the object
shows, hence may be an interface that is being renamed and has not been
applied. `LookupExact` is stated of every answer. `StoreRenamed.cfg` shows that
its exception is needed: with two names in one bucket, an interface being renamed
may be found instead of the owner of the name (`OwnerAnswered`).

Links disappear but are not created: the store learns of new links
from a load only. `crashed` is the handle that is not found in `Unknown`.

## 3. Runs

| run | instance | shows |
|---|---|---|
| `iface_cache` | 4 attributes, name and alias over 2 shared strings, 3 MTUs one of which is out of range, 3 changes of the link, socket of 2 | `DirtyMask`, `CacheCoherent`, `WellFormed`, `OperTracked`; `AppliedIsWhole`, `NotifKeepsPending`; `DispatchCatchesUp`; `ImplementsDraft`: `IfaceCache` implements `Draft` |
| `iface_cache_stuck` | administrative state | `OperCatchesUp` violated |
| `iface_cache_rename` | name and alias | `SetNameDefined` violated |
| `publish` | administrative state, 3 operational states one of which the leaf does not have, 3 changes of the link, 1 refusal | `PublishedCurrent` |
| `config` | 2 interfaces, 2 leaves, 1 fault | `ObjectsCoherent`, `AcceptedIsApplied`, `NothingPending`, `RolledBack`, `InSync`; `Implements`: `Config` implements `Participant` |
| `config_leftover` | 1 interface, 2 leaves, no fault | `OnlyChangesReflected` violated |
| `lifecycle` | 2 interfaces, 1 leaf, 1 fault, 1 death | `InSync` across lives; `EveryTransactionConcluded`; `ImplementsAcrossLives`: `Lifecycle` implements `Participant` that comes and goes |
| `store` | 2 interfaces, 3 strings, 2 buckets | `Findable`, `SoleOwner`, `LookupExact`, `AliasKnown` |
| `strings` | 2 objects, 5 blocks | `NothingLost`, `OwnedOnce` |
| `strings_stale` | 2 objects, 4 blocks | `StringsValid` violated |
| `obsrv` | 3 subscribers that leave while told and subscribe others | `ToldOnce`, `OnlySubscribersTold`, `NotificationEnds` |
| `session` | 3 links, every step may fail | `InOrder`, `NothingLeft`, `FailedEnds` |

Each run also checks the type invariant of its module.

### The bounds

* `MaxEvents = 3`: three changes of the link after Init let a notification be
  in the socket, one in the list and one still to come, around a reload.
* `SockCap = 2`: an overrun is reached with events to spare. The properties
  about lost notifications are stated with and without `~ lost`.
* Two strings shared by name and alias: enough for the two to swap, collide and
  be removed; the third value of the MTU is refused by the setter.
* `N = 2`: one interface is applied and the other fails, in both orders of the
  store; `MaxLeaves = 2` gives transactions of both interfaces, and of two
  leaves of one. One fault makes an apply fail after another succeeded, or a
  step of a restoration that an abort started; links that go away make requests
  fail besides, without a bound, so that a restoration fails after an apply did.
  The theorems hold for every `N`, `MaxLeaves` and `MaxFaults`.
* Three strings over two buckets: two names that meet in a bucket, one that is
  alone, and one that is both a name and an alias.
* `MaxFailures = 1`: a publication fails after one succeeded and before another
  does. `MaxDeaths = 1`: a daemon dies anywhere and another one starts over what
  it left; `InSync` is proved for any number of deaths. One leaf there,
  over two interfaces: what a transaction of several leaves does is the question
  of `config`.
* Three subscribers: one that leaves, the next one it could end or read, and
  one that is subscribed meanwhile. `told` saturates at 2, which is once too
  often.
* Five blocks for two objects of two strings: an alias is duplicated while all
  the others are allocated. With four, `strings_stale` has a block freed by one
  object taken by the other.
* `Links = 3`: the reset of the datastore fails at the first entry or a later
  one, and after a load that brought none. `Session` is small by nature: a
  program of some twenty steps.
* Symmetry is declared for the blocks of the heap, which are told apart only by
  being equal. Interfaces are ordered by the store, strings by their buckets and
  subscribers by the list, and have none.

Deadlock is checked for `Config`, `Lifecycle`, `Obsrv` and
`Strings`, which always have a next step. The other cfgs say
`CHECK_DEADLOCK FALSE`: a program that crashed or ended stops, and so does an
instance whose links are gone or whose events are used up.

### Fairness

`IfaceCache`: weak fairness of `Dispatch` (upoll is level triggered, so a
socket that stays readable is dispatched), `Process` and `DispatchEnds` (the
loop of `nlif_gate_notify_changes()` goes on). `Lifecycle`: weak
fairness of the start once the links are loaded, of the events of a daemon that
is up (a handler runs to its end, and sysrepo delivers a shelved event again), of
what sysrepo does with a transaction it was answered, and with one
whose subscriber is gone (`AbortLost`); nothing starts a dead daemon again.
`EveryTransactionConcluded` rests on finitely many faults: a kernel that answers
-EAGAIN for ever has an event shelved for ever. `Config` is checked for
safety only: its liveness is that of `Lifecycle`, behaviours without a death
included. `Obsrv`: weak fairness of `Advance`, a callback returns.
`NotificationEnds` leaves out callbacks that subscribe for ever, since a safe
iteration reaches those that are appended, and may follow them. `Session`: weak
fairness of the steps of the start and the end, which run without waiting, and
none of `Poll`, where a daemon may stay. The kernel, clients and callers are not
obliged to anything.

## 4. What the code does that its documentation does not say

Each of these is a property that a comment, an assertion or a document of the
repository states, and that TLC refutes in seconds under the configuration
named. The first four are runs of `PROJECT.json`, with their quotes; the others
are kept with their configurations beside them.

1. `iface_cache_stuck` (`IfaceCacheStuck.cfg`): a notification moved to the list
   by a request waits until another one makes the socket readable.
2. `iface_cache_rename` (`IfaceCacheRename.cfg`): `nlif_iface_set_name()`
   compares with an alias that may be NULL.
3. `config_leftover` (`ConfigLeftover.cfg`): leaves set before another one was
   refused stay dirty in their objects and ride on the next transaction.
4. `strings_stale` (`StringsStale.cfg`): a reload that fails leaves freed strings
   in the object (`lib/iface.c:645` against the assertion of `lib/iface.h:58`).
5. `IfaceCacheOverrun.cfg`, `OperTrackedAlways`: the result of `ynl_ntf_check()`
   is ignored (`lib/gate.c:342`), an overrun leaves the cache stale.
6. `ConfigMisuse.cfg`, `NeverMisused`: both passes apply invalid objects, which
   `nlif_iface_apply()` asserts against (`lib/iface.c:756`). The model goes on as
   a build without assertions does: nothing is sent and the call succeeds.
7. `StoreAlias.cfg`, `AliasedInTable`: an alias being removed is NULL while its
   handle is in the table of aliases (`lib/store.c:73`). `AliasKnown` says that
   this happens only then, or to an object that cannot be trusted.
8. `StoreWithdrawn.cfg`, `HandleFound`: the store looks up, and does not find,
   the handle of an object it does not hold (`lib/store.c:502, 532`).
9. `PublishStale.cfg`, `OperPublished`: a state that a reload brought is in the
   object and not in the datastore; the notification of it changes nothing and
   is not published (`notes.txt:197`).
10. `PublishAdmin.cfg`, `AdminReflected`: notifications are compared by the
    volatile flags, and IFF_UP is not one: an applied administrative state is
    not published (`lib/iface.c:599`, `notes.txt:142-143`).
11. `PublishEnum.cfg`, `Expressible`: "notpresent" and "lowerlayerdown"
    (`lib/link.c:86`) are not what the enumeration has (`notes.txt:180, 186`).
12. `LifecycleStart.cfg`, `IntendedAtStart`: a daemon that starts applies nothing
    of a datastore that is not empty (`src/nlifd.c:1029`, `notes.txt:138-140`).
13. `ObsrvOthers.cfg`, `OnlySubscribersTold`: the safe iteration tells a
    subscriber whose subscription the one before it ended, and then never ends
    (`lib/obsrv.c:56` against the assertion of line 11).
14. `SessionTree.cfg`, `TreeFreedOnce`: the tree of a refused reset is freed
    twice (`src/nlifd.c:1254` against the comment of lines 1243-1248).
15. `SessionEnable.cfg`, `EnablesWithSubscriber`: disabling notifications takes
    all events from the store (`lib/store.h:124`), and they cannot be enabled
    again (`lib/gate.c:286`).

The passing properties are true in spite of these, and exclude them openly:
`InSync` speaks of interfaces none of whose transactions failed half way since a
change was accepted, which is what 3 requires; `OperTracked` of a socket that
dropped nothing (5); `PublishedCurrent` of what follows a publication that
succeeded (9, 11). A publication that failed is not made good before the next
change of the same interface, and no property says otherwise.

## 5. Proofs

Every invariant and action property a run checks, and both refinements, are
theorems, checked by tlapm with SMT, Zenon and LS4 for every value of the
constants that the assumptions allow: `IfaceAssumption` (the attributes are
those of the code, the absent alias is not a name), `BoundAssumption`,
`ClosedAssumption` (no draft is not a configuration), `ConfigAssumption` (the
daemon sets the administrative state only), `LifecycleAssumption` and
`PublishAssumption` (bounds are naturals, and operational states are those
`nlif_link_operstate_str()` knows), `StoreAssumption` (the hash function is
total on names and aliases), `StringsAssumption` (the null pointer is not a
block), `ObsrvAssumption` (the head of the list is not a subscriber) and
`SessionAssumption` (the number of links is a natural). `EveryoneTold` and
`NobodyElseTold` have a hypothesis besides, given below.

* **IfaceCacheProofs.** `IfaceInv` is `TypeOK`, `Sound` (the dirty masks agree
  with the state, a usable object shows the kernel's value outside its mask and
  is well formed; defined and proved step by step in `IfaceProofs`), `MtuFits`
  of the kernel's link, `OperTracked`, and one fact its induction needs: before
  the membership both queues are empty and no object is loaded.
  `TrackingSafety` is about the last notification of queues of any length, and
  rests on lemmas about the last element of what is appended, concatenated or
  taken from. `CacheCoherent` needs `DirtyMask`, as an apply cleans what the
  mask names; `WellFormed` needs the kernel's link, as that is what a reload
  reads.

  `DraftRefinement`: each step is one of the draft or hidden. `Sound` makes an
  apply a `Commit`, since the mask names all in which object and link differ,
  and keeps every edit within what is proper.

  Every step of `Publish` is a step of `IfaceCache` or leaves it alone
  (`PublishImplements`), so `IfaceInv` carries over. `PublishInv` says that a
  daemon that polls is a member and loaded, and that what it published is what
  its object shows unless it is behind; with `OperTracked`, which says that the
  object shows the kernel's state once the queues are empty, this is
  `PublishedCurrent`.
* **ConfigProofs.** `ConfigInv` is the types, `ObjectsSound` (every object is
  loaded and `Sound`), `Distinct` (a transaction has one change of a leaf),
  `HandledCarried` (a change whose handler ran is carried by a usable object
  until the event fails or ends), `PassProgress` (in a pass, no interface before
  `pos` is dirty; outside of one, `pos` is 1) and `NothingPending`.
  `AcceptedIsApplied` follows: at the end of the first pass the object carries
  the change and is not dirty, so it is clean, hence shows what the kernel has.

  `RolledBack` and `InSync` need `LedgerInv` besides. Its `Ledger` says what the
  link of each settled interface holds while its leaf is not told to the
  objects: what the datastore holds, with nothing pending. `OldIsRunning` ties
  the old values of a transaction to the datastore; `RestoredLeaves` says that a
  restored leaf is carried by a usable object until the pass applies it, if its
  interface is settled or no fault was spent on the restoration; `Accounted`
  counts the fault that had a transaction rejected, so that a second one can be
  told from it. The proof has a lemma per action, and the same argument serves
  the interfaces of both properties.

  `Refinement`: each action maps to one of the abstract actions of `Participant`
  or to a stutter, under the invariants above. `Ledger` is what makes a
  rejection an abstract `Fail`, `HandledCarried` what makes an accepted event a
  `Prepare`.
* **LifecycleProofs.** The invariants of `Config` and of its rollback survive the
  steps of a life: objects filled anew are sound, what is being processed when
  the daemon dies loses the trust of its interfaces, and while nobody is
  subscribed no transaction is in a phase that needs objects (`Unheard`).
  `RefinementAcrossLives` takes the steps of `Config` from `Refinement`, and
  needs a lemma for each kind of step a life adds.
* **StoreProofs.** `StoreInv` is the types, `Linked` (a usable object is linked
  under its name and its alias unless these are dirty) and `SoleOwner`, which
  `Linked` makes inductive: two objects of one string are in one bucket, where
  the check of the second sees the first. This is the argument for a check that
  is local to a bucket, and why the theorems ask nothing else of `Hash`.

  `AliasKnown` is inductive on top of `StoreInv`: a *bare* object (usable, its
  alias not dirty and absent) is linked under no alias. An alias that is removed
  is dirty until the apply, and the MODIFY of that apply is what unlinks it; a
  reload unlinks first, and an object the store refuses is not usable.

  `LookupExact` needs the three: by `Linked` the owner of a string is in the
  chain that is walked, so an answer of nobody means no owner; by `SoleOwner` an
  answer that is not in doubt is the one owner; by `AliasKnown` a NULL alias in
  the chain is that of an object in doubt. As it holds of every match, it holds
  for every order of the chains.
* **StringsProofs.** An outcome of a call over object `n` *reaches* what it should
  if every live block is one of the others' or one the object points to
  afterwards, and *owns* it if besides none is both, nothing was freed twice,
  and its two strings are not one block. Every function of `lib/iface.c` that
  frees or allocates is shown to keep the first, and the second as long as no
  reload failed (`torn`); a step over one object then keeps `NothingLost` and
  `OwnedOnce` of all. The type invariant says that an object that is not loaded
  points nowhere: freeing the object would lose its strings otherwise.
* **ObsrvProofs.** `Pending` says that the next subscriber is another one that is
  still in the list, that those who were there from the beginning were told if
  they are before it and not if they are from it on, and all of them if none is
  left. The list is a sequence of any length, without induction over it:
  `RemoveAt` and `Append` are known by their elements. The invariant holds of
  callbacks that end no subscription but their own, in a safe iteration; this is
  the hypothesis `Leaves \subseteq OwnLeaves` of `EveryoneTold` and
  `NobodyElseTold`, and what run `obsrv` lets callbacks do. `ObsrvOthers.cfg` shows
  that both are false of more. `ObsrvTyped` has no such hypothesis.
* **SessionProofs.** `Staged` gives, for each place of `main()`, what the daemon
  holds there: exactly, up to the last step of the start, and between two bounds
  at the labels where failures of several steps meet. `InOrder` and
  `NothingLeft` are read off it. For the other programs, which have no places,
  `ProgramInOrder` is the part of the order that the assertions of the headers
  are enough for.

Model-checked only: the liveness properties `DispatchCatchesUp`,
`EveryTransactionConcluded`, `NotificationEnds` and `FailedEnds`, since fairness
and ENABLED are beyond the prover. No module declares a RECURSIVE operator.

## 6. Not modelled

* Another program that configures the same links: `lib/store.c:416-419` says
  that the daemon does not coexist with one. `IfaceCache` lets the kernel change
  the operational state and remove the link, not its configured attributes.
* Links that appear while the daemon runs: the code ignores those too. In
  `Lifecycle` a link that comes back keeps its name.
* `nlif_iface_print()`, the formats of `lib/link.c` but for the operational
  states, the counters of the statistics, logging, XPATHs.
* A notification sent from within another: nobody sends one.
* Requests by name, which differ from those by index in what they ask, not in
  what they do to the objects and the socket.
* The type and description leaves of a datastore entry, but for the check of the
  type; the YANG default of `enabled`, which `netlink-interfaces.yang` deviates
  to false, is the operator `Desired`.
* Memory exhaustion, which ends the program (`lib/common.c`).
* `src/repo.c`, which is not built, and the samples, but for the order of the
  calls of `mon.c`.

## 7. Plan

The core (`Iface`, `IfaceCache`, `Config`, `Store` and their theorems) came
first because every other part rests on it; `Publish`, `Lifecycle`, the
refinement to `Participant`, `Strings`, `Obsrv` and `Session` followed, then the
proofs of the latter and the refinement to `Draft`. Left:

1. An abstract directory of names for `Store`, that `Rehashed` implements with
   buckets.
2. `LinkText`: the validation of names and aliases and the formats of
   `lib/link.c` against reference definitions.
3. `Lifecycle` with links that come back under other names, and with the
   publications of `Publish`.

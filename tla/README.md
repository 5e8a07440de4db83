# Percas in TLA+

TLA+ models of Percas, a decentralised cache service: its membership table,
gossip protocol, consistent hash ring, request routing, configuration and process
life cycle. The gossip protocol is shown to implement an abstract specification.
The models are checked on small instances with TLC; every safety property that a
run finds to hold, the refinement included, is also proved with TLAPS for every
value of the constants. `PROJECT.json` relates every definition to the
lines it models and lists the runs, the mutants, the findings, the hazards and
the theorems.

## The system

| component | state | operations | talks to |
|---|---|---|---|
| membership table (`crates/gossip/src/member.rs`) | map id -> (info, status, heartbeat) | `update_member`, `remove_member`, `is_dead` | - |
| node identity (`crates/gossip/src/node.rs`) | `node.json`: id and incarnation | `load`, `advance_incarnation`, `persist` | disk |
| gossip (`crates/gossip/src/gossip.rs`) | current node, table, ring, four loops | `start`, `fast_bootstrap`, `handle_message`, `ping`, `sync`, `mark_dead`, `rebuild_ring`, `remove_dead_members` | peers over HTTP, with retries |
| hash ring (`crates/gossip/src/ring.rs`) | map hash -> set of ids | `add_node`, `lookup`, `lookup_until`, `list_vnodes` | - |
| proxy and handlers (`proxy.rs`, `middleware.rs`, `server.rs`) | - | route or redirect; `get`, `put`, `delete`, `list_members` | reads ring and table, calls the engine |
| engine (`crates/core/src/engine.rs`) | hybrid memory/disk cache (foyer) | `get`, `put`, `delete` | disk |
| client (`client/src/client.rs`, `route.rs`) | route table and its age | `get`, `put`, `put_owned`, `delete`, refresh | control and data servers |
| configuration (`cmd/percas/src/config.rs`, `crates/core/src/config.rs`, `newtype.rs`) | a TOML document, the environment | `load_config`, `set_toml_path`, deserialisation | - |
| process (`start.rs`, `server.rs`, `runtime.rs`) | tasks and their handles, the locals of `run` | `run`, `run_server`, `start_gossip`, `start_server`, `await_shutdown`, drops | all of the above |
| metrics report (`scheduled.rs`) | the last snapshot of the engine's counters | `do_report` every minute | engine, metrics |
| telemetry (`telemetry.rs`, `crates/metrics`) | exporters and their guards | `init`, flush on drop | its own runtime |
| rate limit, version, developer tools | see "Not modelled" | | |

What is hard here:

* *Interleaving.* Every exchange of the gossip awaits, with up to four attempts a
  second apart, and works with identities and snapshots read before.
* *Failure.* A node crashes and comes back under a higher incarnation, maybe at
  another address; `node.json` is written in place; a handler may panic.
* *Delivery.* Requests and answers are lost, retried, and may be handled after
  their caller has given up. No HTTP client has a timeout: a peer that takes a
  request and is silent holds its caller for as long as it likes.
* *Disagreement.* Nodes route with their own tables and rings, clients with a copy
  that is up to ten seconds old and contains dead members.
* *Life cycle.* Loops may panic long before anyone awaits their handles; what is
  flushed, and when, follows from the order in which locals are dropped.
* *Configuration.* Variables are applied in the order of a `HashMap`, and each may
  create or replace what another is set in.

What makes each component correct: a table ends up with the freshest report in
whatever order reports come; an incarnation is on disk before anyone hears of it
and stands for one address; a node is known alive or dead according to the facts,
eventually; a ring gives each key to exactly one live member and moves only the
keys it must; while nodes agree, a key is read and written at one place; the
configuration is the environment laid over the file, in whatever order; a process
starts and stops whatever its tasks do, and reports what it has measured once.

## Modules

| module | what it is |
|---|---|
| `Membership` | tables and the merge of a report, as pure operators |
| `MCMembership` | one entry under every sequence of reports |
| `Gossip` (extends `Membership`) | the protocol: processes, loops, exchanges, disk, clock |
| `MCGossip` | its instances |
| `ClusterView` | what a cluster promises of its nodes' views of each other, without messages, disks or clocks |
| `GossipViews` (extends `Gossip`) | the refinement: Gossip implements `ClusterView` |
| `MCViews` | its instance |
| `HashRing` | the ring and the client's route table, as pure operators, with the definition of ownership they are compared with |
| `RingGrowth` (extends `HashRing`) | rings that grow member by member, for every placement of virtual nodes |
| `MCHashRing` | its instance |
| `Routing` (extends `HashRing`) | client, proxies, handlers and engines; the gossip appears as changing views |
| `MCRouting` | its instances |
| `Config` | documents, the option table, the structs and `set_toml_path`, as pure operators, with the overlay they are compared with |
| `Lifecycle` (extends `Config`) | one process, from its config file to the last drop |
| `MCLifecycle` | its instance |
| `MembershipProofs`, `RingLemmas` | what merges, scans and lookups return, for the proofs below |
| `UpdateProofs` (extends `MCMembership`) | theorems about one entry under every sequence of reports |
| `GossipProofs`, `HashRingProofs`, `RoutingProofs`, `LifecycleProofs` | theorems about the module they are named for (the second about `RingGrowth`) |
| `GossipViewsProofs` (extends `GossipProofs`) | the refinement, proved |

Definitions that follow a comment "A merge that ...", "A retry that ..." and are
used nowhere are plausible bugs of the definition they precede: the mutants
`PROJECT.json` lists, each of which makes a property fail.

### How Gossip corresponds to the code

The gossip runtime has one worker thread (`make_gossip_runtime`), so the code
between two awaits is one action. The exception is the first store of `start()`,
made by the thread that runs `run_server`; `DeliverDuringStart`, and
`DeliverLateDuringStart` for a request its sender has given up, is the handler that
loads the table before that store and stores after it.

* `phase[n]`, `disk[n]`, `current[n]`: process, `node.json` and `current_node`.
  `Boot` is `start_gossip` up to the control server answering (load or create,
  advance, persist); `BootTorn` is a process that dies while writing. With a torn
  file `NodeInfo::load` panics, so `CanBoot` excludes it. `Crash` is any end of a
  process.
* `membership[n]`, `ring[n]`: the two `ArcSwap`s. The ring is kept as the set of
  ids it was built from: `RingDependsOnMembersOnly` justifies that.
* `call[n][t]`: the exchange awaited by the ping loop, the anti-entropy loop or
  `fast_bootstrap`, with the URL, the peer it was picked from, the message built
  before the first attempt, the attempts used and the answer. `LoopTick` and
  `BootSend` start one, `Deliver` is the peer's handler, `Retry` and `RetryLate` a
  failed attempt (in the second the request is still on its way and
  `DeliverLate` may handle it later), `HandleReply` the answer's
  `handle_message`, `GiveUp` the `mark_dead`, `BootGiveUp` the bootstrap going on.
  `Hang` is a peer that takes the request, handles it or not, and never answers:
  `Client::new()` sets no timeout, so the task awaits until its process ends.
* `panicked[n]`: loops killed by a panic, of `persist()` (`HandleReplyPanics`) or
  of `random_range(0..0)` (`LoopTickPanics`).
* A tick that picks a dead member does nothing and is not an action; neither is
  `remove_dead_members` when it finds nothing.

Abstractions: addresses stand for both URLs of a node; `cluster_id` is left out
(nothing compares it); time is a counter of ticks with a constant offset per
node; a request reaches whichever process serves its URL at that moment; the
periods of the loops are not modelled, every loop may tick at any time.

### What Gossip implements

`ClusterView` has two variables: the identities `issued` so far, and each node's
`view` of the others. A step is one node's: it may announce an identity of its
own, ahead of all it had announced, and change its view entry by entry, to a later
identity that was announced (`Learns`), to another judgement on the same identity
with a heartbeat that does not go back (`Judges`), or by forgetting a dead member
(`Forgets`); or its process ends and its view with it (`Leaves`).

`GossipViews` maps Gossip to it. `issued` is a history variable, the set of all
values `current` has had; the view of a node is its table once `start()` has
stored it, and empty before: what the control server learns earlier is
overwritten by that store. Messages, retries, disk and clocks are invisible. The
refinement says in one formula what the safety properties of Gossip say piece by
piece, and what none of them says: that a table holds only identities their owner
announced, and that no step changes the tables of two nodes.

### How Routing corresponds to the code

A call (`op[t]`) lists the members if the interval has elapsed (`ListMembers`,
`UpdateRouteTable`), is sent where `Client::route` says, and is then handled by the
node it is `at`, one await or load at a time:

* `LoadRing`: the request has arrived and `Proxy::route` has loaded the ring, which
  the call keeps in `members`. The membership is loaded by the next step, so
  gossip may replace both in between.
* `Serve` or `Redirect`: the route is the node itself, and the handler is called,
  or it is another, and the client follows the 307 if it may.
* `Write`: the body of a put has arrived (`into_bytes().await`), and the engine
  applies the put or the delete, wherever the proxy let it in and whatever the
  views are by now. `Read` is the engine's answer to a get, `Answer` its arrival:
  views and stores may change between the three.
* `Hang` and `SendFails`: the caller hears nothing, for ever, or an error. A write
  it has sent may go on without it, in one of the places `Late`, through the same
  steps; nobody follows its redirect (`GivesUp`). A get nobody awaits has no effect.
* `Stop` ends the requests its process has taken (`TakenBy`).

`list_members` answers with the table and, for each member, what a ring loaded for
it anew says, so a listing names any set between the members that are in the ring
and all of them.

`Report` changes one entry of one node's table: a member is heard of, changes its
status in either direction or, when dead, is forgotten (`Forgets` of `ClusterView`,
which Gossip refines); `RebuildRing` follows it. This is a superset of what Gossip
does, so what holds here holds whatever the gossip does. `store` is what an engine returns, `written` what its device may still bring
back after a restart; foyer may evict at any time, a failed read is a miss, and it
is trusted not to return, once a write is applied, what the key held before it. A
`put_owned` stands for one with a streamed body, which reqwest cannot send
again: the 307 itself reaches the caller, as an error (with any other body it is a
`put`). The client has no timeout; a caller that gives its own `reqwest::Client` may
choose another `MaxRedirects`.

The rest is history. `Agreed` says that the nodes that are up know the same members,
hold exactly each other for alive and have rebuilt their rings; a disturbance is any
change of views, a stop or a restart. `settled` is whether all have agreed since
the call was sent, `steady` whether they have since its present proxy loaded its
ring. `latest[k]` is the last write applied at the owner of `k` while all agreed,
`Unknown` after a disturbance, and `seen` what `latest` has been while a get was
with its node. So `ServedAtOwner` and `GetSeesLatest` are about whole requests, not
about the moment one is served: agreement at that moment alone would not do.

What the code does *not* promise shows in the model too. A write let in before a
disturbance is applied where it was let in, and answered with success, though by
then all may agree on another owner; it is not in `latest`, no undisturbed get
returns it, and it is lost. A write whose caller saw an error may be applied after
the caller's next call, and then counts as the later one.

### How Config and Lifecycle correspond to the code

A document (`Config`) maps the paths that exist to a table or a value; of a value
only its writer and whether it parses and fits its field matter. `StringOption`,
`IntegerOption` and `ArrayOption` are the table of options, `Schema` the structs
with what each requires and allows. `Overlay` is the reference: what the file and
the environment say in no particular order.

In `Lifecycle`, `main` is the statement or await `CommandStart::run` is at. First
come the turns of the loop over the environment (`ApplyVariable`, in any order),
the deserialisation and `telemetry::init`; then `run_server`, with `task` what has
become of each spawned task; then the drops. Servers may fail and the two loops
that call peers may panic at any moment; `fast_bootstrap` may hang; before the
handler is set ctrl-c kills the process, afterwards it signals. `drops` is what
Rust drops when `run` ends, in that order: the three runtimes, the last declared
first, then `drop_guards` from its first element. Dropping a runtime cancels its
tasks. `stats`, `snapshot` and `exported` are one of the four I/O counters of the
engine, what `ReportMetricsAction` last saw of it and what it has added to the
metrics.

The modules meet where the code does: `BootstrapHangs` is `Hang` of Gossip seen from
`start()`, `LoopPanics` its `HandleReplyPanics` and `LoopTickPanics`,
Routing is driven by any change of tables and rings, so by those of Gossip.
`BootstrapFails` is the error `fast_bootstrap` has for an empty table; Gossip never
leaves one there (the first store has the node itself, and a handler that races with
it stores at least the sender), so the action only adds behaviour.

## Runs

| run | checks | shows |
|---|---|---|
| `membership` | `EntryIsFreshest`, `ReturnsWhetherModified` | the merge is order-independent in incarnation and heartbeat, and its return value exact |
| `membership_stale` | `StaleReportKeepsStatus` | *violated*, finding 1 |
| `gossip_interleaving` | `ImplementsClusterView`, `IncarnationDeterminesInfo`, `TableMovesForward`, `SuspicionIsCurrent`, `OnlySelfSuspicion` | two exchanges in flight, a node that moves and takes over an address; the refinement |
| `gossip_faults` | `TypeOK`, `IncarnationOnDisk`, `BootSupersedes`, `TableMovesForward`, `RunningNodeInOwnRing`, `OnlySelfSuspicion` | retries, duplicates, late requests, torn files, panicking handlers, a clock that is ahead |
| `gossip_liveness` | `BootstrapEnds`, `CrashDetected`, `ViewsConverge` | liveness under `Fairness`, with exchanges that hang for ever |
| `gossip_expiry` | `CrashForgotten` | who is gone is forgotten, though snapshots bring it back |
| `gossip_split` | `SplitIsHealed` | *violated*, finding 3 |
| `gossip_empty_table` | `NoLoopDies` | *violated*, finding 2 |
| `hash_ring` | `LookupFindsOwner`, `JoinTakesOnly`, `RingDependsOnMembersOnly` | all placements of 3x2 virtual nodes on 4 hashes |
| `routing_views` | `RedirectLeadsToOwner`, `ServedAtOwner`, `FreshTableFindsOwner`, `CallsEnd` | stale clients, a stop, a restart, disagreeing and silent nodes |
| `routing_calls` | `TypeOK`, `ServedAtOwner`, `GetSeesLatest` | concurrent calls that wait in their handlers, writes that outlive their callers, evictions, keys that change hands |
| `lifecycle` | `LoadIsOverlay`, `CreatedIsWarned`, `ReturnsLast`, `ReportsOnce`, `FlushesLast`, `StartEnds`, `ShutdownEnds` | five files, every combination of six variables, every failure and panic at every moment |

### Bounds

Two gossiping nodes are enough for the properties of Gossip: each relates one
node's table to one member, a node also gossips with itself, and late requests
and a node's earlier incarnations play the part of third parties. One restart or
self-suspicion per node (`MaxIncarnation = 1`) gives two lives with messages of
the first alive in the second. `MaxRetries` is 0 or 1 rather than 3: a retry
differs from the first attempt only by what happened meanwhile, and one makes
that happen. `MaxLosses` lets a live peer be given up at least once; in
`gossip_liveness` it is 0, because `ViewsConverge` is about a network that works,
and an attempt then fails only where no process listens. `MaxLate = 1` is a
duplicate that survives a crash of its sender. `Deadline = 0` makes expiry one
tick away; in `gossip_expiry` the clock ticks once, so an entry whose heartbeat is
that last moment has no time left to expire in (`OutOfTime`) and is not counted.
`MaxHung = 2` in `gossip_liveness` can hold up both loops of a node, or one loop
and a bootstrap; elsewhere it is 0, since for safety an exchange that hangs is one
that takes no further step. The safety properties do not depend on these bounds:
the theorems hold for all of them.

Four hashes with two virtual nodes for each of three members contain every
relative position of a key and two owners: before, at and after, across the
wrap-around, colliding within and between members. In `routing_views` there is
one key, so a client's old table matters only by the node it names: an old listing
names a node that is not the owner, a fresh one the owner. Two reports let the two
survivors learn of a stop: they agree again, on a ring with a dead member in it.
That they also agree on rings it has been dropped from would take two more reports;
`RedirectLeadsToOwner`, `ServedAtOwner` and `FreshTableFindsOwner` are proved for
any number of them. `MaxHung` and `MaxElapsed` are 1: its one call can hang
once and needs one refresh. `routing_calls` has the same old listing, which
sends a call past the owner, and three calls of two tasks: a write, a
write that supersedes it (another value or a delete), a read; with `Late` one
of the writes can outlive its caller while both tasks go on. Two reports let
one of two nodes take a key of the other's and give it back, so that all agree again
while a write it let in meanwhile still waits in its handler; that a key changes
hands for good is in `routing_views`. `Methods` divides the
work: `routing_views` has `get` and `put_owned`, the call that can be redirected and
the one that cannot, `routing_calls` `get`, `put` and `delete` (once let in,
`put_owned` is a `put`), and hanging is left to `routing_views`: for safety a call
that hangs takes no further step, and its request goes on like that of one that
failed.

The files of `lifecycle` are a complete one, one with empty sections, an empty one,
one with a section that is a value and one with an unknown key; the variables reach
a section that is there, one that is not and one that needs two variables, an
option of a type the loop rejects, and one that is unknown (the helm chart sets
it). With `MaxIO = 2` there is I/O before, between and after reports.

`CHECK_DEADLOCK FALSE` where it occurs is because processes may be down for good
and the bounds end behaviours.

### Fairness

* Gossip: the runtime polls ready tasks, timers fire, and the transport tells a
  caller about an answer or an error (`WF` of `BootStep`, the task that runs
  `start()` and `fast_bootstrap`, and of every exchange of a loop). That an answer
  or an error ever comes is not assumed: `Hang` is always possible, satisfies that
  fairness, and the properties say what it can hold up. A loop picks its peer
  uniformly at random and there are two of them, which is strong fairness of a
  tick of either per member. `BootSend` is strongly fair because the bound
  `MaxInFlight`, which the code does not have, can disable it. Nothing is assumed
  of `Boot`, `Crash`, losses or panics.
* `gossip_expiry` also assumes that time passes, and strong fairness of
  `RemoveDeadMembers`: its timer fires for ever, and an entry that is expired again
  and again is met by one of its ticks.
* Routing: the tasks of the client are polled; a call goes on until it is over or
  hangs.
* Lifecycle: ready tasks are polled; poem enforces the ten seconds it is given;
  `fast_bootstrap` ends or hangs, which is `BootstrapEnds`.

## Findings

1. *Stale reports flip a status* (`membership_stale`; `member.rs:116`). The
   comments of `update_member` say a status changes only for an observation at
   least as fresh; the `else` branch calls `downgrade_to`, which takes the
   reported status unless both are alive. Within one incarnation the last report
   wins. `CrashDetected` is therefore "again and again", not "from then on".
2. *An empty table kills the loops* (`gossip_empty_table`; `gossip.rs:138`, `:177`).
   `random_range(0..0)` panics before the branch that would bootstrap again.
   A node reaches an empty table by losing a request to itself and expiring its
   own entry.
3. *A split does not heal* (`gossip_split`; `gossip.rs:140`). Both loops skip dead
   members and `fast_bootstrap` runs only at start-up, so two nodes that hold each
   other for dead stay apart until one restarts. `ViewsConverge` holds because
   without losses nobody who is up is held for dead for good.

## Proofs

A theorem holds for every value of the constants that satisfies their `ASSUME`s.
Most of these are types, without a bound on the number of nodes, addresses,
hashes, retries, calls or files, and say that `None`, `Torn` and `Unknown` are
not values. The others are facts of the code: ids are ordered (`Rank` is
injective), every node has a virtual node (`HashesOf[n] # {}`; `DEFAULT_VNODE_COUNT` is 64),
the client follows a redirect (`MaxRedirects` is not 0; the default client has
`Policy::limited(2)`, and one configured to follow none is not covered), and a
config file is a TOML document (`FilesAssumption`).

* **Membership** (`UpdateProofs`, on `MembershipProofs`). `EntryIsFreshest` speaks
  of maxima over all reports, which say little about the next one. `MergedInv`
  says the same without them: nothing reported is newer than the entry, nothing
  of its incarnation is later, and its incarnation, heartbeat and status were
  reported, not necessarily together. `ReturnIsRight` compares, field by
  field, the entry before and after each branch of `update_member`.
* **Gossip** (`GossipProofs`). The inductive
  invariant is `TypeOK /\ ProcessInv /\ KnownInv /\ IncarnationDeterminesInfo`.
  `ProcessInv` says a process that is up has its own identity and one that is down
  awaits nothing. `KnownInv` says every identity that occurs anywhere (in memory,
  in a table, in an exchange, in an abandoned request: `Infos`) has a `node.json`
  behind it, and is ahead neither of that file nor of the running process. It is
  needed because a restart reads only the file: `IncarnationOnDisk` alone does
  not say that a running process, which advances from memory, moves past all it
  ever announced. The argument has two halves. No step invents an identity except
  its owner (`InfosGrowStep`, one step per action); and an owner's new identity is
  ahead of everything known (`NewIdentityIsAhead`). From it:
  `TypeSafe`, `PersistedBeforeAnnounced`, `OneIdentityPerIncarnation`,
  `BootIsAhead`.
  `OwnRing`, `SuspicionSound` and `TablesMoveForward` need `TypeOK` and
  `ProcessInv` plus what a merge does to an entry (`MergeMovesForward`);
  `SuspicionSound` also needs `IncarnationDeterminesInfo`: an entry with the
  incarnation of the failed exchange has the identity it was started with.
  `OnlyItself` goes through the actions that store a table. What
  `handle_message` stores has the node itself alive, because it merges its own
  report after the others' (`VouchedMerge`, `HandledVouches`); `mark_dead` changes
  the entry of the peer of the exchange only. `LoopInv`, that only a running
  node's loops await, turns that into "a loop of its own, after `start()`".
* **The refinement** (`GossipViewsProofs`). `issued` remembers identities that
  nobody else does any more, so `KnownInv` is not enough: `IssuedInv` says that
  `Infos` is a subset of `issued` and that nothing issued is ahead of its
  `node.json` or its process. Then every step is mapped in turn: which node
  announces (`IssuedGrows`), that no other node's view changes (`OneNodeMoves`),
  and, entry by entry, whether the change is `Learns`, `Judges` or `Forgets`, from
  the lemmas of `TablesMoveForward`.
* **Hash ring** (`HashRingProofs`, on `RingLemmas`). `RingInv`: the ring is the
  one `HashRing::from` builds from the members added, and the client's route
  table is the same map. `LookupCorrect` reduces
  `lookup_until` to the least hash of two ranges and those to the clockwise
  distance (the least element of a set of naturals exists by well-foundedness);
  `JoinIsMinimal` follows because the owner among given ids is unique. For
  `RingIsDetermined`, the client's loop over virtual nodes, a recursive function,
  is shown to agree with `add_node` by a least counterexample.
* **Routing** (`RoutingProofs`, on `RingLemmas`). The inductive invariant is
  `RoutingInv == TypeOK /\ CallsInv /\ LatestInv`. `CallsInv` has two parts for every
  request, late ones too. `RouteOK`: a call sent while all agreed, with nothing
  disturbed since, was redirected at most once, then to the owner of its key; a
  proxy that has met no disturbance since it loaded its ring holds the ring of its
  node, on which all agree, and the handler it has called is at the owner; a
  request in a proxy or a handler is at a process that is up (so `Stop` has to end
  it). `ReadOK`: an undisturbed get has the present `latest` among what it has
  `seen`, and what the engine gave it as well. `LatestInv` says that a write is
  remembered only while all agree and that the owner holds it or has evicted it;
  a write applied elsewhere does not touch the owner's copy, one applied at the
  owner becomes the latest, whoever still awaits it. `RouteOK` is what puts a
  `Read` at the owner, `LatestInv` what it finds there, `ReadOK` what is left of
  that when the answer arrives. Agreement gives all nodes one ring and one set of
  live members, and `lookup_until` finds the only owner among them
  (`LookupUntilFinds`, `AgreedRoute`): `OneRedirectSuffices`, `ServedByOwner`,
  `NoStaleRead`. A client's ring has dead members too; the owner among all, if it
  is alive, is the owner among the live ones (`OwnerAmongFewer`):
  `FreshTableIsRight`.
* **Life cycle** (`LifecycleProofs`). `JoinInv`: what `await_shutdown` has joined
  stays joined, since an ended task does nothing and is not cancelled with its
  runtime. `ReportCountsOnce` is inductive with the types of the counters.
  `DropInv`: what is still to be dropped is in order and ends with the telemetry
  runtime, and a task that can still act has its runtime. So when a guard is at
  the head no runtime with tasks is left: `FlushIsLast`.
* **Configuration** (`LifecycleProofs`). `LoadInv`: inside the loop the document is
  the file with the variables *applied so far* laid over it, whichever they are,
  and there was one warning per table created. That the order does not matter
  rests on a fact about the table of options: none leads to another or to one of
  its parents (`OptionsApart`), so no variable replaces or blocks what
  another has set, and the tables two variables share are created once.

Only model-checked: liveness (`BootstrapEnds`, `CrashDetected`, `ViewsConverge`,
`CrashForgotten`, `CallsEnd`, `StartEnds`, `ShutdownEnds`), since fairness and
`ENABLED` are beyond the prover. The three violated properties are facts
about an instance and need no proof.

## Not modelled

* MurmurHash3 is a parameter, and foyer external: what its callers can see of it is
  nondeterministic.
* URL handling, the encoding of keys, logs, trace headers, the instruments of
  `crates/metrics` and the exporters and appenders of `telemetry.rs`: I/O of their
  libraries. Of telemetry there is which guards exist, when they flush and that
  its set-up may panic.
* The texts of configuration values and the defaults of fields; the test that
  generates the table of options.
* The builders and timers of `runtime.rs`, thin wrappers of tokio.
* `RateLimitMiddleware`, which is installed on no route: nothing of the running
  system passes through it.
* `version()` of the client, the version crate, `xtask`, benchmarks and the test
  harness have no state that the system depends on.

## Plan

Done, in this order: Membership, Gossip, HashRing, Routing, Lifecycle and their
first theorems; silent peers, expiry, `ClusterView` and its refinement, Config,
streamed bodies; then the proofs of all safety properties that the runs check.

Left: facts worth stating beyond those properties. Under which
reports the views of `Routing` agree, as a step relation between `Gossip` and
`Routing`; the safety halves of the liveness properties (that nobody holds a node
for dead who has not failed to reach it or heard so from somebody who has).

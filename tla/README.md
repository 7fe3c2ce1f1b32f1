# PHALANX simulator: TLA+ specifications and proofs

A verification project for the simulator in `sim/` (Go): TLA+ modules of its
placement, node mutation and re-parenting logic, TLC configurations that check
them on small instances, and TLAPS proofs of the main invariants for every
value of the constants. Paths below are relative to the repository.

## 1. The system

A simulation holds up to thousands of *nodes*, each a goroutine with an inbox.
A central `dashboard.Manager` places them in a tree of leaders and followers,
and keeps everybody's idea of that tree up to date while nodes join, are
killed, are respawned, and change in quality `Q`.

| component | state | operations | interacts with |
|---|---|---|---|
| Placement cascade, `dashboard/manager.go:1711` | `topologyByNode`, `parentByNode`, `childLeadersByNode`, `followersByLeader`; roles and levels of the nodes | `applyPlacementCascade`: sort by Q, fill leaders breadth first, publish, rebuild, sync | called by joins (nodes' goroutines) and by kills and spawns (HTTP goroutines), one at a time under `placementMu`; `m.mu` only to read and to publish |
| Node mutation, `dashboard/node_mutation.go` | the mesh's nodes, the same maps | `KillNodes`, `SpawnNodes`, `RestartNodes`, `RestartRandomNodes` | removes and adds nodes under neither mutex, prunes under `m.mu`, then runs a cascade |
| Hierarchy sync and re-parenting, `manager.go:1847`, `1300`, `2663` | every `NodeManager`; `m.connected`, `m.reparentAt` | `syncManagersFromHierarchy`, `onWSTransitionHint`, `tryConnect`, `shouldThrottleReparent` | the sync runs inside a cascade; the hint handler on the node's goroutine, under no lock |
| Hierarchy state, `hierarchy/state.go` | level views, `revision` | `RebuildFromPeers`, `Snapshot` | rebuilt by cascades, rotations and `Start`; read by rotation and views |
| Node manager, `node/manager.go` | leader, state, revision, candidate caches, failover list | setters under its own lock, `Snapshot` | written by sync, hints, acks, rotation |
| Discovery and join, `manager.go:513`, `1043-1298`, `1528-1709`, `2716-2977` | `discState`, `offerTB`, `joinStarted`, `rootNodeID` | DISCOVER, OFFER, HELLO, relay, HELLO_ACK; back-off; token bucket | UDP and WS fabrics; ends in a cascade |
| Leader rotation, `manager.go:605-756`, `1378-1526`, `2017-2463` | `levelRotation`, `rotationPrep`, `rotationCommit` | trigger evaluation; PREPARE, COMMIT, APPLIED with quorums | WS fabric; `placementMu` |
| Recovery epochs, `dashboard/recovery.go` | current epoch, samples, history | start, tick, finalize, abort | started by kills, ticked by a loop, aborted by `Stop` |
| Run lifecycle, `manager.go:206-371` | `running`, `m`, fabrics, contexts | `Start`, `Stop`, the loops | everything |
| UDP and WS fabrics, `node/connsim` | endpoints, links, edge statistics | register, connect, send with delay and loss | deliver to inboxes, drop when full |
| Node, mesh, network | goroutine, inbox, Q; node map, id counter; subnets | start, stop, drift; add, remove | |
| Metrics, views, HTTP, UI, packets, CLI | counters and read-only views | | |

What is hard about it:

* **Three kinds of goroutines change one topology.** A cascade works on a
  snapshot; kills and spawns go on while it does, and it then publishes maps
  that may name nodes that are gone and miss nodes that have come.
* **Two copies of the truth.** The maps say who a node's parent is; the node's
  own manager and `m.connected` say where it is attached. They are brought
  together node by node, over many critical sections.
* **Messages without order.** Hints and rotation frames are delayed at random,
  lost, and dropped by full inboxes; handlers read, decide and write in
  separate steps.
* **Time.** Cooldowns, back-offs, quorum timeouts, tenure and hysteresis.

What makes each part correct:

* cascade: one tree, capacities respected, nobody left out, it ends;
* mutation: dead nodes leave the maps, the maps stay a forest at all times and
  are the tree of the live nodes when all is quiet, the root is spared if asked;
* re-parenting: once quiet, managers and `m.connected` agree with the tree,
  nobody is left transitioning, orphans get a new leader, stale updates lose;
* hierarchy: revisions are monotonic and label the right content;
* join: every join completes or fails cleanly, one ack per join, no stuck node;
* rotation: at most one switch per proposal, a quorum behind it, anti-flap;
* recovery: samples belong to their epoch, every epoch ends exactly once;
* lifecycle: one run at a time, nothing of an old run acts on a new one.

`PROJECT.json` lists the components with their status and, under `hazards`,
each place in the code that is hard to test, with the properties that cover it.

## 2. Modules

| module | models | checked by | proved in |
|---|---|---|---|
| `PlacementTree` | the tree of a ranking in closed form | `cascade` (against the loops) | `CascadeProofs` (against the loops), lemmas of `MutationProofs` |
| `Placement` | what a cascade promises: every node it found gets its place, at once | (abstract) | |
| `Cascade` | the loops of `applyPlacementCascade`, turn by turn; implements `Placement` | `cascade` | `CascadeProofs` |
| `Mutation` | kill, spawn and restart beside cascades | `mutation`, `mutation_root` | `MutationProofs` |
| `Attachment` | the sync of the managers, hints and cooldown beside kills | `attachment` | `AttachmentProofs` |
| `Hierarchy` | the ranking per level, its revision, two writers, the caches | `views`, `views_drift` | `HierarchyProofs` |
| `LeaderSwitch` | what a rotation promises: two rounds of votes, one switch | (abstract) | |
| `Rotation` | PREPARE, COMMIT, APPLIED with their quorums; implements `LeaderSwitch` | `rotation` | `RotationProofs` |
| `Join` | HELLO, relays, the join's cascade, HELLO_ACK | `join` | `RunProofs` |
| `Discovery` | the udpLoop's ticks, back-off records, offer buckets | `discovery` | `DiscoveryProofs` |
| `Lifecycle` | `Start` and `Stop` beside loops, spawn and handlers | `lifecycle`, `lifecycle_starts` | `RunProofs` |
| `Recovery` | recovery epochs beside kills, samples and stops | `recovery` | `RecoveryProofs` |

A module whose name starts with `MC` gives the constants of the module it
extends the values of an instance; the `.cfg` of a run does the rest. Operators
commented "Mutated form" are not part of a specification: put in place of the
definition they mutate, they make a property fail, which shows that it can.

The modules cut the system at the locks. What is one critical section or one
sequential stretch that nothing else can see into is one action; where the code
lets go of a lock, or reads in one place and writes in another, there are two.
What one module takes in detail is a single step of its neighbours:

    Cascade       the loops            --> PlacementTree, one Publish of Mutation
    Mutation      kill, spawn          --> Kill, and the cascade it owes, of Attachment and Join
    Attachment    the sync's leaders   --> a step of Join and Rotation
    Hierarchy     rebuild and caches   --> a step of Join and Rotation
    Discovery     probe and offer      --> the start of a join (JoinRead)
    Lifecycle     one node, one loop   --> Recovery has the epochs of its runs

History variables, which the code does not have and the properties need, are
marked `history` where they are declared.

### Placement and Cascade

`Placement` is the abstract promise: one step takes a set of nodes and publishes
the tree of their ranking, in which a node's rank is one more than the number of
nodes that are better, and leader, role and level follow from the rank by the
closed form of `PlacementTree`.

`Cascade` has one action per loop turn: `Begin` (read the simulation and sort),
`PlaceRoot`, `PlaceChild`, `EndChildren`, `PlaceFollower`, `EndFollowers`, `Publish`. The
record `tree` is the four maps under construction, with the role and level each
node was given; `pub` is what was published last. A topology id is the path of
slots from the root plus the follower's slot, which is what the id's text
spells out. Quality is an ordered set; ties go to the lower id as in
`betterPeer`. The code's fallback loop at `manager.go:1818` ("should not
happen with Y>=1") is no action: `NoLeftovers` says, and a theorem proves, that
it never has anything to do. Qualities stay as they are during a cascade; that they
may drift under the sort, which then gives another order, is in `Mutation`.

The refinement mapping: the abstract tree is `pub`, with its topology ids left out
and of the roles only who leads. `Publish` is the abstract step, every other turn a
stutter. `PlacesAtOnce` says that the outcome depends on nothing but the nodes and
their qualities: not on the order in which the mesh's map is walked (Go's is
random), not on the sort (which is unstable), not on the order of the loops.

### Mutation

Each HTTP goroutine (`Caller`) is a little program: `Select` (with the root
looked up there and then), `Remove` node by node, `Prune`, cascade; or
`SpawnBegin`, `SpawnOne`, `SpawnEnd`, cascade. A restart is a kill followed by
a spawn of the same caller. Cascades are two steps: `Take` placementMu and a
snapshot, and `Publish`; joins run them too. The tree of a cascade is the closed
form of `PlacementTree`, which the loops compute (`PlacesAtOnce`, checked by the run
`cascade` and proved for all sizes). Any order of the nodes may be the
sorted one, since Q drifts. `PublishedRoot`, `Pruned` and the kill's early exit when another kill
was faster are those of the code, and so is the return of a cascade that finds
no node, which leaves the old maps in place.

`Start` spawns nodes and places none of them; the first join's cascade does. Both
`Mutation` and `Attachment` begin after it, when it has run to its end; `Join`
begins before it, and `Hierarchy` with `Start`'s own rebuild.

### Attachment

A cascade is one step here (its tree, its revision, the sync's copies); its
*sync* is not: `SyncNode` per node, `SyncMaps` (the swap of `m.connected`), then
for every node that was moved `Emit` (a hint) and `Connect` (`tryConnect`). The
hint handler is split where the code is exposed: `HintRead` looks at the target
and the manager, `HintApply` goes by what was read. Kills happen at any time and
owe a cascade. `recent` is the set of nodes whose `reparentAt` is younger than
`min_reparent_interval_ms`; `CooldownOver` lets that time pass. A hint's
`revision` and the set `astray` are history.

Left out: that a node's turn is itself several critical sections of its
manager's lock; quality drift between the ranking and the hierarchy's sort; the
candidate caches; `ActiveConnections`, which holds the current leader whenever
there is one; spawns (a new node is in no map until a cascade, and is then like
any other); the syncs of leader rotations.

### Hierarchy

`Writer`s are the goroutines that run a cascade, and `Start`. A rebuild is four
steps: `Read` the peers, `Install` the levels under the state's mutex, `Bump`
the revision after the unlock (`state.go:83-88`), and `Own`, the snapshot of
whatever is installed by then. A cascade holds placementMu from `Take` to
`Release` and syncs node by node; `Start`'s `rebuildHierarchy` holds nothing,
and reads a node's level before it writes the position. A ranking is the table
of peers it was sorted from; leader, candidates and overflow are operators on
it, and so are the two caches. `Drift` changes any quality at any time.

### LeaderSwitch and Rotation

`LeaderSwitch` is the abstract promise: one proposal is open at a time, it has an
electorate per round, votes count at once, and it is switched only behind a
quorum in both rounds, or abandoned for good. That is the order of the code
(`manager.go:2076-2152`) and of SPEC_LEADER_ROTATION_POLICY.md:107; lines 99-101 of
the same SPEC put the switch before COMMIT (section 5).

`Rotation` has the coordinator (`rotateLevelLeaderWithChoreography`, on the one
goroutine of rotationLoop), the open round's bookkeeping (`coord`), the frames,
and the handlers. `Tick` reads the level, `Prepare` later reads the base
revision, each node `Receive`s (which reads its manager and may refuse) and then
`Accept`s (which writes it), `TakeAck` counts, `Commit` opens the second round,
`Switch` is `rotateLevelLeader` and `Announce` sends APPLIED. A timeout may
strike whenever the quorum is not there (`Abort`). A lost frame is one that is
never taken. Nodes are killed and cascades of others run at every point. When a
tick proposes is left open, since the policy's windows only delay it; that no
tick ever does with a positive minimum delta is `NoRotationIsEligible` of
`Hierarchy`.

The refinement mapping: a proposal's `stage` is how it ended, or the place of
the coordinator that has it, or "new"; the electorate is the history `asked`,
the votes are the history `yes`, written by the voter when it accepts. A kill,
a cascade, a frame lost or late, an ack counted are stuttering steps.

### Join

One action per stretch of a handler: `JoinRead` (an offer is taken and the state
looked at), `JoinSend` (the HELLO and the joining state, which the code sets
afterwards), `TakeHello` (accept, or relay down or up, or drop at the hop
limit), `Place` (the join's cascade, with its sync), `FinalRead`, `FinalSend`
(the second connect and the HELLO_ACK), `AckRead`, `AckApply`. `DetectRead` and
`DetectWrite` are udpLoop's own write of a state that it read before. The tree is
a ranking, `rank`; `pos` is the rank that a node's role and level are from. A
kill owes a cascade, and until that has run the maps still name the dead node as
its children's parent, as `pruneTopologyState` leaves them: a relay to it is lost,
and a join that ends then keeps the leader the origin has. `JoinInit`, `JoinNext`, `JoinSpec`, `JoinTypeOK` and `joinVars`
carry the module's name, so that `RunProofs` can extend it together with `Lifecycle`. `raced` is history: nodes written from what was read before
their last sync.

### Discovery

`List`, `Reconcile`, `Check`, `Probe`, `Update` and `EndTick` are one tick of
udpLoop with its `now` read once, so that time passing inside the tick (`Elapse`)
ages it; `Register`, `SpawnBurst` and `SpawnUpdate` are the goroutine that
registers a node and probes for it as well. A record keeps how long there is
still to wait, a bucket how long ago it was touched. `Backoff` is the code's loop
that doubles up to the cap, jitter any amount up to its bound. `TakeDiscover` is
`allowOffer` with its refill; `TakeOffer` is where `Join` begins. A
disconnected node is listed again from the next tick.

### Lifecycle

Callers run `Start` (`BeginStart`, the `Stop` it calls, `Publish`, `Launch`,
`Spawn` .. `Finish`) and `Stop` (`StopRun`, `Cancel`, `Wait`, `Shutdown`,
`Drain`), in every interleaving; nothing in the code serialises them. `loop[g]`
is a loop of run g, with the context it found in the fields when it began, which
need not be its own; `node[g]` stands for the nodes of the run. `Drain` gives up
on a node when the timeout is over, except in the runs of `Endless`, whose
`shutdown_timeout_ms` is 0, which `validateStartConfig` accepts: there it waits for
as long as it takes (`mesh.go:333`). A loop, a handler
and `registerNode` write maps that a `Stop` may have set to nil: `crashed` is the
panic, and stops everything.

### Recovery

`Capture` and `Install` are `startRecoveryEpoch` (sample and number first, then
the exchange of the epoch under the lock), `Tick` and `Apply` are recoveryLoop,
`Abort` is `Stop`'s. `Start` and `Stop` are those of `Lifecycle`, reduced to the
fields: `Start` publishes its run whether or not there is one by then, and with it
takes away the epoch there was. Any run's loop ticks as long as some run is in the
fields, for a cancelled one may tick once more and an overwritten one is never
told to end. Samples are applied in the order in which they get the lock, which
need not be that in which they were taken, and to the epoch that is open by then.
`dropped` keeps what `Start` has taken away, and how. What a sample may find is a
constant; thresholds, promotions,
re-parentings, changes and the end of an epoch follow `recovery.go` field by
field. `Listed` is the loop of `RecoveryEpochs`, as a function of how many entries
of the history it has been through.

## 3. Runs

| run | instance | distinct states | shows |
|---|---|---|---|
| `cascade` | 7 nodes, Y=2, N=1, two qualities, node sets of size 0, 1, 5, 6, 7 | 23 040 | `AlwaysATree`, `CapacityRespected`, `DistinctTopologyIDs`, `NoLeftovers`; `PlacesAtOnce`, the refinement of `Placement`; `CascadePublishes` under weak fairness |
| `mutation` | 3 nodes at first, 1 more, two callers and a joiner, symmetric | 673 519 | `DeadNodesLeaveTheMaps`, `PublishedForest`, `QuietMapsMatchTheMesh` |
| `mutation_root` | 3 nodes, exclude_root requests | violation | the root is removed although the request excludes it |
| `attachment` | 3 nodes, 2 cascades, up to 2 kills, cooldown on | 31 815 | `OnlyLateHintsLeadAstray`, `NoneLeftTransitioning`; `OrphansFindALeader` under fairness |
| `views` | 5 nodes, Y=N=1, two cascades beside `Start`, one drift, symmetric cascaders | 333 112 | `LabelNeverAhead`, `NoRotationIsEligible`, `PositionsFollowTheTree`, `OnlyStartLeavesCachesStale`, `CachesNeverGoBack` |
| `views_drift` | same | violation | the policy compares qualities of the last rebuild, not those of now |
| `rotation` | 3 nodes, quorums of 50 %, two proposals, two events, symmetric | 559 929 | `OnlyAbortsAndLateFramesStrand`, `RevisionsNeverGoBack`; `SwitchesAsPromised`, the refinement of `LeaderSwitch` |
| `join` | 3 nodes, Y=N=1, two HELLOs, three cascades, one kill, symmetric | 188 603 | `JoinsCanBeRetried`, `OnlyRacedWritesMislead` |
| `discovery` | a node that probes a root, back-off 1, 2, 2, jitter 1, bucket of two tokens | 417 981 | `OfferRateBounded`, `OnlyRacesHurry`; `NeverGivesUp` under weak fairness |
| `lifecycle` | two callers, two runs, one without and one with a shutdown timeout, one extra Stop | 138 857 | `NothingOutlivesStop`; `StopReturns` under fairness |
| `lifecycle_starts` | same | violation | two concurrent Starts overwrite one another |
| `recovery` | 2 nodes in three states, two openers, two runs, two epochs, history of 1 | 1 623 885 | `EpochsCloseOnce`, `ListsTheLatest`, `StableAsSpecified`, `MetricsAsSpecified` |

Every passing run also checks its module's `TypeOK` (`JoinTypeOK` in `Join`).

Why the bounds are enough:

* `cascade`: seven nodes are a root, its full group of three (two child leaders,
  one follower) and the first child's full group; six and five cut that group
  after a child and after nothing, one is a root alone. `Y # N` tells the two
  loops apart. Every vector over two qualities includes ties.
* `mutation`: two callers in the same or different requests, with a join
  between, are the smallest instance with a late publication between another
  kill's prune and its cascade. `MaxSpawn` bounds one spawn; ids are not reused,
  so the fourth id allows one spawn after any kill. The proofs do without
  these bounds.
* `attachment`: a root, a child leader and a follower are all shapes of level
  and role at Y=N=1; two cascades after the first tree (`MaxRevision` 3) are
  what it takes for a hint of one to be late for the other, and `MaxKills`
  allows a kill to fall anywhere in either.
* `views`: with Y=N=1 five nodes make three levels, so that a cache has an upper
  level and a level has a leader, a candidate and somebody else to choose from.
  Two cascades and `Start` are three rebuilds: one writer can be overtaken
  between its install and its bump, and its sync can be overtaken by the next.
  One drift can fall between any two steps; equal qualities, one node ahead and
  one behind make it change a rank, or not.
* `rotation`: with 3 nodes a round of 50 % asks two others and needs one, so a
  quorum can be reached by part of the voters, and not be reached. Two
  proposals let frames of the first be late for the second; `MaxLate` bounds
  how many are still in flight when it begins. `MaxEvents` counts kills, foreign
  cascades and proposals together.
* `join`: the second HELLO is relayed through the tree that the first one's
  cascade built, while the first one's ack is still about; `MaxHop` 1 lets a
  relay succeed once and then reach its limit. The third cascade is the kill's.
* `discovery`: nodes share nothing but the list of a tick, so one node that
  probes and one that answers show what there is between them; `MaxLag` 1 lets a
  tick's `now` be stale by a unit, `MaxAttempt` 3 reaches the cap, the window is
  as long as it takes to refill one token. What is safety is proved without these bounds.
* `lifecycle`: two runs are the least in which the past one meets the next, two
  callers the least that overlap, and one of them may stop in between. The first
  run has no shutdown timeout, the second one has.
* `recovery`: two epochs and two openers let one replace the other in either
  order; a window of one interval and a timeout of two are both met; a history of
  one drops the older epoch. The states a sample finds differ in a role that is
  nobody's leadership, in a parent, and in a leader, so that each kind of change
  occurs alone; two runs let a `Start` overwrite one that has an epoch.

`CHECK_DEADLOCK FALSE` stands in the configurations of instances that come to
rest when the bounded work is spent.

Fairness:

* `Cascade` assumes weak fairness of the loop's steps inside a cascade, which is
  sequential code that blocks on nothing but `m.mu`.
* `Attachment` assumes it of the sync (the same code) and of a handler that has
  started, and strong fairness of a kill's cascade, since Go's mutexes hand over
  to waiters that have waited long. Nothing is assumed of hints: they may never
  arrive.
* `Discovery` assumes weak fairness of time, of udpLoop's tick (a ticker in a
  select, with nothing in the tick that blocks for ever) and of the goroutine
  that spawns. Nothing is assumed of datagrams.
* `Lifecycle` assumes it of calls that have begun and of a loop's body. Of a
  loop's way out it assumes strong fairness: when the context is done and the
  ticker has fired as well, Go's select takes either branch at random. A node
  answers what it has begun to handle, and its way out is the same kind of select.
  Of a timeout no more is assumed than that, where there is one, it ends the wait.
* `Hierarchy`, `Rotation`, `Join` and `Recovery` assume nothing, and state safety only.

Some properties say what the exceptions are rather than that there are none, and
each exception is one the code really has:

* `OnlyLateHintsLeadAstray`: once quiet, every node is attached where the tree
  says, unless it followed a hint older than the tree or the cooldown kept it.
* `OnlyAbortsAndLateFramesStrand`: an abort undoes nothing that PREPARE and
  COMMIT did to a node, and a handler may write after the sync that settled it;
  nothing else leaves a node Transitioning.
* `OnlyRacedWritesMislead` and `JoinsCanBeRetried`: a handler may write what it
  read before a cascade; nothing else makes a node's manager differ from the
  tree, or leaves a node joining that nobody probes for.
* `NothingOutlivesStop` names the overwritten run, the late spawn and the node that
  `Stop` gave up on.
* `StopReturns`: a panic ends the process; a newer run has loops, for which the one
  wait group waits as well; an overwritten run's loops are never told to end; and
  without a shutdown timeout `Stop` waits for ever for a node that a spawn put in
  behind Shutdown's list of nodes.
* `EpochsCloseOnce` names the epoch opened behind an abort, and those that a `Start`
  takes away before another goroutine's `Stop` has aborted them, or together with
  the run that it overwrites.
* `StableAsSpecified`: an epoch is stabilized in less than a window only if a
  sample older than the epoch was applied to it.

## 4. What is proved

TLAPS proves, for every value of the constants that the named assumptions allow
(all finite node sets, all Y, N >= 1, any number of callers, any quorum
percentages, any burst, rate and back-off, any window, timeout and length of the
history):

* `CascadeProofs`: `CascadeTypes`, `CascadeBuildsATree`, `CascadeRespectsCapacity`,
  `CascadeLeavesNobodyOver`, `TopologyIDsDiffer`, `CascadeMatchesClosedForm`, the
  action property of `CascadeTurnsAdvance` and the refinement `CascadePlacesAtOnce`.
* `MutationProofs`: `MutationTypes`, `KilledNodesLeave`, `MapsStayAForest`,
  `QuietMapsAreTheTree`.
* `AttachmentProofs`: `AttachmentTypes`, `ManagersFollowTheTree`,
  `TransitionsComplete`, `OrphansAreNotForgotten`.
* `HierarchyProofs`: `HierarchyTypes`, `LabelsAreSafe`, `NoRotationProposed`,
  `PositionsAreTheTrees`, `CachesAreInstalled`, and the action property
  `SyncsAreOrdered`.
* `RotationProofs`: `RotationTypes`, `RotationImplementsSwitch`, `OnlyAbortsStrand`,
  `RevisionsAreMonotonic`.
* `DiscoveryProofs`: `DiscoveryTypes`, `OffersBounded`, `TicksKeepTheBackoff`.
* `RunProofs`: `LifecycleTypes` and `StopLeavesNothing` of `Lifecycle`; `JoinTypes`,
  `JoinsAreRetried` and `OnlyRacesMislead` of `Join`.
* `RecoveryProofs`: `RecoveryTypes`, `EpochsAreFinalizedOnce`, `WindowsAreStill`,
  `MetricsAreTheSamples`, `EpochsAreListed`, and `HistoryKeepsTheLatest`, which the
  last rests on.

That is every safety property of the passing runs, both refinements among them, and
three properties that are stated for the proofs and are in no run: `MatchesClosedForm`,
the part of `PlacesAtOnce` that is about the tree alone, and `TurnsAdvance` and
`OrphansAreLookedAt`, the parts of `CascadePublishes` and of `OrphansFindALeader` that
need no fairness.

The assumptions are those named in the modules: Y and N positive, quorum
percentages between 1 and 100, burst of a token at least and positive rate
(`validateStartConfig` enforces them), window, timeout and history length
positive, as the code's constants are, ids positive naturals, node sets finite,
special values distinct, goroutines that kill distinct from loops. The bounds for
TLC stay parameters of the theorems.

Every proof has the same frame: an inductive invariant that TLC has confirmed on
the instance of the run (`IInv`, `JoinInv`; `RotationInv`, `BucketInv`, `Form` and `Standing` beside it), a
lemma per action that it is kept, and theorems that take the properties from it.
What an invariant adds to the properties is the argument.

*Cascade.* The invariant `IInv` adds to the properties what each loop turn
needs: `filtered` has no duplicates (`SortedIsInjective`), the nodes ranked so
far sit at their ranks in the first `idx - 1` of it, the queue holds placed
leaders, each once, with the levels they were given, leaders not served yet have
empty lists, and those of the one being served hold no more than the slots used.
That the queue never runs dry follows from its length: each leader that is
served leaves another behind it, unless the nodes run out first (`QueueServed`).
`AttachKeepsTree` is the one lemma about trees: hanging a fresh node on a placed
leader keeps the tree.

A second invariant, `Form`, is about which rank gets which place. `LoopsInForm`
gives the rank `idx` that comes next from the leader being served and the slot,
`QueueInForm` the rank, the level and the path of the k-th leader of the queue;
they meet the divisions of `PlacementTree` in lemmas on quotient and remainder. The
level of the k-th leader is a recursive function there; that it has the values
its definition says comes from a least counterexample (`LeastNumber`).
`TopologyInForm` has the ids: a leader's is its path in the queue, which no other
leader has, and a follower's ends in a slot, which no leader's does.

That the cascade implements `Placement` needs a third part, `Standing`: `filtered`
is a sorted set of nodes that the cascade found (`InOrder`), the i-th of its first
`idx - 1` nodes has rank i (`PlacedSoFar`), and who has no rank is in no map
(`Unplaced`). When the maps are published `NoLeftovers` makes that all of
`filtered`; the i-th of a sorted set has i - 1 nodes better than it
(`SortedIsInjective`), so ranks are those of `Placement` (`PublishedRanking`), and a
tree in form whose ranks differ is the abstract one, field by field
(`InFormIsTreeOf`).

The action property `TurnsAdvance` is about a measure, `TurnsLeft`: three turns for a node that has no
place yet, two for a leader that waits in the queue. A child that is placed puts a
leader into the queue and still leaves one turn less. The invariant is needed to
know that the measure is never negative (`TurnAdvances`).

*Mutation.* The heart is what may be believed of a cascade on its way: it
took a snapshot of live nodes, and a node of it that died since was removed by a
call that has not reached its own cascade, or waits for `placementMu` to run it
(`LateKillsFollow`); a live node it misses was spawned by a call in the same
position (`NewNodesFollow`). With `RemovedAreDead`, `WholeInTheEnd` and the order
of steps within a call (`CallsInOrder`), a late publication is always followed by
the cascade of the call it offends. `TreeOfIsForest`, `TreeOfIsWhole` and
`PruneKeepsForest` are about the closed form and need only that `ParentRank(i)`
is below `i` (`ParentRankBelow`, from a lemma on division).

*Attachment.* While kills are owed their cascades nothing is claimed of the
managers: the next sync writes them all. When none is (`KillsAreOwed`), the tree is
one of the nodes that are alive, and the sync under way, if there is one, works on
it. Then a node's turn leaves the parent, the revision and the entry of the new
map (`TurnsAreRight`), and from there on only a hint can move it: one of this tree
names the parent (`HintsAreRight`) and changes nothing for a node that has it, and
one of an older tree, or the cooldown, puts the node into `astray`.
`TransitionsEnd` names who ends a transition: the handler that began, or the sync,
which has yet to give the node its turn or to reconnect it. `NothingIsAhead` is
what makes comparing revisions meaningful. `OrphansAreLookedAt` follows from the same:
with no kill owed, a node that has had its turn has the parent of a tree of live
nodes.

*Hierarchy.* `LabelNeverAhead` follows from counting: the installs are the revision
plus the rebuilds that have installed and not bumped, of which there are at most
two, `Start`'s and that of the holder of placementMu (`InstallsAreCounted`,
`OneCascade`). A position may be wrong for long, since `Start` writes what it read
before; the invariant says who mends it (`PositionsGetRight`: a cascade that will
write it with a label the manager does not refuse; `StartIsOverruled`: `Start`'s
own write is right, or refused, or mended). `CachesGetRight` follows a cascade's
table from its install to the last manager, with `Start`'s overwriting it as the
one exception. `NoRotationIsEligible` needs that a level of a ranking has a best
node, since its order is strict and total: the leader is that node.

*Discovery.* `OfferRateBounded` is not inductive: an offer spends tokens that the
bucket may or may not have. `BucketInv` counts what is left as well, and from
when the bucket was last touched: in a window that began before that, the offers
and the tokens left are together no more than the burst and what trickled in
until then; a window that began after it has seen no offer.

For `OnlyRacesHurry`, a record makes its node wait for the base back-off from the
last burst (`RecordsMakeWait`; the loop that doubles never goes below the base),
so a tick that comes too soon found no record; and each way to have none puts the
node into `excused` (`OthersAreExcused`).

*Rotation.* `RotationInv` says what may be believed of a frame: the proposal it is
about has been opened (`FramesKnown`), and who sent an accept has voted
(`AcksTrue`). So what the coordinator counts in a round are votes of those whom
that round asks (`CountsTrue`), and a quorum of answers is a quorum of votes
(`PassedMeans`, by the cardinality of a subset). `PromiseStep` then maps every
step to one of `LeaderSwitch` or to a stutter, and `PromiseInit` the initial
states. `OnlyAbortsStrand` needs what a node's `cause` names on top of it:
`Switch` settles every live node, and a write after it is late.

*Lifecycle.* A run that is not cancelled is in the fields, or overwritten, or a Stop
is about to cancel it (`CancelIsDue`); the run a Stop works on is out of the fields
for good, as the numbers of runs only grow (`StoppedIsOut`, `RunsArePublished`);
past the wait no loop has its context (`WaitedForAll`), since a loop takes its
context from the fields. With these each step of `Stop` hands on what there is
left of the run, until the mesh's shutdown has dealt with the node.

*Join.* While a kill is owed its cascade nothing is claimed of the managers, as in
`Attachment`. When none is, the tree is one of the live nodes (`JoinKillsAreOwed`),
and whatever is on its way, the end of a join, an ack, a handler about to apply one,
was read either from the latest tree, and then says what that tree says
(`FinalsAreRight`, `AcksAreRight`, `AppliesAreRight`), or before it: then an ack is
refused by its revision, and a write by a handler that had looked before puts the
node into `raced`. Of the others `ManagersAreRight` says that they have what the tree
gives them. `SyncedAreConnected` keeps joins away from a node that a cascade has
connected: no offer is taken for it, and what read its state before the cascade
carries an older revision. Before the first cascade nobody has a leader or a rank
(`BeforeTheFirst`), which is why every joining node is one that udpLoop probes for:
after it, only a `raced` node can be joining at all.

*Recovery.* A number is drawn for one epoch and not yet used by any other
(`NumbersAreDrawnOnce`), and an epoch that is running has been opened, not taken
away, and can be aborted unless it came too late (`OpenEpochIsAccountedFor`): from
these `EpochsCloseOnce`. For the stable window the invariant adds what `change`
means: it is the time of the last applied sample that changed a role or a parent,
in whatever order the samples come (`ChangeIsTheLatest`). The metrics are inductive as they
stand once it is known that what is found first stays so when a sample is
appended (`LeastStays`), and that the code's rounded-up threshold is the
specification's share (`NeedIsTheShare`). `ListsTheLatest` is about a loop: after i
entries of the history the list is the first `Reach` entries of all epochs,
newest first, by a least counterexample again (`ListingFollows`); that only
the latest entry of the history can head the list already is `CurrentIsClosed`.

Model-checked only:

* every liveness property, `CascadePublishes`, `OrphansFindALeader`, `NeverGivesUp`
  and `StopReturns`: fairness and ENABLED are out of the prover's reach;
* the three properties that a run shows to fail.

The prover cannot instantiate the library's induction theorems, which take an
operator as a parameter. Where a proof needs induction over numbers it takes a
least counterexample instead, which the library's well-foundedness of strict
inclusion on finite sets gives (`LeastNumber`).

## 5. Findings

Shown by a run that expects a violation:

1. `exclude_root` protects the node that was root when the kill began, not the
   one that is root when it is removed (`mutation_root`; HOW_TO_USE.md:76).
2. The rotation policy compares qualities as they were at the last rebuild of
   the hierarchy; drift alone never shows (`views_drift`;
   SPEC_LEADER_ROTATION_POLICY.md:22).
3. Two concurrent Starts both find nothing to stop; the second overwrites the
   first, whose loops then never end (`lifecycle_starts`; manager.go:205).

Met while modelling, and stated here without a run of their own. Those marked *
are the exceptions that a property above names.

* Placement: with Y > 1 a level has several leaders (SPEC_MVP_CONTROL_PLANE.md:122
  has one). The hierarchy's leader of a level is therefore its best node.
* Policy: a level's leader *is* its best by the sort, so with a positive
  `rotation_min_delta` no tick ever finds a better one (`NoRotationIsEligible`).
* Rotation: SPEC_LEADER_ROTATION_POLICY.md:99-101 applies the switch before COMMIT is
  sent and acknowledged, and only logs the commit quorum; line 107 has the switch
  "guarded by prepare+commit quorum", and the code follows that: without the commit
  quorum it aborts (manager.go:2136-2142).
* Rotation: the switch checks that old and new are alive and on the level, not
  that old still leads it; COMMIT compares managers with the base revision plus
  one, whatever the revision is by then; an abort leaves nodes Transitioning*.
* Attachment: hints carry no revision (SPEC_LEADER_ROTATION_POLICY.md:117) and are
  followed however old*; with a cooldown, a leader killed between the sync's look
  at it and `tryConnect` stays the leader of its new child, which is reported
  connected (manager.go:1929; HOW_TO_USE.md:76)*.
* Join: a node that sets itself joining after a cascade has connected it stays
  joining, if its HELLO is lost, until the next cascade
  (SPEC_MVP_CONTROL_PLANE.md:223)*; acks and reconnects write what was read
  before a newer tree*.
* Managers: `SetUpperLevels` has no entry for level 0 (node/manager.go:256), so
  the root is in no cache (SPEC_MVP_CONTROL_PLANE.md:140-142).
* Lifecycle: the maps `Stop` sets to nil are written after an earlier look at the
  fields (manager.go:705, 737, 750, 2840, 2971, 2975), which panics; rotationLoop
  does not check for a missing context (605-616); the spawn is not waited for, so
  a node can start after `Stop`*; a failed Start's clean-up `Stop` (303-306) can
  only stop somebody else's run; `Stop`'s wait includes the loops of a newer run*;
  with `shutdown_timeout_ms` 0 it has no bound, and never ends if a spawn put a node
  into the mesh behind Shutdown's list (mesh.go:316-335)*;
  `spawnPhase` may read "running" after `Stop` (314-319).
* Recovery: a sample older than an epoch may be applied to it, with negative
  times, and end its window early*; an epoch that is installed behind its run's
  abort is dropped by the next Start and never closed
  (SPEC_RECOVERY_METRICS.md:214)*, and so is one that is open when a Start overwrites
  its run (finding 3; manager.go:281)*; of two openers the later number may be
  replaced by the earlier.
* Recovery: the documents disagree on what restarts the stable window. For
  SPEC_RECOVERY_METRICS.md:46-48 and 55 it is a change of leader or parent, for
  RECOVERY_METRICS_CALCULATION.md:104-113 one of role or parent. The code does the
  latter: a node that turns from base to sender restarts the window.
  `StableAsSpecified` is about the latter, too.

## 6. Not modelled

* Discovery: the root mode (one DISCOVER per node and tick without back-off) and
  the election of `rootNodeID`.
* Rotation policy: trigger window, tenure and cooldown, which only delay.
* Mutation: `target_role` and `min_leaders_keep`, which narrow the selection, and
  the error path of a spawn that is cancelled half-way.
* Recovery: role flaps, orphan seconds, reconnect samples, peaks, percentiles.
* Lifecycle: `spawn_phase` and the spawn counters; parallel spawning, of which one
  node stands for all.
* Drift's arithmetic and freeze: numerics on floats. Qualities are small ordered
  sets.
* Fabrics: link latency and traffic statistics; `Broadcast`, which the dashboard
  does not call.
* JSON encoding and `Validate`, metrics and views, HTTP routing and the UI, the
  command line, subnets: no state that another component reads back.

## 7. Plan

Done: all modules of section 2, and the proofs of section 4. Left:

1. `Attachment` and `Join` take a cascade's tree for a ranking of the live nodes;
   that `Mutation`'s cascades are such is proved there, and could be stated as a
   refinement, with `Placement` between the two.
2. `min_leaders_keep` under concurrent kills, and the error path of a cancelled
   spawn, need a `Mutation` with roles and with a second run.

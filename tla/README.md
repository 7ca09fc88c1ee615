# A TLA+ verification of logship

logship is a partitioned, replicated commit log with consumer groups, written
in Go.  This directory holds TLA+ models of its core, TLC configurations that
check them on small instances, and proofs that TLAPS checks for every instance.

## Inventory

| Component | State it keeps | Operations | Modelled in |
|---|---|---|---|
| Commit log (`internal/log`, `internal/record`) | segments, sparse index, size, next offset, high watermark | append, append at an offset, rotate, fsync, recover, read, set and await the high watermark | `CommitLog`; the high watermark in `Replication` |
| Replication (`internal/broker/replica.go`, `handlers.go`) | `replicaLEO`, follow loops, waiting produces | produce, replica fetch, ack, recompute ISR and high watermark, start and cancel follow loops | `Replication`; the loops in `Followers` |
| Controller and metadata (`broker.go`, `metadata.go`) | `topics.json`: leader, ISR, replicas of each partition | elect, create a topic, broadcast and merge snapshots, restart | `PartitionMeta`, `Replication` |
| Broker lifecycle (`broker.go`) | stop channel, wait group, HTTP server | start, tick, close | `Followers` (close), `Replication` (tick, restart) |
| Membership (`internal/cluster`) | last heartbeat of each peer | mark seen, is alive, controller id | `PartitionMeta`, `Replication` |
| Group coordinator (`internal/group`) | groups, members, generation, assignments; committed offsets | join, sync, heartbeat, leave, expire; commit and fetch offsets | `GroupOps`, `GroupCoordinator`; offsets in `Consumer` |
| Range assignor (`internal/assignor`) | none | assign | `RangeAssignor`, `RangeLoop` |
| Produce API (`handlers.go`) | none | route and append a batch, proxy it to the leader | `ProduceRouting`; one record's append and wait in `Replication` |
| Partitioner (`internal/routing`) | round-robin counter | partition of a key | `ProduceRouting` |
| Log store (`internal/store`) | open logs | open, get, close | `Followers` (open, also after `Close`, and close), with one log in the map |
| Client (`internal/client`) | broker list | calls, retries of a produce | `ProduceRouting`; the outcomes of other calls in every module |
| CLI (`cmd/logship-cli`) | a consumer's member, generation, positions | consume loop; single calls | `Consumer` |
| Wire types, flags, benchmark | | | not modelled: no behaviour of their own |

How they interact.  Every broker ticks: it posts heartbeats to its peers,
expires group members, repairs partition metadata if it believes to be the
controller (the lowest broker it has heard of within the session timeout),
recomputes the ISR and high watermark of the partitions it leads, and starts or
stops follow loops.  Metadata changes are pushed to all peers as whole,
unversioned snapshots.  A follow loop fetches from the leader, appends, takes
over the leader's high watermark and posts an ack, which makes the leader
recompute.  A produce with `acks=all` blocks on the log's condition variable
until the high watermark passes its offset.  Group calls are forwarded to the
controller, which keeps the groups in memory.

What is hard.  There are no epochs: elections, pushes, acks and fetch responses
may all be stale when they are applied.  A crash forgets the high watermark and
the view of the cluster, not the log or the metadata.  Liveness rests on tickers
and timeouts only.  The log must be readable again after a power loss at any
point.  Consumers learn of a rebalance only when they call.  The `hazards` of
`PROJECT.json` list these places one by one, with the properties aimed at them.

## Modules

* `PartitionMeta` - the decisions on one partition's metadata as operators:
  `ControllerFix` (controllerTick), `ApplyPush` (applyTopics), `ComputeISR` and
  `ComputeHW` (recomputeHW), `AssignReplicas`.
* `Replication` - brokers around one partition.  `meta[b]` is b's topics.json,
  `alive[b]` its view of the cluster, `log[b]`, `hw[b]` and `replicaLEO[b]` the
  log, high watermark and acks; `pushes`, `acks` and `fetch[b]` are what is under
  way; `admitted[b]` is a produce between its leader check and its append;
  `calls` are the calls of `recomputeHW` and `maybeSoloHW` that were interrupted
  between two lock sections, with the ISR and the candidate they go on with.
  Pushes and acks are delivered in any order, and lost or timed out up to
  `MaxFaults` times.  Records are numbered in the order of production, so that
  no two are equal.
* `MCReplication` - replica lists for its instances.
* `CommitLog` - one partition's log on disk.  A record is its encoded size, a
  segment the sequence of its frames with its index.  `PowerLoss` keeps what was
  fsynced and any prefix of the rest, possibly with a torn frame; `Kill` keeps
  everything written and may hit between rotation and write.  `Read` is the read
  path, a fold over the segments as in the code.
* `AbstractLog` - what a log promises; `CommitLog` is shown to implement it
  (`AppendOnly`).
* `RangeAssignor`, `RangeLoop` - the closed form of the range assignor, and its
  loop as a state machine.
* `Followers` - the follow loops of one broker and one partition: what
  `syncFollowers` decides before it takes `followMu` and does after it, for two
  callers at once; loops (`loops`, with the `followCancel` entry `key`) that are
  cancelled but not waited for; produces while the broker leads; and `Close`,
  step by step.  `store` says whether the log is open.  A tick may still be chosen
  after `stop` is closed, push handlers come until `Shutdown` is done, and both
  kinds of handlers, produces too, may outlive it.
* `GroupOps` - what the coordinator does to one `Group`, as operators: `Joined`,
  `Synced`, `Beaten`, `Left`, `AfterExpire`.  Its mutex makes each call one step.
  Ages are discrete and take the place of timestamps.
* `GroupCoordinator` - one group and what its consumers believe, for clients that
  call in any order.  `MCGroup` holds its instances' topics.
* `Consumer` - the consumers of the CLI, one step for each call of `consumeCmd`,
  with `GroupOps` and the committed offsets of every broker that may be
  coordinator.  `printed` and `skipped` are histories: the records some consumer
  printed, and those that a fetch response left out before its last one.  A join
  that fails ends the process.  `MCConsumer` holds its instances.
* `ProduceRouting` - one produce request: a stack of calls (`threads[1]`), the
  client's at the bottom, a proxying broker's on top of it; a call that times out
  goes on as a thread of its own.  `view[b]` is what b's metadata says of the
  leaders.  `MCProduce` holds the requests and the hash.
* `ReplicationProofs` (with the lemmas about `PartitionMeta`), `FollowersProofs`,
  `CommitLogProofs`, `RangeLoopProofs`, `GroupOpsProofs`, `GroupCoordinatorProofs`,
  `ConsumerProofs`, `ProduceRoutingProofs` - the theorems; see Proofs.

Each definition's source lines are in the `map` of `PROJECT.json`.  Definitions
introduced by "Mutant" are plausible mistakes in the definition that follows
them; each shows that some property would notice it.

### Abstractions

* `Replication` has one partition and a replica list that never changes.  A
  recompute, with what its caller does after it, runs through in one step or is
  interrupted; then reading the metadata, the section under `b.mu`, setting the
  high watermark, and the two halves of `maybeSoloHW` are steps of their own.  Up
  to `MaxCalls` calls are interrupted at a time: with every call split, the
  smallest instances are already beyond TLC.  The broadcasts a tick asks for are
  taken together, with a snapshot of the metadata at the time they are sent, and while
  one is pending another is not counted.
* In `Replication` a broker follows whenever its metadata says so, with one fetch
  under way; loops that start, stop and overlap are in `Followers`, where a
  record is its offset and high watermarks and acks are left out.
* A fetch response in `Replication` is any non-empty prefix of what is missing:
  `Read` may cut it, and a gap in it ends the loop over its records, which is as
  if it had been cut there.
* In `Replication` a call is delivered before its caller goes on, or it is lost;
  retries and calls that outlive their caller are in `ProduceRouting`, where a
  record is its place in the request and replicas are left out.
* `Followers` has one peer and one partition; push handlers come one at a time
  beside the ticker.  The peer's answer is any set of records from the offset
  asked for on, which includes the gaps of `Read`.  A push handler that outlives
  `Shutdown` has stored its metadata before that and has `syncFollowers` left.
* `Consumer` has one topic.  A fetch response is any set of records below the high
  watermark that has the one asked for, whatever is missing behind it: more than the
  gaps of `Read`, each a segment's end and the next segment.  A call of the group API reaches the
  coordinator of the day or fails (`forwardGroup` and the client's `any` in one);
  between two coordinators at the same time it does not choose.  Generations are
  numbered modulo `MaxGeneration`: only equality is tested.  The hook that appends
  commits to `__consumer_offsets` is left out, since nothing reads them back.
* `ProduceRouting` gives up a call that is nested deeper than `MaxHops`; in the
  code the timeouts of the calls below it do.  The hash of a key is a parameter.
* `CommitLog` has no write errors and keeps directory entries through a power
  loss.  With `IndexOutlivesLog` (which no run sets; see below), a power loss may
  lose all of a log file and nothing of its index; the model then stops after one
  crash, because it does not keep the stale index file for a second recovery.

## Runs

| Run | Bounds | Result |
|---|---|---|
| `ReplRestart` | 2 brokers, 2 records, 1 crash with restart, 1 push and 1 ack under way, no interrupted call | holds: `TypeOK`, `OffsetIdentity`, `AckedLEOReal`, `HWWithinLog`, `CommitCovered` |
| `ReplStable` | leader 1 stays up, follower 2 may die, 2 records, both ack modes, 1 interrupted call, fairness | holds: `FollowersPrefix`, `ProduceCommits`, `CommitCovered` |
| `ReplController` | 3 brokers, replicas 2 and 3, 2 may die, 1 network fault (false session timeout, lost push, lost ack), no records, no interrupted call, fairness | holds: `ControllerRepairs` |
| `LogCrash` | 6 records of 1 or 2 bytes, segments of 5 bytes, index every 2, fsync every 2 appends, 2 crashes | holds: `TypeOK`, `SegmentsContiguous`, `IndexSound`, `ReadSound`, `AppendOnly` |
| `RangeLoop` | up to 5 members and 11 partitions | holds: `LoopInv`, `RangeCorrect` |
| `GroupMembership` | 3 members, 3 partitions, 3 generations, 1 failover, session 2 and rebalance wait 1 time units, fairness | holds: `TypeOK`, `EveryPartitionOwned`, `ExclusiveViews`, `AssignmentFixed`, `RebalanceCompletes` |
| `FollowLoops` | 3 records, 2 loops that have not returned, 2 callers, a shutdown that handlers may outlive, fairness | holds: `TypeOK`, `Aligned`, `OneFollower`, `QuietAfterClose`, `CloseEnds`, `FollowsOrStranded` |
| `Consume` | 2 consumers, one slow and free to exit, 1 partition, 3 records, responses with gaps, 1 coordinator that restarts once (with or without its offsets), 1 failed call, session and rebalance wait 1 time unit, fairness | holds: `TypeOK`, `AtLeastOnce`, `Drains` |
| `Produce` | 2 brokers, 2 partitions, requests of 1 and 2 records (one names a partition its record's key does not hash to), 2 attempts (5 in the code), 3 nested calls, 1 timeout or failed wait, 1 change of metadata, fairness | holds: `TypeOK`, `ResponseTruthful`, `CopiesAccounted`, `KeyOrder`, `RequestEnds` |

Why the bounds suffice.  Two brokers and two records are enough for two leaders at
once, for a fetch response that meets a log which has grown, and for an ack that
outlives its leader; one crash with restart gives every broker a stale view.  In
`ReplStable` the leader never moves, so that a follower's copy of the ISR matters to
nothing and no push need be under way; one interrupted call, beside calls that run
through, lets the ISR change between its unlock and its `SetHighWatermark`.
Interrupted calls together with a leadership that moves are covered by the theorems;
`ReplRestart` with one record and one interrupted call (10 million states) and
`ReplController` with one (3 million) take too long for a run kept here, and were
checked once.  Three brokers are needed only where the controller is not a replica.
Six records make up to three segments of two to five frames, with an index of
several entries in each.  Three generations let three members become stable and be
rebalanced again, and let a new coordinator reach the generation of the old. Two
loops are a cancelled one and its successor, and three records let each append while
the other holds a stale answer.  Two consumers are needed for a zombie's commit to
cross its successor's, three records for a response with a gap (the first, one left
out, the last), and one failover for a commit to reach a coordinator that the
offsets before it never reached.  One coordinator will do: a restart with an
unreadable offsets file knows no group and no offsets, just as a broker that never
was coordinator.  One failover is also as many as the model means, since a second
one could return to a broker that still keeps the group of its first term.  Two
brokers that each name the other, and three nested calls, are enough for a proxy to
come back to where it started; one change of metadata in the middle of a request
cuts a batch (two were checked once too). What does not depend on the bounds is
proved (below).

`RangeLoop`, `FollowLoops` and `Produce` do not check for deadlock: the loop ends,
the broker is closed, the client has its answer.

The remaining runs end in a counterexample: the code does not do what a document
or a comment says.  The `findings` of `PROJECT.json` quote it.

| Run | Property | What happens |
|---|---|---|
| `ReplMinISR` | `HWIsMinISR` | A follower enters the ISR with its first ack, behind a high watermark that never goes back, or that an interrupted `recomputeHW` is about to raise |
| `LogReadGap` | `ReadContiguous` | A read that its budget cuts inside a segment skips the rest of it and the next segment, and goes on in the third.  `consumeCmd` commits past what was skipped (main.go:184-197), so that at-least-once (README.md:104, DESIGN.md:154) holds only for what responses do not leave out |
| `ConsumeLivelock` | `Settles` | Two consumers that do nothing wrong keep each other from working: one has synced and heartbeats before the other has synced, is refused and joins again, which starts a rebalance; its own next sync is refused, and while it sleeps the other does the same |

Disagreements that were met and have no run of their own:

* Elections.  `controllerTick` takes the first live replica whether or not it is
  in the ISR, although README.md:102 and DESIGN.md:119 speak of it as the resort
  when no member of the ISR is alive; and an in-sync follower that is elected
  before its next fetch has a lower high watermark than the old leader, although
  DESIGN.md:84 says "HW never retreats".
* Recovery.  After a power loss that emptied a log file but not its index,
  `recover` returns before it looks at the index (segment.go:85), and reads start
  at the wrong record.  `LogCrash` with `IndexOutlivesLog = TRUE`, one crash and
  `FsyncEvery = 0` shows it: `IndexSound` and `ReadSound` are violated.
* Rebalances.  `Expire` drops a live member, whose last heartbeat is older than
  `rebalanceWait`, in the same call that starts the rebalance, although the
  comment at coordinator.go:418 says that it waits for members to rejoin.
* Offsets.  DESIGN.md:114 says that offsets are fsynced; `persistOffsetsLocked` does
  not.  Without `--from-beginning`, a consumer that finds no offset after a
  rebalance or a failover starts at the high watermark and skips records, where
  DESIGN.md:118 speaks of duplicates only (`Consume` with `FromBeginning = FALSE`
  violates `AtLeastOnce`, with a rebalance before the first commit).
* Membership.  A broker that restarts is alone in its own view and so acts as
  controller although a lower id is up (README.md:84).
* Shutdown.  `Close` waits 2 s for its handlers (broker.go:183-188), a produce may
  take 5 s and more; one that comes to an unopened log after `Store.Close` opens
  it and appends to it, since the store does not remember that it was closed.
* Reads.  A read may exceed `maxBytes` by one record of the next segment (the
  comment at log.go:167).
* Subscriptions.  Members are assigned partitions of topics only others
  subscribed to (DESIGN.md:146).

### Fairness

`Replication`: every live broker's ticker runs (`Tick`), its goroutines take their
snapshot and send it (`Broadcast`), its follow loop goes on (`Fetch`, `ApplyRecord`,
`FetchDone`), an admitted produce goes on to its append, interrupted calls go on
(those of each broker's ticker, and the others), calls between brokers end one way
or the other, heartbeats between live brokers arrive, and timers of dead brokers run
out.  All are weak fairness: each step stays enabled until it is taken.  No fairness
is assumed of crashes, faults or clients.
`GroupCoordinator`: the ticker runs `Expire` and time passes; consumers owe
nothing.
`Followers`: the ticker ticks, goroutines and callers of `syncFollowers` go on
(fetches have a client timeout), the ticker's `select` some time chooses `stop`
(`TickEnds`, strongly fair: ticks are 200 ms apart, and among ready cases the
choice is random), and a `Close` that has begun is carried through;
pushes, produces and shutdowns owe nothing.
`Consumer`: consumers that never exit go on with their loop, whose calls all
return, the ticker runs `Expire`, and time passes, except that a consumer outside
`Slow` makes its next call before its session ends (the code calls at least every
200 ms, the session is 10 s).
`ProduceRouting`: handlers and clients go on.

## Proofs

The theorems hold for all constants that satisfy the assumption of the module
they are about: `BrokersAssumption`, `ReplicasAssumption`, `BoundsAssumption`
(replication), `FollowersAssumption`, `CommitLogAssumption`, `RangeAssumption`,
`GroupAssumption`, `CoordinatorAssumption`, `ConsumerAssumption`,
`RoutingAssumption`, `RequestsAssumption`.  They say that ids are numbers, that
sets that the code takes a first element of are not empty, that record sizes and
limits are positive, and that the bounds are numbers; every run evaluates those
of its modules.  Four theorems have a hypothesis of their own (`StableLeader`,
`FromBeginning`, and `~IndexOutlivesLog` for the index and for reads), which the
run of the same property has too.

Every inductive invariant below was checked by TLC before it was proved.  In each proof
module there is one lemma or step for each action.

* `ReplicationProofs`: `Invariance`, that is `Spec => []IndInv`, and from it
  `TypeOK`, `OffsetIdentity`, `AckedLEOReal` and `HWWithinLog`; and
  `Spec => CommitCovered`.  `OffsetIdentity` is not inductive by itself.  A
  follower appends what an earlier fetch returned, so the invariant must say that
  what is still to be applied is a copy of the source's log at the same offsets
  (`FetchCopies`, preserved because no log shrinks); a leader appends a new
  record, so it must say that logs hold only records produced before
  (`LogsProduced`).  There is one lemma for each action, grouped where actions
  leave logs and fetches alone (`QuietInv`, `ForgetInv`); `GrowKeeps` and its kin
  say what appending to one log does to each part.  `CommitCovered` speaks of
  the ISR for which a high watermark was computed, not of the one in the metadata
  when it is set: between the two the lock is free, and an empty follower may have
  joined.  It combines `AckedLEOReal` with `ComputeHWIsMin` (the watermark offered
  is below every acknowledged log end, and those are real), and for a call that was
  interrupted needs `CallsCovered`: what the call carries stays covered, since logs
  only grow.
  `ControllerFixSound`, `ApplyPushSound` and `ComputeHWIsMin` say that elections
  and pushes keep the metadata well formed, that an election leaves a live leader
  when a replica is alive, and that the watermark is a lower bound.
  `FollowersPrefixCorrect` assumes `StableLeader` (the first replica is never
  killed, nobody restarts, no call is lost: the instance of `ReplStable`).  Its
  invariant `LeaderStays` says that everyone up sees that leader alive and names
  it, pushes under way and fetches included, so that all appends are the leader's
  or copies of them.
* `FollowersProofs`: `TypeOK`, `Aligned`, `OneFollower`, and the action property
  `QuietAfterClose`.  `OneFollower` counts the loops that are not cancelled and
  needs `OnlyKeyRuns`: the only one is the entry of `followCancel`.
  `QuietAfterClose` needs `EarlyAfterClose`: `stop` is closed before the wait for
  the loops, so one that starts later leaves at its top; and
  `StoreClosed`: after `Close` an open log is one that was opened later, so that
  only a produce handler's late `Store.Open` lets a log grow.  `Aligned` rests on
  `AppendAt`, whatever the loops hold.
* `CommitLogProofs`: `TypeOK`, `SegmentsContiguous`, `IndexSound`, `ReadSound`, and
  the refinement `Spec => AppendOnly`.  The invariant adds that closed segments have
  sound indexes at all times and the active one while the log is open (`Indexed`),
  that `since` is 0 exactly in a segment with no frame (else the first record might
  get no index entry), and that a file which a power loss emptied has lost its index
  too; the last is the hypothesis of `IndexTrusted` and `ReadsSound`, since recovery
  does not look at the index of an empty file.  `Bounded` gives the refinement
  `synced <= LEO`.  `Pos`, `Scan` and `FlattenSeq` are recursive functions: the
  lemmas `PosExists`, `ScanExists` and `FlatExists` show that their definitions have
  a solution, and `PosFacts`, `PosPrefix`, `ScanFacts`, `FlatLast` and `FlatMore`
  what they return, each by looking at the least argument for which the fact would
  fail (`LeastNat`).  For the refinement, `ReplaceFrames` and `AddFrames` say what a
  step does to the log as one sequence, and `FramesLen` that its length is `LEO`.

  `ReadsSound` follows the read path from the inside.  `SearchFacts`: the
  bisection of `sort.Search` ends at the first hit, for every window it goes
  through.  `LookupFindsGreatest`: on a sound index `lookup` returns the position
  of the greatest indexed offset not above the one asked for.
  `SegmentReadSound`: `readFrom`, asked for a record of its segment, returns that
  record and those behind it, below the bound, within the budget but for the
  first, and as many as the budget allows.  `SegmentPos` carries byte positions
  of a file over to the log as a whole.  `StepCases` says that one round of the
  loop of `Log.Read` stays, ends, passes over a segment or reads; the loop's
  invariant has two parts.  Whatever the budget, what was read starts at the
  offset asked for and is in order below the offset to go on from (`Ordered`,
  `Placed`); when the budget covers all that is asked for, it is everything up to
  the end of the segments seen so far (`Covers`).  The first part allows the gaps
  that `LogReadGap` shows, the second excludes them.
* `RangeLoopProofs`: the loop of the assignor is in bounds, gives every partition
  one owner (`RangeAssignCorrect`) and computes the closed form that `GroupOps`
  uses (`RangeAssignIsShare`).  The invariant `RangeInv` adds that what was given
  out is exactly the partitions below `idx`, each to one member.
* `GroupOpsProofs`: the slices of the closed form are disjoint and cover the
  partitions, and ranks number the members, hence `OneOwnerEach`.  For each
  operation on a `Group` a lemma (`JoinedFacts`, `SyncedFacts`, `BeatenFacts`,
  `LeftFacts`, `ExpireFacts`) says that the group stays `Consistent` (an assigned
  group has the assignment of its present members) and `Evolved` (a new
  generation, or the same assignment).
* `GroupCoordinatorProofs`: `TypeOK`, `EveryPartitionOwned`, `ExclusiveViews` and
  the action property `AssignmentFixed`.  `ExclusiveViews` needs `ViewCurrent`: a
  member's view is older than the group's generation or is its assignment.
* `ConsumerProofs`: `TypeOK`, and `AtLeastOnce` for `FromBeginning`.  The invariant
  says of every position of a working consumer, and of every offset at every
  coordinator, present or former, that everything up to it was printed or left out
  by a response (`PositionsCovered`, `StoredCovered`).  It therefore survives
  commits that arrive late, at the wrong coordinator or after the partition has
  moved, and positions that were read from another coordinator.  Up to the last
  record of a response everything was printed or left out by it (`ResponseMax`).
* `ProduceRoutingProofs`: `TypeOK`, `ResponseTruthful`, `KeyOrder` and
  `CopiesAccounted`.  The
  invariant says of each call on each stack, given up or not, that its results
  are true of the logs of the broker it is at (`Told`), which stays so because
  logs only grow; `KeyOrder` follows, since a handler appends a record only after
  those before it in the batch, and records of one key go to one partition.
  `CopiesAccounted` needs `CountInv`: for each record, its copies together with
  the calls that may still append it are within what the faults and changes of
  metadata so far allow, and no more calls are under way than faults gave up plus
  one.  A bound of one copy for each fault and each change, which the `Produce`
  instance does not refute, is not an invariant: a change of metadata cuts off
  every call that was given up and still goes on, so with 4 faults and 4 changes a
  batch of two records gets 10 copies of its first one.  The bound is therefore one
  copy for each fault and, for a batch, for each change `faults + 1` copies.

Every invariant, action property and refinement that a passing run checks has a
theorem.  Liveness (`ProduceCommits`, `ControllerRepairs`, `RebalanceCompletes`,
`Drains`, `CloseEnds`, `FollowsOrStranded`, `RequestEnds`) is only model-checked:
it rests on fairness and ENABLED, which the prover does not reach.

## Not modelled

Wire types, flags and the benchmark have no behaviour of their own.  Left out of
modelled parts: several partitions in one metadata snapshot, and the creation of
topics while brokers are up; failing
writes to log and index files; the condition variable and timer inside
`WaitHighWatermark`; the checksum and field layout of a record; spellings (offset
keys, replica keys and paths are joined with slashes).

## Plan

Done: replication of one partition, follow loops and shutdown, the commit log,
the range assignor, group membership, consumers with their offsets, the way of a
produce request, and the theorems above.  Next, in this order:

1. `Metadata`: several partitions, topic creation, snapshots as a whole; do the
   brokers' copies converge?
2. `HighWatermarkWait`: the condition variable, its timer and lost wake-ups;
   write errors in `CommitLog`.

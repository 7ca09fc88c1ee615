------------------------------ MODULE Consumer ------------------------------
(***************************************************************************)
(* The consumers of the CLI (consumeCmd) against the group coordinator and *)
(* its committed offsets: join, sync, fetch the offsets, then heartbeat,   *)
(* fetch, print and commit in rounds, and join again when a heartbeat      *)
(* fails.  Every call is a step of its own, so rebalances, expiries,       *)
(* failovers and the commits of consumers that lost their partitions come  *)
(* in between.                                                             *)
(*                                                                         *)
(* One topic.  A consumer process is its member id: a process that is      *)
(* started again gets another id, and a member nobody speaks for is a      *)
(* consumer that exited.  The records of a partition are its offsets; hw   *)
(* is the end that fetches are served up to.                               *)
(***************************************************************************)
EXTENDS GroupOps, FiniteSetsExt

CONSTANTS
  Topic,           \* the topic that is consumed
  FromBeginning,   \* --from-beginning
  Coordinators,    \* the brokers that may be controller
  Slow,            \* consumers that may miss their session timeout
  CanExit,         \* consumers that may be stopped or killed
  MaxRecords,      \* bound: records of a partition
  MaxFaults,       \* bound: failed calls of consumers
  MaxFailovers,    \* bound: failovers and restarts of the coordinator
  MaxGeneration    \* bound: after this generation the numbers start again at 1

ASSUME ConsumerAssumption ==
  /\ Topic \in Topics /\ FromBeginning \in BOOLEAN
  /\ Coordinators \subseteq Nat /\ Coordinators # {}
  /\ Slow \subseteq Ids /\ CanExit \subseteq Ids
  /\ MaxRecords \in Nat /\ MaxFaults \in Nat /\ MaxFailovers \in {0, 1}
  /\ MaxGeneration \in Nat \ {0}

VARIABLES
  group,      \* the Group at the present coordinator
  coord,      \* the broker that is coordinator
  stored,     \* stored[c]: the offsets c has, in memory and in offsets.json
  hw,         \* hw[q]: high watermark of partition q
  pc,         \* pc[m]: the call m's process makes next
  gen,        \* gen[m]: its generation
  parts,      \* parts[m]: the partitions it was assigned
  pos,        \* pos[m]: its map from partitions to offsets
  todo,       \* todo[m]: the partitions left in its round
  printed,    \* printed[q]: the offsets that some consumer has printed
  skipped,    \* skipped[q]: the offsets some fetch response left out
  start,      \* start[q]: where the first consumer of q began, or None
  faults,     \* number of failed calls so far
  failovers   \* number of failovers so far

consumers == <<pc, gen, parts, pos, todo>>
history == <<printed, skipped, start>>
vars == <<group, coord, stored, hw, pc, gen, parts, pos, todo, printed, skipped,
          start, faults, failovers>>

None == -1
Parts == 0..(PartitionCount[Topic] - 1)
NoOffsets == [q \in Parts |-> None]
Running == {m \in Ids : pc[m] # "exit"}

Init ==
  /\ group = EmptyGroup
  /\ coord = Min(Coordinators)
  /\ stored = [c \in Coordinators |-> NoOffsets]
  /\ hw = [q \in Parts |-> 0]
  /\ pc = [m \in Ids |-> "join"]
  /\ gen = [m \in Ids |-> 0]
  /\ parts = [m \in Ids |-> {}]
  /\ pos = [m \in Ids |-> NoOffsets]
  /\ todo = [m \in Ids |-> {}]
  /\ printed = [q \in Parts |-> {}]
  /\ skipped = [q \in Parts |-> {}]
  /\ start = NoOffsets
  /\ faults = 0 /\ failovers = 0

\* Only equality of generations is ever tested, and no consumer keeps one that
\* is MaxGeneration old.
Recycled(g) == IF g.gen > MaxGeneration THEN [g EXCEPT !.gen = 1] ELSE g

Goto(m, p) == pc' = [pc EXCEPT ![m] = p]

\* Back to the top of the loop, where nothing of the last generation is used
\* again, or out of it.
Restart(m, p) ==
  /\ Goto(m, p)
  /\ gen' = [gen EXCEPT ![m] = 0]
  /\ parts' = [parts EXCEPT ![m] = {}]
  /\ pos' = [pos EXCEPT ![m] = NoOffsets]
  /\ todo' = [todo EXCEPT ![m] = {}]

\* A call fails at every broker of the client's list.
Fault == faults < MaxFaults /\ faults' = faults + 1

-----------------------------------------------------------------------------
(* The coordinators' committed offsets *)

\* Coordinator.Commit at c: anyone's offset, whatever the generation and even if
\* it is lower; offsets.json is rewritten in the same call.
Committed(c, q, o) == [stored EXCEPT ![c][q] = o]

\* What a FetchOffsets of the topic brings.
Told(failed) == IF failed THEN NoOffsets ELSE stored[coord]

\* loadOffsets at c.  A power loss may leave offsets.json unreadable, since it is
\* renamed into place without an fsync; the map then stays empty.
Loaded(c, unreadable) == IF unreadable THEN NoOffsets ELSE stored[c]

-----------------------------------------------------------------------------
(* The consumer's calls *)

Join(m) ==
  /\ pc[m] = "join"
  /\ group' = Recycled(Joined(group, m, {Topic}))
  /\ gen' = [gen EXCEPT ![m] = group'.gen]
  /\ Goto(m, "sync")
  /\ UNCHANGED <<coord, stored, hw, parts, pos, todo, history, faults, failovers>>

\* The join failed, whether or not the coordinator got it: the process ends.
JoinFails(m) ==
  /\ pc[m] = "join" /\ Fault
  /\ group' \in {group, Recycled(Joined(group, m, {Topic}))}
  /\ Restart(m, "exit")
  /\ UNCHANGED <<coord, stored, hw, history, failovers>>

Sync(m) ==
  /\ pc[m] = "sync" /\ CanSync(group, m, gen[m])
  /\ group' = Synced(group, m)
  /\ parts' = [parts EXCEPT ![m] = group.members[m].asg[Topic]]
  /\ Goto(m, "offsets")
  /\ UNCHANGED <<coord, stored, hw, gen, pos, todo, history, faults, failovers>>

\* Sync was refused, or failed on its way back: sleep and join again.
SyncFails(m) ==
  /\ pc[m] = "sync"
  /\ \/ ~CanSync(group, m, gen[m]) /\ UNCHANGED <<group, faults>>
     \/ CanSync(group, m, gen[m]) /\ Fault /\ group' = Synced(group, m)
  /\ Restart(m, "join")
  /\ UNCHANGED <<coord, stored, hw, history, failovers>>

\* Mutant: a partition without a committed offset gets no position.
StartsCommitted(q, told) == {told[q]}

\* Where m starts on q: the committed offset it was told, or else the beginning
\* or the high watermark that some broker's metadata shows, which may be old.
Starts(q, told) ==
  IF told[q] # None THEN {told[q]}
  ELSE IF FromBeginning THEN {0} ELSE 0..hw[q]

\* FetchOffsets, whose error is taken for "nothing committed", and the choice of
\* the positions.
FetchOffsets(m) ==
  /\ pc[m] = "offsets"
  /\ \E failed \in BOOLEAN :
       LET told == Told(failed)
       IN  /\ IF failed THEN Fault ELSE UNCHANGED faults
           /\ \E p \in [Parts -> None..MaxRecords] :
                /\ \A q \in Parts : IF q \in parts[m] THEN p[q] \in Starts(q, told)
                                    ELSE p[q] = None
                /\ pos' = [pos EXCEPT ![m] = p]
                /\ start' = [q \in Parts |->
                               IF start[q] = None THEN p[q] ELSE start[q]]
  /\ Goto(m, "heartbeat")
  /\ UNCHANGED <<group, coord, stored, hw, gen, parts, todo, printed, skipped,
                 failovers>>

Heartbeat(m) ==
  /\ pc[m] = "heartbeat" /\ CanBeat(group, m, gen[m])
  /\ group' = Beaten(group, m)
  /\ todo' = [todo EXCEPT ![m] = parts[m]]
  /\ Goto(m, IF parts[m] = {} THEN "heartbeat" ELSE "fetch")
  /\ UNCHANGED <<coord, stored, hw, gen, parts, pos, history, faults, failovers>>

\* Mutant: a heartbeat that failed is only tried again.
HeartbeatRetried(m) ==
  /\ pc[m] = "heartbeat"
  /\ ~CanBeat(group, m, gen[m]) \/ faults < MaxFaults
  /\ faults' = IF CanBeat(group, m, gen[m]) THEN faults + 1 ELSE faults
  /\ UNCHANGED <<group, coord, stored, hw, consumers, history, failovers>>

\* A heartbeat was refused or got no answer: leave the loop and join again.
HeartbeatFails(m) ==
  /\ pc[m] = "heartbeat"
  /\ ~CanBeat(group, m, gen[m]) \/ faults < MaxFaults
  /\ faults' = IF CanBeat(group, m, gen[m]) THEN faults + 1 ELSE faults
  /\ Restart(m, "join")
  /\ UNCHANGED <<group, coord, stored, hw, history, failovers>>

\* The rest of the round, once q is done with.
Done(m, q) ==
  /\ todo' = [todo EXCEPT ![m] = @ \ {q}]
  /\ Goto(m, IF todo[m] = {q} THEN "heartbeat" ELSE "fetch")

\* What a response may bring from offset o on: the record at o and some of those
\* up to the high watermark.  Log.Read may leave out records between two that it
\* returns: one segment's end and the next segment (CommitLog, ReadContiguous).
Responses(q, o) == {R \in SUBSET (o..(hw[q] - 1)) : o \in R}

\* Fetch from the next partition and print what came; the position is then after
\* the last record, also when the response has gaps.
Fetch(m) ==
  /\ pc[m] = "fetch"
  /\ LET q == Min(todo[m])
     IN  \E R \in Responses(q, pos[m][q]) :
           /\ printed' = [printed EXCEPT ![q] = @ \cup R]
           /\ skipped' = [skipped EXCEPT ![q] = @ \cup ((pos[m][q]..Max(R)) \ R)]
           /\ pos' = [pos EXCEPT ![m][q] = Max(R) + 1]
  /\ Goto(m, "commit")
  /\ UNCHANGED <<group, coord, stored, hw, gen, parts, todo, start, faults,
                 failovers>>

\* The fetch failed or brought nothing: no commit.
FetchNothing(m) ==
  /\ pc[m] = "fetch"
  /\ LET q == Min(todo[m])
     IN  /\ IF hw[q] > pos[m][q] THEN Fault ELSE UNCHANGED faults
         /\ Done(m, q)
  /\ UNCHANGED <<group, coord, stored, hw, gen, parts, pos, history, failovers>>

\* Mutant: the high watermark is committed, not the position.
CommitHW(m) ==
  /\ pc[m] = "commit"
  /\ LET q == Min(todo[m])
     IN  /\ stored' = Committed(coord, q, hw[q])
         /\ Done(m, q)
  /\ UNCHANGED <<group, coord, hw, gen, parts, pos, history, faults, failovers>>

\* Commit the position at the coordinator of the day.
Commit(m) ==
  /\ pc[m] = "commit"
  /\ LET q == Min(todo[m])
     IN  /\ stored' = Committed(coord, q, pos[m][q])
         /\ Done(m, q)
  /\ UNCHANGED <<group, coord, hw, gen, parts, pos, history, faults, failovers>>

CommitLost(m) ==
  /\ pc[m] = "commit" /\ Fault
  /\ Done(m, Min(todo[m]))
  /\ UNCHANGED <<group, coord, stored, hw, gen, parts, pos, history, failovers>>

\* The process ends: --max is reached, or it is killed.
Exit(m) ==
  /\ pc[m] # "exit" /\ m \in CanExit
  /\ Restart(m, "exit")
  /\ UNCHANGED <<group, coord, stored, hw, history, faults, failovers>>

Step(m) ==
  \/ Join(m) \/ JoinFails(m) \/ Sync(m) \/ SyncFails(m) \/ FetchOffsets(m)
  \/ Heartbeat(m) \/ HeartbeatFails(m)
  \/ Fetch(m) \/ FetchNothing(m) \/ Commit(m) \/ CommitLost(m)

-----------------------------------------------------------------------------
(* The brokers' side *)

Produce(q) ==
  /\ hw[q] < MaxRecords
  /\ hw' = [hw EXCEPT ![q] = @ + 1]
  /\ UNCHANGED <<group, coord, stored, consumers, history, faults, failovers>>

Expire ==
  /\ group' = Recycled(AfterExpire(group))
  /\ UNCHANGED <<coord, stored, hw, consumers, history, faults, failovers>>

\* A consumer that is not slow makes its calls before its session ends.
TimePasses ==
  /\ \E m \in DOMAIN group.members : group.members[m].age < MaxAge
  /\ \A m \in DOMAIN group.members :
       m \in Running \ Slow => group.members[m].age < Session
  /\ group' = Aged(group)
  /\ UNCHANGED <<coord, stored, hw, consumers, history, faults, failovers>>

\* Broker c becomes coordinator, or starts again: it knows no group (the first
\* failover goes to a broker that never was coordinator), and the offsets in its
\* own offsets.json.
Failover(c, unreadable) ==
  /\ failovers < MaxFailovers
  /\ failovers' = failovers + 1
  /\ coord' = c
  /\ group' = EmptyGroup
  /\ stored' = [stored EXCEPT ![c] = Loaded(c, unreadable)]
  /\ UNCHANGED <<hw, consumers, history, faults>>

Next ==
  \/ \E m \in Ids : Step(m) \/ Exit(m)
  \/ \E q \in Parts : Produce(q)
  \/ Expire \/ TimePasses
  \/ \E c \in Coordinators, unreadable \in BOOLEAN : Failover(c, unreadable)

Spec == Init /\ [][Next]_vars

\* Consumers that never exit go on (one that may exit may as well hang), the
\* coordinator's ticker runs and time passes.
FairSpec ==
  /\ Spec
  /\ \A m \in Ids \ CanExit : WF_vars(Step(m))
  /\ WF_vars(Expire) /\ WF_vars(TimePasses)

-----------------------------------------------------------------------------
(* Properties *)

\* Every variable has its type, and a consumer works only on partitions for
\* which it has a position.
TypeOK ==
  /\ coord \in Coordinators
  /\ stored \in [Coordinators -> [Parts -> None..MaxRecords]]
  /\ hw \in [Parts -> 0..MaxRecords]
  /\ pc \in [Ids -> {"join", "sync", "offsets", "heartbeat", "fetch", "commit", "exit"}]
  /\ gen \in [Ids -> 0..MaxGeneration]
  /\ \A m \in Ids : todo[m] \subseteq parts[m] /\ parts[m] \subseteq Parts
  /\ \A m \in Ids : pc[m] \in {"heartbeat", "fetch", "commit"} =>
       \A q \in parts[m] : pos[m][q] \in 0..MaxRecords
  /\ faults \in 0..MaxFaults /\ failovers \in 0..MaxFailovers

\* At-least-once consume, as far as it goes: no coordinator holds an offset past
\* a record that nobody has printed, counted from where the group began, unless
\* it is one that a fetch response left out.  Late and lost commits, those of
\* consumers that lost their partitions and failovers lose nothing more.
AtLeastOnce ==
  \A c \in Coordinators, q \in Parts :
    \A o \in start[q]..(stored[c][q] - 1) : o \in printed[q] \cup skipped[q]

\* Once the consumers that may exit have done so, those that are left get to the
\* end of the log: the sessions of the others end, their partitions come to
\* them, and stale offsets, rebalances and failovers keep them from no record
\* but those that fetch responses left out.
Drains ==
  <>[](Running = Ids \ CanExit) =>
    <>[](\A q \in Parts : printed[q] \cup skipped[q] = 0..(hw[q] - 1))

\* "When all have synced, the group is Stable": consumers that all keep running
\* come to work at the same time.
Settles ==
  <>(group.state = "Stable" /\ DOMAIN group.members = Running)
=============================================================================

-------------------------- MODULE GroupCoordinator --------------------------
(***************************************************************************)
(* One consumer group: the coordinator's state machine (internal/group),   *)
(* and what its consumers believe.  What is interleaved is the calls of    *)
(* consumers, responses that are lost, time, the Expire of the broker's    *)
(* tick and a failover to a coordinator that knows no group.               *)
(*                                                                         *)
(* The consumers are any clients of the group API, in any order of calls;  *)
(* module Consumer has those of the CLI.  A consumer that was never told   *)
(* its id joins again under another one, and the first stays behind as a   *)
(* member nobody speaks for.                                               *)
(***************************************************************************)
EXTENDS GroupOps

CONSTANTS
  Subscriptions,   \* the sets of topics a consumer may join with
  MaxGeneration,   \* bound: generations of one coordinator
  MaxFailovers     \* bound: failovers

ASSUME CoordinatorAssumption ==
  /\ Subscriptions \subseteq SUBSET Topics
  /\ MaxGeneration \in Nat /\ MaxFailovers \in Nat

VARIABLES
  group,      \* the coordinator's Group
  joined,     \* joined[m]: generation m's consumer was told by Join, 0 for none
  view,       \* view[m]: the assignment m's consumer works on, or NoView
  failovers   \* number of failovers so far

vars == <<group, joined, view, failovers>>

NoView == [gen |-> 0, asg |-> NoAssignment]

Members == DOMAIN group.members

Init ==
  /\ group = EmptyGroup
  /\ joined = [m \in Ids |-> 0]
  /\ view = [m \in Ids |-> NoView]
  /\ failovers = 0

-----------------------------------------------------------------------------
(* Calls *)

Join(m, topics, lost) ==
  /\ Joined(group, m, topics).gen <= MaxGeneration
  /\ group' = Joined(group, m, topics)
  /\ joined' = [joined EXCEPT ![m] = IF lost THEN 0 ELSE group'.gen]
  /\ view' = [view EXCEPT ![m] = NoView]
  /\ UNCHANGED failovers

\* Sync, with the generation that Join returned; an error leaves all as it is.
Sync(m, lost) ==
  /\ CanSync(group, m, joined[m])
  /\ group' = Synced(group, m)
  /\ view' = [view EXCEPT ![m] =
                IF lost THEN @
                ELSE [gen |-> group.gen, asg |-> group.members[m].asg]]
  /\ UNCHANGED <<joined, failovers>>

Accepts(m) == CanBeat(group, m, joined[m])

Heartbeat(m) ==
  /\ Accepts(m)
  /\ group' = Beaten(group, m)
  /\ UNCHANGED <<joined, view, failovers>>

\* A heartbeat that fails: the consumer stops working and will join again.
HeartbeatFails(m) ==
  /\ ~Accepts(m) /\ view[m] # NoView
  /\ view' = [view EXCEPT ![m] = NoView]
  /\ UNCHANGED <<group, joined, failovers>>

\* A consumer that leaves has stopped working.
Leave(m) ==
  /\ group.gen > 0
  /\ group.gen < MaxGeneration
  /\ group' = Left(group, m)
  /\ view' = [view EXCEPT ![m] = NoView]
  /\ UNCHANGED <<joined, failovers>>

\* Expire, from the broker's tick.
Expire ==
  /\ group' = AfterExpire(group)
  /\ UNCHANGED <<joined, view, failovers>>

\* No session ends in the last generation of the bound.
TimePasses ==
  /\ \E m \in Members : group.members[m].age < MaxAge
  /\ group.gen = MaxGeneration => \A m \in Members : group.members[m].age < Session
  /\ group' = Aged(group)
  /\ UNCHANGED <<joined, view, failovers>>

\* Another broker becomes controller, or this one restarts: group membership
\* is kept in memory only.
Failover ==
  /\ failovers < MaxFailovers
  /\ failovers' = failovers + 1
  /\ group' = EmptyGroup
  /\ UNCHANGED <<joined, view>>

Next ==
  \/ \E m \in Ids, lost \in BOOLEAN :
       Sync(m, lost) \/ \E ts \in Subscriptions : Join(m, ts, lost)
  \/ \E m \in Ids : Heartbeat(m) \/ HeartbeatFails(m) \/ Leave(m)
  \/ Expire \/ TimePasses \/ Failover

Spec == Init /\ [][Next]_vars

\* The broker's ticker runs Expire again and again, and clocks advance;
\* consumers may stop calling at any time.
FairSpec == Spec /\ WF_vars(Expire) /\ WF_vars(TimePasses)

-----------------------------------------------------------------------------
(* Properties *)

\* Every variable has its type; a group that is empty has no members, and one
\* that is not has some, of whom one leads once the assignment is made.
TypeOK ==
  /\ group.state \in {"Empty", "PreparingRebalance", "CompletingRebalance", "Stable"}
  /\ group.gen \in 0..MaxGeneration
  /\ Members \subseteq Ids
  /\ \A m \in Members :
       group.members[m] \in [topics : SUBSET Topics, age : 0..MaxAge,
                             joined : BOOLEAN, synced : BOOLEAN,
                             asg : Assignments]
  /\ group.state = "Empty" <=> Members = {}
  /\ IF group.state \in {"CompletingRebalance", "Stable"}
     THEN group.leader \in Members ELSE group.leader = 0
  /\ joined \in [Ids -> 0..MaxGeneration]
  /\ view \in [Ids -> [gen : 0..MaxGeneration, asg : Assignments]]
  /\ failovers \in 0..MaxFailovers

\* Once the assignment is made, and until the next rebalance, every partition
\* of every subscribed topic belongs to exactly one member, whoever joined,
\* left or expired while the rebalance was going on.
Assigned == group.state \in {"CompletingRebalance", "Stable"}

EveryPartitionOwned ==
  Assigned => \A t \in UNION {group.members[m].topics : m \in Members} :
    \A q \in 0..(PartitionCount[t] - 1) :
      Cardinality({m \in Members : q \in group.members[m].asg[t]}) = 1

\* Two consumers whose heartbeats are both accepted never work on the same
\* partition, although generations restart from 0 after a failover and
\* consumers learn of a rebalance only when they call.
ExclusiveViews ==
  \A m, k \in Ids : m # k /\ Accepts(m) /\ Accepts(k) =>
    \A t \in Topics : view[m].asg[t] \cap view[k].asg[t] = {}

\* A generation has one assignment: from when it is made, no member enters,
\* leaves or is given other partitions before the generation changes (a
\* failover, which forgets the group, aside).
AssignmentFixed ==
  [][Assigned /\ group'.gen = group.gen /\ failovers' = failovers =>
       /\ DOMAIN group'.members = Members
       /\ \A m \in Members : group'.members[m].asg = group.members[m].asg]_vars

\* Members that are never heard of again do not hold up a rebalance: Expire
\* ends it, whatever the others do.
RebalanceCompletes ==
  group.state = "PreparingRebalance" ~> group.state # "PreparingRebalance"
=============================================================================

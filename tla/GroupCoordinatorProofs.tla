----------------------- MODULE GroupCoordinatorProofs -----------------------
(***************************************************************************)
(* The group coordinator and its consumers' views, for any consumers,      *)
(* topics, subscriptions and timeouts: every partition has one owner once  *)
(* the assignment is made, an assignment lasts as long as its generation,  *)
(* and consumers whose heartbeats are accepted never share a partition.    *)
(***************************************************************************)
EXTENDS GroupCoordinator, GroupOpsProofs

Generations == 0..MaxGeneration
Views == [gen : Generations, asg : Assignments]

\* The group is as the operations leave it, and in the last generation of the
\* bound no session has ended, so that Expire begins no further one.
GroupOK ==
  /\ group \in Groups /\ Consistent(group)
  /\ group.gen <= MaxGeneration
  /\ group.gen = MaxGeneration => Fresh(group)

Typed ==
  /\ GroupOK
  /\ joined \in [Ids -> Generations]
  /\ view \in [Ids -> Views]
  /\ failovers \in 0..MaxFailovers

\* A view is of the generation its consumer joined in.
ViewOfGeneration == \A m \in Ids : view[m] = NoView \/ view[m].gen = joined[m]

\* A member's view is older than the group's generation, or it is the member's
\* assignment: what makes ExclusiveViews inductive.  Of those who are no members
\* it says nothing, since their views may be of a former coordinator.
ViewCurrent ==
  \A m \in Members :
    \/ view[m] = NoView
    \/ view[m].gen < group.gen
    \/ /\ IsAssigned(group)
       /\ view[m].gen = group.gen /\ view[m].asg = group.members[m].asg

IndInv == Typed /\ ViewOfGeneration /\ ViewCurrent

-----------------------------------------------------------------------------
\* A consumer that works on nothing.
LEMMA NoViewTyped == NoView \in Views /\ NoView.gen = 0 /\ NoView.asg = NoAssignment
<1>1. NoAssignment \in Assignments /\ 0 \in Generations
  BY CoordinatorAssumption DEF NoAssignment, Assignments, Generations
<1> QED BY <1>1 DEF NoView, Views

\* The group's members and their generation.
LEMMA GroupTyped ==
  ASSUME NEW g \in Groups
  PROVE  g.gen \in Nat /\ DOMAIN g.members \subseteq Ids
<1>1. g.members \in MemberMaps /\ g.gen \in Nat
  BY DEF Groups
<1> QED BY <1>1, MemberMap

\* Whatever an operation does to the group, the views of those it leaves as
\* members stay right: a new generation makes them old, and in the same one the
\* assignment has not changed.
LEMMA ViewsKept ==
  ASSUME IndInv, NEW new, Evolved(group, group', new),
         \A k \in Ids : view'[k] = NoView \/ (k \notin new /\ view'[k] = view[k])
  PROVE  ViewCurrent'
<1> SUFFICES ASSUME NEW k \in DOMAIN group'.members, view'[k] # NoView
             PROVE  \/ view'[k].gen < group'.gen
                    \/ /\ IsAssigned(group')
                       /\ view'[k].gen = group'.gen
                       /\ view'[k].asg = group'.members[k].asg
  BY DEF ViewCurrent, Members
<1>1. group \in Groups /\ group' \in Groups
  BY DEF IndInv, Typed, GroupOK, Evolved
<1>2. k \in Ids /\ group.gen \in Nat /\ group'.gen \in Nat
  BY <1>1, GroupTyped
<1>3. view'[k] = view[k] /\ k \in DOMAIN group.members
  BY <1>2 DEF Evolved
<1>4. view[k].gen \in Nat
  BY <1>2, CoordinatorAssumption DEF IndInv, Typed, Views, Generations
<1>5. \/ view[k].gen < group.gen
      \/ /\ IsAssigned(group)
         /\ view[k].gen = group.gen /\ view[k].asg = group.members[k].asg
  BY <1>3 DEF IndInv, ViewCurrent, Members
<1>6. CASE group'.gen = group.gen + 1
  BY <1>2, <1>3, <1>4, <1>5, <1>6
<1>7. CASE group'.gen = group.gen /\ ~IsAssigned(group)
  BY <1>3, <1>5, <1>7
<1>8. CASE /\ group'.gen = group.gen /\ IsAssigned(group) /\ IsAssigned(group')
           /\ \A m \in DOMAIN group'.members : group'.members[m].asg = group.members[m].asg
  BY <1>3, <1>5, <1>8
<1>9. group'.gen = group.gen + 1 \/ group'.gen = group.gen
  BY DEF Evolved
<1> QED BY <1>6, <1>7, <1>8, <1>9 DEF Evolved

-----------------------------------------------------------------------------
\* At first there is no group, and no consumer has joined.
LEMMA InitInv == ASSUME Init PROVE IndInv
<1>1. GroupOK
  BY EmptyGroupFacts, CoordinatorAssumption DEF Init, GroupOK, EmptyGroup
<1>2. Typed
  BY <1>1, NoViewTyped, CoordinatorAssumption DEF Init, Typed, Generations
<1>3. ViewOfGeneration
  BY DEF Init, ViewOfGeneration
<1>4. ViewCurrent
  <2>1. Members \subseteq Ids
    BY <1>1, GroupTyped DEF GroupOK, Members
  <2> QED BY <2>1 DEF Init, ViewCurrent
<1> QED BY <1>2, <1>3, <1>4 DEF IndInv

\* Join: the consumer stops working on its old view.
LEMMA JoinInv ==
  ASSUME IndInv, NEW m \in Ids, NEW ts \in Subscriptions, NEW lost \in BOOLEAN,
         Join(m, ts, lost)
  PROVE  IndInv'
<1>1. group \in Groups /\ Consistent(group) /\ ts \in SUBSET Topics
  BY CoordinatorAssumption DEF IndInv, Typed, GroupOK
<1>2. group' = Joined(group, m, ts) /\ group'.gen <= MaxGeneration
  BY DEF Join
<1>3. Evolved(group, group', {m}) /\ Fresh(group')
  BY <1>1, <1>2, JoinedFacts
<1>4. GroupOK'
  BY <1>2, <1>3 DEF GroupOK, Evolved
<1>5. group'.gen \in Generations /\ 0 \in Generations
  <2>1. group'.gen \in Nat
    BY <1>3, GroupTyped DEF Evolved
  <2> QED BY <1>2, <2>1, CoordinatorAssumption DEF Generations
<1>6. view \in [Ids -> Views] /\ joined \in [Ids -> Generations]
  BY DEF IndInv, Typed
<1>7. /\ joined' = [joined EXCEPT ![m] = IF lost THEN 0 ELSE group'.gen]
      /\ view' = [view EXCEPT ![m] = NoView] /\ failovers' = failovers
  BY DEF Join
<1>8. /\ joined' \in [Ids -> Generations] /\ view' \in [Ids -> Views]
      /\ \A k \in Ids : k # m => joined'[k] = joined[k] /\ view'[k] = view[k]
      /\ view'[m] = NoView
  BY <1>5, <1>6, <1>7, NoViewTyped
<1>9. Typed'
  BY <1>4, <1>7, <1>8 DEF IndInv, Typed
<1>10. ViewOfGeneration'
  BY <1>8 DEF IndInv, ViewOfGeneration
<1>11. ViewCurrent'
  BY <1>3, <1>8, ViewsKept
<1> QED BY <1>9, <1>10, <1>11 DEF IndInv

\* Sync: the consumer takes the assignment of the present generation as its view.
LEMMA SyncInv ==
  ASSUME IndInv, NEW m \in Ids, NEW lost \in BOOLEAN, Sync(m, lost)
  PROVE  IndInv'
<1> DEFINE v == [gen |-> group.gen, asg |-> group.members[m].asg]
<1>1. /\ group \in Groups /\ Consistent(group) /\ m \in DOMAIN group.members
      /\ joined[m] = group.gen /\ group.state # "PreparingRebalance"
      /\ group.gen <= MaxGeneration
  BY DEF IndInv, Typed, GroupOK, Sync, CanSync
<1>2. group' = Synced(group, m)
  BY DEF Sync
<1>3. /\ Evolved(group, group', {}) /\ group'.gen = group.gen
      /\ Fresh(group) => Fresh(group')
  BY <1>1, <1>2, SyncedFacts
<1>4. GroupOK'
  BY <1>1, <1>3 DEF IndInv, Typed, GroupOK, Evolved
<1>5. IsAssigned(group)
  <2>1. group.state \in States /\ group.state # "Empty"
    BY <1>1 DEF Groups, Consistent
  <2> QED BY <1>1, <2>1 DEF States, IsAssigned
<1>6. v \in Views
  <2>1. group.gen \in Generations
    BY <1>1, GroupTyped, CoordinatorAssumption DEF Generations
  <2>2. group.members[m].asg \in Assignments
    BY <1>1, Ages DEF MemberStates
  <2> QED BY <2>1, <2>2 DEF Views
<1>7. /\ view \in [Ids -> Views]
      /\ view' = [view EXCEPT ![m] = IF lost THEN @ ELSE v]
      /\ UNCHANGED <<joined, failovers>>
  BY DEF IndInv, Typed, Sync
<1>8. /\ view' \in [Ids -> Views]
      /\ \A k \in Ids : k # m => view'[k] = view[k]
      /\ view'[m] = IF lost THEN view[m] ELSE v
  BY <1>6, <1>7
<1>9. Typed'
  BY <1>4, <1>7, <1>8 DEF IndInv, Typed
<1>10. v.gen = joined[m] /\ v.gen = group'.gen /\ v.asg = group.members[m].asg
  BY <1>1, <1>3
<1> HIDE DEF v
<1>11. ViewOfGeneration'
  BY <1>7, <1>8, <1>10 DEF IndInv, ViewOfGeneration
<1>12. ViewCurrent'
  <2>1. /\ IsAssigned(group') /\ DOMAIN group'.members = DOMAIN group.members
        /\ \A k \in DOMAIN group'.members : group'.members[k].asg = group.members[k].asg
    <3>1. group.gen \in Nat
      BY <1>1, GroupTyped
    <3> QED BY <3>1, <1>3, <1>5 DEF Evolved
  <2>2. DOMAIN group.members \subseteq Ids
    BY <1>1, GroupTyped
  <2> SUFFICES ASSUME NEW k \in DOMAIN group'.members
               PROVE  \/ view'[k] = NoView
                      \/ view'[k].gen < group'.gen
                      \/ /\ IsAssigned(group')
                         /\ view'[k].gen = group'.gen
                         /\ view'[k].asg = group'.members[k].asg
    BY DEF ViewCurrent, Members
  <2>3. CASE k = m /\ ~lost
    BY <2>1, <2>3, <1>8, <1>10
  <2>4. CASE ~(k = m /\ ~lost)
    <3>1. view'[k] = view[k] /\ k \in DOMAIN group.members
      BY <2>1, <2>2, <2>4, <1>8
    <3>2. \/ view[k] = NoView
          \/ view[k].gen < group.gen
          \/ /\ view[k].gen = group.gen /\ view[k].asg = group.members[k].asg
      BY <3>1 DEF IndInv, ViewCurrent, Members
    <3> QED BY <3>1, <3>2, <2>1, <1>3
  <2> QED BY <2>3, <2>4
<1> QED BY <1>9, <1>11, <1>12 DEF IndInv

\* A step of the group alone, in which no consumer learns anything.
LEMMA GroupStepInv ==
  ASSUME IndInv, GroupOK', Evolved(group, group', {}), UNCHANGED <<joined, view, failovers>>
  PROVE  IndInv'
<1>1. Typed' /\ ViewOfGeneration'
  BY DEF IndInv, Typed, ViewOfGeneration
<1>2. ViewCurrent'
  BY ViewsKept
<1> QED BY <1>1, <1>2 DEF IndInv

\* An accepted heartbeat.
LEMMA HeartbeatInv == ASSUME IndInv, NEW m \in Ids, Heartbeat(m) PROVE IndInv'
<1>1. /\ group \in Groups /\ Consistent(group) /\ m \in DOMAIN group.members
      /\ group' = Beaten(group, m) /\ UNCHANGED <<joined, view, failovers>>
  BY DEF IndInv, Typed, GroupOK, Heartbeat, Accepts, CanBeat
<1>2. /\ Evolved(group, group', {}) /\ group'.gen = group.gen
      /\ Fresh(group) => Fresh(group')
  BY <1>1, BeatenFacts
<1>3. GroupOK'
  BY <1>2 DEF IndInv, Typed, GroupOK, Evolved
<1> QED BY <1>1, <1>2, <1>3, GroupStepInv

\* A consumer that gives up its view.
LEMMA ForgetView ==
  ASSUME IndInv, NEW m \in Ids, view' = [view EXCEPT ![m] = NoView],
         UNCHANGED <<joined, failovers>>,
         GroupOK', Evolved(group, group', {})
  PROVE  IndInv'
<1>1. view \in [Ids -> Views]
  BY DEF IndInv, Typed
<1>2. /\ view' \in [Ids -> Views] /\ view'[m] = NoView
      /\ \A k \in Ids : k # m => view'[k] = view[k]
  BY <1>1, NoViewTyped
<1>3. Typed' /\ ViewOfGeneration'
  BY <1>2 DEF IndInv, Typed, ViewOfGeneration
<1>4. ViewCurrent'
  BY <1>2, ViewsKept
<1> QED BY <1>3, <1>4 DEF IndInv

\* A refused heartbeat.
LEMMA HeartbeatFailsInv == ASSUME IndInv, NEW m \in Ids, HeartbeatFails(m) PROVE IndInv'
<1>1. /\ view' = [view EXCEPT ![m] = NoView] /\ UNCHANGED <<group, joined, failovers>>
  BY DEF HeartbeatFails
<1>2. GroupOK' /\ Evolved(group, group', {})
  BY <1>1 DEF IndInv, Typed, GroupOK, Evolved, Fresh
<1> QED BY <1>1, <1>2, ForgetView

\* Leave.
LEMMA LeaveInv == ASSUME IndInv, NEW m \in Ids, Leave(m) PROVE IndInv'
<1>1. /\ group \in Groups /\ group.gen < MaxGeneration /\ group' = Left(group, m)
      /\ view' = [view EXCEPT ![m] = NoView] /\ UNCHANGED <<joined, failovers>>
  BY DEF IndInv, Typed, GroupOK, Leave
<1>2. Evolved(group, group', {}) /\ Fresh(group') /\ group'.gen = group.gen + 1
  BY <1>1, LeftFacts
<1>3. group.gen \in Nat
  BY <1>1, GroupTyped
<1>4. GroupOK'
  BY <1>1, <1>2, <1>3, CoordinatorAssumption DEF GroupOK, Evolved
<1> QED BY <1>1, <1>2, <1>4, ForgetView

\* Expire begins no generation past the bound.
LEMMA ExpireInv == ASSUME IndInv, Expire PROVE IndInv'
<1>1. /\ group \in Groups /\ Consistent(group) /\ group' = AfterExpire(group)
      /\ UNCHANGED <<joined, view, failovers>>
      /\ group.gen <= MaxGeneration /\ (group.gen = MaxGeneration => Fresh(group))
  BY DEF IndInv, Typed, GroupOK, Expire
<1>2. /\ Evolved(group, group', {}) /\ Fresh(group')
      /\ Fresh(group) => group'.gen = group.gen
  BY <1>1, ExpireFacts
<1>3. group.gen \in Nat
  BY <1>1, GroupTyped
<1>4. group'.gen <= MaxGeneration
  BY <1>1, <1>2, <1>3, CoordinatorAssumption DEF Evolved
<1>5. GroupOK'
  BY <1>2, <1>4 DEF GroupOK, Evolved
<1> QED BY <1>1, <1>2, <1>5, GroupStepInv

\* Time passes.
LEMMA TimePassesInv == ASSUME IndInv, TimePasses PROVE IndInv'
<1>1. /\ group \in Groups /\ Consistent(group) /\ group' = Aged(group)
      /\ UNCHANGED <<joined, view, failovers>> /\ group.gen <= MaxGeneration
      /\ group.gen = MaxGeneration =>
           \A m \in DOMAIN group.members : group.members[m].age < Session
  BY DEF IndInv, Typed, GroupOK, TimePasses, Members
<1>2. /\ Evolved(group, group', {}) /\ group'.gen = group.gen
      /\ (\A m \in DOMAIN group.members : group.members[m].age < Session) => Fresh(group')
  BY <1>1, AgedFacts
<1>3. GroupOK'
  BY <1>1, <1>2 DEF GroupOK, Evolved
<1> QED BY <1>1, <1>2, <1>3, GroupStepInv

\* A failover: the new coordinator has no members.
LEMMA FailoverInv == ASSUME IndInv, Failover PROVE IndInv'
<1>1. /\ group' = EmptyGroup /\ UNCHANGED <<joined, view>>
      /\ failovers' = failovers + 1 /\ failovers < MaxFailovers
  BY DEF Failover
<1>2. GroupOK'
  BY <1>1, EmptyGroupFacts, CoordinatorAssumption DEF GroupOK, EmptyGroup
<1>3. Typed' /\ ViewOfGeneration'
  BY <1>1, <1>2, CoordinatorAssumption DEF IndInv, Typed, ViewOfGeneration
<1>4. DOMAIN group'.members = {}
  BY <1>1 DEF EmptyGroup
<1>5. ViewCurrent'
  BY <1>4 DEF ViewCurrent, Members
<1> QED BY <1>3, <1>5 DEF IndInv

-----------------------------------------------------------------------------
\* The invariant holds in every reachable state.
LEMMA Inductive == Spec => []IndInv
<1>1. Init => IndInv
  BY InitInv
<1>2. IndInv /\ [Next]_vars => IndInv'
  <2> SUFFICES ASSUME IndInv, [Next]_vars PROVE IndInv'
    OBVIOUS
  <2>1. ASSUME NEW m \in Ids, NEW lost \in BOOLEAN, Sync(m, lost) PROVE IndInv'
    BY <2>1, SyncInv
  <2>2. ASSUME NEW m \in Ids, NEW lost \in BOOLEAN, NEW ts \in Subscriptions,
               Join(m, ts, lost)
        PROVE  IndInv'
    BY <2>2, JoinInv
  <2>3. ASSUME NEW m \in Ids, Heartbeat(m) \/ HeartbeatFails(m) \/ Leave(m)
        PROVE  IndInv'
    BY <2>3, HeartbeatInv, HeartbeatFailsInv, LeaveInv
  <2>4. CASE Expire \/ TimePasses \/ Failover
    BY <2>4, ExpireInv, TimePassesInv, FailoverInv
  <2>5. CASE UNCHANGED vars
    BY <2>5 DEF vars, IndInv, Typed, GroupOK, Fresh, Members, ViewOfGeneration, ViewCurrent
  <2> QED BY <2>1, <2>2, <2>3, <2>4, <2>5 DEF Next
<1> QED BY <1>1, <1>2, PTL DEF Spec

\* Every variable keeps its type, an empty group is in state Empty and no other
\* is, and there is a leader exactly while there is an assignment.
THEOREM CoordinatorTypes == Spec => []TypeOK
<1>1. ASSUME IndInv PROVE TypeOK
  <2>1. group \in Groups /\ Consistent(group) /\ group.gen <= MaxGeneration
    BY <1>1 DEF IndInv, Typed, GroupOK
  <2>2. group.gen \in 0..MaxGeneration /\ Members \subseteq Ids
    BY <2>1, GroupTyped, CoordinatorAssumption DEF Members
  <2>3. \A m \in Members : group.members[m] \in MemberStates
    BY <2>1, Ages DEF Members
  <2>4. /\ group.state = "Empty" <=> Members = {}
        /\ IF group.state \in {"CompletingRebalance", "Stable"}
           THEN group.leader \in Members ELSE group.leader = 0
    BY <2>1 DEF Consistent, IsAssigned, Members
  <2>5. group.state \in States
    BY <2>1 DEF Groups
  <2>6. joined \in [Ids -> 0..MaxGeneration]
        /\ view \in [Ids -> [gen : 0..MaxGeneration, asg : Assignments]]
        /\ failovers \in 0..MaxFailovers
    BY <1>1 DEF IndInv, Typed, Views, Generations
  <2> QED BY <2>2, <2>3, <2>4, <2>5, <2>6 DEF TypeOK, States, MemberStates
<1>2. IndInv => TypeOK
  BY <1>1
<1> QED BY <1>2, Inductive, PTL

\* finishAssignmentLocked, and everything that happens until the next rebalance,
\* leaves every partition of a subscribed topic with exactly one member.
THEOREM PartitionsOwned == Spec => []EveryPartitionOwned
<1>1. ASSUME IndInv PROVE EveryPartitionOwned
  <2>1. group \in Groups /\ Consistent(group)
    BY <1>1 DEF IndInv, Typed, GroupOK
  <2>2. ASSUME Assigned,
               NEW t \in UNION {group.members[m].topics : m \in Members},
               NEW q \in 0..(PartitionCount[t] - 1)
        PROVE  Cardinality({m \in Members : q \in group.members[m].asg[t]}) = 1
    <3>1. IsAssigned(group) /\ t \in Subscribed(group)
      BY <2>2 DEF Assigned, IsAssigned, Subscribed, Members
    <3> QED BY <2>1, <3>1, OneOwnerEach DEF Members
  <2> QED BY <2>2 DEF EveryPartitionOwned
<1>2. IndInv => EveryPartitionOwned
  BY <1>1
<1> QED BY <1>2, Inductive, PTL

\* Consumers whose heartbeats the coordinator accepts work on disjoint sets of
\* partitions, lost responses, forgotten members and failovers included.
THEOREM ViewsExclusive == Spec => []ExclusiveViews
<1>1. ASSUME IndInv PROVE ExclusiveViews
  <2>1. group \in Groups /\ Consistent(group) /\ Members \subseteq Ids
    BY <1>1, GroupTyped DEF IndInv, Typed, GroupOK, Members
  <2>2. ASSUME NEW m \in Ids, Accepts(m)
        PROVE  /\ m \in Members /\ IsAssigned(group)
               /\ view[m] = NoView
                  \/ view[m].asg = RangeAssign(m, Members, Subscribed(group))
    <3>1. m \in Members /\ joined[m] = group.gen /\ IsAssigned(group)
      BY <2>2 DEF Accepts, CanBeat, Members, IsAssigned
    <3>2. view[m] = NoView \/ view[m].gen = group.gen
      BY <1>1, <3>1 DEF IndInv, ViewOfGeneration
    <3>3. group.gen \in Nat
      BY <2>1, GroupTyped
    <3>4. view[m] = NoView \/ view[m].asg = group.members[m].asg
      BY <1>1, <3>1, <3>2, <3>3 DEF IndInv, ViewCurrent
    <3>5. group.members[m].asg = RangeAssign(m, Members, Subscribed(group))
      BY <2>1, <3>1 DEF Consistent, Members
    <3> QED BY <3>1, <3>4, <3>5
  <2>3. ASSUME NEW m \in Ids, NEW k \in Ids, m # k, Accepts(m), Accepts(k),
               NEW t \in Topics
        PROVE  view[m].asg[t] \cap view[k].asg[t] = {}
    <3>1. NoView.asg[t] = {}
      BY NoViewTyped DEF NoAssignment
    <3>2. CASE view[m] = NoView \/ view[k] = NoView
      BY <3>1, <3>2
    <3>3. CASE view[m] # NoView /\ view[k] # NoView
      <4>1. /\ view[m].asg = RangeAssign(m, Members, Subscribed(group))
            /\ view[k].asg = RangeAssign(k, Members, Subscribed(group))
            /\ m \in Members /\ k \in Members
        BY <2>2, <2>3, <3>3
      <4> QED BY <2>1, <2>3, <4>1, AssignDisjoint
    <3> QED BY <3>2, <3>3
  <2> QED BY <2>3 DEF ExclusiveViews
<1>2. IndInv => ExclusiveViews
  BY <1>1
<1> QED BY <1>2, Inductive, PTL

\* No operation changes an assignment without beginning a new generation.
THEOREM AssignmentsFixed == Spec => AssignmentFixed
<1>1. ASSUME IndInv, Next, Assigned, group'.gen = group.gen, failovers' = failovers
      PROVE  /\ DOMAIN group'.members = Members
             /\ \A m \in Members : group'.members[m].asg = group.members[m].asg
  <2>1. group \in Groups /\ Consistent(group) /\ IsAssigned(group)
    BY <1>1 DEF IndInv, Typed, GroupOK, Assigned, IsAssigned
  <2>2. failovers \in Nat /\ group.gen \in Nat
    BY <1>1, <2>1, GroupTyped, CoordinatorAssumption DEF IndInv, Typed
  <2>3. CASE UNCHANGED group
    BY <2>3 DEF Members
  <2>4. ASSUME NEW new, Evolved(group, group', new)
        PROVE  /\ DOMAIN group'.members = Members
               /\ \A m \in Members : group'.members[m].asg = group.members[m].asg
    BY <1>1, <2>1, <2>2, <2>4 DEF Evolved, Members
  <2>5. ASSUME NEW m \in Ids, NEW lost \in BOOLEAN, NEW ts \in Subscriptions,
               Join(m, ts, lost)
        PROVE  Evolved(group, group', {m})
    <3>1. ts \in SUBSET Topics /\ group' = Joined(group, m, ts)
      BY <2>5, CoordinatorAssumption DEF Join
    <3> QED BY <2>1, <3>1, JoinedFacts
  <2>6. ASSUME NEW m \in Ids, NEW lost \in BOOLEAN, Sync(m, lost)
        PROVE  Evolved(group, group', {})
    <3>1. m \in DOMAIN group.members /\ group' = Synced(group, m)
      BY <2>6 DEF Sync, CanSync
    <3> QED BY <2>1, <3>1, SyncedFacts
  <2>7. ASSUME NEW m \in Ids, Heartbeat(m)
        PROVE  Evolved(group, group', {})
    <3>1. m \in DOMAIN group.members /\ group' = Beaten(group, m)
      BY <2>7 DEF Heartbeat, Accepts, CanBeat
    <3> QED BY <2>1, <3>1, BeatenFacts
  <2>8. ASSUME NEW m \in Ids, Leave(m)
        PROVE  Evolved(group, group', {})
    <3>1. group' = Left(group, m)
      BY <2>8 DEF Leave
    <3> QED BY <2>1, <3>1, LeftFacts
  <2>9. CASE Expire
    <3>1. group' = AfterExpire(group)
      BY <2>9 DEF Expire
    <3>2. Evolved(group, group', {})
      BY <2>1, <3>1, ExpireFacts
    <3> QED BY <2>4, <3>2
  <2>10. CASE TimePasses
    <3>1. group' = Aged(group)
      BY <2>10 DEF TimePasses
    <3>2. Evolved(group, group', {})
      BY <2>1, <3>1, AgedFacts
    <3> QED BY <2>4, <3>2
  <2>11. ASSUME NEW m \in Ids, HeartbeatFails(m) PROVE UNCHANGED group
    BY <2>11 DEF HeartbeatFails
  <2>12. ~Failover
    BY <1>1, <2>2 DEF Failover
  <2>13. CASE Expire \/ TimePasses
    BY <2>9, <2>10, <2>13
  <2>14. CASE \E m \in Ids, lost \in BOOLEAN :
                Sync(m, lost) \/ \E ts \in Subscriptions : Join(m, ts, lost)
    BY <2>4, <2>5, <2>6, <2>14
  <2>15. CASE \E m \in Ids : Heartbeat(m) \/ HeartbeatFails(m) \/ Leave(m)
    BY <2>3, <2>4, <2>7, <2>8, <2>11, <2>15
  <2> QED BY <1>1, <2>12, <2>13, <2>14, <2>15 DEF Next
<1>2. ASSUME IndInv, [Next]_vars
      PROVE  [Assigned /\ group'.gen = group.gen /\ failovers' = failovers =>
                /\ DOMAIN group'.members = Members
                /\ \A m \in Members : group'.members[m].asg = group.members[m].asg]_vars
  BY <1>1, <1>2
<1>3. IndInv /\ [Next]_vars =>
        [Assigned /\ group'.gen = group.gen /\ failovers' = failovers =>
           /\ DOMAIN group'.members = Members
           /\ \A m \in Members : group'.members[m].asg = group.members[m].asg]_vars
  BY <1>2
<1> QED BY <1>3, Inductive, PTL DEF Spec, AssignmentFixed
=============================================================================

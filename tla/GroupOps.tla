------------------------------ MODULE GroupOps ------------------------------
(***************************************************************************)
(* What the group coordinator (internal/group) does to one Group, as       *)
(* operators: the group after a Join, a Sync, a Leave or an Expire.  The   *)
(* coordinator holds a mutex through every call, so the modules that model *)
(* calls apply one of these in one step.                                   *)
(*                                                                         *)
(* Time is discrete: a member keeps the age of its last heartbeat.  Member *)
(* ids are numbers, ordered as the code orders its random id strings.      *)
(***************************************************************************)
EXTENDS RangeAssignor, FiniteSets, Functions

CONSTANTS
  Ids,             \* member ids
  Topics,          \* topics
  PartitionCount,  \* PartitionCount[t]: partitions of t, 0 if it is unknown
  Session,         \* sessionTimeout
  RebalanceWait    \* rebalanceWait

ASSUME GroupAssumption ==
  /\ Ids \subseteq Nat \ {0} /\ IsFiniteSet(Ids)
  /\ PartitionCount \in [Topics -> Nat]
  /\ Session \in Nat /\ RebalanceWait \in Nat

Assignments == [Topics -> SUBSET Nat]
NoAssignment == [t \in Topics |-> {}]

\* Ages stop counting where no timeout tells them apart.
MaxAge == (IF Session > RebalanceWait THEN Session ELSE RebalanceWait) + 1

EmptyGroup == [state |-> "Empty", gen |-> 0, members |-> <<>>, leader |-> 0]

-----------------------------------------------------------------------------
(* The coordinator's internal steps *)

\* Mutants: the old leader stays; the generation stays.
BeginKeepsLeader(g) ==
  [g EXCEPT !.state = "PreparingRebalance", !.gen = @ + 1,
            !.members = [m \in DOMAIN @ |->
                           [@[m] EXCEPT !.joined = FALSE, !.synced = FALSE,
                                        !.asg = NoAssignment]]]

BeginSameGeneration(g) ==
  [BeginKeepsLeader(g) EXCEPT !.leader = 0, !.gen = g.gen]

\* beginRebalanceLocked
BeginRebalance(g) ==
  [state   |-> "PreparingRebalance",
   gen     |-> g.gen + 1,
   leader  |-> 0,
   members |-> [m \in DOMAIN g.members |->
                  [g.members[m] EXCEPT !.joined = FALSE, !.synced = FALSE,
                                       !.asg = NoAssignment]]]

\* finishAssignmentLocked: the members, in order, share the partitions of every
\* topic that some member subscribed to.
Rank(m, ids) == Cardinality({k \in ids : k < m})

RangeAssign(m, ids, subs) ==
  [t \in Topics |-> IF t \in subs
                    THEN Share(Rank(m, ids), Cardinality(ids), PartitionCount[t])
                    ELSE {}]

FinishAssignment(g) ==
  LET ids  == DOMAIN g.members
      subs == UNION {g.members[m].topics : m \in ids}
  IN  IF ids = {}
      THEN [g EXCEPT !.state = "Empty", !.leader = 0]
      ELSE [g EXCEPT
              !.state   = "CompletingRebalance",
              !.leader  = CHOOSE m \in ids : \A k \in ids : m <= k,
              !.members = [m \in ids |->
                             [g.members[m] EXCEPT
                                !.synced = FALSE,
                                !.asg = RangeAssign(m, ids, subs)]]]

\* The members whose session ended, and those a rebalance waits for no longer.
SessionOver(g) == {m \in DOMAIN g.members : g.members[m].age > Session}

Absent(g) ==
  {m \in DOMAIN g.members :
     ~g.members[m].joined /\ g.members[m].age > RebalanceWait}

\* delete(g.members, m) for every m in dropped.
Without(g, dropped) ==
  [g EXCEPT !.members = Restrict(g.members, DOMAIN g.members \ dropped)]

\* maybeCompleteJoinLocked
MaybeCompleteJoin(g) ==
  LET g1 == Without(g, SessionOver(g))
  IN  IF \E m \in DOMAIN g1.members : ~g1.members[m].joined
      THEN g1 ELSE FinishAssignment(g1)

-----------------------------------------------------------------------------
(* The group after an operation *)

\* Join, of a known member or a new one.
Joined(g, m, topics) ==
  LET known == m \in DOMAIN g.members
      g1 == [g EXCEPT !.members =
               [k \in DOMAIN g.members \cup {m} |->
                  IF k # m THEN g.members[k]
                  ELSE [topics |-> topics, age |-> 0, synced |-> FALSE,
                        joined |-> known /\ g.members[m].joined,
                        asg    |-> IF known THEN g.members[m].asg
                                   ELSE NoAssignment]]]
      g2 == IF g1.state # "PreparingRebalance" THEN BeginRebalance(g1) ELSE g1
  IN  MaybeCompleteJoin([g2 EXCEPT !.members[m].joined = TRUE])

\* Sync returns no error.
CanSync(g, m, gen) ==
  m \in DOMAIN g.members /\ gen = g.gen /\ g.state # "PreparingRebalance"

Synced(g, m) ==
  LET ms  == [g.members EXCEPT ![m].age = 0, ![m].synced = TRUE]
      all == \A k \in DOMAIN ms : ms[k].synced
  IN  [g EXCEPT !.members = ms,
                !.state = IF @ = "CompletingRebalance" /\ all
                          THEN "Stable" ELSE @]

\* Heartbeat returns no error.
CanBeat(g, m, gen) ==
  m \in DOMAIN g.members /\ gen = g.gen /\ g.state = "Stable"

Beaten(g, m) == [g EXCEPT !.members[m].age = 0]

\* Mutant: leaving does not rebalance.
LeftQuietly(g, m) == Without(g, {m})

\* Leave, which rebalances whether or not m is a member.
Left(g, m) == MaybeCompleteJoin(BeginRebalance(Without(g, {m})))

\* Mutant: dropping a member does not rebalance.
ExpiredQuietly(g) == Without(g, SessionOver(g))

\* Mutant: a rebalance that has lost all its members is left as it is.
CompletedUnlessEmpty(g) ==
  IF DOMAIN g.members = {} \/ g.state # "PreparingRebalance" THEN g
  ELSE FinishAssignment(Without(g, Absent(g)))

\* Expire, from the broker's tick: drop members whose session ended, then end
\* a rebalance everyone joined or that has waited long enough.
Expired(g) ==
  IF SessionOver(g) = {} THEN g
  ELSE BeginRebalance(Without(g, SessionOver(g)))

Completed(g) ==
  LET ms == g.members
      all == \A m \in DOMAIN ms : ms[m].joined
      waited == \E m \in DOMAIN ms : ms[m].age > RebalanceWait
  IN  IF g.state = "PreparingRebalance" /\ (all \/ waited)
      THEN FinishAssignment(Without(g, Absent(g)))
      ELSE g

AfterExpire(g) == Completed(Expired(g))

\* A unit of time passes.
Aged(g) ==
  LET older == [m \in DOMAIN g.members |->
                  [g.members[m] EXCEPT !.age = IF @ < MaxAge THEN @ + 1 ELSE @]]
  IN  [g EXCEPT !.members = older]
=============================================================================

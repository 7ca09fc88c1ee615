-------------------------- MODULE GroupOpsProofs ---------------------------
(***************************************************************************)
(* What the coordinator's operations on a Group preserve, for any set of   *)
(* members and topics and any timeouts: the group stays well formed, and   *)
(* once the assignment is made it is the one of the range assignor, so     *)
(* that every partition has one owner.                                     *)
(***************************************************************************)
EXTENDS GroupOps, WellFoundedInduction, FiniteSetTheorems, TLAPS

(* The slices of the range assignor follow each other, so that every partition *)
(* lies in exactly one of them, for every number of members and partitions.    *)

Less == {ss \in Nat \X Nat : ss[1] < ss[2]}

\* A non-empty set of naturals has a least element.
LEMMA LeastNat ==
  ASSUME NEW T, T \subseteq Nat, T # {}
  PROVE  \E x \in T : \A y \in T : x <= y
<1>1. IsWellFoundedOn(Less, Nat)
  BY NatLessThanWellFounded, Zenon DEF OpToRel, Less
<1>2. PICK x \in T : \A y \in T : ~(<<y, x>> \in Less)
  BY <1>1, WFMin, Zenon
<1>3. \A u \in Nat, v \in Nat : u < v => <<u, v>> \in Less
  BY DEF Less
<1>4. \A y \in T : x <= y
  <2>1. TAKE y \in T
  <2>2. x \in Nat /\ y \in Nat
    OBVIOUS
  <2>3. ~(y < x)
    BY <1>2, <1>3, <2>2, Zenon
  <2> QED BY <2>2, <2>3
<1> QED BY <1>4

\* Division with remainder, as the loop uses it.
LEMMA DivMod ==
  ASSUME NEW a \in Nat, NEW b \in Nat, b > 0
  PROVE  /\ a \div b \in Nat
         /\ a % b \in 0..(b - 1)
         /\ b * (a \div b) + (a % b) = a
  OBVIOUS

\* Multiplication is monotone and distributes over the loop's increment.
LEMMA Multiply ==
  ASSUME NEW d \in Nat, NEW k \in Nat, NEW m \in Nat, k <= m
  PROVE  /\ k * d \in Nat /\ k * d <= m * d
         /\ (k + 1) * d = k * d + d
  OBVIOUS

\* The slices follow each other, and the last one ends at the last partition.
LEMMA StartNext ==
  ASSUME NEW a \in Nat, NEW b \in Nat, b > 0, NEW k \in Nat, k < b
  PROVE  /\ Start(k, b, a) \in Nat /\ Count(k, b, a) \in Nat
         /\ Start(k + 1, b, a) = Start(k, b, a) + Count(k, b, a)
         /\ Start(k + 1, b, a) <= a
         /\ Start(b, b, a) = a
         /\ Start(0, b, a) = 0
<1> DEFINE d == a \div b
           e == a % b
<1>1. d \in Nat /\ e \in 0..(b - 1) /\ b * d + e = a
  BY DivMod
<1>2. k * d \in Nat /\ (k + 1) * d = k * d + d /\ 0 * d = 0
  BY <1>1, Multiply
<1>3. (k + 1) * d \in Nat /\ (k + 1) * d <= b * d
  BY <1>1, Multiply
<1> HIDE DEF d, e
<1>4. Start(k, b, a) = k * d + (IF k < e THEN k ELSE e)
      /\ Start(k + 1, b, a) = (k + 1) * d + (IF k + 1 < e THEN k + 1 ELSE e)
      /\ Start(b, b, a) = b * d + (IF b < e THEN b ELSE e)
      /\ Start(0, b, a) = 0 * d + (IF 0 < e THEN 0 ELSE e)
      /\ Count(k, b, a) = d + (IF k < e THEN 1 ELSE 0)
  BY DEF Start, Count, d, e
<1>5. QED
  BY <1>1, <1>2, <1>3, <1>4

\* A later member's slice starts no earlier.
LEMMA StartMonotone ==
  ASSUME NEW a \in Nat, NEW b \in Nat, b > 0, NEW k \in Nat, NEW m \in Nat, k <= m
  PROVE  Start(k, b, a) \in Nat /\ Start(k, b, a) <= Start(m, b, a)
<1> DEFINE d == a \div b
           e == a % b
<1>1. d \in Nat /\ e \in Nat
  BY DivMod
<1>2. k * d \in Nat /\ m * d \in Nat /\ k * d <= m * d
  BY <1>1, Multiply
<1> HIDE DEF d, e
<1>3. /\ Start(k, b, a) = k * d + (IF k < e THEN k ELSE e)
      /\ Start(m, b, a) = m * d + (IF m < e THEN m ELSE e)
  BY DEF Start, d, e
<1> QED BY <1>1, <1>2, <1>3

\* A slice consists of the partitions between its start and the next one's.
LEMMA ShareBetween ==
  ASSUME NEW a \in Nat, NEW b \in Nat, b > 0, NEW k \in Nat, k < b
  PROVE  /\ Share(k, b, a) \subseteq 0..(a - 1)
         /\ \A q \in Nat : q \in Share(k, b, a)
                             <=> Start(k, b, a) <= q /\ q < Start(k + 1, b, a)
<1>1. /\ Start(k, b, a) \in Nat /\ Count(k, b, a) \in Nat
      /\ Start(k + 1, b, a) = Start(k, b, a) + Count(k, b, a)
      /\ Start(k + 1, b, a) <= a
  BY StartNext
<1> QED BY <1>1 DEF Share

\* No partition is in the slices of two members.
LEMMA SharesDisjoint ==
  ASSUME NEW a \in Nat, NEW b \in Nat, b > 0,
         NEW k \in Nat, k < b, NEW m \in Nat, m < b, k # m
  PROVE  Share(k, b, a) \cap Share(m, b, a) = {}
<1>1. ASSUME NEW x \in Nat, NEW y \in Nat, x < y, y < b
      PROVE  Share(x, b, a) \cap Share(y, b, a) = {}
  <2>1. x + 1 \in Nat /\ x + 1 <= y /\ x < b
    BY <1>1
  <2>2. Start(x + 1, b, a) \in Nat /\ Start(x + 1, b, a) <= Start(y, b, a)
        /\ Start(y, b, a) \in Nat
    BY <1>1, <2>1, StartMonotone
  <2>3. Share(x, b, a) \subseteq Nat
        /\ \A q \in Nat : q \in Share(x, b, a) => q < Start(x + 1, b, a)
    BY <1>1, <2>1, ShareBetween
  <2>4. \A q \in Nat : q \in Share(y, b, a) => Start(y, b, a) <= q
    BY <1>1, ShareBetween
  <2> QED BY <2>2, <2>3, <2>4
<1>2. CASE k < m
  BY <1>1, <1>2
<1>3. CASE m < k
  BY <1>1, <1>3
<1> QED BY <1>2, <1>3

\* Every partition is in the slice of some member.
LEMMA SharesCover ==
  ASSUME NEW a \in Nat, NEW b \in Nat, b > 0, NEW q \in 0..(a - 1)
  PROVE  \E k \in 0..(b - 1) : q \in Share(k, b, a)
<1> DEFINE T == {k \in 0..b : q < Start(k, b, a)}
<1>1. Start(b, b, a) = a /\ Start(0, b, a) = 0
  BY StartNext
<1>2. b \in T /\ 0 \notin T
  BY <1>1
<1>3. PICK k \in T : \A j \in T : k <= j
  <2>1. T \subseteq Nat /\ T # {}
    BY <1>2
  <2> QED BY <2>1, LeastNat
<1>4. k \in 1..b /\ q < Start(k, b, a)
  BY <1>2, <1>3
<1>5. k - 1 \in 0..(b - 1) /\ k - 1 \notin T
  BY <1>3, <1>4
<1>6. Start(k - 1, b, a) \in Nat /\ ~(q < Start(k - 1, b, a))
  <2>1. k - 1 \in Nat /\ k - 1 <= k - 1 /\ k - 1 \in 0..b
    BY <1>4
  <2> QED BY <1>5, <2>1, StartMonotone
<1>7. q \in Share(k - 1, b, a)
  <2>1. k - 1 \in Nat /\ k - 1 < b /\ (k - 1) + 1 = k
    BY <1>4
  <2> QED BY <2>1, <1>4, <1>6, ShareBetween
<1> QED BY <1>5, <1>7

-----------------------------------------------------------------------------
(* Groups *)

States == {"Empty", "PreparingRebalance", "CompletingRebalance", "Stable"}

MemberStates ==
  [topics : SUBSET Topics, age : 0..MaxAge, joined : BOOLEAN, synced : BOOLEAN,
   asg : Assignments]

MemberMaps == UNION {[D -> MemberStates] : D \in SUBSET Ids}

Groups == [state : States, gen : Nat, leader : Nat, members : MemberMaps]

\* The assignment is made and no rebalance has begun since.
IsAssigned(g) == g.state \in {"CompletingRebalance", "Stable"}

Subscribed(g) == UNION {g.members[m].topics : m \in DOMAIN g.members}

\* A group as every operation leaves it.
Consistent(g) ==
  /\ g.state = "Empty" <=> DOMAIN g.members = {}
  /\ IF IsAssigned(g) THEN g.leader \in DOMAIN g.members ELSE g.leader = 0
  /\ IsAssigned(g) => \A m \in DOMAIN g.members :
       g.members[m].asg = RangeAssign(m, DOMAIN g.members, Subscribed(g))

\* No member's session is over.
Fresh(g) == \A m \in DOMAIN g.members : g.members[m].age <= Session

\* What an operation may do to the group: begin a new generation, or keep the
\* assignment if there is one.
Evolved(g, h, new) ==
  /\ h \in Groups /\ Consistent(h)
  /\ DOMAIN h.members \subseteq DOMAIN g.members \cup new
  /\ \/ h.gen = g.gen + 1
     \/ /\ h.gen = g.gen
        /\ IsAssigned(g) =>
             /\ IsAssigned(h) /\ DOMAIN h.members = DOMAIN g.members
             /\ \A m \in DOMAIN h.members : h.members[m].asg = g.members[m].asg

-----------------------------------------------------------------------------
(* The order of the members *)

\* The rank of a member is its position among the members in sorted order.
LEMMA RankBelow ==
  ASSUME NEW D, D \subseteq Ids, NEW m \in D
  PROVE  /\ IsFiniteSet(D) /\ Cardinality(D) \in Nat /\ Cardinality(D) > 0
         /\ Rank(m, D) \in Nat /\ Rank(m, D) < Cardinality(D)
<1>1. IsFiniteSet(D)
  BY GroupAssumption, FS_Subset
<1>2. Cardinality(D) \in Nat /\ IsFiniteSet(D \ {m})
      /\ Cardinality(D \ {m}) = Cardinality(D) - 1 /\ Cardinality(D \ {m}) \in Nat
  BY <1>1, FS_CardinalityType, FS_RemoveElement
<1> DEFINE B == {k \in D : k < m}
<1>3. B \subseteq D \ {m}
  BY GroupAssumption
<1>4. IsFiniteSet(B) /\ Cardinality(B) <= Cardinality(D \ {m})
  BY <1>2, <1>3, FS_Subset
<1>5. Cardinality(B) \in Nat
  BY <1>4, FS_CardinalityType
<1> QED BY <1>1, <1>2, <1>4, <1>5 DEF Rank

\* Two members have different ranks.
LEMMA RankInjective ==
  ASSUME NEW D, D \subseteq Ids, NEW m \in D, NEW k \in D, m # k
  PROVE  Rank(m, D) # Rank(k, D)
<1>1. ASSUME NEW x \in D, NEW y \in D, x < y PROVE Rank(x, D) # Rank(y, D)
  <2> DEFINE X == {j \in D : j < x}
             Y == {j \in D : j < y}
  <2>1. D \subseteq Nat
    BY GroupAssumption
  <2>2. X \subseteq Y /\ x \in Y /\ x \notin X
    <3>1. \A u, v, w \in Nat : u < v /\ v < w => u < w
      OBVIOUS
    <3>2. x \in Nat /\ y \in Nat /\ \A j \in D : j \in Nat
      BY <2>1
    <3>3. \A j \in D : j < x => j < y
      BY <1>1, <3>1, <3>2
    <3>4. X \subseteq Y
      BY <3>3
    <3>5. x \in Y
      BY <1>1
    <3>6. x \notin X
      BY <3>2
    <3> QED BY <3>4, <3>5, <3>6
  <2>3. IsFiniteSet(Y)
    BY GroupAssumption, FS_Subset
  <2>4. X # Y
    BY <2>2
  <2>5. Cardinality(X) # Cardinality(Y)
    BY <2>2, <2>3, <2>4, FS_Subset
  <2> QED BY <2>5 DEF Rank
<1>2. m \in Nat /\ k \in Nat
  BY GroupAssumption
<1>3. m < k \/ k < m
  BY <1>2
<1> QED BY <1>1, <1>3

\* Every position is the rank of some member.
LEMMA RankSurjective ==
  ASSUME NEW D, D \subseteq Ids, D # {}, NEW i \in 0..(Cardinality(D) - 1)
  PROVE  \E m \in D : Rank(m, D) = i
<1>1. PICK d \in D : TRUE
  OBVIOUS
<1>2. IsFiniteSet(D) /\ Cardinality(D) \in Nat /\ Cardinality(D) > 0
  BY <1>1, RankBelow
<1> DEFINE R == 0..(Cardinality(D) - 1)
           f == [m \in D |-> Rank(m, D)]
<1>3. IsFiniteSet(R) /\ Cardinality(R) = Cardinality(D)
  BY <1>2, FS_Interval
<1>4. \A m \in D : Rank(m, D) \in R
  BY <1>2, RankBelow
<1>5. f \in [D -> R]
  BY <1>4
<1>6. \A m, k \in D : f[m] = f[k] => m = k
  BY RankInjective
<1>7. f \in Injection(D, R)
  BY <1>5, <1>6 DEF Injection, IsInjective
<1> HIDE DEF f
<1>8. f \in Surjection(D, R)
  BY <1>3, <1>7, FS_Injection
<1>9. PICK m \in D : f[m] = i
  BY <1>8 DEF Surjection
<1> QED BY <1>9 DEF f

-----------------------------------------------------------------------------
(* The assignment *)

\* The assignor gives a member partitions that exist.
LEMMA AssignTyped ==
  ASSUME NEW D, D \subseteq Ids, NEW m \in D, NEW subs
  PROVE  /\ RangeAssign(m, D, subs) \in Assignments
         /\ \A t \in Topics : RangeAssign(m, D, subs)[t] \subseteq 0..(PartitionCount[t] - 1)
<1>1. ASSUME NEW t \in Topics
      PROVE  Share(Rank(m, D), Cardinality(D), PartitionCount[t])
               \subseteq 0..(PartitionCount[t] - 1)
  <2>1. PartitionCount[t] \in Nat
    BY GroupAssumption
  <2> QED BY <2>1, RankBelow, ShareBetween
<1>2. \A t \in Topics : 0..(PartitionCount[t] - 1) \subseteq Nat
  BY GroupAssumption
<1> QED BY <1>1, <1>2 DEF RangeAssign, Assignments

\* No partition is given to two members.
LEMMA AssignDisjoint ==
  ASSUME NEW D, D \subseteq Ids, NEW m \in D, NEW k \in D, m # k, NEW subs,
         NEW t \in Topics
  PROVE  RangeAssign(m, D, subs)[t] \cap RangeAssign(k, D, subs)[t] = {}
<1>1. PartitionCount[t] \in Nat
  BY GroupAssumption
<1>2. Cardinality(D) \in Nat /\ Cardinality(D) > 0
      /\ Rank(m, D) \in Nat /\ Rank(m, D) < Cardinality(D)
      /\ Rank(k, D) \in Nat /\ Rank(k, D) < Cardinality(D)
      /\ Rank(m, D) # Rank(k, D)
  BY RankBelow, RankInjective
<1>3. Share(Rank(m, D), Cardinality(D), PartitionCount[t])
        \cap Share(Rank(k, D), Cardinality(D), PartitionCount[t]) = {}
  BY <1>1, <1>2, SharesDisjoint
<1> QED BY <1>3 DEF RangeAssign

\* Every partition of a subscribed topic is given to some member.
LEMMA AssignCovers ==
  ASSUME NEW D, D \subseteq Ids, D # {}, NEW subs, NEW t \in Topics, t \in subs,
         NEW q \in 0..(PartitionCount[t] - 1)
  PROVE  \E m \in D : q \in RangeAssign(m, D, subs)[t]
<1>1. PartitionCount[t] \in Nat
  BY GroupAssumption
<1>2. PICK d \in D : TRUE
  OBVIOUS
<1>3. Cardinality(D) \in Nat /\ Cardinality(D) > 0
  BY <1>2, RankBelow
<1>4. PICK i \in 0..(Cardinality(D) - 1) :
        q \in Share(i, Cardinality(D), PartitionCount[t])
  BY <1>1, <1>3, SharesCover
<1>5. PICK m \in D : Rank(m, D) = i
  BY RankSurjective
<1> QED BY <1>4, <1>5 DEF RangeAssign

\* So the partitions of a subscribed topic have exactly one owner each.
THEOREM OneOwnerEach ==
  ASSUME NEW g \in Groups, Consistent(g), IsAssigned(g),
         NEW t \in Subscribed(g), NEW q \in 0..(PartitionCount[t] - 1)
  PROVE  Cardinality({m \in DOMAIN g.members : q \in g.members[m].asg[t]}) = 1
<1> DEFINE D == DOMAIN g.members
           A(m) == RangeAssign(m, D, Subscribed(g))
<1>1. D \subseteq Ids /\ D # {} /\ t \in Topics
  BY DEF Consistent, IsAssigned, Groups, MemberMaps, MemberStates, Subscribed
<1>2. \A m \in D : g.members[m].asg = A(m)
  BY DEF Consistent
<1>3. PICK m \in D : q \in A(m)[t]
  BY <1>1, AssignCovers
<1>4. \A k \in D : k # m => q \notin A(k)[t]
  BY <1>1, <1>3, AssignDisjoint
<1>5. {k \in D : q \in g.members[k].asg[t]} = {m}
  BY <1>2, <1>3, <1>4
<1> QED BY <1>5, FS_Singleton

-----------------------------------------------------------------------------
(* The coordinator's internal steps *)

\* A map of members is a function from some of the ids.
LEMMA MemberMap ==
  /\ \A f \in MemberMaps : DOMAIN f \subseteq Ids /\ f \in [DOMAIN f -> MemberStates]
  /\ \A D \in SUBSET Ids : \A f \in [D -> MemberStates] : f \in MemberMaps /\ DOMAIN f = D
  BY DEF MemberMaps

\* Deleting members changes nothing about the others.
LEMMA WithoutFacts ==
  ASSUME NEW g \in Groups, NEW dropped
  PROVE  LET h == Without(g, dropped)
         IN  /\ h \in Groups /\ h.state = g.state /\ h.gen = g.gen /\ h.leader = g.leader
             /\ DOMAIN h.members = DOMAIN g.members \ dropped
             /\ \A m \in DOMAIN h.members : h.members[m] = g.members[m]
<1> DEFINE f == Restrict(g.members, DOMAIN g.members \ dropped)
<1>1. g.members \in MemberMaps
  BY DEF Groups
<1>2. DOMAIN g.members \subseteq Ids /\ g.members \in [DOMAIN g.members -> MemberStates]
  BY <1>1, MemberMap
<1>3. f \in [DOMAIN g.members \ dropped -> MemberStates]
      /\ \A m \in DOMAIN g.members \ dropped : f[m] = g.members[m]
  BY <1>2 DEF Restrict
<1>4. f \in MemberMaps /\ DOMAIN f = DOMAIN g.members \ dropped
  BY <1>2, <1>3, MemberMap
<1>5. Without(g, dropped) = [g EXCEPT !.members = f]
  BY DEF Without
<1> HIDE DEF f
<1> QED BY <1>3, <1>4, <1>5 DEF Groups

\* A rebalance begins in a new generation, with no leader and no one joined.
LEMMA BeginFacts ==
  ASSUME NEW g \in Groups
  PROVE  LET h == BeginRebalance(g)
         IN  /\ h \in Groups /\ h.state = "PreparingRebalance"
             /\ h.gen = g.gen + 1 /\ h.leader = 0
             /\ DOMAIN h.members = DOMAIN g.members
             /\ \A m \in DOMAIN h.members : h.members[m].age = g.members[m].age
<1> DEFINE e(m) == [g.members[m] EXCEPT !.joined = FALSE, !.synced = FALSE,
                                        !.asg = NoAssignment]
           f == [m \in DOMAIN g.members |-> e(m)]
<1>1. g.members \in MemberMaps
  BY DEF Groups
<1>2. DOMAIN g.members \subseteq Ids /\ g.members \in [DOMAIN g.members -> MemberStates]
  BY <1>1, MemberMap
<1>3. NoAssignment \in Assignments
  BY DEF NoAssignment, Assignments
<1>4. \A m \in DOMAIN g.members : e(m) \in MemberStates /\ e(m).age = g.members[m].age
  BY <1>2, <1>3 DEF MemberStates
<1>5. BeginRebalance(g) = [state |-> "PreparingRebalance", gen |-> g.gen + 1,
                           leader |-> 0, members |-> f]
  BY DEF BeginRebalance
<1> HIDE DEF e
<1>6. f \in [DOMAIN g.members -> MemberStates]
      /\ \A m \in DOMAIN g.members : f[m].age = g.members[m].age
  BY <1>4
<1>7. f \in MemberMaps /\ DOMAIN f = DOMAIN g.members
  BY <1>2, <1>6, MemberMap
<1> HIDE DEF f
<1> QED BY <1>5, <1>6, <1>7 DEF Groups, States

\* finishAssignmentLocked leaves a consistent group, whatever it was before.
LEMMA FinishFacts ==
  ASSUME NEW g \in Groups
  PROVE  LET h == FinishAssignment(g)
         IN  /\ h \in Groups /\ Consistent(h) /\ h.gen = g.gen
             /\ DOMAIN h.members = DOMAIN g.members
             /\ \A m \in DOMAIN h.members : h.members[m].age = g.members[m].age
<1> DEFINE D == DOMAIN g.members
           h == FinishAssignment(g)
<1>1. g.members \in MemberMaps
  BY DEF Groups
<1>2. D \subseteq Ids /\ g.members \in [D -> MemberStates] /\ Ids \subseteq Nat
  BY <1>1, MemberMap, GroupAssumption
<1>3. CASE D = {}
  <2>1. h = [g EXCEPT !.state = "Empty", !.leader = 0]
    BY <1>3 DEF FinishAssignment
  <2> HIDE DEF h
  <2>2. h \in Groups /\ h.state = "Empty" /\ h.leader = 0 /\ h.gen = g.gen
        /\ h.members = g.members
    BY <2>1 DEF Groups, States
  <2> QED BY <1>3, <2>2 DEF Consistent, IsAssigned, h
<1>4. CASE D # {}
  <2> DEFINE subs == Subscribed(g)
             l == CHOOSE m \in D : \A k \in D : m <= k
             e(m) == [g.members[m] EXCEPT !.synced = FALSE, !.asg = RangeAssign(m, D, subs)]
             f == [m \in D |-> e(m)]
  <2>1. h = [g EXCEPT !.state = "CompletingRebalance", !.leader = l, !.members = f]
    BY <1>4 DEF FinishAssignment, Subscribed
  <2>2. \E m \in D : \A k \in D : m <= k
    <3>1. D \subseteq Nat
      BY <1>2
    <3> QED BY <1>4, <3>1, LeastNat
  <2>3. l \in D /\ l \in Nat
    <3>1. l \in D
      BY <2>2
    <3> QED BY <3>1, <1>2
  <2> HIDE DEF l
  <2>4. ASSUME NEW m \in D
        PROVE  /\ e(m) \in MemberStates /\ e(m).age = g.members[m].age
               /\ e(m).topics = g.members[m].topics /\ e(m).asg = RangeAssign(m, D, subs)
    <3>1. RangeAssign(m, D, subs) \in Assignments
      BY <1>2, AssignTyped
    <3> QED BY <1>2, <3>1 DEF MemberStates
  <2> HIDE DEF e
  <2>5. /\ f \in [D -> MemberStates]
        /\ \A m \in D : /\ f[m].age = g.members[m].age
                        /\ f[m].topics = g.members[m].topics
                        /\ f[m].asg = RangeAssign(m, D, subs)
    BY <2>4
  <2>6. f \in MemberMaps /\ DOMAIN f = D
    BY <1>2, <2>5, MemberMap
  <2> HIDE DEF f
  <2>7. h \in Groups /\ h.state = "CompletingRebalance" /\ h.leader = l
        /\ h.gen = g.gen /\ h.members = f
    BY <2>1, <2>3, <2>6 DEF Groups, States
  <2> HIDE DEF h
  <2>8. Subscribed(h) = subs
    BY <2>5, <2>6, <2>7 DEF Subscribed
  <2>9. Consistent(h)
    BY <1>4, <2>3, <2>5, <2>6, <2>7, <2>8 DEF Consistent, IsAssigned
  <2> QED BY <2>5, <2>6, <2>7, <2>9 DEF h
<1> QED BY <1>3, <1>4

\* MaxAge is a natural, and ages are too.
LEMMA Ages ==
  /\ MaxAge \in Nat /\ Session \in Nat /\ RebalanceWait \in Nat
  /\ \A g \in Groups : \A m \in DOMAIN g.members :
       g.members[m] \in MemberStates /\ g.members[m].age \in Nat
<1>1. MaxAge \in Nat /\ Session \in Nat /\ RebalanceWait \in Nat
  BY GroupAssumption DEF MaxAge
<1>2. \A g \in Groups : g.members \in MemberMaps
  BY DEF Groups
<1>3. \A g \in Groups : \A m \in DOMAIN g.members : g.members[m] \in MemberStates
  BY <1>2, MemberMap
<1>4. \A e \in MemberStates : e.age \in Nat
  BY <1>1 DEF MemberStates
<1> QED BY <1>1, <1>3, <1>4

\* maybeCompleteJoinLocked, called while a rebalance goes on.
LEMMA MaybeFacts ==
  ASSUME NEW g \in Groups, g.state = "PreparingRebalance", g.leader = 0
  PROVE  LET h == MaybeCompleteJoin(g)
         IN  /\ h \in Groups /\ Consistent(h) /\ h.gen = g.gen
             /\ DOMAIN h.members \subseteq DOMAIN g.members
             /\ Fresh(h)
<1> DEFINE g1 == Without(g, SessionOver(g))
           g2 == FinishAssignment(g1)
           h == MaybeCompleteJoin(g)
<1>1. /\ g1 \in Groups /\ g1.state = g.state /\ g1.gen = g.gen /\ g1.leader = g.leader
      /\ DOMAIN g1.members = DOMAIN g.members \ SessionOver(g)
      /\ \A m \in DOMAIN g1.members : g1.members[m] = g.members[m]
  BY WithoutFacts
<1>2. Fresh(g1)
  <2>1. \A m \in DOMAIN g1.members : ~(g1.members[m].age > Session)
    BY <1>1 DEF SessionOver
  <2> QED BY <1>1, <2>1, Ages DEF Fresh
<1>3. /\ g2 \in Groups /\ Consistent(g2) /\ g2.gen = g1.gen
      /\ DOMAIN g2.members = DOMAIN g1.members
      /\ \A m \in DOMAIN g2.members : g2.members[m].age = g1.members[m].age
  BY <1>1, FinishFacts
<1>4. h = IF \E m \in DOMAIN g1.members : ~g1.members[m].joined THEN g1 ELSE g2
  BY DEF MaybeCompleteJoin
<1> HIDE DEF g1, g2, h
<1>5. CASE \E m \in DOMAIN g1.members : ~g1.members[m].joined
  <2>1. h = g1
    BY <1>4, <1>5
  <2>2. Consistent(g1)
    BY <1>1, <1>5 DEF Consistent, IsAssigned
  <2> QED BY <1>1, <1>2, <2>1, <2>2 DEF h
<1>6. CASE ~ \E m \in DOMAIN g1.members : ~g1.members[m].joined
  <2>1. h = g2
    BY <1>4, <1>6
  <2>2. Fresh(g2)
    BY <1>2, <1>3 DEF Fresh
  <2> QED BY <1>1, <1>3, <2>1, <2>2 DEF h
<1> QED BY <1>5, <1>6

-----------------------------------------------------------------------------
(* The operations *)

\* Join begins a rebalance unless one goes on, in which no assignment is made.
LEMMA JoinedFacts ==
  ASSUME NEW g \in Groups, Consistent(g), NEW m \in Ids, NEW ts \in SUBSET Topics
  PROVE  Evolved(g, Joined(g, m, ts), {m}) /\ Fresh(Joined(g, m, ts))
<1> DEFINE known == m \in DOMAIN g.members
           D == DOMAIN g.members \cup {m}
           e == [topics |-> ts, age |-> 0, synced |-> FALSE,
                 joined |-> known /\ g.members[m].joined,
                 asg    |-> IF known THEN g.members[m].asg ELSE NoAssignment]
           f == [k \in D |-> IF k # m THEN g.members[k] ELSE e]
           g1 == [g EXCEPT !.members = f]
           g2 == IF g1.state # "PreparingRebalance" THEN BeginRebalance(g1) ELSE g1
           g3 == [g2 EXCEPT !.members[m].joined = TRUE]
           h == Joined(g, m, ts)
<1>1. h = MaybeCompleteJoin(g3)
  BY DEF Joined
<1>2. g.members \in MemberMaps
  BY DEF Groups
<1>3. DOMAIN g.members \subseteq Ids /\ g.members \in [DOMAIN g.members -> MemberStates]
  BY <1>2, MemberMap
<1>4. e \in MemberStates
  <2>1. NoAssignment \in Assignments /\ 0 \in 0..MaxAge
    BY Ages DEF NoAssignment, Assignments
  <2>2. known => g.members[m].asg \in Assignments
    BY <1>3 DEF MemberStates
  <2>3. (known /\ g.members[m].joined) \in BOOLEAN
    OBVIOUS
  <2> QED BY <2>1, <2>2, <2>3 DEF MemberStates
<1> HIDE DEF e
<1>5. D \subseteq Ids /\ f \in [D -> MemberStates]
  BY <1>3, <1>4
<1>6. f \in MemberMaps /\ DOMAIN f = D
  BY <1>5, MemberMap
<1> HIDE DEF f
<1>7. g1 \in Groups /\ g1.state = g.state /\ g1.gen = g.gen /\ g1.leader = g.leader
      /\ g1.members = f
  BY <1>6 DEF Groups
<1> HIDE DEF g1
<1>8. /\ g2 \in Groups /\ g2.state = "PreparingRebalance" /\ g2.leader = 0
      /\ DOMAIN g2.members = D
      /\ g2.gen = IF g.state # "PreparingRebalance" THEN g.gen + 1 ELSE g.gen
  BY <1>6, <1>7, BeginFacts DEF Consistent, IsAssigned
<1> HIDE DEF g2
<1>9. /\ g3 \in Groups /\ g3.state = "PreparingRebalance" /\ g3.leader = 0
      /\ DOMAIN g3.members = D /\ g3.gen = g2.gen
  <2> DEFINE f2 == [g2.members EXCEPT ![m].joined = TRUE]
  <2>1. g2.members \in MemberMaps
    BY <1>8 DEF Groups
  <2>2. g2.members \in [D -> MemberStates]
    BY <1>8, <2>1, MemberMap
  <2>3. f2 \in [D -> MemberStates]
    BY <2>2 DEF MemberStates
  <2>4. g3 = [g2 EXCEPT !.members = f2]
    BY <1>8 DEF Groups
  <2> HIDE DEF f2, g3, D
  <2>5. f2 \in MemberMaps /\ DOMAIN f2 = D
    BY <1>5, <2>3, MemberMap
  <2> QED BY <1>8, <2>4, <2>5 DEF Groups
<1> HIDE DEF g3, h
<1>10. h \in Groups /\ Consistent(h) /\ h.gen = g3.gen
       /\ DOMAIN h.members \subseteq D /\ Fresh(h)
  BY <1>1, <1>9, MaybeFacts
<1>11. Evolved(g, h, {m})
  BY <1>8, <1>9, <1>10 DEF Evolved, IsAssigned
<1> QED BY <1>10, <1>11 DEF h

\* Leave begins a rebalance, whoever leaves.
LEMMA LeftFacts ==
  ASSUME NEW g \in Groups, NEW m
  PROVE  Evolved(g, Left(g, m), {}) /\ Fresh(Left(g, m)) /\ Left(g, m).gen = g.gen + 1
<1> DEFINE g1 == Without(g, {m})
           g2 == BeginRebalance(g1)
           h == Left(g, m)
<1>1. g1 \in Groups /\ g1.gen = g.gen /\ DOMAIN g1.members \subseteq DOMAIN g.members
  BY WithoutFacts
<1>2. /\ g2 \in Groups /\ g2.state = "PreparingRebalance" /\ g2.leader = 0
      /\ g2.gen = g1.gen + 1 /\ DOMAIN g2.members = DOMAIN g1.members
  BY <1>1, BeginFacts
<1>3. h = MaybeCompleteJoin(g2)
  BY DEF Left
<1> HIDE DEF g1, g2, h
<1>4. h \in Groups /\ Consistent(h) /\ h.gen = g2.gen /\ Fresh(h)
      /\ DOMAIN h.members \subseteq DOMAIN g2.members
  BY <1>2, <1>3, MaybeFacts
<1>5. Evolved(g, h, {})
  BY <1>1, <1>2, <1>4 DEF Evolved
<1> QED BY <1>1, <1>2, <1>4, <1>5 DEF h

\* The new coordinator's group, which it does not know yet.
LEMMA EmptyGroupFacts == EmptyGroup \in Groups /\ Consistent(EmptyGroup) /\ Fresh(EmptyGroup)
<1> DEFINE f == [m \in {} |-> 0]
<1>1. EmptyGroup.members = <<>> /\ DOMAIN <<>> = {}
  BY DEF EmptyGroup
<1>2. <<>> \in [{} -> MemberStates]
  OBVIOUS
<1>3. <<>> \in MemberMaps
  BY <1>2 DEF MemberMaps
<1>4. EmptyGroup \in Groups
  BY <1>3 DEF EmptyGroup, Groups, States
<1> QED BY <1>1, <1>4 DEF Consistent, IsAssigned, Fresh, EmptyGroup

\* Other entries for the same members.
LEMMA SameMembers ==
  ASSUME NEW g \in Groups, NEW f \in [DOMAIN g.members -> MemberStates]
  PROVE  f \in MemberMaps /\ DOMAIN f = DOMAIN g.members
<1>1. g.members \in MemberMaps
  BY DEF Groups
<1>2. DOMAIN g.members \subseteq Ids
  BY <1>1, MemberMap
<1> QED BY <1>2, MemberMap

\* Calls that touch neither subscriptions nor assignments, and the state only to
\* make the group stable.
LEMMA TouchFacts ==
  ASSUME NEW g \in Groups, Consistent(g), NEW h \in Groups,
         h.gen = g.gen, h.leader = g.leader,
         h.state = g.state \/ (g.state = "CompletingRebalance" /\ h.state = "Stable"),
         DOMAIN h.members = DOMAIN g.members,
         \A m \in DOMAIN g.members : /\ h.members[m].topics = g.members[m].topics
                                     /\ h.members[m].asg = g.members[m].asg
  PROVE  Evolved(g, h, {})
<1>1. IsAssigned(h) <=> IsAssigned(g)
  BY DEF IsAssigned
<1>2. Subscribed(h) = Subscribed(g)
  BY DEF Subscribed
<1>3. h.state = "Empty" <=> g.state = "Empty"
  OBVIOUS
<1>4. Consistent(h)
  BY <1>1, <1>2, <1>3 DEF Consistent
<1> QED BY <1>1, <1>4 DEF Evolved

\* Sync of a member.
LEMMA SyncedFacts ==
  ASSUME NEW g \in Groups, Consistent(g), NEW m \in DOMAIN g.members
  PROVE  /\ Evolved(g, Synced(g, m), {}) /\ Synced(g, m).gen = g.gen
         /\ Fresh(g) => Fresh(Synced(g, m))
<1> DEFINE ms == [g.members EXCEPT ![m].age = 0, ![m].synced = TRUE]
           all == \A k \in DOMAIN ms : ms[k].synced
           st == IF g.state = "CompletingRebalance" /\ all THEN "Stable" ELSE g.state
           h == Synced(g, m)
<1>1. g.members \in MemberMaps
  BY DEF Groups
<1>2. g.members \in [DOMAIN g.members -> MemberStates]
  BY <1>1, MemberMap
<1>3. 0 \in 0..MaxAge /\ Session \in Nat
  BY Ages
<1>4. /\ ms \in [DOMAIN g.members -> MemberStates]
      /\ \A k \in DOMAIN g.members : /\ ms[k].topics = g.members[k].topics
                                     /\ ms[k].asg = g.members[k].asg
                                     /\ ms[k].age = IF k = m THEN 0 ELSE g.members[k].age
  BY <1>2, <1>3 DEF MemberStates
<1>5. h = [g EXCEPT !.members = ms, !.state = st]
  BY DEF Synced, Groups
<1> HIDE DEF ms, h
<1>6. /\ st = g.state \/ (g.state = "CompletingRebalance" /\ st = "Stable")
      /\ st \in States
  BY DEF Groups, States
<1> HIDE DEF st
<1>7. /\ h \in Groups /\ h.state = st /\ h.gen = g.gen /\ h.leader = g.leader
      /\ h.members = ms /\ DOMAIN h.members = DOMAIN g.members
  <2>1. ms \in MemberMaps /\ DOMAIN ms = DOMAIN g.members
    BY <1>4, SameMembers
  <2> QED BY <2>1, <1>5, <1>6 DEF Groups
<1>e. Evolved(g, h, {})
  BY <1>4, <1>6, <1>7, TouchFacts
<1>8. Fresh(g) => Fresh(h)
  BY <1>3, <1>4, <1>7 DEF Fresh
<1> QED BY <1>e, <1>7, <1>8 DEF h

\* Heartbeat of a member.
LEMMA BeatenFacts ==
  ASSUME NEW g \in Groups, Consistent(g), NEW m \in DOMAIN g.members
  PROVE  /\ Evolved(g, Beaten(g, m), {}) /\ Beaten(g, m).gen = g.gen
         /\ Fresh(g) => Fresh(Beaten(g, m))
<1> DEFINE ms == [g.members EXCEPT ![m].age = 0]
           h == Beaten(g, m)
<1>1. g.members \in MemberMaps
  BY DEF Groups
<1>2. g.members \in [DOMAIN g.members -> MemberStates]
  BY <1>1, MemberMap
<1>3. 0 \in 0..MaxAge /\ Session \in Nat
  BY Ages
<1>4. /\ ms \in [DOMAIN g.members -> MemberStates]
      /\ \A k \in DOMAIN g.members : /\ ms[k].topics = g.members[k].topics
                                     /\ ms[k].asg = g.members[k].asg
                                     /\ ms[k].age = IF k = m THEN 0 ELSE g.members[k].age
  BY <1>2, <1>3 DEF MemberStates
<1>5. h = [g EXCEPT !.members = ms, !.state = g.state]
  BY DEF Beaten, Groups
<1> HIDE DEF ms, h
<1>6. /\ h \in Groups /\ h.state = g.state /\ h.gen = g.gen /\ h.leader = g.leader
      /\ h.members = ms /\ DOMAIN h.members = DOMAIN g.members
  <2>1. ms \in MemberMaps /\ DOMAIN ms = DOMAIN g.members
    BY <1>4, SameMembers
  <2> QED BY <2>1, <1>5 DEF Groups
<1>e. Evolved(g, h, {})
  BY <1>4, <1>6, TouchFacts
<1>7. Fresh(g) => Fresh(h)
  BY <1>3, <1>4, <1>6 DEF Fresh
<1> QED BY <1>e, <1>6, <1>7 DEF h

\* Time passes for every member alike.
LEMMA AgedFacts ==
  ASSUME NEW g \in Groups, Consistent(g)
  PROVE  /\ Evolved(g, Aged(g), {}) /\ Aged(g).gen = g.gen
         /\ (\A m \in DOMAIN g.members : g.members[m].age < Session) => Fresh(Aged(g))
<1> DEFINE e(m) == [g.members[m] EXCEPT !.age = IF @ < MaxAge THEN @ + 1 ELSE @]
           f == [m \in DOMAIN g.members |-> e(m)]
           h == Aged(g)
<1>1. g.members \in MemberMaps
  BY DEF Groups
<1>2. g.members \in [DOMAIN g.members -> MemberStates]
  BY <1>1, MemberMap
<1>3. MaxAge \in Nat /\ Session \in Nat
  BY Ages
<1>4. ASSUME NEW m \in DOMAIN g.members
      PROVE  /\ e(m) \in MemberStates /\ e(m).topics = g.members[m].topics
             /\ e(m).asg = g.members[m].asg
             /\ e(m).age <= g.members[m].age + 1 /\ g.members[m].age \in Nat
  <2>1. g.members[m] \in MemberStates
    BY <1>2
  <2> QED BY <1>3, <2>1 DEF MemberStates
<1>5. h = [g EXCEPT !.members = f, !.state = g.state]
  BY DEF Aged, Groups
<1> HIDE DEF e, h
<1>6. f \in [DOMAIN g.members -> MemberStates]
      /\ \A m \in DOMAIN g.members : f[m] = e(m)
  BY <1>4
<1> HIDE DEF f
<1>7. /\ h \in Groups /\ h.state = g.state /\ h.gen = g.gen /\ h.leader = g.leader
      /\ h.members = f /\ DOMAIN h.members = DOMAIN g.members
  <2>1. f \in MemberMaps /\ DOMAIN f = DOMAIN g.members
    BY <1>6, SameMembers
  <2> QED BY <2>1, <1>5 DEF Groups
<1>e. Evolved(g, h, {})
  BY <1>4, <1>6, <1>7, TouchFacts
<1>8. ASSUME \A m \in DOMAIN g.members : g.members[m].age < Session
      PROVE  Fresh(h)
  <2>1. DOMAIN h.members = DOMAIN g.members
    BY <1>6, <1>7
  <2>2. ASSUME NEW m \in DOMAIN h.members PROVE h.members[m].age <= Session
    <3>1. h.members[m].age <= g.members[m].age + 1 /\ g.members[m].age \in Nat
          /\ e(m) \in MemberStates
      BY <1>4, <1>6, <1>7, <2>1
    <3>2. h.members[m].age \in Nat
      BY <1>3, <1>6, <1>7, <2>1, <3>1 DEF MemberStates
    <3> QED BY <1>3, <1>8, <2>1, <3>1, <3>2
  <2> QED BY <2>2 DEF Fresh
<1> QED BY <1>e, <1>7, <1>8 DEF h

\* Expire begins a rebalance when a session has ended, and ends one that everyone
\* has joined or that has waited long enough.
LEMMA ExpireFacts ==
  ASSUME NEW g \in Groups, Consistent(g)
  PROVE  /\ Evolved(g, AfterExpire(g), {}) /\ Fresh(AfterExpire(g))
         /\ Fresh(g) => AfterExpire(g).gen = g.gen
<1> DEFINE g1 == Expired(g)
           w == Without(g, SessionOver(g))
           b == BeginRebalance(w)
           v == Without(g1, Absent(g1))
           done == FinishAssignment(v)
           h == AfterExpire(g)
           ends == /\ g1.state = "PreparingRebalance"
                   /\ \/ \A m \in DOMAIN g1.members : g1.members[m].joined
                      \/ \E m \in DOMAIN g1.members : g1.members[m].age > RebalanceWait
<1>1. g1 = IF SessionOver(g) = {} THEN g ELSE b
  BY DEF Expired
<1>2. h = IF ends THEN done ELSE g1
  BY DEF AfterExpire, Completed
<1>3. /\ w \in Groups /\ w.gen = g.gen
      /\ DOMAIN w.members = DOMAIN g.members \ SessionOver(g)
      /\ \A m \in DOMAIN w.members : w.members[m] = g.members[m]
  BY WithoutFacts
<1>4. /\ b \in Groups /\ b.state = "PreparingRebalance" /\ b.leader = 0
      /\ b.gen = w.gen + 1 /\ DOMAIN b.members = DOMAIN w.members
      /\ \A m \in DOMAIN b.members : b.members[m].age = w.members[m].age
  BY <1>3, BeginFacts
<1> HIDE DEF w, b, g1
<1>5. /\ g1 \in Groups /\ DOMAIN g1.members \subseteq DOMAIN g.members
      /\ \/ SessionOver(g) # {} /\ g1.gen = g.gen + 1 /\ g1.leader = 0
            /\ g1.state = "PreparingRebalance"
         \/ SessionOver(g) = {} /\ g1 = g
  BY <1>1, <1>3, <1>4
<1>6. Fresh(g1)
  <2>1. ASSUME NEW m \in DOMAIN g1.members
        PROVE  m \in DOMAIN g.members \ SessionOver(g) /\ g1.members[m].age = g.members[m].age
    BY <1>1, <1>3, <1>4
  <2>2. \A m \in DOMAIN g.members \ SessionOver(g) : ~(g.members[m].age > Session)
    BY DEF SessionOver
  <2> QED BY <2>1, <2>2, Ages DEF Fresh
<1>7. /\ v \in Groups /\ v.gen = g1.gen /\ DOMAIN v.members \subseteq DOMAIN g1.members
      /\ \A m \in DOMAIN v.members : v.members[m] = g1.members[m]
  BY <1>5, WithoutFacts
<1>8. /\ done \in Groups /\ Consistent(done) /\ done.gen = v.gen
      /\ DOMAIN done.members = DOMAIN v.members
      /\ \A m \in DOMAIN done.members : done.members[m].age = v.members[m].age
  BY <1>7, FinishFacts
<1> HIDE DEF v, done, h, ends
<1>9. Fresh(g) => SessionOver(g) = {}
  BY Ages DEF Fresh, SessionOver
<1>10. CASE ends
  <2>1. h = done /\ g1.state = "PreparingRebalance"
    BY <1>2, <1>10 DEF ends
  <2>2. Fresh(h)
    BY <1>6, <1>7, <1>8, <2>1 DEF Fresh
  <2>3. h.gen = g.gen => ~IsAssigned(g)
    <3>1. g.gen \in Nat
      BY DEF Groups
    <3> QED BY <3>1, <1>5, <1>7, <1>8, <2>1 DEF IsAssigned
  <2>4. Evolved(g, h, {})
    BY <1>5, <1>7, <1>8, <2>1, <2>3 DEF Evolved
  <2>5. Fresh(g) => h.gen = g.gen
    BY <1>5, <1>7, <1>8, <1>9, <2>1
  <2> QED BY <2>2, <2>4, <2>5 DEF h
<1>11. CASE ~ends
  <2>1. h = g1
    BY <1>2, <1>11
  <2>2. CASE SessionOver(g) = {}
    <3>1. h = g
      BY <1>5, <2>1, <2>2
    <3>2. Evolved(g, g, {})
      BY DEF Evolved
    <3> QED BY <1>6, <2>1, <3>1, <3>2 DEF h
  <2>3. CASE SessionOver(g) # {}
    <3>1. g1.gen = g.gen + 1 /\ g1.leader = 0 /\ g1.state = "PreparingRebalance"
      BY <1>5, <2>3
    <3>2. DOMAIN g1.members # {}
      BY <1>11, <3>1 DEF ends
    <3>3. Consistent(g1)
      BY <3>1, <3>2 DEF Consistent, IsAssigned
    <3>4. Evolved(g, h, {})
      BY <1>5, <2>1, <3>1, <3>3 DEF Evolved
    <3> QED BY <1>6, <1>9, <2>1, <2>3, <3>4 DEF h
  <2> QED BY <2>2, <2>3
<1> QED BY <1>10, <1>11
=============================================================================

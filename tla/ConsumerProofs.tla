--------------------------- MODULE ConsumerProofs ---------------------------
(***************************************************************************)
(* The CLI's consumers, for any number of them, of coordinators, of        *)
(* partitions, records, faults and rebalances: a consumer works only where *)
(* it has a position, and with --from-beginning no offset that is          *)
(* committed anywhere is past a record that nobody has printed, those that *)
(* a fetch response left out aside.                                        *)
(***************************************************************************)
EXTENDS Consumer, GroupOpsProofs

Offsets == None..MaxRecords
Places == {"join", "sync", "offsets", "heartbeat", "fetch", "commit", "exit"}

\* The places where a consumer has positions, and where it has a partition to
\* deal with.
Working == {"heartbeat", "fetch", "commit"}
InRound == {"fetch", "commit"}

Typed ==
  /\ group \in Groups /\ Consistent(group)
  /\ coord \in Coordinators
  /\ stored \in [Coordinators -> [Parts -> Offsets]]
  /\ hw \in [Parts -> 0..MaxRecords]
  /\ pc \in [Ids -> Places]
  /\ gen \in [Ids -> 0..MaxGeneration]
  /\ parts \in [Ids -> SUBSET Parts]
  /\ pos \in [Ids -> [Parts -> Offsets]]
  /\ todo \in [Ids -> SUBSET Parts]
  /\ printed \in [Parts -> SUBSET Nat]
  /\ skipped \in [Parts -> SUBSET Nat]
  /\ start \in [Parts -> Offsets]
  /\ faults \in 0..MaxFaults /\ failovers \in 0..MaxFailovers

\* The group has begun on q, and what it has printed since, or no response
\* brought, reaches up to e.
Covered(q, e) ==
  start[q] # None /\ \A o \in start[q]..(e - 1) : o \in printed[q] \cup skipped[q]

\* A consumer has partitions left exactly while it is in its round.
RoundOK(m) ==
  /\ todo[m] \subseteq parts[m]
  /\ pc[m] \in InRound <=> todo[m] # {}
  /\ pc[m] \in Working => \A q \in parts[m] : pos[m][q] \in 0..MaxRecords

WorkInv == Typed /\ \A m \in Ids : RoundOK(m)

\* Positions are covered, and so are the offsets committed from them, at every
\* coordinator: what makes AtLeastOnce inductive.
PositionsCovered ==
  \A m \in Ids : pc[m] \in Working => \A q \in parts[m] : Covered(q, pos[m][q])

StoredCovered ==
  \A c \in Coordinators, q \in Parts :
    stored[c][q] # None => Covered(q, stored[c][q])

FromZero == \A q \in Parts : start[q] \in {None, 0}

OnceInv == WorkInv /\ PositionsCovered /\ StoredCovered /\ FromZero

-----------------------------------------------------------------------------
\* Min picks an element: the partition a round goes on with, the first controller.
LEMMA MinElement ==
  ASSUME NEW T, T \subseteq Nat, T # {}
  PROVE  Min(T) \in T
<1>1. \E x \in T : \A y \in T : x <= y
  BY LeastNat
<1> QED BY <1>1, Zenon DEF Min

\* The largest record of a response, which there is: a response begins at the
\* position and ends before the high watermark.
LEMMA ResponseMax ==
  ASSUME NEW a \in Nat, NEW b \in Nat, NEW R, R \subseteq a..(b - 1), a \in R
  PROVE  Max(R) \in R /\ Max(R) \in a..(b - 1)
<1> DEFINE D == {b - x : x \in R}
<1>1. \A x \in R : x \in Nat /\ x < b /\ a <= x
  OBVIOUS
<1>2. D \subseteq Nat
  BY <1>1
<1>3. D # {}
  OBVIOUS
<1>4. \E d \in D : \A e \in D : d <= e
  BY <1>2, <1>3, LeastNat
<1>5. PICK x \in R : \A y \in R : b - x <= b - y
  BY <1>4
<1>6. \A y \in R : x >= y
  BY <1>1, <1>5
<1>7. \E z \in R : \A y \in R : z >= y
  BY <1>6
<1>8. Max(R) \in R
  BY <1>7, Zenon DEF Max
<1> QED BY <1>8

\* The bounds are naturals, partitions too, and no offset is None.
LEMMA Numbers ==
  /\ MaxRecords \in Nat /\ MaxFaults \in Nat /\ MaxFailovers \in Nat
  /\ MaxGeneration \in Nat /\ MaxGeneration > 0
  /\ PartitionCount[Topic] \in Nat /\ Parts \subseteq Nat
  /\ None \in Offsets /\ 0..MaxRecords \subseteq Offsets /\ None \notin 0..MaxRecords
  /\ \A o \in Offsets : o # None => o \in 0..MaxRecords
  /\ NoOffsets \in [Parts -> Offsets]
<1>1. /\ MaxRecords \in Nat /\ MaxFaults \in Nat /\ MaxFailovers \in Nat
      /\ MaxGeneration \in Nat /\ MaxGeneration > 0
      /\ PartitionCount[Topic] \in Nat
  BY ConsumerAssumption, GroupAssumption
<1>2. /\ None \in Offsets /\ 0..MaxRecords \subseteq Offsets /\ None \notin 0..MaxRecords
      /\ \A o \in Offsets : o # None => o \in 0..MaxRecords
  BY <1>1 DEF Offsets, None
<1>3. NoOffsets \in [Parts -> Offsets]
  BY <1>2 DEF NoOffsets
<1>4. Parts \subseteq Nat
  BY <1>1 DEF Parts
<1> QED BY <1>1, <1>2, <1>3, <1>4

\* Numbering generations anew changes nothing else.
LEMMA RecycledFacts ==
  ASSUME NEW g \in Groups, Consistent(g)
  PROVE  /\ Recycled(g) \in Groups /\ Consistent(Recycled(g))
         /\ Recycled(g).gen \in 0..MaxGeneration
<1> DEFINE h == Recycled(g)
<1>1. h = IF g.gen > MaxGeneration THEN [g EXCEPT !.gen = 1] ELSE g
  BY DEF Recycled
<1>2. g.gen \in Nat
  BY DEF Groups
<1> HIDE DEF h
<1>3. CASE g.gen > MaxGeneration
  <2>1. /\ h \in Groups /\ h.gen = 1 /\ h.state = g.state /\ h.leader = g.leader
        /\ h.members = g.members
    BY <1>1, <1>3 DEF Groups
  <2>2. Consistent(h)
    BY <2>1 DEF Consistent, IsAssigned, Subscribed
  <2> QED BY <2>1, <2>2, Numbers DEF h
<1>4. CASE ~(g.gen > MaxGeneration)
  BY <1>1, <1>2, <1>4, Numbers DEF h
<1> QED BY <1>3, <1>4

\* A step of consumer m leaves the others alone.
LEMMA OneConsumer ==
  ASSUME WorkInv, NEW m \in Ids, Typed', RoundOK(m)',
         \A k \in Ids : k # m =>
           pc'[k] = pc[k] /\ parts'[k] = parts[k] /\ pos'[k] = pos[k] /\ todo'[k] = todo[k]
  PROVE  WorkInv'
<1>1. ASSUME NEW k \in Ids PROVE RoundOK(k)'
  BY DEF WorkInv, RoundOK
<1> QED BY <1>1 DEF WorkInv

\* No consumer's state changes.
LEMMA NoConsumer ==
  ASSUME WorkInv, Typed', UNCHANGED <<pc, parts, pos, todo>>
  PROVE  WorkInv'
  BY DEF WorkInv, RoundOK

\* A call that fails stays within the bound.
LEMMA FaultTyped == ASSUME WorkInv, Fault PROVE faults' \in 0..MaxFaults
  BY Numbers DEF WorkInv, Typed, Fault

-----------------------------------------------------------------------------
(* WorkInv *)

\* No consumer has a position at first.
LEMMA WorkInit == ASSUME Init PROVE WorkInv
<1>1. group \in Groups /\ Consistent(group)
  BY EmptyGroupFacts DEF Init
<1>2. coord \in Coordinators
  BY ConsumerAssumption, MinElement DEF Init
<1>3. Typed
  BY <1>1, <1>2, Numbers DEF Init, Typed, Places
<1>4. \A m \in Ids : RoundOK(m)
  BY DEF Init, RoundOK, InRound, Working
<1> QED BY <1>3, <1>4 DEF WorkInv

\* Back to the top of the loop, or out of it.
LEMMA WorkRestart ==
  ASSUME WorkInv, NEW m \in Ids, NEW p \in {"join", "exit"}, Restart(m, p),
         group' \in Groups, Consistent(group'),
         faults' \in 0..MaxFaults, UNCHANGED <<coord, stored, hw, history, failovers>>
  PROVE  WorkInv'
<1>1. /\ pc' = [pc EXCEPT ![m] = p] /\ gen' = [gen EXCEPT ![m] = 0]
      /\ parts' = [parts EXCEPT ![m] = {}] /\ pos' = [pos EXCEPT ![m] = NoOffsets]
      /\ todo' = [todo EXCEPT ![m] = {}]
  BY DEF Restart, Goto
<1>2. /\ pc \in [Ids -> Places] /\ gen \in [Ids -> 0..MaxGeneration]
      /\ parts \in [Ids -> SUBSET Parts] /\ pos \in [Ids -> [Parts -> Offsets]]
      /\ todo \in [Ids -> SUBSET Parts]
  BY DEF WorkInv, Typed
<1>3. /\ pc' \in [Ids -> Places] /\ gen' \in [Ids -> 0..MaxGeneration]
      /\ parts' \in [Ids -> SUBSET Parts] /\ pos' \in [Ids -> [Parts -> Offsets]]
      /\ todo' \in [Ids -> SUBSET Parts]
  BY <1>1, <1>2, Numbers DEF Places
<1>4. Typed'
  BY <1>3 DEF WorkInv, Typed, history
<1>5. pc'[m] = p /\ todo'[m] = {} /\ parts'[m] = {}
  BY <1>1, <1>2
<1>6. RoundOK(m)'
  BY <1>5 DEF RoundOK, InRound, Working
<1> QED BY <1>1, <1>2, <1>4, <1>6, OneConsumer

\* Join.
LEMMA WorkJoin == ASSUME WorkInv, NEW m \in Ids, Join(m) PROVE WorkInv'
<1>1. group \in Groups /\ Consistent(group) /\ {Topic} \in SUBSET Topics
  BY ConsumerAssumption DEF WorkInv, Typed
<1> DEFINE g == Joined(group, m, {Topic})
<1>2. g \in Groups /\ Consistent(g)
  BY <1>1, JoinedFacts DEF Evolved
<1>3. group' = Recycled(g) /\ pc[m] = "join"
  BY DEF Join
<1>4. group' \in Groups /\ Consistent(group') /\ group'.gen \in 0..MaxGeneration
  BY <1>2, <1>3, RecycledFacts
<1>5. /\ gen' = [gen EXCEPT ![m] = group'.gen] /\ pc' = [pc EXCEPT ![m] = "sync"]
      /\ UNCHANGED <<coord, stored, hw, parts, pos, todo, printed, skipped, start,
                     faults, failovers>>
  BY DEF Join, Goto, history
<1>6. pc \in [Ids -> Places] /\ gen \in [Ids -> 0..MaxGeneration]
  BY DEF WorkInv, Typed
<1>7. pc' \in [Ids -> Places] /\ gen' \in [Ids -> 0..MaxGeneration] /\ pc'[m] = "sync"
  BY <1>4, <1>5, <1>6 DEF Places
<1>8. Typed'
  BY <1>4, <1>5, <1>7 DEF WorkInv, Typed
<1>9. RoundOK(m)'
  BY <1>3, <1>5, <1>7 DEF WorkInv, RoundOK, InRound, Working
<1> QED BY <1>5, <1>6, <1>8, <1>9, OneConsumer

\* Sync: the partitions of the assignment exist.
LEMMA WorkSync == ASSUME WorkInv, NEW m \in Ids, Sync(m) PROVE WorkInv'
<1>1. /\ group \in Groups /\ Consistent(group) /\ m \in DOMAIN group.members
      /\ group.state # "PreparingRebalance" /\ pc[m] = "sync"
  BY DEF WorkInv, Typed, Sync, CanSync
<1>2. group' \in Groups /\ Consistent(group')
  <2>1. group' = Synced(group, m)
    BY DEF Sync
  <2> QED BY <1>1, <2>1, SyncedFacts DEF Evolved
<1> DEFINE A == group.members[m].asg[Topic]
<1>3. A \subseteq Parts
  <2>1. IsAssigned(group)
    <3>1. group.state \in States /\ group.state # "Empty"
      BY <1>1 DEF Groups, Consistent
    <3> QED BY <1>1, <3>1 DEF States, IsAssigned
  <2>2. group.members[m].asg = RangeAssign(m, DOMAIN group.members, Subscribed(group))
    BY <1>1, <2>1 DEF Consistent
  <2>3. DOMAIN group.members \subseteq Ids
    <3>1. group.members \in MemberMaps
      BY <1>1 DEF Groups
    <3> QED BY <3>1, MemberMap
  <2> QED BY <1>1, <2>2, <2>3, AssignTyped, ConsumerAssumption DEF Parts
<1>4. /\ parts' = [parts EXCEPT ![m] = A] /\ pc' = [pc EXCEPT ![m] = "offsets"]
      /\ UNCHANGED <<coord, stored, hw, gen, pos, todo, printed, skipped, start,
                     faults, failovers>>
  BY DEF Sync, Goto, history
<1> HIDE DEF A
<1>5. pc \in [Ids -> Places] /\ parts \in [Ids -> SUBSET Parts]
  BY DEF WorkInv, Typed
<1>6. pc' \in [Ids -> Places] /\ parts' \in [Ids -> SUBSET Parts] /\ pc'[m] = "offsets"
  BY <1>3, <1>4, <1>5 DEF Places
<1>7. Typed'
  BY <1>2, <1>4, <1>6 DEF WorkInv, Typed
<1>8. todo'[m] = {}
  BY <1>1, <1>4 DEF WorkInv, RoundOK, InRound
<1>9. RoundOK(m)'
  BY <1>6, <1>8 DEF RoundOK, InRound, Working
<1> QED BY <1>4, <1>5, <1>7, <1>9, OneConsumer

\* The ways back to Join, and the exit.
LEMMA WorkBack ==
  ASSUME WorkInv, NEW m \in Ids,
         \/ JoinFails(m) \/ SyncFails(m) \/ HeartbeatFails(m) \/ Exit(m)
  PROVE  WorkInv'
<1>1. group \in Groups /\ Consistent(group) /\ faults \in 0..MaxFaults
  BY DEF WorkInv, Typed
<1>2. CASE SyncFails(m)
  <2>1. /\ Restart(m, "join") /\ UNCHANGED <<coord, stored, hw, history, failovers>>
        /\ \/ UNCHANGED <<group, faults>>
           \/ m \in DOMAIN group.members /\ Fault /\ group' = Synced(group, m)
    BY <1>2 DEF SyncFails, CanSync
  <2>2. group' \in Groups /\ Consistent(group') /\ faults' \in 0..MaxFaults
    <3>1. CASE UNCHANGED <<group, faults>>
      BY <1>1, <3>1
    <3>2. CASE m \in DOMAIN group.members /\ Fault /\ group' = Synced(group, m)
      <4>1. group' \in Groups /\ Consistent(group')
        BY <1>1, <3>2, SyncedFacts DEF Evolved
      <4> QED BY <4>1, <3>2, FaultTyped
    <3> QED BY <2>1, <3>1, <3>2
  <2> QED BY <2>1, <2>2, WorkRestart
<1>3. CASE HeartbeatFails(m)
  <2>1. /\ Restart(m, "join") /\ UNCHANGED <<group, coord, stored, hw, history, failovers>>
        /\ ~CanBeat(group, m, gen[m]) \/ faults < MaxFaults
        /\ faults' = IF CanBeat(group, m, gen[m]) THEN faults + 1 ELSE faults
    BY <1>3 DEF HeartbeatFails
  <2>2. faults' \in 0..MaxFaults
    BY <1>1, <2>1, Numbers
  <2> QED BY <1>1, <2>1, <2>2, WorkRestart
<1>4. CASE Exit(m)
  <2>1. /\ Restart(m, "exit")
        /\ UNCHANGED <<group, coord, stored, hw, history, faults, failovers>>
    BY <1>4 DEF Exit
  <2> QED BY <1>1, <2>1, WorkRestart
<1>5. CASE JoinFails(m)
  <2>1. /\ Restart(m, "exit") /\ Fault
        /\ UNCHANGED <<coord, stored, hw, history, failovers>>
        /\ group' \in {group, Recycled(Joined(group, m, {Topic}))}
    BY <1>5 DEF JoinFails
  <2>2. {Topic} \in SUBSET Topics
    BY ConsumerAssumption
  <2> DEFINE g == Joined(group, m, {Topic})
  <2>3. g \in Groups /\ Consistent(g)
    BY <1>1, <2>2, JoinedFacts DEF Evolved
  <2> HIDE DEF g
  <2>4. Recycled(g) \in Groups /\ Consistent(Recycled(g))
    BY <2>3, RecycledFacts
  <2>5. group' \in {group, Recycled(g)}
    BY <2>1 DEF g
  <2>6. group' \in Groups /\ Consistent(group')
    BY <1>1, <2>4, <2>5
  <2> QED BY <2>1, <2>6, FaultTyped, WorkRestart
<1> QED BY <1>2, <1>3, <1>4, <1>5

\* What FetchOffsets brings is typed, and every start is an offset.
LEMMA StartsTyped ==
  ASSUME WorkInv, NEW failed \in BOOLEAN, NEW q \in Parts
  PROVE  /\ Told(failed) \in [Parts -> Offsets]
         /\ Starts(q, Told(failed)) \subseteq 0..MaxRecords
<1>1. stored[coord] \in [Parts -> Offsets] /\ hw[q] \in 0..MaxRecords
  BY DEF WorkInv, Typed
<1>2. Told(failed) \in [Parts -> Offsets]
  BY <1>1, Numbers DEF Told
<1>3. Told(failed)[q] \in Offsets
  BY <1>2
<1> QED BY <1>1, <1>2, <1>3, Numbers DEF Starts

\* FetchOffsets: every assigned partition gets a position.
LEMMA WorkFetchOffsets == ASSUME WorkInv, NEW m \in Ids, FetchOffsets(m) PROVE WorkInv'
<1>1. PICK failed \in BOOLEAN, p \in [Parts -> None..MaxRecords] :
        /\ IF failed THEN Fault ELSE UNCHANGED faults
        /\ \A q \in Parts : IF q \in parts[m] THEN p[q] \in Starts(q, Told(failed))
                            ELSE p[q] = None
        /\ pos' = [pos EXCEPT ![m] = p]
        /\ start' = [q \in Parts |-> IF start[q] = None THEN p[q] ELSE start[q]]
  BY DEF FetchOffsets
<1>2. /\ pc[m] = "offsets" /\ pc' = [pc EXCEPT ![m] = "heartbeat"]
      /\ UNCHANGED <<group, coord, stored, hw, gen, parts, todo, printed, skipped, failovers>>
  BY DEF FetchOffsets, Goto
<1>3. /\ pc \in [Ids -> Places] /\ pos \in [Ids -> [Parts -> Offsets]]
      /\ start \in [Parts -> Offsets] /\ parts[m] \subseteq Parts
      /\ faults \in 0..MaxFaults
  BY DEF WorkInv, Typed
<1>4. p \in [Parts -> Offsets]
  BY DEF Offsets
<1>5. /\ pc' \in [Ids -> Places] /\ pos' \in [Ids -> [Parts -> Offsets]]
      /\ pc'[m] = "heartbeat" /\ pos'[m] = p
  BY <1>1, <1>2, <1>3, <1>4 DEF Places
<1>6. start' \in [Parts -> Offsets]
  <2>1. \A q \in Parts : (IF start[q] = None THEN p[q] ELSE start[q]) \in Offsets
    BY <1>3, <1>4
  <2> QED BY <1>1, <2>1
<1>7. faults' \in 0..MaxFaults
  BY <1>1, <1>3, FaultTyped
<1>8. Typed'
  BY <1>2, <1>5, <1>6, <1>7 DEF WorkInv, Typed
<1>9. todo'[m] = {}
  BY <1>2 DEF WorkInv, RoundOK, InRound
<1>10. \A q \in parts[m] : p[q] \in 0..MaxRecords
  BY <1>1, <1>3, StartsTyped
<1>11. RoundOK(m)'
  BY <1>2, <1>5, <1>9, <1>10 DEF RoundOK, InRound, Working
<1> QED BY <1>1, <1>2, <1>3, <1>8, <1>11, OneConsumer

\* Heartbeat: the round begins with the assigned partitions.
LEMMA WorkHeartbeat == ASSUME WorkInv, NEW m \in Ids, Heartbeat(m) PROVE WorkInv'
<1>1. /\ group \in Groups /\ Consistent(group) /\ m \in DOMAIN group.members
      /\ group' = Beaten(group, m) /\ pc[m] = "heartbeat"
  BY DEF WorkInv, Typed, Heartbeat, CanBeat
<1>2. group' \in Groups /\ Consistent(group')
  BY <1>1, BeatenFacts DEF Evolved
<1>3. /\ todo' = [todo EXCEPT ![m] = parts[m]]
      /\ pc' = [pc EXCEPT ![m] = IF parts[m] = {} THEN "heartbeat" ELSE "fetch"]
      /\ UNCHANGED <<coord, stored, hw, gen, parts, pos, printed, skipped, start,
                     faults, failovers>>
  BY DEF Heartbeat, Goto, history
<1>4. /\ pc \in [Ids -> Places] /\ todo \in [Ids -> SUBSET Parts]
      /\ parts \in [Ids -> SUBSET Parts]
  BY DEF WorkInv, Typed
<1>5. /\ pc' \in [Ids -> Places] /\ todo' \in [Ids -> SUBSET Parts]
      /\ todo'[m] = parts[m]
      /\ pc'[m] = IF parts[m] = {} THEN "heartbeat" ELSE "fetch"
  BY <1>3, <1>4 DEF Places
<1>6. Typed'
  BY <1>2, <1>3, <1>5 DEF WorkInv, Typed
<1>7. RoundOK(m)'
  BY <1>1, <1>3, <1>5 DEF WorkInv, RoundOK, InRound, Working
<1> QED BY <1>3, <1>4, <1>6, <1>7, OneConsumer

\* The partition a round goes on with is one of the consumer's, and it has a
\* position.
LEMMA NextPartition ==
  ASSUME WorkInv, NEW m \in Ids, pc[m] \in InRound
  PROVE  /\ Min(todo[m]) \in todo[m] /\ Min(todo[m]) \in parts[m]
         /\ Min(todo[m]) \in Parts /\ pos[m][Min(todo[m])] \in 0..MaxRecords
<1>1. todo[m] # {} /\ todo[m] \subseteq parts[m] /\ todo[m] \subseteq Parts
      /\ \A q \in parts[m] : pos[m][q] \in 0..MaxRecords
  BY DEF WorkInv, Typed, RoundOK, InRound, Working
<1>2. Min(todo[m]) \in todo[m]
  BY <1>1, Numbers, MinElement
<1> QED BY <1>1, <1>2

\* A partition is done with: the steps that end in Done.
LEMMA WorkDone ==
  ASSUME WorkInv, NEW m \in Ids, pc[m] \in InRound, Done(m, Min(todo[m])),
         stored' \in [Coordinators -> [Parts -> Offsets]], faults' \in 0..MaxFaults,
         UNCHANGED <<group, coord, hw, gen, parts, pos, history, failovers>>
  PROVE  WorkInv'
<1> DEFINE q == Min(todo[m])
<1>1. q \in todo[m]
  BY NextPartition
<1>2. /\ todo' = [todo EXCEPT ![m] = @ \ {q}]
      /\ pc' = [pc EXCEPT ![m] = IF todo[m] = {q} THEN "heartbeat" ELSE "fetch"]
  BY DEF Done, Goto
<1> HIDE DEF q
<1>3. pc \in [Ids -> Places] /\ todo \in [Ids -> SUBSET Parts]
  BY DEF WorkInv, Typed
<1>4. /\ pc' \in [Ids -> Places] /\ todo' \in [Ids -> SUBSET Parts]
      /\ todo'[m] = todo[m] \ {q}
      /\ pc'[m] = IF todo[m] = {q} THEN "heartbeat" ELSE "fetch"
  BY <1>2, <1>3 DEF Places
<1>5. Typed'
  BY <1>4 DEF WorkInv, Typed, history
<1>6. RoundOK(m)'
  <2>1. /\ todo[m] \subseteq parts[m]
        /\ \A x \in parts[m] : pos[m][x] \in 0..MaxRecords
    BY DEF WorkInv, RoundOK, InRound, Working
  <2>2. todo'[m] = {} <=> todo[m] = {q}
    BY <1>1, <1>4
  <2> QED BY <1>4, <2>1, <2>2 DEF RoundOK, InRound, Working
<1> QED BY <1>2, <1>3, <1>5, <1>6, OneConsumer

\* A response lies between the position and the high watermark.
LEMMA ResponseBound ==
  ASSUME WorkInv, NEW q \in Parts, NEW o \in 0..MaxRecords, NEW R \in Responses(q, o)
  PROVE  /\ Max(R) \in R /\ Max(R) + 1 \in 0..MaxRecords /\ Max(R) \in Nat /\ o <= Max(R)
         /\ R \subseteq Nat /\ (o..Max(R)) \ R \subseteq Nat
<1>1. hw[q] \in 0..MaxRecords /\ MaxRecords \in Nat
  BY Numbers DEF WorkInv, Typed
<1>2. R \subseteq o..(hw[q] - 1) /\ o \in R
  BY DEF Responses
<1>3. o \in Nat /\ hw[q] \in Nat /\ hw[q] <= MaxRecords
  BY <1>1
<1>4. Max(R) \in R /\ Max(R) \in o..(hw[q] - 1)
  BY <1>2, <1>3, ResponseMax
<1> QED BY <1>1, <1>2, <1>3, <1>4

\* A fetch that brings records.
LEMMA WorkFetch == ASSUME WorkInv, NEW m \in Ids, Fetch(m) PROVE WorkInv'
<1> DEFINE q == Min(todo[m])
<1>1. pc[m] = "fetch" /\ pc' = [pc EXCEPT ![m] = "commit"]
      /\ UNCHANGED <<group, coord, stored, hw, gen, parts, todo, start, faults, failovers>>
  BY DEF Fetch, Goto
<1>2. q \in todo[m] /\ q \in Parts /\ pos[m][q] \in 0..MaxRecords
  BY <1>1, NextPartition DEF InRound
<1>3. PICK R \in Responses(q, pos[m][q]) :
        /\ printed' = [printed EXCEPT ![q] = @ \cup R]
        /\ skipped' = [skipped EXCEPT ![q] = @ \cup ((pos[m][q]..Max(R)) \ R)]
        /\ pos' = [pos EXCEPT ![m][q] = Max(R) + 1]
  BY DEF Fetch
<1> HIDE DEF q
<1>4. /\ pc \in [Ids -> Places] /\ pos \in [Ids -> [Parts -> Offsets]]
      /\ printed \in [Parts -> SUBSET Nat] /\ skipped \in [Parts -> SUBSET Nat]
      /\ hw[q] \in 0..MaxRecords
  BY <1>2 DEF WorkInv, Typed
<1> DEFINE end == Max(R) + 1
           gap == (pos[m][q]..Max(R)) \ R
<1>5. end \in 0..MaxRecords /\ R \subseteq Nat /\ gap \subseteq Nat
  BY <1>2, <1>4, ResponseBound, Numbers
<1>5a. /\ pos' = [pos EXCEPT ![m][q] = end]
       /\ skipped' = [skipped EXCEPT ![q] = @ \cup gap]
  BY <1>3
<1> HIDE DEF end, gap
<1>6. pc' \in [Ids -> Places] /\ pc'[m] = "commit"
  BY <1>1, <1>4 DEF Places
<1>7. /\ pos' \in [Ids -> [Parts -> Offsets]]
      /\ pos'[m] = [pos[m] EXCEPT ![q] = end]
      /\ \A k \in Ids : k # m => pos'[k] = pos[k]
  BY <1>2, <1>5a, <1>4, <1>5, Numbers
<1>8. printed' \in [Parts -> SUBSET Nat] /\ skipped' \in [Parts -> SUBSET Nat]
  BY <1>2, <1>3, <1>5a, <1>4, <1>5
<1>9. Typed'
  BY <1>1, <1>6, <1>7, <1>8 DEF WorkInv, Typed
<1>10. RoundOK(m)'
  <2>1. /\ todo[m] \subseteq parts[m] /\ parts[m] \subseteq Parts
        /\ \A x \in parts[m] : pos[m][x] \in 0..MaxRecords
    BY <1>1 DEF WorkInv, Typed, RoundOK, Working
  <2>2. \A x \in parts[m] : pos'[m][x] \in 0..MaxRecords
    BY <1>4, <1>5, <1>7, <2>1
  <2> QED BY <1>1, <1>2, <1>6, <2>1, <2>2 DEF RoundOK, InRound, Working
<1> QED BY <1>1, <1>4, <1>7, <1>9, <1>10, OneConsumer

\* The other steps of a round.
LEMMA WorkRound ==
  ASSUME WorkInv, NEW m \in Ids, FetchNothing(m) \/ Commit(m) \/ CommitLost(m)
  PROVE  WorkInv'
<1> DEFINE q == Min(todo[m])
<1>1. pc[m] \in InRound /\ Done(m, q)
      /\ UNCHANGED <<group, coord, hw, gen, parts, pos, history, failovers>>
  BY DEF FetchNothing, Commit, CommitLost, InRound
<1>2. q \in Parts /\ pos[m][q] \in 0..MaxRecords
  BY <1>1, NextPartition
<1>3. /\ stored \in [Coordinators -> [Parts -> Offsets]] /\ coord \in Coordinators
      /\ faults \in 0..MaxFaults
  BY DEF WorkInv, Typed
<1>4. \/ UNCHANGED stored
      \/ stored' = [stored EXCEPT ![coord][q] = pos[m][q]]
  BY DEF FetchNothing, Commit, CommitLost, Committed
<1>5. faults' = faults \/ Fault
  BY DEF FetchNothing, Commit, CommitLost
<1>6. faults' \in 0..MaxFaults
  BY <1>3, <1>5, FaultTyped
<1>7. stored' \in [Coordinators -> [Parts -> Offsets]]
  <2> HIDE DEF q
  <2> QED BY <1>2, <1>3, <1>4, Numbers
<1> QED BY <1>1, <1>6, <1>7, WorkDone

\* The brokers' side leaves the consumers alone.
LEMMA WorkBrokers ==
  ASSUME WorkInv,
         \/ \E q \in Parts : Produce(q)
         \/ Expire \/ TimePasses
         \/ \E c \in Coordinators, unreadable \in BOOLEAN : Failover(c, unreadable)
  PROVE  /\ WorkInv' /\ UNCHANGED <<pc, parts, pos, todo, printed, skipped, start>>
         /\ \A c \in Coordinators : stored'[c] \in {stored[c], NoOffsets}
<1>1. group \in Groups /\ Consistent(group)
  BY DEF WorkInv, Typed
<1>2. ASSUME NEW q \in Parts, Produce(q)
      PROVE  WorkInv' /\ UNCHANGED <<stored, pc, parts, pos, todo, printed, skipped, start>>
  <2>1. /\ hw[q] < MaxRecords /\ hw' = [hw EXCEPT ![q] = @ + 1]
        /\ UNCHANGED <<group, coord, stored, pc, gen, parts, pos, todo, printed, skipped, start,
                       faults, failovers>>
    BY <1>2 DEF Produce, consumers, history
  <2>2. hw' \in [Parts -> 0..MaxRecords]
    BY <2>1, Numbers DEF WorkInv, Typed
  <2>3. Typed'
    BY <2>1, <2>2 DEF WorkInv, Typed
  <2> QED BY <2>1, <2>3, NoConsumer
<1>3. CASE Expire
  <2>1. /\ group' = Recycled(AfterExpire(group))
        /\ UNCHANGED <<coord, stored, hw, pc, gen, parts, pos, todo, printed, skipped, start,
                       faults, failovers>>
    BY <1>3 DEF Expire, consumers, history
  <2>2. AfterExpire(group) \in Groups /\ Consistent(AfterExpire(group))
    BY <1>1, ExpireFacts DEF Evolved
  <2>3. group' \in Groups /\ Consistent(group')
    BY <2>1, <2>2, RecycledFacts
  <2>4. Typed'
    BY <2>1, <2>3 DEF WorkInv, Typed
  <2> QED BY <2>1, <2>4, NoConsumer
<1>4. CASE TimePasses
  <2>1. /\ group' = Aged(group)
        /\ UNCHANGED <<coord, stored, hw, pc, gen, parts, pos, todo, printed, skipped, start,
                       faults, failovers>>
    BY <1>4 DEF TimePasses, consumers, history
  <2>2. group' \in Groups /\ Consistent(group')
    BY <1>1, <2>1, AgedFacts DEF Evolved
  <2>3. Typed'
    BY <2>1, <2>2 DEF WorkInv, Typed
  <2> QED BY <2>1, <2>3, NoConsumer
<1>5. ASSUME NEW c \in Coordinators, NEW unreadable \in BOOLEAN, Failover(c, unreadable)
      PROVE  /\ WorkInv' /\ UNCHANGED <<pc, parts, pos, todo, printed, skipped, start>>
             /\ \A d \in Coordinators : stored'[d] \in {stored[d], NoOffsets}
  <2>1. /\ failovers < MaxFailovers /\ failovers' = failovers + 1
        /\ coord' = c /\ group' = EmptyGroup
        /\ stored' = [stored EXCEPT ![c] = Loaded(c, unreadable)]
        /\ UNCHANGED <<hw, pc, gen, parts, pos, todo, printed, skipped, start, faults>>
    BY <1>5 DEF Failover, consumers, history
  <2>2. stored \in [Coordinators -> [Parts -> Offsets]]
    BY DEF WorkInv, Typed
  <2>3. Loaded(c, unreadable) \in {stored[c], NoOffsets}
    BY DEF Loaded
  <2>4. stored' \in [Coordinators -> [Parts -> Offsets]]
        /\ \A d \in Coordinators : stored'[d] \in {stored[d], NoOffsets}
    BY <2>1, <2>2, <2>3, Numbers
  <2>5. failovers' \in 0..MaxFailovers
    BY <2>1, Numbers DEF WorkInv, Typed
  <2>6. Typed'
    BY <2>1, <2>4, <2>5, EmptyGroupFacts DEF WorkInv, Typed
  <2> QED BY <2>1, <2>4, <2>6, NoConsumer
<1> QED BY <1>2, <1>3, <1>4, <1>5

\* Every step keeps the types and every consumer within its round.
LEMMA WorkNext == ASSUME WorkInv, [Next]_vars PROVE WorkInv'
<1>1. ASSUME NEW m \in Ids, Step(m) \/ Exit(m) PROVE WorkInv'
  BY <1>1, WorkJoin, WorkSync, WorkBack, WorkFetchOffsets, WorkHeartbeat, WorkFetch,
     WorkRound DEF Step
<1>2. CASE \/ \E q \in Parts : Produce(q)
           \/ Expire \/ TimePasses
           \/ \E c \in Coordinators, unreadable \in BOOLEAN : Failover(c, unreadable)
  BY <1>2, WorkBrokers
<1>3. CASE UNCHANGED vars
  BY <1>3 DEF vars, WorkInv, Typed, RoundOK
<1> QED BY <1>1, <1>2, <1>3 DEF Next

\* WorkInv holds in every reachable state.
LEMMA WorkInductive == Spec => []WorkInv
<1>1. Init => WorkInv
  BY WorkInit
<1>2. WorkInv /\ [Next]_vars => WorkInv'
  BY WorkNext
<1> QED BY <1>1, <1>2, PTL DEF Spec

\* Every variable keeps its type, and a consumer fetches only from partitions it
\* was assigned and for which it has a position.
THEOREM ConsumerTypes == Spec => []TypeOK
<1>1. WorkInv => TypeOK
  BY DEF WorkInv, Typed, RoundOK, TypeOK, Places, Offsets, Working
<1> QED BY <1>1, WorkInductive, PTL

-----------------------------------------------------------------------------
(* OnceInv *)

\* Steps that print nothing and give nobody a new position.
LEMMA CoverSame ==
  ASSUME OnceInv, UNCHANGED <<printed, skipped, start>>,
         \A k \in Ids : pc'[k] \in Working =>
           pc[k] \in Working /\ parts'[k] = parts[k] /\ pos'[k] = pos[k],
         \A c \in Coordinators, q \in Parts :
           stored'[c][q] \in {stored[c][q], None} \/ Covered(q, stored'[c][q])
  PROVE  PositionsCovered' /\ StoredCovered' /\ FromZero'
<1>1. PositionsCovered'
  BY DEF OnceInv, PositionsCovered, Covered
<1>2. StoredCovered'
  BY DEF OnceInv, StoredCovered, Covered
<1>3. FromZero'
  BY DEF OnceInv, FromZero
<1> QED BY <1>1, <1>2, <1>3

\* The consumer's steps outside its rounds, FetchOffsets aside.
LEMMA OnceOutside ==
  ASSUME OnceInv, NEW m \in Ids,
         \/ Join(m) \/ JoinFails(m) \/ Sync(m) \/ SyncFails(m) \/ HeartbeatFails(m)
         \/ Exit(m) \/ Heartbeat(m)
  PROVE  PositionsCovered' /\ StoredCovered' /\ FromZero'
<1>1. /\ pc \in [Ids -> Places] /\ parts \in [Ids -> SUBSET Parts]
      /\ pos \in [Ids -> [Parts -> Offsets]]
  BY DEF OnceInv, WorkInv, Typed
<1>2. UNCHANGED <<printed, skipped, start, stored>>
  BY DEF Join, JoinFails, Sync, SyncFails, HeartbeatFails, Exit, Heartbeat, history
<1>3. \A k \in Ids : pc'[k] \in Working =>
        pc[k] \in Working /\ parts'[k] = parts[k] /\ pos'[k] = pos[k]
  <2>1. CASE Join(m)
    BY <1>1, <2>1 DEF Join, Goto, Working
  <2>2. CASE Sync(m)
    BY <1>1, <2>2 DEF Sync, Goto, Working
  <2>3. CASE \E p \in {"join", "exit"} : Restart(m, p)
    BY <1>1, <2>3 DEF Restart, Goto, Working
  <2>4. CASE Heartbeat(m)
    BY <1>1, <2>4 DEF Heartbeat, Goto, Working
  <2> QED BY <2>1, <2>2, <2>3, <2>4 DEF JoinFails, SyncFails, HeartbeatFails, Exit
<1> QED BY <1>2, <1>3, CoverSame

\* The round's steps that print nothing; what Commit stores is a position.
LEMMA OnceRound ==
  ASSUME OnceInv, NEW m \in Ids, FetchNothing(m) \/ Commit(m) \/ CommitLost(m)
  PROVE  PositionsCovered' /\ StoredCovered' /\ FromZero'
<1> DEFINE q == Min(todo[m])
<1>1. /\ pc[m] \in InRound /\ Done(m, q) /\ UNCHANGED <<parts, pos, printed, skipped, start>>
  BY DEF FetchNothing, Commit, CommitLost, InRound, history
<1>2. q \in parts[m] /\ q \in Parts /\ pos[m][q] \in 0..MaxRecords
  BY <1>1, NextPartition DEF OnceInv
<1>3. /\ stored \in [Coordinators -> [Parts -> Offsets]] /\ coord \in Coordinators
      /\ pc \in [Ids -> Places]
  BY DEF OnceInv, WorkInv, Typed
<1>4. \/ UNCHANGED stored
      \/ stored' = [stored EXCEPT ![coord][q] = pos[m][q]]
  BY DEF FetchNothing, Commit, CommitLost, Committed
<1>5. Covered(q, pos[m][q])
  BY <1>1, <1>2 DEF OnceInv, PositionsCovered, InRound, Working
<1>6. pc' = [pc EXCEPT ![m] = IF todo[m] = {q} THEN "heartbeat" ELSE "fetch"]
  BY <1>1 DEF Done, Goto
<1> HIDE DEF q
<1>7. \A k \in Ids : pc'[k] \in Working =>
        pc[k] \in Working /\ parts'[k] = parts[k] /\ pos'[k] = pos[k]
  BY <1>1, <1>3, <1>6 DEF Working, InRound
<1>8. ASSUME NEW c \in Coordinators, NEW x \in Parts
      PROVE  stored'[c][x] \in {stored[c][x], None} \/ Covered(x, stored'[c][x])
  <2>1. stored'[c][x] = stored[c][x] \/ (x = q /\ stored'[c][x] = pos[m][q])
    BY <1>2, <1>3, <1>4
  <2> QED BY <1>5, <2>1
<1> QED BY <1>1, <1>7, <1>8, CoverSame

\* FetchOffsets: the consumer is told a committed offset, which is covered, or
\* begins at 0, from where the group began.
LEMMA OnceFetchOffsets ==
  ASSUME FromBeginning, OnceInv, NEW m \in Ids, FetchOffsets(m)
  PROVE  PositionsCovered' /\ StoredCovered' /\ FromZero'
<1>1. PICK failed \in BOOLEAN, p \in [Parts -> None..MaxRecords] :
        /\ \A q \in Parts : IF q \in parts[m] THEN p[q] \in Starts(q, Told(failed))
                            ELSE p[q] = None
        /\ pos' = [pos EXCEPT ![m] = p]
        /\ start' = [q \in Parts |-> IF start[q] = None THEN p[q] ELSE start[q]]
  BY DEF FetchOffsets
<1>2. /\ pc' = [pc EXCEPT ![m] = "heartbeat"] /\ UNCHANGED <<stored, parts, printed, skipped>>
  BY DEF FetchOffsets, Goto
<1>3. /\ pc \in [Ids -> Places] /\ pos \in [Ids -> [Parts -> Offsets]]
      /\ start \in [Parts -> Offsets] /\ parts \in [Ids -> SUBSET Parts]
      /\ coord \in Coordinators
  BY DEF OnceInv, WorkInv, Typed
<1>4. \A q \in Parts : start'[q] = IF start[q] = None THEN p[q] ELSE start[q]
  BY <1>1
<1>5. \A q \in Parts : \A e \in Offsets : Covered(q, e) => Covered(q, e)'
  BY <1>2, <1>4 DEF Covered
<1>6. ASSUME NEW q \in Parts, q \in parts[m]
      PROVE  \/ p[q] = 0
             \/ p[q] = stored[coord][q] /\ stored[coord][q] # None
  <2>1. p[q] \in Starts(q, Told(failed))
    BY <1>1, <1>6
  <2>2. Told(failed)[q] = None \/ Told(failed)[q] = stored[coord][q]
    BY DEF Told, NoOffsets
  <2> QED BY <2>1, <2>2 DEF Starts
<1>7. FromZero'
  <2>1. ASSUME NEW q \in Parts PROVE start'[q] \in {None, 0}
    <3>1. CASE start[q] # None
      BY <1>4, <3>1 DEF OnceInv, FromZero
    <3>2. CASE start[q] = None
      <4>1. stored[coord][q] = None
        BY <1>3, <3>2 DEF OnceInv, StoredCovered, Covered
      <4> QED BY <1>1, <1>4, <1>6, <3>2, <4>1
    <3> QED BY <3>1, <3>2
  <2> QED BY <2>1 DEF FromZero
<1>8. StoredCovered'
  <2>1. \A c \in Coordinators, q \in Parts : stored[c][q] \in Offsets
    BY DEF OnceInv, WorkInv, Typed
  <2> QED BY <1>2, <1>5, <2>1 DEF OnceInv, StoredCovered
<1>9. PositionsCovered'
  <2> SUFFICES ASSUME NEW k \in Ids, pc'[k] \in Working, NEW q \in parts'[k]
               PROVE  Covered(q, pos[k][q])'
    BY DEF PositionsCovered
  <2>1. q \in Parts /\ q \in parts[k]
    BY <1>2, <1>3
  <2>2. CASE k # m
    <3>1. pc[k] \in Working /\ pos'[k] = pos[k] /\ pos[k][q] \in Offsets
      BY <1>1, <1>2, <1>3, <2>1, <2>2
    <3>2. Covered(q, pos[k][q])
      BY <2>1, <3>1 DEF OnceInv, PositionsCovered
    <3>3. start'[q] = start[q]
      BY <1>4, <2>1, <3>2 DEF Covered
    <3> QED BY <1>2, <3>1, <3>2, <3>3 DEF Covered
  <2>3. CASE k = m
    <3>1. pos'[m] = p
      BY <1>1, <1>3
    <3>2. CASE p[q] = 0
      <4>1. start'[q] = 0
        BY <1>4, <1>7, <2>1, <3>2 DEF FromZero, None
      <4> QED BY <2>3, <3>1, <3>2, <4>1 DEF Covered, None
    <3>3. CASE p[q] = stored[coord][q] /\ stored[coord][q] # None
      <4>1. Covered(q, p[q])
        BY <1>3, <2>1, <3>3 DEF OnceInv, StoredCovered
      <4>2. start'[q] = start[q]
        BY <1>4, <2>1, <4>1 DEF Covered
      <4> QED BY <1>2, <2>3, <3>1, <4>1, <4>2 DEF Covered
    <3> QED BY <1>6, <2>1, <2>3, <3>2, <3>3
  <2> QED BY <2>2, <2>3
<1> QED BY <1>7, <1>8, <1>9

\* Fetch: what the position moves past is printed or was left out.
LEMMA OnceFetch ==
  ASSUME OnceInv, NEW m \in Ids, Fetch(m)
  PROVE  PositionsCovered' /\ StoredCovered' /\ FromZero'
<1>0. PICK q : q = Min(todo[m])
  OBVIOUS
<1>1. pc[m] = "fetch" /\ pc' = [pc EXCEPT ![m] = "commit"]
      /\ UNCHANGED <<stored, parts, start>>
  BY DEF Fetch, Goto
<1>2. q \in parts[m] /\ q \in Parts /\ pos[m][q] \in 0..MaxRecords
  BY <1>0, <1>1, NextPartition DEF OnceInv, InRound
<1>3. PICK R \in Responses(q, pos[m][q]) :
        /\ printed' = [printed EXCEPT ![q] = @ \cup R]
        /\ skipped' = [skipped EXCEPT ![q] = @ \cup ((pos[m][q]..Max(R)) \ R)]
        /\ pos' = [pos EXCEPT ![m][q] = Max(R) + 1]
  BY <1>0 DEF Fetch
<1>4. /\ pc \in [Ids -> Places] /\ pos \in [Ids -> [Parts -> Offsets]]
      /\ printed \in [Parts -> SUBSET Nat] /\ skipped \in [Parts -> SUBSET Nat]
      /\ start \in [Parts -> Offsets] /\ parts \in [Ids -> SUBSET Parts]
  BY <1>2 DEF OnceInv, WorkInv, Typed
<1>4a. PICK top : top = Max(R)
  OBVIOUS
<1>4b. top \in Nat /\ top + 1 \in 0..MaxRecords
  BY <1>2, <1>4a, ResponseBound DEF OnceInv
<1> DEFINE end == top + 1
<1>5. \A x \in Parts : printed[x] \subseteq printed'[x] /\ skipped[x] \subseteq skipped'[x]
  BY <1>2, <1>3, <1>4
<1>5a. pos' = [pos EXCEPT ![m][q] = end]
  BY <1>3, <1>4a
<1>6. \A x \in Parts : \A e : Covered(x, e) => Covered(x, e)'
  BY <1>1, <1>5 DEF Covered
<1>7. StoredCovered' /\ FromZero'
  BY <1>1, <1>6 DEF OnceInv, StoredCovered, FromZero
<1>8. Covered(q, end)'
  <2>1. Covered(q, pos[m][q])
    BY <1>1, <1>2 DEF OnceInv, PositionsCovered, Working
  <2>2. start[q] \in Int /\ top \in Int /\ pos[m][q] \in Int
    <3>1. MaxRecords \in Nat /\ start[q] \in Offsets
      BY <1>2, <1>4, Numbers
    <3> QED BY <1>2, <1>4b, <3>1 DEF Offsets, None
  <2>3. /\ printed'[q] = printed[q] \cup R
        /\ skipped'[q] = skipped[q] \cup ((pos[m][q]..top) \ R)
    BY <1>2, <1>3, <1>4, <1>4a
  <2>4. ASSUME NEW o \in start[q]..top PROVE o \in printed'[q] \cup skipped'[q]
    <3>1. CASE o < pos[m][q]
      <4>1. o \in start[q]..(pos[m][q] - 1)
        BY <2>2, <3>1
      <4> QED BY <2>1, <2>3, <4>1 DEF Covered
    <3>2. CASE ~(o < pos[m][q])
      <4>1. o \in pos[m][q]..top
        BY <2>2, <3>2
      <4> QED BY <2>3, <4>1
    <3> QED BY <3>1, <3>2
  <2>5. start'[q]..(end - 1) = start[q]..top
    BY <1>1, <2>2
  <2> HIDE DEF end
  <2> QED BY <1>1, <2>1, <2>4, <2>5 DEF Covered
<1> HIDE DEF end
<1>9. PositionsCovered'
  <2> SUFFICES ASSUME NEW k \in Ids, pc'[k] \in Working, NEW x \in parts'[k]
               PROVE  Covered(x, pos[k][x])'
    BY DEF PositionsCovered
  <2>1. x \in Parts /\ x \in parts[k] /\ pc[k] \in Working
    BY <1>1, <1>4 DEF Working
  <2>2. Covered(x, pos[k][x])
    BY <2>1 DEF OnceInv, PositionsCovered
  <2>3. pos'[k][x] = IF k = m /\ x = q THEN end ELSE pos[k][x]
    BY <1>2, <1>5a, <1>4, <2>1
  <2>4. CASE k = m /\ x = q
    BY <1>8, <2>3, <2>4 DEF Covered
  <2>5. CASE ~(k = m /\ x = q)
    BY <1>1, <1>5, <2>1, <2>2, <2>3, <2>5 DEF Covered
  <2> QED BY <2>4, <2>5
<1> QED BY <1>7, <1>9

\* OnceInv holds in every reachable state, with --from-beginning.
LEMMA OnceInductive ==
  ASSUME FromBeginning
  PROVE  Spec => []OnceInv
<1>1. ASSUME Init PROVE OnceInv
  <2>1. WorkInv
    BY <1>1, WorkInit
  <2>2. PositionsCovered /\ StoredCovered /\ FromZero
    BY <1>1 DEF Init, PositionsCovered, StoredCovered, FromZero, NoOffsets, Working
  <2> QED BY <2>1, <2>2 DEF OnceInv
<1>2. ASSUME OnceInv, [Next]_vars PROVE OnceInv'
  <2>1. WorkInv'
    BY <1>2, WorkNext DEF OnceInv
  <2>2. ASSUME NEW m \in Ids, Step(m) \/ Exit(m)
        PROVE  PositionsCovered' /\ StoredCovered' /\ FromZero'
    BY <1>2, <2>2, OnceOutside, OnceRound, OnceFetchOffsets, OnceFetch DEF Step
  <2>3. CASE \/ \E q \in Parts : Produce(q)
             \/ Expire \/ TimePasses
             \/ \E c \in Coordinators, unreadable \in BOOLEAN : Failover(c, unreadable)
    <3>1. /\ UNCHANGED <<pc, parts, pos, todo, printed, skipped, start>>
          /\ \A c \in Coordinators : stored'[c] \in {stored[c], NoOffsets}
      BY <1>2, <2>3, WorkBrokers DEF OnceInv
    <3>2. \A c \in Coordinators, q \in Parts : stored'[c][q] \in {stored[c][q], None}
      BY <3>1 DEF NoOffsets
    <3>3. PositionsCovered' /\ StoredCovered' /\ FromZero'
      BY <1>2, <3>1, <3>2, CoverSame
    <3> QED BY <2>1, <3>3 DEF OnceInv
  <2>4. CASE UNCHANGED vars
    <3>1. UNCHANGED <<pc, parts, pos, stored, printed, skipped, start>>
      BY <2>4 DEF vars
    <3>2. PositionsCovered' /\ StoredCovered' /\ FromZero'
      BY <1>2, <3>1, CoverSame
    <3> QED BY <2>1, <3>2 DEF OnceInv
  <2> QED BY <1>2, <2>1, <2>2, <2>3, <2>4 DEF Next, OnceInv
<1>3. Init => OnceInv
  BY <1>1
<1>4. OnceInv /\ [Next]_vars => OnceInv'
  BY <1>2
<1> QED BY <1>3, <1>4, PTL DEF Spec

\* With --from-beginning, no coordinator ever holds an offset past a record that
\* nobody has printed, but for those that a fetch response left out: late, lost
\* and stale commits, rebalances, failovers and unreadable offset files only ever
\* make consumers print again.
THEOREM ConsumedAtLeastOnce ==
  ASSUME FromBeginning
  PROVE  Spec => []AtLeastOnce
<1>1. ASSUME OnceInv PROVE AtLeastOnce
  <2>1. ASSUME NEW c \in Coordinators, NEW q \in Parts,
               NEW o \in start[q]..(stored[c][q] - 1)
        PROVE  o \in printed[q] \cup skipped[q]
    <3>1. CASE stored[c][q] # None
      BY <1>1, <3>1 DEF OnceInv, StoredCovered, Covered
    <3>2. CASE stored[c][q] = None
      <4>1. start[q] \in Offsets /\ MaxRecords \in Nat
        BY <1>1, Numbers DEF OnceInv, WorkInv, Typed
      <4> QED BY <3>2, <4>1 DEF Offsets, None
    <3> QED BY <3>1, <3>2
  <2> QED BY <2>1 DEF AtLeastOnce
<1>2. OnceInv => AtLeastOnce
  BY <1>1
<1> QED BY <1>2, OnceInductive, PTL
=============================================================================

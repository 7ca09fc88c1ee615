------------------------- MODULE ReplicationProofs -------------------------
(***************************************************************************)
(* Theorems about Replication, for every set of brokers, replica list and  *)
(* bound.  IndInv is inductive; the safety invariants of the module are    *)
(* its conjuncts, and CommitCovered follows from it step by step.          *)
(***************************************************************************)
EXTENDS Replication, WellFoundedInduction, SequenceTheorems, TLAPS

-----------------------------------------------------------------------------
(* The decisions of PartitionMeta, for every replica list and every view of *)
(* the live brokers                                                         *)

Less == {ss \in Nat \X Nat : ss[1] < ss[2]}

\* Strict order on the naturals is well founded.
LEMMA LessWellFounded == IsWellFoundedOn(Less, Nat)
  BY NatLessThanWellFounded, Zenon DEF OpToRel, Less

\* A non-empty set of naturals has a least element, which firstAlive and the
\* minimum of recomputeHW rely on.
LEMMA LeastNat ==
  ASSUME NEW T, T \subseteq Nat, T # {}
  PROVE  \E x \in T : \A y \in T : x <= y
<1>1. PICK x \in T : \A y \in T : ~(<<y, x>> \in Less)
  BY LessWellFounded, WFMin, Zenon
<1>2. \A u \in Nat, v \in Nat : u < v => <<u, v>> \in Less
  BY DEF Less
<1>3. \A y \in T : x <= y
  <2>1. TAKE y \in T
  <2>2. x \in Nat /\ y \in Nat
    OBVIOUS
  <2>3. ~(y < x)
    BY <1>1, <1>2, <2>2, Zenon
  <2> QED BY <2>2, <2>3
<1> QED BY <1>3

\* The domain of the replica list is a set of naturals that contains 1.
LEMMA ReplicasDomain ==
  /\ DOMAIN Replicas \subseteq Nat
  /\ 1 \in DOMAIN Replicas
  /\ Replicas[1] \in ReplicaSet
  /\ ReplicaSet \subseteq Brokers
<1>1. Replicas \in Seq(Brokers) /\ Replicas # <<>>
  BY ReplicasAssumption
<1>2. DOMAIN Replicas = 1..Len(Replicas) /\ Len(Replicas) \in Nat /\ Len(Replicas) # 0
  BY <1>1
<1>3. \A i \in DOMAIN Replicas : Replicas[i] \in Brokers
  BY <1>1, <1>2
<1> QED BY <1>2, <1>3 DEF ReplicaSet

\* firstAlive returns a replica, and a live one whenever there is one.
LEMMA FirstAliveIsReplica ==
  ASSUME NEW A
  PROVE  /\ FirstAlive(A) \in ReplicaSet
         /\ ReplicaSet \cap A # {} => FirstAlive(A) \in A
<1> DEFINE live == {i \in DOMAIN Replicas : Replicas[i] \in A}
<1>1. CASE live = {}
  <2>1. ~ \E i \in DOMAIN Replicas : Replicas[i] \in A
    BY <1>1
  <2>2. FirstAlive(A) = Replicas[1]
    BY <2>1 DEF FirstAlive
  <2> QED BY <2>1, <2>2, ReplicasDomain DEF ReplicaSet
<1>2. CASE live # {}
  <2>1. live \subseteq Nat
    BY ReplicasDomain
  <2>2. PICK i \in live : \A j \in live : i <= j
    BY <1>2, <2>1, LeastNat
  <2>3. i \in DOMAIN Replicas /\ IsFirst(i, A)
    BY <2>2 DEF IsFirst
  <2>4. \E k \in DOMAIN Replicas : Replicas[k] \in A
    BY <2>2
  <2>5. LET c == CHOOSE k \in DOMAIN Replicas : IsFirst(k, A)
        IN  c \in DOMAIN Replicas /\ IsFirst(c, A) /\ FirstAlive(A) = Replicas[c]
    BY <2>3, <2>4, Zenon DEF FirstAlive
  <2> QED BY <2>5 DEF IsFirst, ReplicaSet
<1> QED BY <1>1, <1>2

\* controllerTick keeps the metadata well formed, and leaves no dead broker in
\* the ISR and no dead leader unless every replica is dead.
THEOREM ControllerFixSound ==
  ASSUME NEW m \in Metas, NEW A
  PROVE  /\ ControllerFix(m, A) \in Metas
         /\ ReplicaSet \cap A # {} =>
              /\ ControllerFix(m, A).leader \in A
              /\ ControllerFix(m, A).isr \subseteq A
<1> DEFINE isr == ISRAfterElection(m, A)
           leader == IF Replicas[1] \in A /\ Replicas[1] \in isr
                     THEN Replicas[1] ELSE Elected(m, A)
           fix == [leader |-> leader, isr |-> IF isr = {} THEN {leader} ELSE isr]
<1>0. ControllerFix(m, A) = fix
  BY DEF ControllerFix
<1>1. /\ Elected(m, A) \in ReplicaSet
      /\ ReplicaSet \cap A # {} => Elected(m, A) \in A
  BY FirstAliveIsReplica DEF Elected, Metas
<1>2. /\ leader \in ReplicaSet
      /\ ReplicaSet \cap A # {} => leader \in A
  BY <1>1, ReplicasDomain
<1>3. /\ isr \subseteq ReplicaSet
      /\ ReplicaSet \cap A # {} => isr \subseteq A
  BY <1>1 DEF ISRAfterElection, Metas
<1> HIDE DEF isr, leader
<1>4. fix.leader = leader /\ fix.isr = (IF isr = {} THEN {leader} ELSE isr)
  OBVIOUS
<1>5. fix \in Metas
  BY <1>2, <1>3 DEF Metas
<1> QED BY <1>0, <1>2, <1>3, <1>4, <1>5

\* applyTopics keeps the metadata well formed.
THEOREM ApplyPushSound ==
  ASSUME NEW l \in Metas, NEW in \in Metas, NEW self, NEW A
  PROVE  ApplyPush(l, in, self, A) \in Metas
<1>1. CASE l.leader = self /\ in.leader = self
  BY <1>1 DEF ApplyPush
<1>2. CASE ~(l.leader = self /\ in.leader = self)
  <2> DEFINE leader == IF IsController(self, A) /\ in.leader \notin A
                       THEN l.leader ELSE in.leader
             isr == in.isr \cap (A \cup {self})
  <2>1. ApplyPush(l, in, self, A)
          = [leader |-> leader, isr |-> IF isr = {} THEN {leader} ELSE isr]
    BY <1>2 DEF ApplyPush
  <2>2. leader \in ReplicaSet /\ isr \subseteq ReplicaSet
    BY DEF Metas
  <2> HIDE DEF leader, isr
  <2> QED BY <2>1, <2>2 DEF Metas
<1> QED BY <1>1, <1>2

\* The high watermark recomputeHW offers is one of the ISR's log ends and no
\* larger than any of them.
THEOREM ComputeHWIsMin ==
  ASSUME NEW self, NEW leo \in Nat, NEW acked, NEW isr,
         \A r \in isr \ {self} : acked[r] \in Nat
  PROVE  /\ ComputeHW(self, leo, acked, isr) \in Nat
         /\ ComputeHW(self, leo, acked, isr) <= leo
         /\ \A r \in isr \ {self} : ComputeHW(self, leo, acked, isr) <= acked[r]
<1> DEFINE S == ISRLEOs(self, leo, acked, isr)
<1>1. S \subseteq Nat /\ leo \in S /\ \A r \in isr \ {self} : acked[r] \in S
  BY DEF ISRLEOs
<1>2. \E h \in S : \A x \in S : h <= x
  BY <1>1, LeastNat
<1>3. LET h == ComputeHW(self, leo, acked, isr)
      IN  h \in S /\ \A x \in S : h <= x
  BY <1>2, Zenon DEF ComputeHW
<1> QED BY <1>1, <1>3

-----------------------------------------------------------------------------
(* Watermarks and the parts of a step *)

USE DEF NoAck, Offsets, Records

\* SetHighWatermark stays within the log, never lowers the watermark, and
\* raises it at most to what is offered.
LEMMA SetHWFacts ==
  ASSUME NEW cur \in Nat, NEW h \in Nat, NEW leo \in Nat, cur <= leo
  PROVE  LET s == SetHighWatermark(cur, h, leo)
         IN  s \in Nat /\ cur <= s /\ s <= leo /\ (s > cur => s <= h)
  BY DEF SetHighWatermark

\* recomputeHW keeps the metadata well formed and the watermark within the
\* log, and raises it only to an offset every other ISR member acknowledged.
LEMMA RecomputeFacts ==
  ASSUME TypeOK, NEW b \in Brokers, NEW m \in Metas,
         NEW leo \in Nat, hw[b] <= leo,
         NEW acked \in [Brokers -> Offsets \cup {NoAck}]
  PROVE  LET m2 == RecomputedMeta(b, m, acked)
             h  == RecomputedHW(b, m, leo, acked)
         IN  /\ m2 \in Metas /\ m2.leader = m.leader
             /\ h \in Nat /\ hw[b] <= h /\ h <= leo
             /\ h > hw[b] => m.leader = b /\ \A r \in m2.isr \ {b} : h <= acked[r]
<1>1. hw[b] \in Nat /\ MaxRecords \in Nat
  BY BoundsAssumption DEF TypeOK
<1>2. CASE m.leader # b
  BY <1>1, <1>2 DEF RecomputedMeta, RecomputedHW
<1>3. CASE m.leader = b
  <2> DEFINE isr == ComputeISR(b, alive[b], acked)
             c   == ComputeHW(b, leo, acked, isr)
  <2>1. b \in ReplicaSet
    BY <1>3 DEF Metas
  <2>2. isr \subseteq ReplicaSet /\ isr # {}
    BY <2>1 DEF ComputeISR
  <2>3. \A r \in isr \ {b} : acked[r] \in Nat
    BY <1>1, ReplicasDomain DEF ComputeISR
  <2> HIDE DEF isr
  <2>4. c \in Nat /\ c <= leo /\ \A r \in isr \ {b} : c <= acked[r]
    BY <2>3, ComputeHWIsMin
  <2>5. RecomputedMeta(b, m, acked) = [m EXCEPT !.isr = isr]
    BY <1>3 DEF RecomputedMeta, isr
  <2>6. RecomputedHW(b, m, leo, acked) = SetHighWatermark(hw[b], c, leo)
    BY <1>3 DEF RecomputedHW, isr
  <2>7. [m EXCEPT !.isr = isr] \in Metas /\ [m EXCEPT !.isr = isr].leader = m.leader
        /\ [m EXCEPT !.isr = isr].isr = isr
    BY <2>2 DEF Metas
  <2> HIDE DEF c
  <2>8. LET s == SetHighWatermark(hw[b], c, leo)
        IN  s \in Nat /\ hw[b] <= s /\ s <= leo /\ (s > hw[b] => s <= c)
    BY <1>1, <2>4, SetHWFacts
  <2> DEFINE h == RecomputedHW(b, m, leo, acked)
             m2 == RecomputedMeta(b, m, acked)
  <2>9. m2 \in Metas /\ m2.leader = m.leader /\ m2.isr = isr
    BY <2>5, <2>7
  <2>10. h \in Nat /\ hw[b] <= h /\ h <= leo /\ (h > hw[b] => h <= c)
    BY <2>6, <2>8
  <2> HIDE DEF h, m2
  <2>11. h > hw[b] => \A r \in m2.isr \ {b} : h <= acked[r]
    <3> SUFFICES ASSUME h > hw[b], NEW r \in isr \ {b} PROVE h <= acked[r]
      BY <2>9
    <3>1. h <= c /\ c <= acked[r] /\ acked[r] \in Nat /\ c \in Nat /\ h \in Nat
      BY <2>3, <2>4, <2>10
    <3> QED BY <3>1
  <2> QED BY <1>3, <2>9, <2>10, <2>11 DEF h, m2
<1> QED BY <1>2, <1>3
-----------------------------------------------------------------------------
(* The parts of IndInv about logs, acks and watermarks *)

DataInv ==
  /\ LogsProduced /\ FetchCopies /\ OffsetIdentity
  /\ AckedLEOReal /\ HWWithinLog /\ CallsCovered

\* A step that leaves the data alone keeps what is said about it.
LEMMA DataFrame ==
  ASSUME DataInv, UNCHANGED <<log, fetch, acks, replicaLEO, hw, produced, calls>>
  PROVE  DataInv'
  BY DEF DataInv, LogsProduced, FetchCopies, OffsetIdentity, AckedLEOReal,
         HWWithinLog, CallsCovered, LEO

\* Facts about the types that the arithmetic of the steps needs.
LEMMA TypeFacts ==
  ASSUME TypeOK
  PROVE  /\ MaxRecords \in Nat
         /\ \A b \in Brokers : /\ LEO(b) \in Nat /\ LEO(b) <= MaxRecords
                               /\ hw[b] \in Nat /\ hw[b] <= MaxRecords
                               /\ meta[b] \in Metas
                               /\ replicaLEO[b] \in [Brokers -> Offsets \cup {NoAck}]
  BY BoundsAssumption DEF TypeOK, LEO

\* Appending one record to the log of b grows that log by one and leaves every
\* record that was there in place.
LEMMA AppendFacts ==
  ASSUME TypeOK, NEW b \in Brokers, NEW v \in Records,
         log' = [log EXCEPT ![b] = Append(@, v)]
  PROVE  /\ log' \in [Brokers -> Seq(Records)]
         /\ LEO(b)' = LEO(b) + 1
         /\ log'[b][LEO(b) + 1] = v
         /\ \A c \in Brokers : /\ c # b => LEO(c)' = LEO(c)
                               /\ LEO(c) <= LEO(c)' /\ LEO(c)' \in Nat
                               /\ \A i \in 1..LEO(c) : log'[c][i] = log[c][i]
<1>1. log \in [Brokers -> Seq(Records)]
  BY DEF TypeOK
<1>2. log'[b] = Append(log[b], v) /\ \A c \in Brokers : c # b => log'[c] = log[c]
  BY <1>1
<1>3. log[b] \in Seq(Records)
  BY <1>1
<1>4. /\ Append(log[b], v) \in Seq(Records)
      /\ Len(Append(log[b], v)) = Len(log[b]) + 1
      /\ Append(log[b], v)[Len(log[b]) + 1] = v
      /\ \A i \in 1..Len(log[b]) : Append(log[b], v)[i] = log[b][i]
  BY <1>3
<1>5. \A c \in Brokers : Len(log[c]) \in Nat
  BY <1>1
<1> QED BY <1>1, <1>2, <1>4, <1>5 DEF LEO
-----------------------------------------------------------------------------
(* Calls of recomputeHW, run through or interrupted *)

Callers == {"tick", "ack", "solo", "wait"}

\* What a call does at b, for a caller with metadata m, a log of length leo and
\* the acks acked: m2 is b's metadata and h its high watermark after the step.
CallEffect(b, m, leo, acked, m2, h) ==
  /\ m2 \in Metas /\ m2.leader = m.leader
  /\ h \in Nat /\ hw[b] <= h /\ h <= leo
  /\ meta' = [meta EXCEPT ![b] = m2]
  /\ hw' = [hw EXCEPT ![b] = h]
  /\ bcast' \in [Brokers -> BOOLEAN]
  /\ waiting' \subseteq Waiters
  /\ calls \subseteq calls' /\ calls' \subseteq Calls
  /\ \A c \in calls' : c.step \in {"lock", "set"} => c.broker \in ReplicaSet
  /\ \A c \in calls' : c \in calls \/ c.step \notin {"set", "soloset"}
  /\ h > hw[b] => \A r \in m2.isr \ {b} : h <= acked[r]

\* A call that runs through.
LEMMA RecomputeEffect ==
  ASSUME TypeOK, NEW b \in Brokers, NEW m \in Metas,
         NEW leo \in Nat, hw[b] <= leo,
         NEW acked \in [Brokers -> Offsets \cup {NoAck}],
         NEW then \in Callers, NEW off \in Offsets, NEW bc,
         Recompute(b, m, leo, acked, then, off, bc)
  PROVE  \E m2, h : CallEffect(b, m, leo, acked, m2, h)
<1> DEFINE m2 == RecomputedMeta(b, m, acked)
           h  == RecomputedHW(b, m, leo, acked)
           h2 == IF then = "solo" /\ m2.isr = {b}
                 THEN SetHighWatermark(h, leo, leo) ELSE h
<1>1. /\ m2 \in Metas /\ m2.leader = m.leader
      /\ h \in Nat /\ hw[b] <= h /\ h <= leo
      /\ h > hw[b] => \A r \in m2.isr \ {b} : h <= acked[r]
  BY RecomputeFacts
<1>2. /\ meta' = [meta EXCEPT ![b] = m2]
      /\ bcast' = [bcast EXCEPT ![b] = @ \/ bc \/ m2 # m]
      /\ hw' = [hw EXCEPT ![b] = h2]
      /\ waiting' = waiting \cup Waits(b, then, off, h)
      /\ calls' = calls
  BY DEF Recompute
<1>3. hw[b] \in Nat /\ MaxRecords \in Nat
  BY TypeFacts
<1> HIDE DEF m2, h
<1>4. h2 \in Nat /\ h <= h2 /\ h2 <= leo /\ (h2 = h \/ m2.isr = {b})
  <2>1. CASE then = "solo" /\ m2.isr = {b}
    <3>1. h2 = SetHighWatermark(h, leo, leo)
      BY <2>1
    <3>2. LET k == SetHighWatermark(h, leo, leo)
          IN  k \in Nat /\ h <= k /\ k <= leo
      BY <1>1, SetHWFacts
    <3> QED BY <2>1, <3>1, <3>2
  <2>2. CASE ~(then = "solo" /\ m2.isr = {b})
    <3>1. h2 = h
      BY <2>2
    <3> QED BY <1>1, <3>1
  <2> QED BY <2>1, <2>2
<1> HIDE DEF h2
<1>5. h2 > hw[b] => \A r \in m2.isr \ {b} : h2 <= acked[r]
  BY <1>1, <1>4
<1>6. hw[b] <= h2
  BY <1>1, <1>3, <1>4
<1>7. bcast' \in [Brokers -> BOOLEAN]
  BY <1>2, Zenon DEF TypeOK
<1>8. waiting' \subseteq Waiters
  BY <1>2 DEF TypeOK, Waits, Waiters
<1>9. /\ calls \subseteq calls' /\ calls' \subseteq Calls
      /\ \A c \in calls' : c.step \in {"lock", "set"} => c.broker \in ReplicaSet
      /\ \A c \in calls' : c \in calls \/ c.step \notin {"set", "soloset"}
  BY <1>2 DEF TypeOK
<1>10. CallEffect(b, m, leo, acked, m2, h2)
  BY <1>1, <1>2, <1>4, <1>5, <1>6, <1>7, <1>8, <1>9, Zenon DEF CallEffect
<1> QED BY <1>10

\* A call that is interrupted.
LEMMA InterruptEffect ==
  ASSUME TypeOK, NEW b \in Brokers, NEW m \in Metas,
         NEW leo \in Nat, hw[b] <= leo,
         NEW acked, NEW then \in Callers, NEW off \in Offsets, NEW bc,
         Interrupt(b, m, then, off, bc)
  PROVE  \E m2, h : CallEffect(b, m, leo, acked, m2, h)
<1> DEFINE d == [broker |-> b, then |-> then, off |-> off,
                 step |-> IF m.leader = b THEN "lock" ELSE "solo",
                 isr |-> IF m.leader = b THEN m.isr ELSE {}, hw |-> 0,
                 changed |-> FALSE]
<1>1. /\ calls' = calls \cup {d}
      /\ meta' = [meta EXCEPT ![b] = m]
      /\ bcast' = [bcast EXCEPT ![b] = @ \/ bc]
      /\ hw' = hw /\ waiting' = waiting
  BY DEF Interrupt
<1>2. hw[b] \in Nat /\ MaxRecords \in Nat
  BY TypeFacts
<1>3. /\ d \in Calls
      /\ d.step \in {"lock", "set"} => d.broker \in ReplicaSet
      /\ d.step \notin {"set", "soloset"}
  BY <1>2 DEF Calls, Callers, Metas
<1> HIDE DEF d
<1>4. /\ calls \subseteq calls' /\ calls' \subseteq Calls
      /\ \A c \in calls' : c.step \in {"lock", "set"} => c.broker \in ReplicaSet
      /\ \A c \in calls' : c \in calls \/ c.step \notin {"set", "soloset"}
  BY <1>1, <1>3 DEF TypeOK
<1>5. hw' = [hw EXCEPT ![b] = hw[b]] /\ hw[b] <= hw[b] /\ ~(hw[b] > hw[b])
  BY <1>1, <1>2 DEF TypeOK
<1>6. bcast' \in [Brokers -> BOOLEAN]
  BY <1>1, Zenon DEF TypeOK
<1>7. waiting' \subseteq Waiters
  BY <1>1 DEF TypeOK
<1>8. CallEffect(b, m, leo, acked, m, hw[b])
  BY <1>1, <1>2, <1>4, <1>5, <1>6, <1>7, Zenon DEF CallEffect
<1> QED BY <1>8

\* What was computed for an ISR stays covered: logs do not shrink.
LEMMA CoveredKept ==
  ASSUME TypeOK, CallsCovered,
         \A r \in Brokers : LEO(r) <= LEO(r)' /\ LEO(r)' \in Nat,
         \A c \in calls' : c \in calls \/ c.step \notin {"set", "soloset"}
  PROVE  CallsCovered'
<1> SUFFICES ASSUME NEW c \in calls', c.step = "set", NEW r \in c.isr
             PROVE  c.hw <= LEO(r)'
  BY DEF CallsCovered
<1>1. c \in calls /\ c \in Calls
  BY DEF TypeOK
<1>2. r \in Brokers /\ c.hw \in Nat
  BY <1>1, ReplicasDomain, TypeFacts DEF Calls
<1>3. c.hw <= LEO(r) /\ LEO(r) \in Nat
  BY <1>1, <1>2, TypeFacts DEF CallsCovered
<1> QED BY <1>2, <1>3

-----------------------------------------------------------------------------
(* One lemma per action that moves data *)

\* The metadata of a tick's call: a controller has repaired it.
TickMeta(b) ==
  IF IsController(b, alive[b]) THEN ControllerFix(meta[b], alive[b]) ELSE meta[b]

\* A tick is a call with that metadata.
LEMMA TickEffect ==
  ASSUME TypeOK, HWWithinLog, NEW b \in Brokers, Tick(b)
  PROVE  /\ TickMeta(b) \in Metas
         /\ \E m2, h : CallEffect(b, TickMeta(b), LEO(b), replicaLEO[b], m2, h)
<1> DEFINE m  == TickMeta(b)
           bc == IsController(b, alive[b]) /\ FixChanges(meta[b], alive[b])
<1>1. m \in Metas /\ replicaLEO[b] \in [Brokers -> Offsets \cup {NoAck}]
  BY TypeFacts, ControllerFixSound DEF TickMeta
<1>2. hw[b] <= LEO(b) /\ LEO(b) \in Nat /\ 0 \in Offsets
  BY TypeFacts DEF HWWithinLog
<1>3. \/ Recompute(b, m, LEO(b), replicaLEO[b], "tick", 0, bc)
      \/ Interrupt(b, m, "tick", 0, bc)
  BY DEF Tick, TickMeta
<1>4. "tick" \in Callers
  BY DEF Callers
<1> HIDE DEF m, bc
<1>5. \E m2, h : CallEffect(b, m, LEO(b), replicaLEO[b], m2, h)
  BY <1>1, <1>2, <1>3, <1>4, RecomputeEffect, InterruptEffect
<1> QED BY <1>1, <1>5 DEF m

\* Tick: the controller's repair and the recomputation keep the invariant.
LEMMA TickInv ==
  ASSUME IndInv, NEW b \in Brokers, Tick(b)
  PROVE  IndInv'
<1>1. TypeOK /\ CallsCovered
  BY DEF IndInv
<1>2. PICK m2, h : CallEffect(b, TickMeta(b), LEO(b), replicaLEO[b], m2, h)
  BY <1>1, TickEffect DEF IndInv
<1>3. LEO(b) \in Nat /\ LEO(b) <= MaxRecords /\ MaxRecords \in Nat
  BY <1>1, TypeFacts
<1>4. /\ m2 \in Metas /\ h \in Nat /\ h <= LEO(b)
      /\ meta' = [meta EXCEPT ![b] = m2]
      /\ hw' = [hw EXCEPT ![b] = h]
      /\ bcast' \in [Brokers -> BOOLEAN] /\ waiting' \subseteq Waiters
      /\ calls' \subseteq Calls
      /\ \A c \in calls' : c.step \in {"lock", "set"} => c.broker \in ReplicaSet
      /\ \A c \in calls' : c \in calls \/ c.step \notin {"set", "soloset"}
  BY <1>2 DEF CallEffect
<1>5. UNCHANGED <<up, alive, pushes, log, replicaLEO, fetch, acks, admitted,
                  produced, crashes, faults>>
  BY DEF Tick
<1>6. TypeOK'
  <2>1. h \in 0..MaxRecords
    BY <1>3, <1>4
  <2>2. meta' \in [Brokers -> Metas] /\ hw' \in [Brokers -> 0..MaxRecords]
    BY <1>1, <1>4, <2>1 DEF TypeOK
  <2> QED BY <1>1, <1>4, <1>5, <2>2 DEF TypeOK, LEO
<1>7. HWWithinLog'
  BY <1>1, <1>4, <1>5 DEF IndInv, HWWithinLog, TypeOK, LEO
<1>8. (LogsProduced /\ FetchCopies /\ OffsetIdentity /\ AckedLEOReal)'
  BY <1>5 DEF IndInv, LogsProduced, FetchCopies, OffsetIdentity, AckedLEOReal, LEO
<1>9. CallsCovered'
  <2>1. \A r \in Brokers : LEO(r)' = LEO(r) /\ LEO(r) \in Nat
    BY <1>1, <1>5, TypeFacts DEF LEO
  <2> QED BY <1>1, <1>4, <2>1, CoveredKept
<1> QED BY <1>6, <1>7, <1>8, <1>9 DEF IndInv

\* The data a grown log is compared with stays valid: acks, watermarks and
\* fetched copies of other logs.
LEMMA GrowKeeps ==
  ASSUME IndInv, NEW b \in Brokers, NEW v \in Records,
         log' = [log EXCEPT ![b] = Append(@, v)],
         UNCHANGED <<acks, replicaLEO>>
  PROVE  AckedLEOReal'
<1>1. TypeOK /\ AckedLEOReal
  BY DEF IndInv
<1>2. \A c \in Brokers : LEO(c) <= LEO(c)' /\ LEO(c) \in Nat /\ LEO(c)' \in Nat
  BY <1>1, AppendFacts, TypeFacts
<1>3. \A a \in acks : a.from \in Brokers /\ a.leo \in Int
  BY <1>1 DEF TypeOK, Acks
<1>4. \A c, r \in Brokers : replicaLEO[c][r] \in Int
  BY <1>1 DEF TypeOK
<1> HIDE DEF LEO
<1>5. \A a \in acks' : a.leo <= LEO(a.from)'
  BY <1>1, <1>2, <1>3 DEF AckedLEOReal
<1>6. \A c, r \in Brokers : replicaLEO'[c][r] <= LEO(r)'
  BY <1>1, <1>2, <1>4 DEF AckedLEOReal
<1> QED BY <1>5, <1>6 DEF AckedLEOReal
\* Appending at b the record v that belongs at its log end: v is new, or some
\* log already has it at that very offset.
LEMMA GrowKeepsIdentity ==
  ASSUME IndInv, NEW b \in Brokers, NEW v \in Records,
         log' = [log EXCEPT ![b] = Append(@, v)],
         \A c \in Brokers : \A i \in 1..LEO(c) : log[c][i] = v => i = LEO(b) + 1
  PROVE  OffsetIdentity'
<1>1. TypeOK /\ OffsetIdentity
  BY DEF IndInv
<1>2. /\ LEO(b)' = LEO(b) + 1
      /\ log'[b][LEO(b) + 1] = v
      /\ \A c \in Brokers : c # b => LEO(c)' = LEO(c)
      /\ \A c \in Brokers : \A i \in 1..LEO(c) : log'[c][i] = log[c][i]
  BY <1>1, AppendFacts
<1>3. \A c \in Brokers : LEO(c) \in Nat
  BY <1>1, TypeFacts
<1>4. ASSUME NEW c \in Brokers, NEW i \in 1..LEO(c)'
      PROVE  i \in 1..LEO(c) \/ (c = b /\ i = LEO(b) + 1)
  BY <1>2, <1>3
<1> SUFFICES ASSUME NEW c \in Brokers, NEW d \in Brokers,
                    NEW i \in 1..LEO(c)', NEW j \in 1..LEO(d)',
                    log'[c][i] = log'[d][j]
             PROVE  i = j
  BY DEF OffsetIdentity
<1>5. CASE i \in 1..LEO(c) /\ j \in 1..LEO(d)
  <2>1. log'[c][i] = log[c][i] /\ log'[d][j] = log[d][j]
    BY <1>2, <1>5
  <2>2. log[c][i] = log[d][j]
    BY <2>1
  <2> QED BY <1>1, <1>5, <2>2, Zenon DEF OffsetIdentity
<1>6. CASE i \in 1..LEO(c) /\ d = b /\ j = LEO(b) + 1
  <2>1. log'[c][i] = log[c][i] /\ log'[d][j] = v
    BY <1>2, <1>6
  <2> QED BY <1>6, <2>1
<1>7. CASE c = b /\ i = LEO(b) + 1 /\ j \in 1..LEO(d)
  <2>1. log'[d][j] = log[d][j] /\ log'[c][i] = v
    BY <1>2, <1>7
  <2> QED BY <1>7, <2>1
<1>8. CASE c = b /\ i = LEO(b) + 1 /\ d = b /\ j = LEO(b) + 1
  BY <1>8
<1> QED BY <1>4, <1>5, <1>6, <1>7, <1>8

\* Fetched copies stay copies when a log grows.
LEMMA GrowKeepsCopies ==
  ASSUME IndInv, NEW b \in Brokers, NEW v \in Records,
         log' = [log EXCEPT ![b] = Append(@, v)]
  PROVE  \A c, s \in Brokers : s = fetch[c].src =>
           \A k \in 1..Len(fetch[c].recs) :
             /\ fetch[c].off + k <= LEO(s)'
             /\ fetch[c].recs[k] = log'[s][fetch[c].off + k]
<1> SUFFICES ASSUME NEW c \in Brokers, NEW s \in Brokers, s = fetch[c].src,
                    NEW k \in 1..Len(fetch[c].recs)
             PROVE  /\ fetch[c].off + k <= LEO(s)'
                    /\ fetch[c].recs[k] = log'[s][fetch[c].off + k]
  OBVIOUS
<1>1. TypeOK /\ FetchCopies
  BY DEF IndInv
<1>2. fetch[c].off \in Nat /\ fetch[c].recs \in Seq(Records) /\ s # 0
  <2>1. fetch[c] \in Fetches
    BY <1>1 DEF TypeOK
  <2>2. s # 0
    BY BrokersAssumption
  <2> QED BY <2>1, <2>2 DEF Fetches
<1>3. k \in Nat /\ k >= 1
  BY <1>2
<1>4. /\ fetch[c].off + k <= LEO(s)
      /\ fetch[c].recs[k] = log[s][fetch[c].off + k]
  BY <1>1, <1>2 DEF FetchCopies
<1>5. /\ LEO(s) \in Nat /\ LEO(s)' \in Nat /\ LEO(s) <= LEO(s)'
      /\ \A i \in 1..LEO(s) : log'[s][i] = log[s][i]
  BY <1>1, AppendFacts, TypeFacts
<1>6. fetch[c].off + k \in 1..LEO(s)
  BY <1>2, <1>3, <1>4, <1>5
<1>7. fetch[c].off + k <= LEO(s)'
  BY <1>5, <1>6
<1>8. log'[s][fetch[c].off + k] = log[s][fetch[c].off + k]
  BY <1>5, <1>6
<1> QED BY <1>4, <1>7, <1>8

\* From its append on, a produce is a call of its acks mode.
LEMMA ProduceEffect ==
  ASSUME TypeOK, HWWithinLog, NEW b \in Brokers, NEW mode \in AckModes,
         ProduceAppend(b, mode)
  PROVE  \E m2, h : CallEffect(b, meta[b], LEO(b) + 1, replicaLEO[b], m2, h)
<1> DEFINE then == IF mode = "all" THEN "wait" ELSE "solo"
<1>1. \/ Recompute(b, meta[b], LEO(b) + 1, replicaLEO[b], then, LEO(b), FALSE)
      \/ Interrupt(b, meta[b], then, LEO(b), FALSE)
  BY DEF ProduceAppend
<1>2. then \in Callers
  BY DEF Callers
<1>3. /\ meta[b] \in Metas /\ LEO(b) \in Nat /\ LEO(b) \in Offsets
      /\ replicaLEO[b] \in [Brokers -> Offsets \cup {NoAck}]
  BY TypeFacts
<1>4. LEO(b) + 1 \in Nat /\ hw[b] <= LEO(b) + 1
  BY <1>3, TypeFacts DEF HWWithinLog
<1> HIDE DEF then
<1> QED BY <1>1, <1>2, <1>3, <1>4, RecomputeEffect, InterruptEffect

\* produceLocal appends a record no log holds, and recomputes.
LEMMA ProduceAppendInv ==
  ASSUME IndInv, NEW b \in Brokers, NEW mode \in AckModes, ProduceAppend(b, mode)
  PROVE  IndInv'
<1> DEFINE leo == LEO(b) + 1
           v   == produced + 1
<1>1. TypeOK /\ CallsCovered
  BY DEF IndInv
<1>2. /\ log' = [log EXCEPT ![b] = Append(@, v)]
      /\ admitted' = [admitted EXCEPT ![b] = FALSE]
      /\ produced' = v /\ produced < MaxRecords
      /\ UNCHANGED <<up, alive, pushes, replicaLEO, fetch, acks, crashes, faults>>
  BY DEF ProduceAppend
<1>3. produced \in Nat /\ MaxRecords \in Nat /\ v \in Records
  BY <1>1, <1>2, TypeFacts DEF TypeOK
<1>4. LEO(b) \in Nat /\ LEO(b) <= produced /\ leo \in Nat /\ leo <= MaxRecords
  BY <1>1, <1>2, <1>3, TypeFacts DEF IndInv, LogsProduced
<1>5. PICK m, h : CallEffect(b, meta[b], leo, replicaLEO[b], m, h)
  BY <1>1, ProduceEffect DEF IndInv
<1>6. m \in Metas /\ h \in Nat /\ h <= leo
  BY <1>5 DEF CallEffect
<1>7. /\ meta' = [meta EXCEPT ![b] = m]
      /\ hw' = [hw EXCEPT ![b] = h]
      /\ bcast' \in [Brokers -> BOOLEAN] /\ waiting' \subseteq Waiters
      /\ calls' \subseteq Calls
      /\ \A c \in calls' : c.step \in {"lock", "set"} => c.broker \in ReplicaSet
      /\ \A c \in calls' : c \in calls \/ c.step \notin {"set", "soloset"}
  BY <1>5 DEF CallEffect
<1>8. /\ log' \in [Brokers -> Seq(Records)]
      /\ LEO(b)' = leo
      /\ log'[b][leo] = v
      /\ \A c \in Brokers : /\ c # b => LEO(c)' = LEO(c)
                            /\ LEO(c) <= LEO(c)' /\ LEO(c)' \in Nat
                            /\ \A i \in 1..LEO(c) : log'[c][i] = log[c][i]
  BY <1>1, <1>2, <1>3, AppendFacts
<1>9. TypeOK'
  <2>1. meta' \in [Brokers -> Metas] /\ hw' \in [Brokers -> 0..MaxRecords]
    <3>1. h \in 0..MaxRecords
      BY <1>3, <1>4, <1>6
    <3> QED BY <1>1, <1>6, <1>7, <3>1 DEF TypeOK
  <2>4. \A c \in Brokers : LEO(c)' <= MaxRecords
    BY <1>1, <1>4, <1>8, TypeFacts
  <2>5. produced' \in 0..MaxRecords /\ admitted' \in [Brokers -> BOOLEAN]
    BY <1>1, <1>2, <1>3 DEF TypeOK
  <2> QED BY <1>1, <1>2, <1>7, <1>8, <2>1, <2>4, <2>5 DEF TypeOK
<1>10. LogsProduced'
  <2> SUFFICES ASSUME NEW c \in Brokers
               PROVE  /\ LEO(c)' <= v
                      /\ \A i \in 1..LEO(c)' : log'[c][i] <= v
    BY <1>2 DEF LogsProduced
  <2>1. /\ LEO(c) <= produced /\ LEO(c) \in Nat
        /\ \A i \in 1..LEO(c) : log[c][i] <= produced /\ log[c][i] \in Nat
    BY <1>1, TypeFacts DEF IndInv, LogsProduced, TypeOK, LEO
  <2>2. CASE c # b
    <3>1. LEO(c)' = LEO(c) /\ \A i \in 1..LEO(c) : log'[c][i] = log[c][i]
      BY <1>8, <2>2
    <3> QED BY <1>3, <2>1, <3>1
  <2>3. CASE c = b
    <3>1. LEO(c)' <= v
      BY <1>3, <1>4, <1>8, <2>3
    <3>2. ASSUME NEW i \in 1..LEO(c)' PROVE log'[c][i] <= v
      <4>1. LEO(c)' = LEO(c) + 1 /\ leo = LEO(c) + 1
        BY <1>8, <2>3
      <4>2. i \in 1..LEO(c) \/ i = leo
        BY <2>1, <4>1
      <4>3. CASE i \in 1..LEO(c)
        <5>1. log'[c][i] = log[c][i] /\ log[c][i] <= produced /\ log[c][i] \in Nat
          BY <1>8, <2>1, <4>3
        <5> QED BY <1>3, <5>1
      <4>4. CASE i = leo
        BY <1>3, <1>8, <2>3, <4>4
      <4> QED BY <4>2, <4>3, <4>4
    <3> QED BY <3>1, <3>2
  <2> QED BY <2>2, <2>3
<1>11. OffsetIdentity'
  <2>1. ASSUME NEW c \in Brokers, NEW i \in 1..LEO(c) PROVE log[c][i] # v
    <3>1. log[c][i] <= produced /\ log[c][i] \in Nat
      BY <1>1, TypeFacts DEF IndInv, LogsProduced, TypeOK, LEO
    <3> QED BY <1>3, <3>1
  <2>2. log' = [log EXCEPT ![b] = Append(@, v)] /\ v \in Records
    BY <1>2, <1>3
  <2> HIDE DEF v, leo
  <2> QED BY <2>1, <2>2, GrowKeepsIdentity, Zenon
<1>12. FetchCopies'
  <2>1. \A c \in Brokers : fetch[c].src = 0 => fetch[c].recs = <<>>
    BY DEF IndInv, FetchCopies
  <2>2. \A c \in Brokers : fetch[c].src # 0 => fetch[c].src \in Brokers
    BY <1>1 DEF TypeOK, Fetches
  <2>3. \A c, s \in Brokers : s = fetch[c].src =>
          \A k \in 1..Len(fetch[c].recs) :
            /\ fetch[c].off + k <= LEO(s)'
            /\ fetch[c].recs[k] = log'[s][fetch[c].off + k]
    <3>1. log' = [log EXCEPT ![b] = Append(@, v)] /\ v \in Records
      BY <1>2, <1>3
    <3> HIDE DEF v, leo
    <3> QED BY <3>1, GrowKeepsCopies, Zenon
  <2>4. fetch' = fetch
    BY <1>2
  <2> QED BY <2>1, <2>2, <2>3, <2>4 DEF FetchCopies, LEO
<1>13. AckedLEOReal'
  BY <1>2, <1>3, GrowKeeps
<1>14. HWWithinLog'
  <2> SUFFICES ASSUME NEW c \in Brokers PROVE hw'[c] <= LEO(c)'
    BY DEF HWWithinLog
  <2>1. hw[c] <= LEO(c) /\ hw[c] \in Nat /\ LEO(c) \in Nat
    BY <1>1, TypeFacts DEF IndInv, HWWithinLog
  <2>2. hw'[c] = IF c = b THEN h ELSE hw[c]
    BY <1>1, <1>7 DEF TypeOK
  <2> QED BY <1>6, <1>8, <2>1, <2>2
<1>15. CallsCovered'
  BY <1>1, <1>7, <1>8, CoveredKept
<1> QED BY <1>9, <1>10, <1>11, <1>12, <1>13, <1>14, <1>15 DEF IndInv
\* Head and tail of a non-empty sequence of fetched records.
LEMMA HeadTail ==
  ASSUME NEW S, NEW q \in Seq(S), q # <<>>
  PROVE  /\ Len(q) \in Nat /\ Len(q) >= 1
         /\ Head(q) = q[1] /\ Head(q) \in S
         /\ Tail(q) \in Seq(S) /\ Len(Tail(q)) = Len(q) - 1
         /\ \A k \in 1..Len(Tail(q)) : k + 1 \in 1..Len(q) /\ Tail(q)[k] = q[k + 1]
<1>1. Len(q) \in Nat /\ Len(q) >= 1
  OBVIOUS
<1>2. Head(q) = q[1] /\ Head(q) \in S
  BY <1>1
<1>3. Tail(q) \in Seq(S) /\ Len(Tail(q)) = Len(q) - 1
  OBVIOUS
<1>4. \A k \in 1..Len(Tail(q)) : k + 1 \in 1..Len(q)
  BY <1>1, <1>3
<1>5. \A k \in 1..Len(Tail(q)) : Tail(q)[k] = q[k + 1]
  BY <1>1, <1>3
<1> QED BY <1>1, <1>2, <1>3, <1>4, <1>5

\* The follow loop appends a copied record only at the offset it was copied
\* from.
LEMMA ApplyRecordInv ==
  ASSUME IndInv, NEW b \in Brokers, ApplyRecord(b)
  PROVE  IndInv'
<1> DEFINE f == fetch[b]
           v == Head(f.recs)
           g == IF f.off > LEO(b) THEN [f EXCEPT !.recs = <<>>]
                ELSE [f EXCEPT !.off = @ + 1, !.recs = Tail(@)]
<1>1. TypeOK /\ FetchCopies
  BY DEF IndInv
<1>2. /\ f.recs # <<>>
      /\ log' = IF f.off = LEO(b) THEN [log EXCEPT ![b] = Append(@, v)] ELSE log
      /\ fetch' = [fetch EXCEPT ![b] = g]
      /\ UNCHANGED <<up, alive, meta, bcast, pushes, hw, replicaLEO, acks,
                     admitted, calls, waiting, produced, crashes, faults>>
  BY DEF ApplyRecord
<1>3. /\ f \in Fetches /\ f.recs \in Seq(Records) /\ f.off \in Nat
      /\ f.src # 0 /\ f.src \in Brokers
  <2>1. f \in Fetches
    BY <1>1 DEF TypeOK
  <2>2. f.src # 0
    BY <1>1, <1>2 DEF FetchCopies
  <2> QED BY <2>1, <2>2 DEF Fetches
<1> PICK s \in Brokers : s = f.src
  BY <1>3
<1>4. /\ Len(f.recs) \in Nat /\ Len(f.recs) >= 1
      /\ v = f.recs[1] /\ v \in Records
      /\ Tail(f.recs) \in Seq(Records) /\ Len(Tail(f.recs)) = Len(f.recs) - 1
      /\ \A k \in 1..Len(Tail(f.recs)) :
           k + 1 \in 1..Len(f.recs) /\ Tail(f.recs)[k] = f.recs[k + 1]
  BY <1>2, <1>3, HeadTail
<1>5. \A k \in 1..Len(f.recs) : f.off + k <= LEO(s) /\ f.recs[k] = log[s][f.off + k]
  BY <1>1, <1>3 DEF FetchCopies
<1> HIDE DEF f
<1>6. LEO(s) \in Nat /\ LEO(b) \in Nat /\ MaxRecords \in Nat /\ LEO(s) <= MaxRecords
  BY <1>1, <1>3, TypeFacts
<1>7. f.off + 1 <= LEO(s) /\ v = log[s][f.off + 1] /\ f.off + 1 \in 1..LEO(s)
  <2>1. 1 \in 1..Len(f.recs)
    BY <1>4
  <2>2. f.off + 1 <= LEO(s) /\ f.recs[1] = log[s][f.off + 1]
    BY <1>5, <2>1
  <2> QED BY <1>3, <1>4, <1>6, <2>2
<1>8. /\ g \in Fetches /\ g.src = s
      /\ g.recs = <<>> \/ (g.off = f.off + 1 /\ g.recs = Tail(f.recs))
  <2>1. CASE f.off > LEO(b)
    <3>1. g = [f EXCEPT !.recs = <<>>]
      BY <2>1
    <3>2. <<>> \in Seq(Records)
      OBVIOUS
    <3>3. g \in Fetches /\ g.src = f.src /\ g.recs = <<>>
      BY <1>3, <3>1, <3>2 DEF Fetches
    <3> QED BY <3>3
  <2>2. CASE ~(f.off > LEO(b))
    <3>1. g = [f EXCEPT !.off = @ + 1, !.recs = Tail(@)]
      BY <2>2
    <3>2. f.off + 1 \in 0..MaxRecords
      BY <1>3, <1>6, <1>7
    <3>3. Tail(f.recs) \in Seq(Records)
      BY <1>4
    <3>4. /\ g.off = f.off + 1 /\ g.recs = Tail(f.recs)
          /\ g.src = f.src /\ g \in Fetches
      BY <1>3, <3>1, <3>2, <3>3 DEF Fetches
    <3> QED BY <3>4
  <2> QED BY <2>1, <2>2
<1> HIDE DEF g
<1>9. \A k \in 1..Len(g.recs) : g.off + k <= LEO(s) /\ g.recs[k] = log[s][g.off + k]
  <2>1. CASE g.recs = <<>>
    BY <2>1
  <2>2. CASE g.off = f.off + 1 /\ g.recs = Tail(f.recs)
    <3> SUFFICES ASSUME NEW k \in 1..Len(Tail(f.recs))
                 PROVE  /\ f.off + 1 + k <= LEO(s)
                        /\ Tail(f.recs)[k] = log[s][f.off + 1 + k]
      BY <2>2
    <3>1. k + 1 \in 1..Len(f.recs) /\ Tail(f.recs)[k] = f.recs[k + 1]
      BY <1>4
    <3>2. f.off + 1 + k = f.off + (k + 1)
      <4>1. Len(f.recs) - 1 \in Nat /\ Len(Tail(f.recs)) = Len(f.recs) - 1
        BY <1>4
      <4>2. k \in Nat
        BY <4>1
      <4> QED BY <1>3, <4>2
    <3>3. /\ f.off + (k + 1) <= LEO(s)
          /\ f.recs[k + 1] = log[s][f.off + (k + 1)]
      BY <1>5, <3>1
    <3> QED BY <3>1, <3>2, <3>3
  <2> QED BY <1>8, <2>1, <2>2
<1>10. fetch' \in [Brokers -> Fetches] /\ fetch'[b] = g
       /\ \A c \in Brokers : c # b => fetch'[c] = fetch[c]
  BY <1>1, <1>2, <1>8 DEF TypeOK
<1>11. CASE f.off # LEO(b)
  <2>1. log' = log
    BY <1>2, <1>11
  <2>2. FetchCopies'
    <3> SUFFICES ASSUME NEW c \in Brokers
                 PROVE  /\ fetch'[c].src = 0 => fetch'[c].recs = <<>>
                        /\ fetch'[c].src # 0 => \A k \in 1..Len(fetch'[c].recs) :
                             /\ fetch'[c].off + k <= Len(log[fetch'[c].src])
                             /\ fetch'[c].recs[k] = log[fetch'[c].src][fetch'[c].off + k]
      BY <2>1 DEF FetchCopies, LEO
    <3>1. CASE c = b
      BY <1>3, <1>8, <1>9, <1>10, <3>1 DEF LEO
    <3>2. CASE c # b
      BY <1>1, <1>10, <3>2 DEF FetchCopies, LEO
    <3> QED BY <3>1, <3>2
  <2>3. TypeOK'
    BY <1>1, <1>2, <1>10, <2>1 DEF TypeOK, LEO
  <2>4. (LogsProduced /\ OffsetIdentity /\ AckedLEOReal /\ HWWithinLog
           /\ CallsCovered)'
    BY <1>2, <2>1 DEF IndInv, LogsProduced, OffsetIdentity, AckedLEOReal,
                      HWWithinLog, CallsCovered, LEO
  <2> QED BY <2>2, <2>3, <2>4 DEF IndInv
<1>12. CASE f.off = LEO(b)
  <2>1. log' = [log EXCEPT ![b] = Append(@, v)]
    BY <1>2, <1>12
  <2>2. /\ log' \in [Brokers -> Seq(Records)]
        /\ LEO(b)' = LEO(b) + 1
        /\ log'[b][LEO(b) + 1] = v
        /\ \A c \in Brokers : /\ c # b => LEO(c)' = LEO(c)
                              /\ LEO(c) <= LEO(c)' /\ LEO(c)' \in Nat
                              /\ \A i \in 1..LEO(c) : log'[c][i] = log[c][i]
    BY <1>1, <1>4, <2>1, AppendFacts
  <2>3. LEO(b) + 1 <= LEO(s)
    BY <1>7, <1>12
  <2>4. TypeOK'
    <3>1. ASSUME NEW c \in Brokers PROVE LEO(c)' <= MaxRecords
      <4>1. LEO(c) \in Nat /\ LEO(c) <= MaxRecords
        BY <1>1, TypeFacts
      <4>2. CASE c = b
        BY <1>6, <2>2, <2>3, <4>2
      <4>3. CASE c # b
        BY <2>2, <4>1, <4>3
      <4> QED BY <4>2, <4>3
    <3>2. /\ UNCHANGED <<up, alive, meta, bcast, pushes, hw, replicaLEO, acks,
                          admitted, calls, waiting, produced, crashes, faults>>
          /\ fetch' \in [Brokers -> Fetches] /\ log' \in [Brokers -> Seq(Records)]
      BY <1>2, <1>10, <2>2
    <3> QED BY <1>1, <3>1, <3>2 DEF TypeOK
  <2>5. LogsProduced'
    <3>1. LEO(s) <= produced /\ produced \in Nat /\ v <= produced
      <4>1. LEO(s) <= produced /\ log[s][f.off + 1] <= produced
        BY <1>7 DEF IndInv, LogsProduced
      <4>2. produced \in Nat
        BY <1>1 DEF TypeOK
      <4> QED BY <1>7, <4>1, <4>2
    <3> SUFFICES ASSUME NEW c \in Brokers
                 PROVE  /\ LEO(c)' <= produced
                        /\ \A i \in 1..LEO(c)' : log'[c][i] <= produced
      BY <1>2 DEF LogsProduced
    <3>2. /\ LEO(c) <= produced /\ LEO(c) \in Nat
          /\ \A i \in 1..LEO(c) : log[c][i] <= produced
      BY <1>1, TypeFacts DEF IndInv, LogsProduced
    <3>3. CASE c # b
      BY <2>2, <3>2, <3>3
    <3>4. CASE c = b
      <4>1. \A i \in 1..LEO(c)' : i \in 1..LEO(c) \/ i = LEO(b) + 1
        BY <1>6, <2>2, <3>4
      <4>2. LEO(c)' <= produced
        BY <1>6, <2>2, <2>3, <3>1, <3>4
      <4>3. ASSUME NEW i \in 1..LEO(c)' PROVE log'[c][i] <= produced
        <5>1. CASE i \in 1..LEO(c)
          BY <2>2, <3>2, <5>1
        <5>2. CASE i = LEO(b) + 1
          BY <2>2, <3>1, <3>4, <5>2
        <5> QED BY <4>1, <5>1, <5>2
      <4> QED BY <4>2, <4>3
    <3> QED BY <3>3, <3>4
  <2>6. OffsetIdentity'
    <3>1. \A c \in Brokers : \A i \in 1..LEO(c) : log[c][i] = v => i = LEO(b) + 1
      BY <1>3, <1>7, <1>12 DEF IndInv, OffsetIdentity
    <3>2. v \in Records
      BY <1>4
    <3> HIDE DEF v
    <3> QED BY <2>1, <3>1, <3>2, GrowKeepsIdentity, Zenon
  <2>7. FetchCopies'
    <3> SUFFICES ASSUME NEW c \in Brokers
                 PROVE  /\ fetch'[c].src = 0 => fetch'[c].recs = <<>>
                        /\ fetch'[c].src # 0 => \A k \in 1..Len(fetch'[c].recs) :
                             /\ fetch'[c].off + k <= Len(log'[fetch'[c].src])
                             /\ fetch'[c].recs[k] = log'[fetch'[c].src][fetch'[c].off + k]
      BY DEF FetchCopies, LEO
    <3>1. CASE c = b
      <4>1. ASSUME NEW k \in 1..Len(g.recs)
            PROVE  g.off + k <= LEO(s)' /\ g.recs[k] = log'[s][g.off + k]
        <5>1. g.off + k <= LEO(s) /\ g.recs[k] = log[s][g.off + k]
          BY <1>9
        <5>2. g.off \in Nat /\ k \in Nat /\ k >= 1
          BY <1>8 DEF Fetches
        <5>3. g.off + k \in 1..LEO(s) /\ LEO(s) <= LEO(s)' /\ LEO(s)' \in Nat
          <6>1. g.off + k \in 1..LEO(s)
            BY <1>6, <5>1, <5>2
          <6> QED BY <2>2, <6>1
        <5>4. log'[s][g.off + k] = log[s][g.off + k]
          BY <1>3, <2>2, <5>3
        <5> QED BY <1>6, <5>1, <5>2, <5>3, <5>4
      <4> QED BY <1>3, <1>8, <1>10, <3>1, <4>1 DEF LEO
    <3>2. CASE c # b
      <4>1. fetch'[c] = fetch[c] /\ (fetch[c].src = 0 => fetch[c].recs = <<>>)
        BY <1>1, <1>10, <3>2 DEF FetchCopies
      <4>2. fetch[c].src # 0 => fetch[c].src \in Brokers
        BY <1>1 DEF TypeOK, Fetches
      <4>3. \A d, t \in Brokers : t = fetch[d].src =>
              \A k \in 1..Len(fetch[d].recs) :
                /\ fetch[d].off + k <= LEO(t)'
                /\ fetch[d].recs[k] = log'[t][fetch[d].off + k]
        <5>1. v \in Records
          BY <1>4
        <5> HIDE DEF v
        <5> QED BY <2>1, <5>1, GrowKeepsCopies, Zenon
      <4> QED BY <4>1, <4>2, <4>3 DEF LEO
    <3> QED BY <3>1, <3>2
  <2>8. AckedLEOReal'
    BY <1>2, <1>4, <2>1, GrowKeeps
  <2>9. HWWithinLog'
    <3> SUFFICES ASSUME NEW c \in Brokers PROVE hw[c] <= LEO(c)'
      BY <1>2 DEF HWWithinLog
    <3>1. hw[c] <= LEO(c) /\ hw[c] \in Nat /\ LEO(c) \in Nat
      BY <1>1, TypeFacts DEF IndInv, HWWithinLog
    <3> QED BY <2>2, <3>1
  <2>10. CallsCovered'
    BY <1>1, <1>2, <2>2, CoveredKept DEF IndInv
  <2> QED BY <2>4, <2>5, <2>6, <2>7, <2>8, <2>9, <2>10 DEF IndInv
<1> QED BY <1>11, <1>12
\* A slice of k elements after position o.
LEMMA Slice ==
  ASSUME NEW S, NEW t \in Seq(S), NEW o \in Nat, NEW k \in Nat,
         k = 0 \/ o + k <= Len(t)
  PROVE  LET q == SubSeq(t, o + 1, o + k)
         IN  /\ q \in Seq(S) /\ Len(q) = k
             /\ \A i \in 1..k : q[i] = t[o + i] /\ o + i <= Len(t)
<1> DEFINE q == SubSeq(t, o + 1, o + k)
<1>1. \A i \in (o + 1)..(o + k) : t[i] \in S
  <2> SUFFICES ASSUME NEW i \in (o + 1)..(o + k) PROVE t[i] \in S
    OBVIOUS
  <2>1. Len(t) \in Nat /\ i \in 1..Len(t)
    OBVIOUS
  <2> QED BY <2>1
<1>2. /\ q \in Seq(S)
      /\ Len(q) = IF o + 1 <= o + k THEN (o + k) - (o + 1) + 1 ELSE 0
      /\ \A i \in 1..((o + k) - (o + 1) + 1) : q[i] = t[(o + 1) + i - 1]
  <2>1. o + 1 \in Int /\ o + k \in Int
    OBVIOUS
  <2> HIDE DEF q
  <2> QED BY <1>1, <2>1, SubSeqProperties DEF q
<1> HIDE DEF q
<1>3. Len(q) = k /\ (o + k) - (o + 1) + 1 = k
  BY <1>2
<1>4. \A i \in 1..k : q[i] = t[o + i] /\ o + i <= Len(t)
  <2> SUFFICES ASSUME NEW i \in 1..k PROVE q[i] = t[o + i] /\ o + i <= Len(t)
    OBVIOUS
  <2>1. (o + 1) + i - 1 = o + i /\ o + i <= Len(t)
    OBVIOUS
  <2> QED BY <1>2, <1>3, <2>1
<1> QED BY <1>2, <1>3, <1>4 DEF q

\* What serveFetch answers is a piece of the leader's log.
LEMMA FetchInv ==
  ASSUME IndInv, NEW b \in Brokers, Fetch(b)
  PROVE  IndInv'
<1> DEFINE l == meta[b].leader
           n == IF LEO(l) > LEO(b) THEN LEO(l) - LEO(b) ELSE 0
<1>1. TypeOK /\ FetchCopies
  BY DEF IndInv
<1>2. PICK k \in 0..n :
        fetch' = [fetch EXCEPT ![b] =
                    [src |-> l, off |-> LEO(b), hw |-> hw[l],
                     recs |-> SubSeq(log[l], LEO(b) + 1, LEO(b) + k)]]
  BY DEF Fetch
<1>3. UNCHANGED <<up, alive, meta, bcast, pushes, log, hw, replicaLEO, acks,
                  admitted, calls, waiting, produced, crashes, faults>>
  BY DEF Fetch
<1>4. l \in Brokers /\ l # 0
  <2>1. l \in ReplicaSet
    BY <1>1, TypeFacts DEF Metas
  <2> QED BY <2>1, ReplicasDomain, BrokersAssumption
<1>5. /\ LEO(l) \in Nat /\ LEO(b) \in Nat /\ LEO(b) <= MaxRecords /\ MaxRecords \in Nat
      /\ hw[l] \in 0..MaxRecords /\ log[l] \in Seq(Records)
  BY <1>1, <1>4, TypeFacts DEF TypeOK
<1>6. k \in Nat /\ (k = 0 \/ LEO(b) + k <= LEO(l))
  BY <1>5
<1> DEFINE q == SubSeq(log[l], LEO(b) + 1, LEO(b) + k)
           g == [src |-> l, off |-> LEO(b), hw |-> hw[l], recs |-> q]
<1>7. /\ q \in Seq(Records) /\ Len(q) = k
      /\ \A i \in 1..k : q[i] = log[l][LEO(b) + i] /\ LEO(b) + i <= LEO(l)
  BY <1>5, <1>6, Slice DEF LEO
<1> HIDE DEF q
<1>8. g \in Fetches
  BY <1>4, <1>5, <1>7 DEF Fetches
<1>9. /\ fetch' \in [Brokers -> Fetches] /\ fetch'[b] = g
      /\ \A c \in Brokers : c # b => fetch'[c] = fetch[c]
  BY <1>1, <1>2, <1>8 DEF TypeOK, q
<1>10. /\ g.src = l /\ g.src # 0 /\ Len(g.recs) = k
       /\ \A i \in 1..k : g.off + i <= LEO(l) /\ g.recs[i] = log[l][g.off + i]
  BY <1>4, <1>7
<1> HIDE DEF g, l
<1>11. TypeOK'
  BY <1>1, <1>3, <1>9 DEF TypeOK, LEO
<1>12. FetchCopies'
  <2> SUFFICES ASSUME NEW c \in Brokers
               PROVE  /\ fetch'[c].src = 0 => fetch'[c].recs = <<>>
                      /\ fetch'[c].src # 0 => \A i \in 1..Len(fetch'[c].recs) :
                           /\ fetch'[c].off + i <= Len(log[fetch'[c].src])
                           /\ fetch'[c].recs[i] = log[fetch'[c].src][fetch'[c].off + i]
    BY <1>3 DEF FetchCopies, LEO
  <2>1. CASE c = b
    BY <1>9, <1>10, <2>1 DEF LEO
  <2>2. CASE c # b
    BY <1>1, <1>9, <2>2 DEF FetchCopies, LEO
  <2> QED BY <2>1, <2>2
<1>13. (LogsProduced /\ OffsetIdentity /\ AckedLEOReal /\ HWWithinLog
          /\ CallsCovered)'
  BY <1>3 DEF IndInv, LogsProduced, OffsetIdentity, AckedLEOReal, HWWithinLog,
              CallsCovered, LEO
<1> QED BY <1>11, <1>12, <1>13 DEF IndInv

\* The follower takes the leader's watermark within its own log and reports
\* the log end it really has.
LEMMA FetchDoneInv ==
  ASSUME IndInv, NEW b \in Brokers, FetchDone(b)
  PROVE  IndInv'
<1> DEFINE h == SetHighWatermark(hw[b], fetch[b].hw, LEO(b))
           sent == {[from |-> b, to |-> l, leo |-> LEO(b)] :
                      l \in {fetch[b].src} \cap {p \in Brokers : up[p]}}
<1>1. TypeOK /\ FetchCopies /\ AckedLEOReal /\ HWWithinLog
  BY DEF IndInv
<1>2. /\ hw' = [hw EXCEPT ![b] = h]
      /\ acks' = acks \cup sent
      /\ fetch' = [fetch EXCEPT ![b] = NoFetch]
      /\ UNCHANGED <<up, alive, meta, bcast, pushes, log, replicaLEO, admitted,
                     calls, waiting, produced, crashes, faults>>
  BY DEF FetchDone
<1>3. /\ LEO(b) \in Nat /\ LEO(b) <= MaxRecords /\ MaxRecords \in Nat
      /\ hw[b] \in Nat /\ hw[b] <= LEO(b)
  BY <1>1, TypeFacts DEF HWWithinLog
<1>4. fetch[b].hw \in Nat
  BY <1>1 DEF TypeOK, Fetches
<1>5. h \in Nat /\ h <= LEO(b)
  BY <1>3, <1>4, SetHWFacts
<1>6. \A a \in sent : a \in Acks /\ a.from = b /\ a.leo = LEO(b)
  BY <1>3 DEF Acks
<1>7. NoFetch \in Fetches /\ NoFetch.src = 0 /\ NoFetch.recs = <<>>
  <2>1. <<>> \in Seq(Records) /\ 0 \in 0..MaxRecords
    BY <1>3
  <2> QED BY <2>1 DEF NoFetch, Fetches
<1> HIDE DEF h, sent, NoFetch
<1>8. TypeOK'
  <2>1. hw' \in [Brokers -> 0..MaxRecords] /\ acks' \subseteq Acks
        /\ fetch' \in [Brokers -> Fetches]
    BY <1>1, <1>2, <1>3, <1>5, <1>6, <1>7 DEF TypeOK
  <2> QED BY <1>1, <1>2, <2>1 DEF TypeOK, LEO
<1>9. FetchCopies'
  <2> SUFFICES ASSUME NEW c \in Brokers
               PROVE  /\ fetch'[c].src = 0 => fetch'[c].recs = <<>>
                      /\ fetch'[c].src # 0 => \A i \in 1..Len(fetch'[c].recs) :
                           /\ fetch'[c].off + i <= Len(log[fetch'[c].src])
                           /\ fetch'[c].recs[i] = log[fetch'[c].src][fetch'[c].off + i]
    BY <1>2 DEF FetchCopies, LEO
  <2>1. fetch'[c] = IF c = b THEN NoFetch ELSE fetch[c]
    BY <1>1, <1>2 DEF TypeOK
  <2>2. CASE c = b
    BY <1>7, <2>1, <2>2
  <2>3. CASE c # b
    BY <1>1, <2>1, <2>3 DEF FetchCopies, LEO
  <2> QED BY <2>2, <2>3
<1>10. AckedLEOReal'
  BY <1>1, <1>2, <1>3, <1>6 DEF AckedLEOReal, LEO
<1>11. HWWithinLog'
  BY <1>1, <1>2, <1>5 DEF HWWithinLog, TypeOK, LEO
<1>12. (LogsProduced /\ OffsetIdentity /\ CallsCovered)'
  BY <1>2 DEF IndInv, LogsProduced, OffsetIdentity, CallsCovered, LEO
<1> QED BY <1>8, <1>9, <1>10, <1>11, <1>12 DEF IndInv

\* The view b has of its followers once the ack a is noted.
AckNoted(a, b, acked) ==
  /\ b = a.to
  /\ acked \in [Brokers -> Offsets \cup {NoAck}]
  /\ \A r \in Brokers : acked[r] <= LEO(r)
  /\ replicaLEO' = [replicaLEO EXCEPT ![b] = acked]

\* handleReplicaAck is a call with the ack noted.
LEMMA AckEffect ==
  ASSUME TypeOK, AckedLEOReal, HWWithinLog, NEW a \in acks, AckDeliver(a)
  PROVE  \E b \in Brokers : \E acked, m2, h :
           /\ AckNoted(a, b, acked)
           /\ CallEffect(b, meta[b], LEO(b), acked, m2, h)
<1>1. a.to \in Brokers /\ a.from \in Brokers /\ a.leo \in Offsets
      /\ a.leo <= LEO(a.from)
  BY DEF TypeOK, Acks, AckedLEOReal
<1> PICK b \in Brokers : b = a.to
  BY <1>1
<1> DEFINE acked == [replicaLEO[b] EXCEPT ![a.from] = a.leo]
<1>2. /\ LEO(b) \in Nat /\ hw[b] <= LEO(b) /\ meta[b] \in Metas
      /\ replicaLEO[b] \in [Brokers -> Offsets \cup {NoAck}] /\ 0 \in Offsets
  BY TypeFacts DEF HWWithinLog
<1>3. /\ acked \in [Brokers -> Offsets \cup {NoAck}]
      /\ \A r \in Brokers : acked[r] <= LEO(r)
  BY <1>1, <1>2 DEF AckedLEOReal
<1>4. /\ replicaLEO' = [replicaLEO EXCEPT ![b] = acked]
      /\ \/ Recompute(b, meta[b], LEO(b), acked, "ack", 0, FALSE)
         \/ Interrupt(b, meta[b], "ack", 0, FALSE)
  BY DEF AckDeliver
<1>5. "ack" \in Callers
  BY DEF Callers
<1> HIDE DEF acked
<1>6. \E m2, h : CallEffect(b, meta[b], LEO(b), acked, m2, h)
  BY <1>2, <1>3, <1>4, <1>5, RecomputeEffect, InterruptEffect
<1>7. AckNoted(a, b, acked)
  BY <1>3, <1>4 DEF AckNoted
<1> QED BY <1>6, <1>7

\* handleReplicaAck stores a log end the follower has.
LEMMA AckDeliverInv ==
  ASSUME IndInv, NEW a \in acks, AckDeliver(a)
  PROVE  IndInv'
<1>1. TypeOK /\ AckedLEOReal /\ HWWithinLog /\ CallsCovered
  BY DEF IndInv
<1> PICK b \in Brokers : \E acked, m, h :
        /\ AckNoted(a, b, acked)
        /\ CallEffect(b, meta[b], LEO(b), acked, m, h)
  BY <1>1, AckEffect
<1>2. PICK acked, m, h : /\ AckNoted(a, b, acked)
                         /\ CallEffect(b, meta[b], LEO(b), acked, m, h)
  OBVIOUS
<1>3. /\ acked \in [Brokers -> Offsets \cup {NoAck}]
      /\ \A r \in Brokers : acked[r] <= LEO(r)
      /\ replicaLEO' = [replicaLEO EXCEPT ![b] = acked]
  BY <1>2 DEF AckNoted
<1>4. /\ m \in Metas /\ h \in Nat /\ h <= LEO(b)
      /\ meta' = [meta EXCEPT ![b] = m]
      /\ hw' = [hw EXCEPT ![b] = h]
      /\ bcast' \in [Brokers -> BOOLEAN] /\ waiting' \subseteq Waiters
      /\ calls' \subseteq Calls
      /\ \A c \in calls' : c.step \in {"lock", "set"} => c.broker \in ReplicaSet
      /\ \A c \in calls' : c \in calls \/ c.step \notin {"set", "soloset"}
  BY <1>2 DEF CallEffect
<1>5. /\ acks' = acks \ {a}
      /\ UNCHANGED <<up, alive, pushes, log, fetch, admitted, produced, crashes,
                     faults>>
  BY DEF AckDeliver
<1>6. LEO(b) \in Nat /\ LEO(b) <= MaxRecords /\ MaxRecords \in Nat
  BY <1>1, TypeFacts
<1>7. TypeOK'
  <2>0. h \in 0..MaxRecords
    BY <1>4, <1>6
  <2>1. meta' \in [Brokers -> Metas] /\ hw' \in [Brokers -> 0..MaxRecords]
    BY <1>1, <1>4, <2>0 DEF TypeOK
  <2>2. replicaLEO' \in [Brokers -> [Brokers -> Offsets \cup {NoAck}]]
    BY <1>1, <1>3 DEF TypeOK
  <2> QED BY <1>1, <1>4, <1>5, <2>1, <2>2 DEF TypeOK, LEO
<1>8. AckedLEOReal'
  BY <1>1, <1>3, <1>5 DEF AckedLEOReal, TypeOK, LEO
<1>9. HWWithinLog'
  BY <1>1, <1>4, <1>5 DEF HWWithinLog, TypeOK, LEO
<1>10. (LogsProduced /\ FetchCopies /\ OffsetIdentity)'
  BY <1>5 DEF IndInv, LogsProduced, FetchCopies, OffsetIdentity, LEO
<1>11. CallsCovered'
  <2>1. \A r \in Brokers : LEO(r)' = LEO(r) /\ LEO(r) \in Nat
    BY <1>1, <1>5, TypeFacts DEF LEO
  <2> QED BY <1>1, <1>4, <2>1, CoveredKept
<1> QED BY <1>7, <1>8, <1>9, <1>10, <1>11 DEF IndInv

-----------------------------------------------------------------------------
(* The steps of an interrupted call *)

\* The frame d that takes the place of c in calls.
Replaces(c, d) ==
  /\ d \in Calls
  /\ d.step \in {"lock", "set"} => d.broker \in ReplicaSet
  /\ d.step = "set" => \A r \in d.isr : d.hw <= LEO(r)
  /\ d.step = "soloset" => d.isr = {d.broker}
  /\ calls' = (calls \ {c}) \cup {d}

\* Calls that are left or replaced soundly, over unchanged logs, stay sound.
LEMMA CallsKept ==
  ASSUME TypeOK, CallsCovered, log' = log, NEW c \in calls,
         calls' = calls \ {c} \/ \E d : Replaces(c, d)
  PROVE  /\ calls' \subseteq Calls
         /\ \A e \in calls' : e.step \in {"lock", "set"} => e.broker \in ReplicaSet
         /\ CallsCovered'
<1>1. \A r \in Brokers : LEO(r)' = LEO(r)
  BY DEF LEO
<1>2. \A e \in Calls : e.isr \subseteq Brokers
  BY ReplicasDomain DEF Calls
<1>3. CASE calls' = calls \ {c}
  BY <1>1, <1>2, <1>3 DEF TypeOK, CallsCovered
<1>4. ASSUME NEW d, Replaces(c, d)
      PROVE  /\ calls' \subseteq Calls
             /\ \A e \in calls' : e.step \in {"lock", "set"} => e.broker \in ReplicaSet
             /\ CallsCovered'
  <2>1. \A e \in calls' : e \in calls \/ e = d
    BY <1>4 DEF Replaces
  <2>2. \A e \in calls' : e \in Calls
    BY <1>4, <2>1 DEF Replaces, TypeOK
  <2>3. \A e \in calls' : e.step \in {"lock", "set"} => e.broker \in ReplicaSet
    BY <1>4, <2>1 DEF Replaces, TypeOK
  <2>4. \A e \in calls' :
          /\ e.step = "set" => \A r \in e.isr : e.hw <= LEO(r)
          /\ e.step = "soloset" => e.isr = {e.broker}
    BY <1>4, <2>1 DEF Replaces, CallsCovered
  <2>5. CallsCovered'
    BY <1>1, <1>2, <2>2, <2>4 DEF CallsCovered
  <2> QED BY <2>2, <2>3, <2>5
<1> QED BY <1>3, <1>4

\* Under the lock: the ISR is well formed, and the candidate is no more than
\* what each of its members has.
LEMMA RecomputeLockInv ==
  ASSUME IndInv, NEW c \in calls, RecomputeLock(c)
  PROVE  IndInv'
<1> DEFINE isr == ComputeISR(c.broker, alive[c.broker], replicaLEO[c.broker])
           h   == ComputeHW(c.broker, LEO(c.broker), replicaLEO[c.broker], isr)
           d   == [c EXCEPT !.step = "set", !.isr = isr, !.hw = h,
                            !.changed = isr # c.isr]
<1>1. TypeOK /\ CallsCovered /\ AckedLEOReal
  BY DEF IndInv
<1>2. /\ c.step = "lock"
      /\ meta' = IF isr # c.isr THEN [meta EXCEPT ![c.broker].isr = isr] ELSE meta
      /\ calls' = (calls \ {c}) \cup {d}
      /\ UNCHANGED <<up, alive, bcast, pushes, log, hw, replicaLEO, fetch, acks,
                     admitted, waiting, produced, crashes, faults>>
  BY DEF RecomputeLock, Becomes
<1>3. PICK b \in Brokers : b = c.broker /\ b \in ReplicaSet /\ c \in Calls
  BY <1>1, <1>2 DEF TypeOK, Calls
<1>4. isr \subseteq ReplicaSet /\ isr # {}
  BY <1>3 DEF ComputeISR
<1>5. /\ LEO(b) \in Nat /\ LEO(b) <= MaxRecords /\ MaxRecords \in Nat
      /\ meta[b] \in Metas /\ replicaLEO[b] \in [Brokers -> Offsets \cup {NoAck}]
  BY <1>1, TypeFacts
<1>6. \A r \in isr \ {b} : replicaLEO[b][r] \in Nat /\ replicaLEO[b][r] <= LEO(r)
  BY <1>1, <1>3, <1>5, ReplicasDomain DEF ComputeISR, AckedLEOReal
<1> HIDE DEF isr
<1>7. h \in Nat /\ h <= LEO(b) /\ \A r \in isr \ {b} : h <= replicaLEO[b][r]
  BY <1>3, <1>5, <1>6, ComputeHWIsMin
<1> HIDE DEF h
<1>8. \A r \in isr : h <= LEO(r)
  <2> SUFFICES ASSUME NEW r \in isr PROVE h <= LEO(r)
    OBVIOUS
  <2>1. LEO(r) \in Nat
    BY <1>1, <1>4, ReplicasDomain, TypeFacts
  <2> QED BY <1>6, <1>7, <2>1
<1>9. Replaces(c, d)
  <2>1. h \in 0..MaxRecords
    BY <1>5, <1>7
  <2> DEFINE ch == isr # c.isr
  <2>2. ch \in BOOLEAN
    OBVIOUS
  <2> HIDE DEF ch
  <2>3. /\ d \in Calls /\ d.broker = b /\ d.isr = isr /\ d.hw = h
    BY <1>3, <1>4, <2>1, <2>2 DEF Calls, ch
  <2> QED BY <1>2, <1>3, <1>8, <2>3 DEF Replaces
<1> HIDE DEF d
<1>10. /\ calls' \subseteq Calls
       /\ \A e \in calls' : e.step \in {"lock", "set"} => e.broker \in ReplicaSet
       /\ CallsCovered'
  BY <1>1, <1>2, <1>9, CallsKept
<1>11. meta' \in [Brokers -> Metas]
  <2>1. [meta[b] EXCEPT !.isr = isr] \in Metas
    BY <1>4, <1>5 DEF Metas
  <2> QED BY <1>1, <1>2, <1>3, <2>1 DEF TypeOK
<1>12. TypeOK'
  BY <1>1, <1>2, <1>10, <1>11 DEF TypeOK, LEO
<1>13. (LogsProduced /\ FetchCopies /\ OffsetIdentity /\ AckedLEOReal
          /\ HWWithinLog)'
  BY <1>2 DEF IndInv, LogsProduced, FetchCopies, OffsetIdentity, AckedLEOReal,
              HWWithinLog, LEO
<1> QED BY <1>10, <1>12, <1>13 DEF IndInv

\* After the unlock: the high watermark that is set stays within the log.
LEMMA RecomputeSetInv ==
  ASSUME IndInv, NEW c \in calls, RecomputeSet(c)
  PROVE  IndInv'
<1> DEFINE h == SetHighWatermark(hw[c.broker], c.hw, LEO(c.broker))
           d == [c EXCEPT !.step = "solo", !.isr = {}, !.hw = 0, !.changed = FALSE]
<1>1. TypeOK /\ CallsCovered /\ HWWithinLog
  BY DEF IndInv
<1>2. /\ c.step = "set"
      /\ hw' = [hw EXCEPT ![c.broker] = h]
      /\ bcast' = [bcast EXCEPT ![c.broker] = @ \/ c.changed]
      /\ calls' = calls \ {c} \/ calls' = (calls \ {c}) \cup {d}
      /\ waiting' = waiting \cup Waits(c.broker, c.then, c.off, h)
      /\ UNCHANGED <<up, alive, meta, pushes, log, replicaLEO, fetch, acks,
                     admitted, produced, crashes, faults>>
  BY DEF RecomputeSet, Becomes
<1>3. PICK b \in Brokers : b = c.broker /\ c \in Calls /\ c.hw \in Nat
  BY <1>1, TypeFacts DEF TypeOK, Calls
<1>4. /\ LEO(b) \in Nat /\ LEO(b) <= MaxRecords /\ MaxRecords \in Nat
      /\ hw[b] \in Nat /\ hw[b] <= LEO(b)
  BY <1>1, TypeFacts DEF HWWithinLog
<1>5. h \in Nat /\ h <= LEO(b)
  BY <1>3, <1>4, SetHWFacts
<1> HIDE DEF h
<1>6. calls' = calls \ {c} \/ \E e : Replaces(c, e)
  <2> DEFINE ch == FALSE
  <2>0. ch \in BOOLEAN /\ 0 \in 0..MaxRecords /\ {} \in SUBSET ReplicaSet
    BY <1>4
  <2> HIDE DEF ch
  <2>1. d \in Calls /\ d.step = "solo"
    BY <1>3, <2>0 DEF Calls, ch
  <2> HIDE DEF d
  <2> QED BY <1>2, <2>1 DEF Replaces
<1>7. /\ calls' \subseteq Calls
      /\ \A e \in calls' : e.step \in {"lock", "set"} => e.broker \in ReplicaSet
      /\ CallsCovered'
  BY <1>1, <1>2, <1>6, CallsKept
<1>8. hw' \in [Brokers -> 0..MaxRecords]
  BY <1>1, <1>2, <1>3, <1>4, <1>5 DEF TypeOK
<1>9. bcast' \in [Brokers -> BOOLEAN]
  BY <1>1, <1>2, Zenon DEF TypeOK
<1>10. waiting' \subseteq Waiters
  BY <1>1, <1>2, <1>3 DEF TypeOK, Waits, Waiters, Calls
<1>11. TypeOK'
  BY <1>1, <1>2, <1>7, <1>8, <1>9, <1>10 DEF TypeOK, LEO
<1>12. HWWithinLog'
  BY <1>1, <1>2, <1>3, <1>5 DEF HWWithinLog, TypeOK, LEO
<1>13. (LogsProduced /\ FetchCopies /\ OffsetIdentity /\ AckedLEOReal)'
  BY <1>2 DEF IndInv, LogsProduced, FetchCopies, OffsetIdentity, AckedLEOReal, LEO
<1> QED BY <1>7, <1>11, <1>12, <1>13 DEF IndInv

\* maybeSoloHW reads the ISR.
LEMMA SoloReadInv ==
  ASSUME IndInv, NEW c \in calls, SoloRead(c)
  PROVE  IndInv'
<1> DEFINE d == [c EXCEPT !.step = "soloset", !.isr = {c.broker},
                          !.hw = LEO(c.broker)]
<1>1. TypeOK /\ CallsCovered
  BY DEF IndInv
<1>2. /\ \/ calls' = calls \ {c}
         \/ meta[c.broker].isr = {c.broker} /\ calls' = (calls \ {c}) \cup {d}
      /\ UNCHANGED <<up, alive, meta, bcast, pushes, log, hw, replicaLEO, fetch,
                     acks, admitted, waiting, produced, crashes, faults>>
  BY DEF SoloRead, Becomes
<1>3. PICK b \in Brokers : b = c.broker /\ c \in Calls
  BY <1>1 DEF TypeOK, Calls
<1>4. /\ LEO(b) \in Nat /\ LEO(b) <= MaxRecords /\ MaxRecords \in Nat
      /\ meta[b] \in Metas
  BY <1>1, TypeFacts
<1>5. calls' = calls \ {c} \/ \E e : Replaces(c, e)
  <2>1. CASE meta[b].isr = {b} /\ calls' = (calls \ {c}) \cup {d}
    <3>1. LEO(b) \in 0..MaxRecords /\ {b} \subseteq ReplicaSet
      BY <1>4, <2>1 DEF Metas
    <3>2. d \in Calls /\ d.step = "soloset" /\ d.isr = {b} /\ d.hw = LEO(b)
      BY <1>3, <3>1 DEF Calls
    <3> HIDE DEF d
    <3>3. d.broker = b
      BY <1>3 DEF Calls, d
    <3> QED BY <2>1, <3>2, <3>3 DEF Replaces
  <2> QED BY <1>2, <1>3, <2>1
<1> HIDE DEF d
<1>6. /\ calls' \subseteq Calls
      /\ \A e \in calls' : e.step \in {"lock", "set"} => e.broker \in ReplicaSet
      /\ CallsCovered'
  BY <1>1, <1>2, <1>5, CallsKept
<1>7. TypeOK'
  BY <1>1, <1>2, <1>6 DEF TypeOK, LEO
<1>8. (LogsProduced /\ FetchCopies /\ OffsetIdentity /\ AckedLEOReal
         /\ HWWithinLog)'
  BY <1>2 DEF IndInv, LogsProduced, FetchCopies, OffsetIdentity, AckedLEOReal,
              HWWithinLog, LEO
<1> QED BY <1>6, <1>7, <1>8 DEF IndInv

\* maybeSoloHW sets the high watermark to a log end of its own log.
LEMMA SoloSetInv ==
  ASSUME IndInv, NEW c \in calls, SoloSet(c)
  PROVE  IndInv'
<1>1. TypeOK /\ CallsCovered /\ HWWithinLog
  BY DEF IndInv
<1>2. PICK b \in Brokers : b = c.broker /\ c \in Calls /\ c.hw \in Nat
  BY <1>1, TypeFacts DEF TypeOK, Calls
<1>3. /\ LEO(b) \in Nat /\ LEO(b) <= MaxRecords /\ MaxRecords \in Nat
      /\ hw[b] \in Nat /\ hw[b] <= LEO(b)
  BY <1>1, TypeFacts DEF HWWithinLog
<1>4. PICK k \in c.hw..LEO(b) :
        hw' = [hw EXCEPT ![b] = SetHighWatermark(hw[b], k, LEO(b))]
  BY <1>1, <1>2 DEF SoloSet, TypeOK
<1>5. /\ calls' = calls \ {c}
      /\ UNCHANGED <<up, alive, meta, bcast, pushes, log, replicaLEO, fetch,
                     acks, admitted, waiting, produced, crashes, faults>>
  BY DEF SoloSet
<1> DEFINE h == SetHighWatermark(hw[b], k, LEO(b))
<1>6. h \in Nat /\ h <= LEO(b)
  <2>1. k \in Nat
    BY <1>2, <1>3
  <2> QED BY <1>3, <2>1, SetHWFacts
<1>7. hw' = [hw EXCEPT ![b] = h]
  BY <1>4
<1> HIDE DEF h
<1>8. /\ calls' \subseteq Calls
      /\ \A e \in calls' : e.step \in {"lock", "set"} => e.broker \in ReplicaSet
      /\ CallsCovered'
  BY <1>1, <1>5, CallsKept
<1>9. hw' \in [Brokers -> 0..MaxRecords]
  BY <1>1, <1>3, <1>6, <1>7 DEF TypeOK
<1>10. TypeOK'
  BY <1>1, <1>5, <1>8, <1>9 DEF TypeOK, LEO
<1>11. HWWithinLog'
  BY <1>1, <1>5, <1>6, <1>7 DEF HWWithinLog, TypeOK, LEO
<1>12. (LogsProduced /\ FetchCopies /\ OffsetIdentity /\ AckedLEOReal)'
  BY <1>5 DEF IndInv, LogsProduced, FetchCopies, OffsetIdentity, AckedLEOReal, LEO
<1> QED BY <1>8, <1>10, <1>11, <1>12 DEF IndInv

-----------------------------------------------------------------------------
(* The actions that only touch membership, metadata and messages *)

\* Heartbeats, timeouts, broadcasts, pushes, checks and returns of produces
\* leave logs, acks and watermarks alone, and keep the types.
LEMMA QuietInv ==
  ASSUME IndInv,
         \/ \E b, p \in Brokers : Heartbeat(b, p) \/ SessionTimeout(b, p)
         \/ \E b \in Brokers : Broadcast(b) \/ ProduceCheck(b)
         \/ \E m \in pushes : PushDeliver(m) \/ PushLost(m)
         \/ \E w \in waiting : ProduceReturn(w) \/ ProduceTimeout(w)
  PROVE  IndInv'
<1>1. TypeOK /\ DataInv
  BY DEF IndInv, DataInv
<1>2. UNCHANGED <<log, fetch, acks, replicaLEO, hw, produced, calls>>
  BY DEF Heartbeat, SessionTimeout, Broadcast, ProduceCheck, PushDeliver,
         PushLost, ProduceReturn, ProduceTimeout
<1>3. DataInv'
  BY <1>1, <1>2, DataFrame
<1>4. TypeOK'
  <2>1. ASSUME NEW b \in Brokers, NEW p \in Brokers, Heartbeat(b, p)
        PROVE  TypeOK'
    BY <1>1, <2>1 DEF Heartbeat, TypeOK, LEO
  <2>2. ASSUME NEW b \in Brokers, NEW p \in Brokers, SessionTimeout(b, p)
        PROVE  TypeOK'
    <3>1. faults' \in 0..MaxFaults
      BY <1>1, <2>2, BoundsAssumption DEF SessionTimeout, NetworkFault, TypeOK
    <3>2. alive' \in [Brokers -> SUBSET Brokers] /\ \A c \in Brokers : c \in alive'[c]
      BY <1>1, <2>2 DEF SessionTimeout, TypeOK
    <3> QED BY <1>1, <2>2, <3>1, <3>2 DEF SessionTimeout, TypeOK, LEO
  <2>3. ASSUME NEW b \in Brokers, Broadcast(b) PROVE TypeOK'
    <3>1. pushes' \subseteq Pushes
      BY <1>1, <2>3, TypeFacts DEF Broadcast, TypeOK, Pushes
    <3>2. bcast' \in [Brokers -> BOOLEAN]
      BY <1>1, <2>3 DEF Broadcast, TypeOK
    <3> QED BY <1>1, <2>3, <3>1, <3>2 DEF Broadcast, TypeOK, LEO
  <2>4. ASSUME NEW b \in Brokers, ProduceCheck(b) PROVE TypeOK'
    BY <1>1, <2>4 DEF ProduceCheck, TypeOK, LEO
  <2>5. ASSUME NEW m \in pushes, PushDeliver(m) PROVE TypeOK'
    <3>1. m.to \in Brokers /\ m.meta \in Metas /\ meta[m.to] \in Metas
      BY <1>1 DEF TypeOK, Pushes
    <3>2. ApplyPush(meta[m.to], m.meta, m.to, alive[m.to]) \in Metas
      BY <3>1, ApplyPushSound
    <3>3. meta' \in [Brokers -> Metas] /\ pushes' \subseteq Pushes
      BY <1>1, <2>5, <3>1, <3>2 DEF PushDeliver, TypeOK
    <3> QED BY <1>1, <2>5, <3>3 DEF PushDeliver, TypeOK, LEO
  <2>6. ASSUME NEW m \in pushes, PushLost(m) PROVE TypeOK'
    <3>1. faults' \in 0..MaxFaults
      BY <1>1, <2>6, BoundsAssumption DEF PushLost, NetworkFault, TypeOK
    <3> QED BY <1>1, <2>6, <3>1 DEF PushLost, TypeOK, LEO
  <2>7. ASSUME NEW w \in waiting, ProduceReturn(w) \/ ProduceTimeout(w)
        PROVE  TypeOK'
    BY <1>1, <2>7 DEF ProduceReturn, ProduceTimeout, TypeOK, LEO
  <2> QED BY <2>1, <2>2, <2>3, <2>4, <2>5, <2>6, <2>7
<1> QED BY <1>3, <1>4 DEF IndInv, DataInv

\* Forgetting acks, in flight or noted, keeps the invariant.
LEMMA ForgetInv ==
  ASSUME IndInv,
         \/ \E b, r \in Brokers : LagExpire(b, r)
         \/ \E a \in acks : AckLost(a)
  PROVE  IndInv'
<1>1. TypeOK /\ AckedLEOReal
  BY DEF IndInv
<1>2. \A r \in Brokers : LEO(r) \in Nat
  BY <1>1, TypeFacts
<1>3. ASSUME NEW b \in Brokers, NEW r \in Brokers, LagExpire(b, r) PROVE IndInv'
  <2>1. /\ replicaLEO' = [replicaLEO EXCEPT ![b][r] = -1]
        /\ UNCHANGED <<up, alive, meta, bcast, pushes, log, hw, fetch, acks,
                       admitted, calls, waiting, produced, crashes, faults>>
    BY <1>3 DEF LagExpire
  <2>2. replicaLEO' \in [Brokers -> [Brokers -> Offsets \cup {NoAck}]]
    BY <1>1, <2>1 DEF TypeOK
  <2>3. TypeOK'
    BY <1>1, <2>1, <2>2 DEF TypeOK, LEO
  <2>4. AckedLEOReal'
    BY <1>1, <1>2, <2>1 DEF AckedLEOReal, TypeOK, LEO
  <2>5. (LogsProduced /\ FetchCopies /\ OffsetIdentity /\ HWWithinLog
           /\ CallsCovered)'
    BY <2>1 DEF IndInv, LogsProduced, FetchCopies, OffsetIdentity, HWWithinLog,
                CallsCovered, LEO
  <2> QED BY <2>3, <2>4, <2>5 DEF IndInv
<1>4. ASSUME NEW a \in acks, AckLost(a) PROVE IndInv'
  <2>1. /\ acks' = acks \ {a}
        /\ UNCHANGED <<up, alive, meta, bcast, pushes, log, hw, replicaLEO, fetch,
                       admitted, calls, waiting, produced, crashes>>
    BY <1>4 DEF AckLost
  <2>2. faults' \in 0..MaxFaults
    BY <1>1, <1>4, BoundsAssumption DEF AckLost, NetworkFault, TypeOK
  <2>3. TypeOK'
    BY <1>1, <2>1, <2>2 DEF TypeOK, LEO
  <2>4. (LogsProduced /\ FetchCopies /\ OffsetIdentity /\ HWWithinLog
           /\ CallsCovered)'
    BY <2>1 DEF IndInv, LogsProduced, FetchCopies, OffsetIdentity, HWWithinLog,
                CallsCovered, LEO
  <2>5. AckedLEOReal'
    BY <1>1, <2>1 DEF AckedLEOReal, LEO
  <2> QED BY <2>3, <2>4, <2>5 DEF IndInv
<1> QED BY <1>3, <1>4

\* A crash and a restart lose volatile state only.
LEMMA CrashInv ==
  ASSUME IndInv, NEW b \in Brokers, Crash(b) \/ Restart(b)
  PROVE  IndInv'
<1>1. TypeOK /\ AckedLEOReal /\ HWWithinLog /\ FetchCopies
  BY DEF IndInv
<1>2. MaxRecords \in Nat /\ MaxCrashes \in Nat /\ \A r \in Brokers : LEO(r) \in Nat
  BY <1>1, TypeFacts, BoundsAssumption
<1>3. CASE Crash(b)
  <2>1. /\ crashes < MaxCrashes /\ crashes' = crashes + 1
        /\ up' = [up EXCEPT ![b] = FALSE]
        /\ alive' = [alive EXCEPT ![b] = {b}]
        /\ bcast' = [bcast EXCEPT ![b] = FALSE]
        /\ pushes' \subseteq pushes /\ acks' \subseteq acks
        /\ waiting' \subseteq waiting /\ calls' \subseteq calls
        /\ replicaLEO' = [replicaLEO EXCEPT ![b] = [r \in Brokers |-> -1]]
        /\ fetch' = [fetch EXCEPT ![b] = NoFetch]
        /\ admitted' = [admitted EXCEPT ![b] = FALSE]
        /\ UNCHANGED <<meta, log, hw, produced, faults>>
    BY <1>3 DEF Crash
  <2>2. NoFetch \in Fetches /\ NoFetch.src = 0 /\ NoFetch.recs = <<>>
    <3>1. <<>> \in Seq(Records) /\ 0 \in 0..MaxRecords
      BY <1>2
    <3> QED BY <3>1 DEF NoFetch, Fetches
  <2>3. /\ up' \in [Brokers -> BOOLEAN] /\ bcast' \in [Brokers -> BOOLEAN]
        /\ admitted' \in [Brokers -> BOOLEAN]
    BY <1>1, <2>1 DEF TypeOK
  <2>4. alive' \in [Brokers -> SUBSET Brokers] /\ \A c \in Brokers : c \in alive'[c]
    BY <1>1, <2>1 DEF TypeOK
  <2>5. replicaLEO' \in [Brokers -> [Brokers -> Offsets \cup {NoAck}]]
    BY <1>1, <2>1 DEF TypeOK
  <2>6. fetch' \in [Brokers -> Fetches] /\ crashes' \in 0..MaxCrashes
    BY <1>1, <1>2, <2>1, <2>2 DEF TypeOK
  <2>7. TypeOK'
    BY <1>1, <2>1, <2>3, <2>4, <2>5, <2>6 DEF TypeOK, LEO
  <2>8. FetchCopies'
    <3> SUFFICES ASSUME NEW c \in Brokers
                 PROVE  /\ fetch'[c].src = 0 => fetch'[c].recs = <<>>
                        /\ fetch'[c].src # 0 => \A i \in 1..Len(fetch'[c].recs) :
                             /\ fetch'[c].off + i <= Len(log[fetch'[c].src])
                             /\ fetch'[c].recs[i] = log[fetch'[c].src][fetch'[c].off + i]
      BY <2>1 DEF FetchCopies, LEO
    <3>1. fetch'[c] = IF c = b THEN NoFetch ELSE fetch[c]
      BY <1>1, <2>1 DEF TypeOK
    <3>2. CASE c = b
      BY <2>2, <3>1, <3>2
    <3>3. CASE c # b
      BY <1>1, <3>1, <3>3 DEF FetchCopies, LEO
    <3> QED BY <3>2, <3>3
  <2>9. AckedLEOReal'
    BY <1>1, <1>2, <2>1 DEF AckedLEOReal, TypeOK, LEO
  <2>10. (LogsProduced /\ OffsetIdentity /\ HWWithinLog /\ CallsCovered)'
    BY <2>1 DEF IndInv, LogsProduced, OffsetIdentity, HWWithinLog, CallsCovered,
                LEO
  <2> QED BY <2>7, <2>8, <2>9, <2>10 DEF IndInv
<1>4. CASE Restart(b)
  <2>1. /\ up' = [up EXCEPT ![b] = TRUE]
        /\ hw' = [hw EXCEPT ![b] = 0]
        /\ UNCHANGED <<alive, meta, bcast, pushes, log, replicaLEO, fetch, acks,
                       admitted, calls, waiting, produced, crashes, faults>>
    BY <1>4 DEF Restart
  <2>2. TypeOK'
    BY <1>1, <1>2, <2>1 DEF TypeOK, LEO
  <2>3. HWWithinLog'
    BY <1>1, <1>2, <2>1 DEF HWWithinLog, TypeOK, LEO
  <2>4. (LogsProduced /\ FetchCopies /\ OffsetIdentity /\ AckedLEOReal
           /\ CallsCovered)'
    BY <2>1 DEF IndInv, LogsProduced, FetchCopies, OffsetIdentity, AckedLEOReal,
                CallsCovered, LEO
  <2> QED BY <2>2, <2>3, <2>4 DEF IndInv
<1> QED BY <1>3, <1>4
-----------------------------------------------------------------------------
(* The theorems *)

\* The initial state satisfies the inductive invariant.
LEMMA InitInv == Init => IndInv
<1> SUFFICES ASSUME Init PROVE IndInv
  OBVIOUS
<1>1. MaxRecords \in Nat /\ MaxCrashes \in Nat /\ MaxFaults \in Nat
  BY BoundsAssumption
<1>2. NoFetch \in Fetches /\ NoFetch.src = 0 /\ NoFetch.recs = <<>>
  <2>1. <<>> \in Seq(Records) /\ 0 \in 0..MaxRecords
    BY <1>1
  <2> QED BY <2>1 DEF NoFetch, Fetches
<1>3. [leader |-> Replicas[1], isr |-> {Replicas[1]}] \in Metas
  BY ReplicasDomain DEF Metas
<1>4. \A b \in Brokers : log[b] = <<>> /\ LEO(b) = 0
  BY DEF Init, LEO
<1>5. TypeOK
  <2>1. log \in [Brokers -> Seq(Records)] /\ fetch \in [Brokers -> Fetches]
    BY <1>2 DEF Init
  <2>2. meta \in [Brokers -> Metas]
    BY <1>3 DEF Init
  <2>3. /\ alive \in [Brokers -> SUBSET Brokers]
        /\ \A b \in Brokers : b \in alive[b]
    BY DEF Init
  <2>4. hw \in [Brokers -> 0..MaxRecords]
        /\ replicaLEO \in [Brokers -> [Brokers -> Offsets \cup {NoAck}]]
    BY <1>1 DEF Init
  <2>5. /\ up \in [Brokers -> BOOLEAN] /\ bcast \in [Brokers -> BOOLEAN]
        /\ admitted \in [Brokers -> BOOLEAN]
    BY DEF Init
  <2>6. /\ pushes \subseteq Pushes /\ acks \subseteq Acks
        /\ waiting \subseteq Waiters /\ calls = {}
    BY DEF Init
  <2>7. /\ produced \in 0..MaxRecords /\ crashes \in 0..MaxCrashes
        /\ faults \in 0..MaxFaults
        /\ \A b \in Brokers : LEO(b) <= MaxRecords
    BY <1>1, <1>4 DEF Init
  <2> QED BY <2>1, <2>2, <2>3, <2>4, <2>5, <2>6, <2>7 DEF TypeOK
<1>6. LogsProduced /\ OffsetIdentity
  BY <1>4 DEF Init, LogsProduced, OffsetIdentity
<1>7. FetchCopies
  BY <1>2 DEF Init, FetchCopies
<1>8. AckedLEOReal /\ HWWithinLog /\ CallsCovered
  BY <1>4 DEF Init, AckedLEOReal, HWWithinLog, CallsCovered
<1> QED BY <1>5, <1>6, <1>7, <1>8 DEF IndInv

\* Every step preserves the inductive invariant: one case per action.
LEMMA StepInv == IndInv /\ [Next]_vars => IndInv'
<1> SUFFICES ASSUME IndInv, [Next]_vars PROVE IndInv'
  OBVIOUS
<1>1. CASE UNCHANGED vars
  <2>1. DataInv /\ DataInv'
    BY <1>1, DataFrame DEF IndInv, DataInv, vars
  <2>2. TypeOK'
    BY <1>1 DEF IndInv, TypeOK, LEO, vars
  <2> QED BY <2>1, <2>2 DEF IndInv, DataInv
<1>2. ASSUME NEW b \in Brokers, Tick(b) PROVE IndInv'
  BY <1>2, TickInv
<1>3. ASSUME NEW b \in Brokers, NEW mode \in AckModes, ProduceAppend(b, mode)
      PROVE  IndInv'
  BY <1>3, ProduceAppendInv
<1>4. ASSUME NEW b \in Brokers, Fetch(b) \/ ApplyRecord(b) \/ FetchDone(b)
      PROVE  IndInv'
  BY <1>4, FetchInv, ApplyRecordInv, FetchDoneInv
<1>5. ASSUME NEW b \in Brokers, Crash(b) \/ Restart(b) PROVE IndInv'
  BY <1>5, CrashInv
<1>6. ASSUME NEW a \in acks, AckDeliver(a) PROVE IndInv'
  BY <1>6, AckDeliverInv
<1>7. ASSUME \/ \E b, r \in Brokers : LagExpire(b, r)
             \/ \E a \in acks : AckLost(a)
      PROVE  IndInv'
  BY <1>7, ForgetInv
<1>8. ASSUME \/ \E b, p \in Brokers : Heartbeat(b, p) \/ SessionTimeout(b, p)
             \/ \E b \in Brokers : Broadcast(b) \/ ProduceCheck(b)
             \/ \E m \in pushes : PushDeliver(m) \/ PushLost(m)
             \/ \E w \in waiting : ProduceReturn(w) \/ ProduceTimeout(w)
      PROVE  IndInv'
  BY <1>8, QuietInv
<1>9. ASSUME NEW c \in calls, CallStep(c) PROVE IndInv'
  BY <1>9, RecomputeLockInv, RecomputeSetInv, SoloReadInv, SoloSetInv DEF CallStep
<1> QED BY <1>1, <1>2, <1>3, <1>4, <1>5, <1>6, <1>7, <1>8, <1>9 DEF Next

\* IndInv holds in every reachable state.
THEOREM Invariance == Spec => []IndInv
  BY InitInv, StepInv, PTL DEF Spec

\* Whatever elections, pushes, crashes, restarts and network faults interleave,
\* all variables keep their types and every metadata copy stays well formed.
THEOREM TypeCorrect == Spec => []TypeOK
<1>1. IndInv => TypeOK
  BY DEF IndInv
<1> QED BY <1>1, Invariance, PTL

\* A record has one offset in the whole cluster.
THEOREM OffsetIdentityCorrect == Spec => []OffsetIdentity
<1>1. IndInv => OffsetIdentity
  BY DEF IndInv
<1> QED BY <1>1, Invariance, PTL

\* Acknowledged log ends are real.
THEOREM AckedLEORealCorrect == Spec => []AckedLEOReal
<1>1. IndInv => AckedLEOReal
  BY DEF IndInv
<1> QED BY <1>1, Invariance, PTL

\* The high watermark stays within the log.
THEOREM HWWithinLogCorrect == Spec => []HWWithinLog
<1>1. IndInv => HWWithinLog
  BY DEF IndInv
<1> QED BY <1>1, Invariance, PTL

CommitStep ==
  \A b \in Brokers :
    hw'[b] > hw[b] /\ fetch'[b] = fetch[b] =>
      \E isr \in SUBSET ReplicaSet :
        CommitISR(b, isr) /\ \A r \in isr : Len(log'[r]) >= hw'[b]

\* A call raises the high watermark only to what the members of the ISR it has
\* written hold, as long as the acks it reads are real.
LEMMA CallCommits ==
  ASSUME IndInv, IndInv', NEW b \in Brokers, NEW m, NEW m2, NEW h,
         NEW acked \in [Brokers -> Offsets \cup {NoAck}],
         \A r \in Brokers : acked[r] <= LEO(r),
         NEW leo \in Nat, leo <= LEO(b)',
         \A c \in Brokers : LEO(c) <= LEO(c)',
         CallEffect(b, m, leo, acked, m2, h)
  PROVE  CommitStep
<1>1. TypeOK /\ TypeOK'
  BY DEF IndInv
<1>2. /\ m2 \in Metas /\ h \in Nat /\ h <= leo /\ calls \subseteq calls'
      /\ meta' = [meta EXCEPT ![b] = m2] /\ hw' = [hw EXCEPT ![b] = h]
      /\ h > hw[b] => \A r \in m2.isr \ {b} : h <= acked[r]
  BY DEF CallEffect
<1>3. /\ meta'[b] = m2 /\ hw'[b] = h
      /\ \A c \in Brokers : c # b => hw'[c] = hw[c]
      /\ \A c \in Brokers : hw[c] \in Nat
  BY <1>1, <1>2, TypeFacts DEF TypeOK
<1>4. ASSUME h > hw[b], NEW r \in m2.isr PROVE LEO(r)' >= h
  <2>1. r \in Brokers
    BY <1>2, ReplicasDomain DEF Metas
  <2>2. LEO(r) \in Nat /\ LEO(r)' \in Nat
    BY <1>1, <2>1 DEF TypeOK, LEO
  <2>3. CASE r = b
    BY <1>2, <2>2, <2>3
  <2>4. CASE r # b
    <3>1. h <= acked[r] /\ acked[r] <= LEO(r) /\ LEO(r) <= LEO(r)' /\ acked[r] \in Int
      BY <1>2, <1>4, <2>1, <2>4, BoundsAssumption
    <3> QED BY <1>2, <2>2, <3>1
  <2> QED BY <2>3, <2>4
<1>5. m2.isr \in SUBSET ReplicaSet /\ CommitISR(b, m2.isr)
  BY <1>2, <1>3 DEF Metas, CommitISR
<1> SUFFICES ASSUME NEW c \in Brokers, hw'[c] > hw[c]
             PROVE  \E isr \in SUBSET ReplicaSet :
                      CommitISR(c, isr) /\ \A r \in isr : Len(log'[r]) >= hw'[c]
  BY DEF CommitStep
<1>6. c = b
  BY <1>3
<1>7. \A r \in m2.isr : Len(log'[r]) >= hw'[b]
  BY <1>3, <1>4, <1>6 DEF LEO
<1> QED BY <1>5, <1>6, <1>7

\* A call that finishes sets at most what it computed for its ISR.
LEMMA FrameCommits ==
  ASSUME IndInv, IndInv', NEW c \in calls, c \notin calls', log' = log,
         NEW h \in Nat, hw' = [hw EXCEPT ![c.broker] = h],
         h > hw[c.broker] => \A r \in c.isr : h <= LEO(r)
  PROVE  CommitStep
<1>1. TypeOK
  BY DEF IndInv
<1>2. PICK b \in Brokers : b = c.broker /\ c.isr \in SUBSET ReplicaSet
  BY <1>1 DEF TypeOK, Calls
<1>3. /\ hw'[b] = h
      /\ \A d \in Brokers : d # b => hw'[d] = hw[d]
      /\ \A d \in Brokers : hw[d] \in Nat /\ LEO(d) \in Nat
  BY <1>1, <1>2, TypeFacts DEF TypeOK
<1>4. CommitISR(b, c.isr)
  BY <1>2 DEF CommitISR
<1> SUFFICES ASSUME NEW d \in Brokers, hw'[d] > hw[d]
             PROVE  \E isr \in SUBSET ReplicaSet :
                      CommitISR(d, isr) /\ \A r \in isr : Len(log'[r]) >= hw'[d]
  BY DEF CommitStep
<1>5. d = b
  BY <1>3
<1>6. \A r \in c.isr : Len(log'[r]) >= hw'[b]
  <2> SUFFICES ASSUME NEW r \in c.isr PROVE LEO(r) >= h
    BY <1>3 DEF LEO
  <2>1. r \in Brokers
    BY <1>2, ReplicasDomain
  <2> QED BY <1>2, <1>3, <1>5, <2>1
<1> QED BY <1>2, <1>4, <1>5, <1>6

\* Every step of the system is a CommitStep.
LEMMA StepCommits ==
  ASSUME IndInv, IndInv', [Next]_vars
  PROVE  CommitStep
<1>1. TypeOK /\ AckedLEOReal /\ HWWithinLog /\ CallsCovered /\ TypeOK'
  BY DEF IndInv
<1>2. \A c \in Brokers :
        /\ LEO(c) \in Nat /\ LEO(c)' \in Nat /\ hw[c] \in Nat /\ hw[c] <= LEO(c)
        /\ meta[c] \in Metas
        /\ replicaLEO[c] \in [Brokers -> Offsets \cup {NoAck}]
        /\ \A r \in Brokers : replicaLEO[c][r] <= LEO(r)
  BY <1>1, TypeFacts DEF AckedLEOReal, HWWithinLog, TypeOK, LEO
<1>3. ASSUME hw' = hw PROVE CommitStep
  <2>1. \A b \in Brokers : ~(hw'[b] > hw[b])
    BY <1>2, <1>3
  <2> QED BY <2>1 DEF CommitStep
<1>4. ASSUME NEW b \in Brokers, Tick(b) PROVE CommitStep
  <2>1. PICK m2, h : CallEffect(b, TickMeta(b), LEO(b), replicaLEO[b], m2, h)
    BY <1>1, <1>4, TickEffect
  <2>2. \A c \in Brokers : LEO(c)' = LEO(c)
    BY <1>4 DEF Tick, LEO
  <2>3. \A c \in Brokers : LEO(c) <= LEO(c)'
    BY <1>2, <2>2
  <2> QED BY <1>2, <2>1, <2>3, CallCommits
<1>5. ASSUME NEW b \in Brokers, NEW mode \in AckModes, ProduceAppend(b, mode)
      PROVE  CommitStep
  <2>1. PICK m2, h : CallEffect(b, meta[b], LEO(b) + 1, replicaLEO[b], m2, h)
    BY <1>1, <1>5, ProduceEffect
  <2>2. /\ log' = [log EXCEPT ![b] = Append(@, produced + 1)]
        /\ produced < MaxRecords
    BY <1>5 DEF ProduceAppend
  <2>3. produced + 1 \in Records
    BY <1>1, <2>2, BoundsAssumption DEF TypeOK
  <2>4. LEO(b)' = LEO(b) + 1 /\ \A c \in Brokers : LEO(c) <= LEO(c)'
    BY <1>1, <2>2, <2>3, AppendFacts
  <2> DEFINE leo == LEO(b) + 1
  <2>5. leo \in Nat /\ leo <= LEO(b)'
    BY <1>2, <2>4
  <2> HIDE DEF leo
  <2> QED BY <1>2, <2>1, <2>4, <2>5, CallCommits DEF leo
<1>6. ASSUME NEW b \in Brokers, FetchDone(b) PROVE CommitStep
  <2>1. /\ fetch[b] # NoFetch /\ fetch'[b] = NoFetch
        /\ \A c \in Brokers : c # b => hw'[c] = hw[c]
    BY <1>1, <1>6 DEF FetchDone, TypeOK
  <2> QED BY <1>2, <2>1 DEF CommitStep
<1>7. ASSUME NEW a \in acks, AckDeliver(a) PROVE CommitStep
  <2> PICK b \in Brokers : \E acked, m, h :
          /\ AckNoted(a, b, acked)
          /\ CallEffect(b, meta[b], LEO(b), acked, m, h)
    BY <1>1, <1>7, AckEffect
  <2>1. PICK acked, m, h : /\ AckNoted(a, b, acked)
                           /\ CallEffect(b, meta[b], LEO(b), acked, m, h)
    OBVIOUS
  <2>2. /\ acked \in [Brokers -> Offsets \cup {NoAck}]
        /\ \A r \in Brokers : acked[r] <= LEO(r)
    BY <2>1 DEF AckNoted
  <2>3. \A c \in Brokers : LEO(c)' = LEO(c)
    BY <1>7 DEF AckDeliver, LEO
  <2>4. \A c \in Brokers : LEO(c) <= LEO(c)'
    BY <1>2, <2>3
  <2> QED BY <1>2, <2>1, <2>2, <2>4, CallCommits
<1>8. ASSUME NEW b \in Brokers, Restart(b) PROVE CommitStep
  <2>1. \A c \in Brokers : hw'[c] <= hw[c]
    BY <1>1, <1>2, <1>8 DEF Restart, TypeOK
  <2>2. \A c \in Brokers : hw'[c] \in Nat
    BY <1>1 DEF TypeOK
  <2> QED BY <1>2, <2>1, <2>2 DEF CommitStep
<1>9. ASSUME \/ UNCHANGED vars
             \/ \E b \in Brokers : \/ Broadcast(b) \/ ProduceCheck(b) \/ Fetch(b)
                                   \/ ApplyRecord(b) \/ Crash(b)
             \/ \E b, p \in Brokers : \/ Heartbeat(b, p) \/ SessionTimeout(b, p)
                                      \/ LagExpire(b, p)
             \/ \E m \in pushes : PushDeliver(m) \/ PushLost(m)
             \/ \E a \in acks : AckLost(a)
             \/ \E w \in waiting : ProduceReturn(w) \/ ProduceTimeout(w)
             \/ \E c \in calls : RecomputeLock(c) \/ SoloRead(c)
      PROVE  CommitStep
  <2>1. hw' = hw
    BY <1>9 DEF vars, RecomputeLock, SoloRead, Broadcast, ProduceCheck, Fetch, ApplyRecord, Crash, Heartbeat,
                SessionTimeout, LagExpire, PushDeliver, PushLost, AckLost,
                ProduceReturn, ProduceTimeout
  <2> QED BY <1>3, <2>1
<1>10. ASSUME NEW c \in calls, RecomputeSet(c) PROVE CommitStep
  <2> DEFINE h == SetHighWatermark(hw[c.broker], c.hw, LEO(c.broker))
  <2>1. /\ hw' = [hw EXCEPT ![c.broker] = h] /\ log' = log
        /\ \A r \in c.isr : c.hw <= LEO(r)
    BY <1>1, <1>10 DEF RecomputeSet, CallsCovered
  <2>2. c \notin calls'
    <3>1. c \in Calls
      BY <1>1 DEF TypeOK
    <3>2. [c EXCEPT !.step = "solo", !.isr = {}, !.hw = 0, !.changed = FALSE].step
            = "solo"
      BY <3>1 DEF Calls
    <3> QED BY <1>10, <3>2 DEF RecomputeSet, Becomes
  <2>3. c.broker \in Brokers /\ c.hw \in Nat /\ c.isr \subseteq Brokers
    <3>1. c \in Calls /\ MaxRecords \in Nat
      BY <1>1, BoundsAssumption DEF TypeOK
    <3>2. c.broker \in Brokers /\ c.hw \in 0..MaxRecords /\ c.isr \subseteq ReplicaSet
      BY <3>1 DEF Calls
    <3> QED BY <3>1, <3>2, ReplicasDomain
  <2>4. h \in Nat /\ (h > hw[c.broker] => h <= c.hw)
    BY <1>2, <2>3, SetHWFacts
  <2> HIDE DEF h
  <2>5. h > hw[c.broker] => \A r \in c.isr : h <= LEO(r)
    BY <1>2, <2>1, <2>3, <2>4
  <2> QED BY <2>1, <2>2, <2>4, <2>5, FrameCommits
<1>11. ASSUME NEW c \in calls, SoloSet(c) PROVE CommitStep
  <2>1. c.broker \in Brokers /\ c.hw \in Nat /\ c.isr = {c.broker}
    BY <1>1, <1>11, TypeFacts DEF TypeOK, Calls, SoloSet, CallsCovered
  <2>2. PICK k \in c.hw..LEO(c.broker) :
          hw' = [hw EXCEPT ![c.broker] =
                   SetHighWatermark(hw[c.broker], k, LEO(c.broker))]
    BY <1>1, <1>11, <2>1 DEF SoloSet, TypeOK
  <2> DEFINE h == SetHighWatermark(hw[c.broker], k, LEO(c.broker))
  <2>3. k \in Nat
    BY <1>2, <2>1
  <2>4. h \in Nat /\ h <= LEO(c.broker)
    BY <1>2, <2>1, <2>3, SetHWFacts
  <2>5. hw' = [hw EXCEPT ![c.broker] = h] /\ log' = log /\ c \notin calls'
    BY <1>11, <2>2 DEF SoloSet
  <2> HIDE DEF h
  <2>6. \A r \in c.isr : h <= LEO(r)
    BY <2>1, <2>4
  <2> QED BY <2>4, <2>5, <2>6, FrameCommits
<1> QED BY <1>4, <1>5, <1>6, <1>7, <1>8, <1>9, <1>10, <1>11 DEF Next, CallStep

\* When recomputeHW or maybeSoloHW raises a broker's high watermark, every member
\* of the ISR it was computed for holds every record below it, for every cluster,
\* every schedule and every number of calls between their lock and their set.
THEOREM CommitCoveredCorrect == Spec => CommitCovered
<1>1. IndInv /\ IndInv' /\ [Next]_vars => [CommitStep]_vars
  BY StepCommits
<1>2. Spec => [][CommitStep]_vars
  BY <1>1, Invariance, PTL DEF Spec
<1> QED BY <1>2 DEF CommitCovered, CommitStep
-----------------------------------------------------------------------------
(* A leader that never loses its role *)

\* The preferred replica stays up, no call between live brokers is lost or late,
\* and no broker comes back alone in its own view.
StableLeader == Replicas[1] \notin Killable /\ ~CanRestart /\ MaxFaults = 0

\* Everyone who is up sees the first leader and takes it for the leader; nobody
\* else admits a produce or answers a fetch.
LeaderStays ==
  /\ up[Replicas[1]]
  /\ \A b \in Brokers : up[b] => Replicas[1] \in alive[b]
  /\ \A b \in Brokers : meta[b].leader = Replicas[1]
  /\ \A m \in pushes : m.meta.leader = Replicas[1]
  /\ \A b \in Brokers : admitted[b] => b = Replicas[1]
  /\ \A b \in Brokers : fetch[b].src \in {0, Replicas[1]}

\* No decision moves the leadership away from a leader that is seen.
LEMMA LeaderKept ==
  ASSUME NEW m \in Metas, m.leader = Replicas[1]
  PROVE  /\ \A A : Replicas[1] \in A => ControllerFix(m, A).leader = Replicas[1]
         /\ \A n \in Metas : n.leader = Replicas[1] =>
              \A self, A : ApplyPush(m, n, self, A).leader = Replicas[1]
         /\ \A b, acked : RecomputedMeta(b, m, acked).leader = Replicas[1]
<1>1. ASSUME NEW A, Replicas[1] \in A
      PROVE  ControllerFix(m, A).leader = Replicas[1]
  BY <1>1 DEF ControllerFix, Elected
<1>2. ASSUME NEW n \in Metas, n.leader = Replicas[1], NEW self, NEW A
      PROVE  ApplyPush(m, n, self, A).leader = Replicas[1]
  BY <1>2 DEF ApplyPush
<1>3. ASSUME NEW b, NEW acked
      PROVE  RecomputedMeta(b, m, acked).leader = Replicas[1]
  BY DEF RecomputedMeta, Metas
<1> QED BY <1>1, <1>2, <1>3

\* Every step leaves the first leader in its role.
LEMMA LeaderStaysStep ==
  ASSUME StableLeader, IndInv, LeaderStays, [Next]_vars
  PROVE  LeaderStays'
<1> USE DEF LeaderStays
<1>1. TypeOK /\ Replicas[1] \in Brokers
  BY ReplicasDomain DEF IndInv
<1>2. \A b \in Brokers : meta[b] \in Metas
  BY <1>1 DEF TypeOK
<1>3. CASE UNCHANGED vars
  BY <1>3 DEF vars
<1>4. ASSUME NEW b \in Brokers, Tick(b)
      PROVE  LeaderStays'
  <2>1. TickMeta(b).leader = Replicas[1]
    BY <1>2, <1>4, LeaderKept DEF Tick, TickMeta
  <2>2. PICK m2, h : CallEffect(b, TickMeta(b), LEO(b), replicaLEO[b], m2, h)
    BY <1>1, <1>4, TickEffect DEF IndInv
  <2>3. meta' = [meta EXCEPT ![b] = m2] /\ m2.leader = Replicas[1]
    BY <2>1, <2>2 DEF CallEffect
  <2>4. \A c \in Brokers : meta'[c].leader = Replicas[1]
    BY <1>1, <2>3 DEF TypeOK
  <2> QED BY <1>4, <2>4 DEF Tick
<1>5. ASSUME NEW b \in Brokers, Broadcast(b)
      PROVE  LeaderStays'
  <2>1. \A m \in pushes' : m.meta.leader = Replicas[1]
    BY <1>5 DEF Broadcast
  <2> QED BY <1>5, <2>1 DEF Broadcast
<1>6. ASSUME NEW b \in Brokers, ProduceCheck(b)
      PROVE  LeaderStays'
  BY <1>1, <1>6 DEF ProduceCheck, TypeOK
<1>7. ASSUME NEW b \in Brokers, NEW mode \in AckModes, ProduceAppend(b, mode)
      PROVE  LeaderStays'
  <2>0. PICK m2, h : CallEffect(b, meta[b], LEO(b) + 1, replicaLEO[b], m2, h)
    BY <1>1, <1>7, ProduceEffect DEF IndInv
  <2>1. m2.leader = Replicas[1] /\ meta' = [meta EXCEPT ![b] = m2]
    BY <2>0 DEF CallEffect
  <2>2. \A c \in Brokers : meta'[c].leader = Replicas[1]
    BY <1>1, <2>1 DEF TypeOK
  <2>3. \A c \in Brokers : admitted'[c] => admitted[c]
    BY <1>1, <1>7 DEF ProduceAppend, TypeOK
  <2> QED BY <1>7, <2>2, <2>3 DEF ProduceAppend
<1>8. ASSUME NEW b \in Brokers, Fetch(b)
      PROVE  LeaderStays'
  <2>1. \A c \in Brokers : fetch'[c].src \in {0, Replicas[1]}
    BY <1>1, <1>8 DEF Fetch, TypeOK
  <2> QED BY <1>8, <2>1 DEF Fetch
<1>9. ASSUME NEW b \in Brokers, ApplyRecord(b)
      PROVE  LeaderStays'
  <2> DEFINE f == fetch[b]
  <2>1. f \in Fetches
    BY <1>1 DEF TypeOK
  <2>2. PICK g : fetch' = [fetch EXCEPT ![b] = g]
                 /\ g \in {[f EXCEPT !.recs = <<>>], [f EXCEPT !.off = @ + 1, !.recs = Tail(@)]}
    BY <1>9 DEF ApplyRecord
  <2>3. g.src = f.src
    BY <2>1, <2>2 DEF Fetches
  <2>4. \A c \in Brokers : fetch'[c].src \in {0, Replicas[1]}
    BY <1>1, <2>2, <2>3 DEF TypeOK
  <2> QED BY <1>9, <2>4 DEF ApplyRecord
<1>10. ASSUME NEW b \in Brokers, FetchDone(b)
       PROVE  LeaderStays'
  <2>1. \A c \in Brokers : fetch'[c].src \in {0, Replicas[1]}
    BY <1>1, <1>10 DEF FetchDone, TypeOK, NoFetch
  <2> QED BY <1>10, <2>1 DEF FetchDone
<1>11. ASSUME NEW b \in Brokers, Crash(b)
       PROVE  LeaderStays'
  <2>1. b # Replicas[1]
    BY <1>11 DEF Crash, StableLeader
  <2>2. \A c \in Brokers : fetch'[c].src \in {0, Replicas[1]}
    BY <1>1, <1>11 DEF Crash, TypeOK, NoFetch
  <2>3. /\ up'[Replicas[1]]
        /\ \A c \in Brokers : up'[c] => c # b /\ up[c] /\ alive'[c] = alive[c]
        /\ \A c \in Brokers : admitted'[c] => admitted[c]
    BY <1>1, <1>11, <2>1 DEF Crash, TypeOK
  <2> QED BY <1>11, <2>2, <2>3 DEF Crash
<1>12. ASSUME NEW b \in Brokers, Restart(b)
       PROVE  LeaderStays'
  BY <1>12 DEF Restart, StableLeader
<1>13. ASSUME NEW b \in Brokers, NEW p \in Brokers, Heartbeat(b, p)
       PROVE  LeaderStays'
  <2>1. \A c \in Brokers : alive[c] \subseteq alive'[c]
    BY <1>1, <1>13 DEF Heartbeat, TypeOK
  <2> QED BY <1>13, <2>1 DEF Heartbeat
<1>14. ASSUME NEW b \in Brokers, NEW p \in Brokers, SessionTimeout(b, p)
       PROVE  LeaderStays'
  <2>1. p # Replicas[1]
    BY <1>1, <1>14 DEF SessionTimeout, NetworkFault, StableLeader, TypeOK
  <2>2. \A c \in Brokers : alive[c] \ {p} \subseteq alive'[c]
    BY <1>1, <1>14 DEF SessionTimeout, TypeOK
  <2> QED BY <1>14, <2>1, <2>2 DEF SessionTimeout
<1>15. ASSUME NEW b \in Brokers, NEW p \in Brokers, LagExpire(b, p)
       PROVE  LeaderStays'
  BY <1>15 DEF LagExpire
<1>16. ASSUME NEW m \in pushes, PushDeliver(m)
       PROVE  LeaderStays'
  <2>1. m.to \in Brokers /\ m.meta \in Metas
    BY <1>1 DEF TypeOK, Pushes
  <2> PICK b \in Brokers : b = m.to
    BY <2>1
  <2> DEFINE m2 == ApplyPush(meta[b], m.meta, b, alive[b])
  <2>2. m2.leader = Replicas[1] /\ meta' = [meta EXCEPT ![b] = m2]
    BY <1>2, <1>16, <2>1, LeaderKept DEF PushDeliver
  <2> HIDE DEF m2
  <2>3. \A c \in Brokers : meta'[c].leader = Replicas[1]
    BY <1>1, <2>2 DEF TypeOK
  <2> QED BY <1>16, <2>3 DEF PushDeliver
<1>17. ASSUME NEW a \in acks, AckDeliver(a)
       PROVE  LeaderStays'
  <2>1. PICK b \in Brokers : \E acked, m2, h :
          CallEffect(b, meta[b], LEO(b), acked, m2, h)
    BY <1>1, <1>17, AckEffect DEF IndInv
  <2>2. PICK m2 : m2.leader = Replicas[1] /\ meta' = [meta EXCEPT ![b] = m2]
    BY <2>1 DEF CallEffect
  <2>3. \A c \in Brokers : meta'[c].leader = Replicas[1]
    BY <1>1, <2>2 DEF TypeOK
  <2> QED BY <1>17, <2>3 DEF AckDeliver
<1>18. ASSUME \/ \E m \in pushes : PushLost(m)
              \/ \E a \in acks : AckLost(a)
              \/ \E w \in waiting : ProduceReturn(w) \/ ProduceTimeout(w)
       PROVE  LeaderStays'
  BY <1>18 DEF PushLost, AckLost, ProduceReturn, ProduceTimeout
<1>19. ASSUME NEW c \in calls, RecomputeLock(c)
       PROVE  LeaderStays'
  <2>1. PICK isr : meta' = meta \/ meta' = [meta EXCEPT ![c.broker].isr = isr]
    BY <1>19 DEF RecomputeLock
  <2>2. ASSUME NEW b \in Brokers
        PROVE  meta'[b] = meta[b] \/ meta'[b] = [meta[b] EXCEPT !.isr = isr]
    <3>1. CASE meta' = meta
      BY <3>1
    <3>2. CASE meta' = [meta EXCEPT ![c.broker].isr = isr]
      BY <1>1, <3>2 DEF TypeOK
    <3> QED BY <2>1, <3>1, <3>2
  <2>3. \A m \in Metas : [m EXCEPT !.isr = isr].leader = m.leader
    BY DEF Metas
  <2>4. \A b \in Brokers : meta'[b].leader = meta[b].leader
    BY <1>2, <2>2, <2>3
  <2> QED BY <1>19, <2>4 DEF RecomputeLock
<1>20. ASSUME NEW c \in calls, RecomputeSet(c) \/ SoloRead(c) \/ SoloSet(c)
       PROVE  LeaderStays'
  BY <1>20 DEF RecomputeSet, SoloRead, SoloSet
<1> QED BY <1>3, <1>4, <1>5, <1>6, <1>7, <1>8, <1>9, <1>10, <1>11, <1>12, <1>13,
           <1>14, <1>15, <1>16, <1>17, <1>18, <1>19, <1>20 DEF Next, CallStep
\* Followers copy from the first leader, and only it appends new records.
LEMMA PrefixStep ==
  ASSUME StableLeader, IndInv, IndInv', LeaderStays, FollowersPrefix, [Next]_vars
  PROVE  FollowersPrefix'
<1>1. PICK l \in Brokers : l = Replicas[1]
  BY ReplicasDomain
<1>2. TypeOK /\ TypeOK' /\ FetchCopies /\ l # 0
  BY BrokersAssumption DEF IndInv
<1>3. \A b \in Brokers : LEO(b) \in Nat
  BY <1>2, TypeFacts
<1>4. ASSUME log' = log
      PROVE  FollowersPrefix'
  BY <1>4 DEF FollowersPrefix, LEO
<1>5. ASSUME NEW b \in Brokers, NEW v \in Records,
             log' = [log EXCEPT ![b] = Append(@, v)],
             b = l \/ (LEO(b) + 1 <= LEO(l) /\ v = log[l][LEO(b) + 1])
      PROVE  FollowersPrefix'
  <2>1. /\ LEO(b)' = LEO(b) + 1
        /\ log'[b][LEO(b) + 1] = v
        /\ \A c \in Brokers : /\ c # b => LEO(c)' = LEO(c)
                              /\ LEO(c) <= LEO(c)' /\ LEO(c)' \in Nat
                              /\ \A i \in 1..LEO(c) : log'[c][i] = log[c][i]
    BY <1>2, <1>5, AppendFacts
  <2> SUFFICES ASSUME NEW c \in Brokers, NEW i \in 1..LEO(c)'
               PROVE  i <= LEO(l)' /\ log'[c][i] = log'[l][i]
    BY <1>1 DEF FollowersPrefix
  <2>2. CASE c = l
    BY <2>1, <2>2
  <2>3. CASE c # l /\ i \in 1..LEO(c)
    <3>1. i <= LEO(l) /\ log[c][i] = log[l][i]
      BY <1>1, <2>3 DEF FollowersPrefix
    <3>2. i \in 1..LEO(l)
      BY <1>3, <2>3, <3>1
    <3>3. log'[c][i] = log[c][i] /\ log'[l][i] = log[l][i]
      BY <2>1, <2>3, <3>2
    <3>4. i <= LEO(l)'
      BY <1>3, <2>1, <3>2
    <3> QED BY <3>1, <3>3, <3>4
  <2>4. CASE c # l /\ i \notin 1..LEO(c)
    <3>1. c = b /\ i = LEO(b) + 1
      BY <1>3, <2>1, <2>4
    <3>2. i <= LEO(l) /\ v = log[l][i]
      BY <1>5, <2>4, <3>1
    <3>3. i \in 1..LEO(l)
      BY <1>3, <3>1, <3>2
    <3>4. log'[l][i] = log[l][i] /\ log'[c][i] = v
      BY <2>1, <3>1, <3>3
    <3>5. i <= LEO(l)'
      BY <1>3, <2>1, <3>3
    <3> QED BY <3>2, <3>4, <3>5
  <2> QED BY <2>2, <2>3, <2>4
<1>6. ASSUME NEW b \in Brokers, NEW mode \in AckModes, ProduceAppend(b, mode)
      PROVE  FollowersPrefix'
  <2>1. b = l /\ log' = [log EXCEPT ![b] = Append(@, produced + 1)]
    BY <1>1, <1>6 DEF ProduceAppend, LeaderStays
  <2>2. produced + 1 \in Records
    BY <1>2, <1>6, TypeFacts DEF ProduceAppend, TypeOK
  <2> QED BY <1>5, <2>1, <2>2
<1>7. ASSUME NEW b \in Brokers, ApplyRecord(b)
      PROVE  FollowersPrefix'
  <2>1. fetch[b] \in Fetches /\ fetch[b].recs # <<>>
    BY <1>2, <1>7 DEF TypeOK, ApplyRecord
  <2>2. PICK rs \in Seq(Records), o \in Nat : rs = fetch[b].recs /\ o = fetch[b].off
    BY <2>1, TypeFacts, <1>2 DEF Fetches
  <2>3. 1 \in 1..Len(rs) /\ Head(rs) = rs[1] /\ Head(rs) \in Records
    <3>1. rs # <<>>
      BY <2>1, <2>2
    <3>2. Len(rs) \in Nat /\ Len(rs) >= 1 /\ Head(rs) = rs[1] /\ Head(rs) \in Records
      BY <3>1, HeadTail
    <3> QED BY <3>2
  <2>4. fetch[b].src = l
    BY <1>1, <1>2, <2>1 DEF LeaderStays, FetchCopies
  <2>5. o + 1 <= LEO(l) /\ rs[1] = log[l][o + 1]
    <3>1. \A k \in 1..Len(fetch[b].recs) :
            fetch[b].off + k <= LEO(l) /\ fetch[b].recs[k] = log[l][fetch[b].off + k]
      BY <1>2, <2>4 DEF FetchCopies
    <3> QED BY <2>2, <2>3, <3>1
  <2>6. CASE o = LEO(b)
    <3>1. log' = [log EXCEPT ![b] = Append(@, Head(rs))]
      BY <1>7, <2>2, <2>6 DEF ApplyRecord
    <3> QED BY <1>5, <2>3, <2>5, <2>6, <3>1
  <2>7. CASE o # LEO(b)
    BY <1>4, <1>7, <2>2, <2>7 DEF ApplyRecord
  <2> QED BY <2>6, <2>7
<1>8. ASSUME \/ UNCHANGED vars
             \/ \E b \in Brokers : \/ Tick(b) \/ Broadcast(b) \/ ProduceCheck(b)
                                   \/ Fetch(b) \/ FetchDone(b) \/ Crash(b) \/ Restart(b)
             \/ \E b, p \in Brokers : \/ Heartbeat(b, p) \/ SessionTimeout(b, p)
                                      \/ LagExpire(b, p)
             \/ \E m \in pushes : PushDeliver(m) \/ PushLost(m)
             \/ \E a \in acks : AckDeliver(a) \/ AckLost(a)
             \/ \E w \in waiting : ProduceReturn(w) \/ ProduceTimeout(w)
             \/ \E c \in calls : CallStep(c)
      PROVE  FollowersPrefix'
  <2>1. log' = log
    BY <1>8 DEF vars, CallStep, RecomputeLock, RecomputeSet, SoloRead, SoloSet, Tick, Broadcast, ProduceCheck, Fetch, FetchDone, Crash, Restart,
                Heartbeat, SessionTimeout, LagExpire, PushDeliver, PushLost,
                AckDeliver, AckLost, ProduceReturn, ProduceTimeout
  <2> QED BY <1>4, <2>1
<1> QED BY <1>6, <1>7, <1>8 DEF Next

\* Under a leader that never loses its role, followers hold prefixes of its log,
\* whatever followers crash and however many produces race with their loops.
THEOREM FollowersPrefixCorrect ==
  ASSUME StableLeader
  PROVE  Spec => []FollowersPrefix
<1> DEFINE Inv == LeaderStays /\ FollowersPrefix
<1>1. Init => Inv
  <2> SUFFICES ASSUME Init
               PROVE  Inv
    OBVIOUS
  <2>1. Replicas[1] \in Brokers
    BY ReplicasDomain
  <2>2. LeaderStays
    BY <2>1 DEF Init, LeaderStays, NoFetch
  <2>3. FollowersPrefix
    BY DEF Init, FollowersPrefix, LEO
  <2> QED BY <2>2, <2>3
<1>2. IndInv /\ IndInv' /\ Inv /\ [Next]_vars => Inv'
  BY LeaderStaysStep, PrefixStep
<1>3. Inv => FollowersPrefix
  OBVIOUS
<1> HIDE DEF Inv
<1> QED BY <1>1, <1>2, <1>3, Invariance, PTL DEF Spec
=============================================================================

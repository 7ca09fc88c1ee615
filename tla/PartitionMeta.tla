--------------------------- MODULE PartitionMeta ---------------------------
(***************************************************************************)
(* The decisions logship takes on the metadata of one partition: the       *)
(* controller's leader election (broker.go), the merge of a pushed         *)
(* snapshot (metadata.go) and the leader's view of its ISR and high        *)
(* watermark (replica.go).  All are pure: the modules that model brokers   *)
(* apply them to the state they keep.                                      *)
(*                                                                         *)
(* A partitionMeta is [leader, isr].  Its Replicas field never changes     *)
(* after creation and is the constant Replicas; the order of the ISR slice *)
(* is never read, so the ISR is a set.                                     *)
(***************************************************************************)
EXTENDS Integers, Sequences, FiniteSets

CONSTANTS Brokers,   \* broker ids of the static peer list
          Replicas   \* the partition's replica list, preferred leader first

ReplicaSet == {Replicas[i] : i \in DOMAIN Replicas}

\* Broker id 0 is what a heartbeat without an id decodes to, and is ignored
\* by handlePeerHeartbeat: a cluster numbers its brokers from 1.
ASSUME BrokersAssumption == Brokers \subseteq Nat \ {0} /\ Brokers # {}
ASSUME ReplicasAssumption == Replicas \in Seq(Brokers) /\ Replicas # <<>>

Metas == [leader : ReplicaSet, isr : (SUBSET ReplicaSet) \ {{}}]

\* cluster.ControllerID = self: no live broker of the view has a lower id.
IsController(self, alive) == \A b \in alive : self <= b

(***************************************************************************)
(* firstAlive: the first replica of the list that is alive, whatever the   *)
(* ISR says, and the first of the list when none is.                       *)
(***************************************************************************)
IsFirst(i, alive) ==
  /\ Replicas[i] \in alive
  /\ \A j \in DOMAIN Replicas : Replicas[j] \in alive => i <= j

FirstAlive(alive) ==
  IF \E i \in DOMAIN Replicas : Replicas[i] \in alive
  THEN Replicas[CHOOSE i \in DOMAIN Replicas : IsFirst(i, alive)]
  ELSE Replicas[1]

(***************************************************************************)
(* controllerTick, on one partition: drop the dead from the ISR, replace a *)
(* dead leader, give the leadership back to the preferred replica, refill  *)
(* an empty ISR with the leader.                                           *)
(***************************************************************************)
\* Mutant: a dead leader keeps its role.
ElectedSticky(m, alive) == m.leader

Elected(m, alive) ==
  IF m.leader \in alive THEN m.leader ELSE FirstAlive(alive)

ISRAfterElection(m, alive) ==
  (m.isr \cap alive) \cup (IF m.leader \in alive THEN {} ELSE {Elected(m, alive)})

ControllerFix(m, alive) ==
  LET isr    == ISRAfterElection(m, alive)
      pref   == Replicas[1]
      leader == IF pref \in alive /\ pref \in isr THEN pref ELSE Elected(m, alive)
  IN  [leader |-> leader, isr |-> IF isr = {} THEN {leader} ELSE isr]

\* The `changed` flag of controllerTick: a dead leader counts as a change
\* even when the election returns the same broker.
FixChanges(m, alive) == ControllerFix(m, alive) # m \/ m.leader \notin alive

(***************************************************************************)
(* applyTopics, on one partition the receiver already knows: a broker that *)
(* was and stays leader keeps its own ISR; otherwise the push is taken,    *)
(* except that a controller refuses a leader it holds for dead, and the    *)
(* ISR is cut down to the brokers the receiver sees.                       *)
(***************************************************************************)
\* Mutant: an ISR of which the receiver sees no member stays empty.
ApplyPushNoRefill(local, in, self, alive) ==
  IF local.leader = self /\ in.leader = self
  THEN local
  ELSE [leader |-> in.leader, isr |-> in.isr \cap (alive \cup {self})]

ApplyPush(local, in, self, alive) ==
  IF local.leader = self /\ in.leader = self
  THEN local
  ELSE LET leader == IF IsController(self, alive) /\ in.leader \notin alive
                     THEN local.leader ELSE in.leader
           isr    == in.isr \cap (alive \cup {self})
       IN  [leader |-> leader, isr |-> IF isr = {} THEN {leader} ELSE isr]

(***************************************************************************)
(* recomputeHW: the ISR is the leader and every live replica whose last    *)
(* ack is recent enough, and the high watermark candidate is the least LEO *)
(* among them.  acked[r] is the LEO of r's last ack, NoAck when there is   *)
(* none within ReplicaLagTime.                                             *)
(***************************************************************************)
NoAck == -1

ComputeISR(self, alive, acked) ==
  {self} \cup {r \in ReplicaSet \cap alive : r # self /\ acked[r] # NoAck}

ISRLEOs(self, leo, acked, isr) ==
  {leo} \cup {acked[r] : r \in isr \ {self}}

\* Mutant: the high watermark follows the fastest member of the ISR.
ComputeHWMax(self, leo, acked, isr) ==
  CHOOSE h \in ISRLEOs(self, leo, acked, isr) :
    \A x \in ISRLEOs(self, leo, acked, isr) : h >= x

ComputeHW(self, leo, acked, isr) ==
  CHOOSE h \in ISRLEOs(self, leo, acked, isr) :
    \A x \in ISRLEOs(self, leo, acked, isr) : h <= x

(***************************************************************************)
(* assignReplicas: partition i (0-based) of a new topic gets rf brokers of *)
(* the sorted id list, starting at position i and wrapping around.         *)
(***************************************************************************)
AssignReplicas(i, rf, ids) ==
  LET n == Len(ids)
      k == IF rf < 1 THEN 1 ELSE IF rf > n THEN n ELSE rf
  IN  [r \in 1..k |-> ids[((i + r - 1) % n) + 1]]
=============================================================================

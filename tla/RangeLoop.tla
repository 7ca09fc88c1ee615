----------------------------- MODULE RangeLoop -----------------------------
(***************************************************************************)
(* The loop of assignRange over the sorted members, one member a step.     *)
(* Members and partitions are their positions in the sorted slices.        *)
(***************************************************************************)
EXTENDS RangeAssignor

CONSTANTS MaxMembers, MaxPartitions   \* bounds of the inputs

ASSUME RangeAssumption == MaxMembers \in Nat /\ MaxPartitions \in Nat

VARIABLES n,     \* number of members
          p,     \* number of partitions of the topic
          i,     \* the member whose turn it is
          idx,   \* the partitions given out so far
          out    \* out[m]: the positions of the partitions m got

vars == <<n, p, i, idx, out>>

\* RangeAssign returns before the loop when there is no member.
Init ==
  /\ n \in 1..MaxMembers /\ p \in 0..MaxPartitions
  /\ i = 0 /\ idx = 0
  /\ out = [m \in 0..(n - 1) |-> {}]

\* parts[lo:hi] by position; the code panics when hi > p.
Slice(lo, hi) == lo..(hi - 1)

\* Mutant: idx advances as if no member got an extra partition.
StepShort ==
  /\ i < n /\ p > 0
  /\ out' = [out EXCEPT ![i] = @ \cup Slice(idx, idx + Count(i, n, p))]
  /\ idx' = idx + (p \div n)
  /\ i' = i + 1
  /\ UNCHANGED <<n, p>>

Step ==
  /\ i < n /\ p > 0
  /\ out' = [out EXCEPT ![i] = @ \cup Slice(idx, idx + Count(i, n, p))]
  /\ idx' = idx + Count(i, n, p)
  /\ i' = i + 1
  /\ UNCHANGED <<n, p>>

Next == Step

Spec == Init /\ [][Next]_vars

-----------------------------------------------------------------------------
\* The variables have their types.
TypeOK ==
  /\ n \in 1..MaxMembers /\ p \in 0..MaxPartitions
  /\ i \in 0..n /\ idx \in 0..p
  /\ out \in [0..(n - 1) -> SUBSET Nat]

\* What the loop has given out is what the closed form says.
Progress ==
  /\ idx = Start(i, n, p)
  /\ \A m \in 0..(n - 1) : out[m] = IF m < i THEN Share(m, n, p) ELSE {}

LoopInv == TypeOK /\ Progress

\* The slice expression of the loop never reaches beyond the partitions.
SliceInBounds == i < n => idx + Count(i, n, p) <= p

\* When the loop is done every partition has exactly one owner, and the sizes
\* of two members' shares differ by one at most, the earlier having more.
Finished == i = n \/ p = 0

OneOwner ==
  Finished => \A q \in 0..(p - 1) :
    \E m \in 0..(n - 1) : q \in out[m] /\ \A k \in 0..(n - 1) : q \in out[k] => k = m

OnlyPartitions == \A m \in 0..(n - 1) : out[m] \subseteq 0..(p - 1)

Balanced ==
  \A m, k \in 0..(n - 1) : m < k =>
    Count(m, n, p) - Count(k, n, p) \in {0, 1}

RangeCorrect == SliceInBounds /\ OneOwner /\ OnlyPartitions /\ Balanced
=============================================================================

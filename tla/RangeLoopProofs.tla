-------------------------- MODULE RangeLoopProofs --------------------------
(***************************************************************************)
(* The loop of assignRange gives every partition to exactly one member and *)
(* never slices out of bounds, for every number of members and partitions. *)
(***************************************************************************)
EXTENDS RangeLoop, TLAPS

\* Division with remainder, as the loop uses it.
LEMMA DivMod ==
  ASSUME NEW a \in Nat, NEW b \in Nat, b > 0
  PROVE  /\ a \div b \in Nat
         /\ a % b \in 0..(b - 1)
         /\ b * (a \div b) + (a % b) = a
  OBVIOUS

\* Multiplication is monotone and distributes over the loop's increment.
LEMMA Multiply ==
  ASSUME NEW d \in Nat, NEW k \in Nat, NEW m \in Nat, k <= m
  PROVE  /\ k * d \in Nat /\ k * d <= m * d
         /\ (k + 1) * d = k * d + d
  OBVIOUS

\* The slices follow each other, and the last one ends at the last partition.
LEMMA StartNext ==
  ASSUME NEW a \in Nat, NEW b \in Nat, b > 0, NEW k \in Nat, k < b
  PROVE  /\ Start(k, b, a) \in Nat /\ Count(k, b, a) \in Nat
         /\ Start(k + 1, b, a) = Start(k, b, a) + Count(k, b, a)
         /\ Start(k + 1, b, a) <= a
         /\ Start(b, b, a) = a
         /\ Start(0, b, a) = 0
<1> DEFINE d == a \div b
           e == a % b
<1>1. d \in Nat /\ e \in 0..(b - 1) /\ b * d + e = a
  BY DivMod
<1>2. k * d \in Nat /\ (k + 1) * d = k * d + d /\ 0 * d = 0
  BY <1>1, Multiply
<1>3. (k + 1) * d \in Nat /\ (k + 1) * d <= b * d
  BY <1>1, Multiply
<1> HIDE DEF d, e
<1>4. Start(k, b, a) = k * d + (IF k < e THEN k ELSE e)
      /\ Start(k + 1, b, a) = (k + 1) * d + (IF k + 1 < e THEN k + 1 ELSE e)
      /\ Start(b, b, a) = b * d + (IF b < e THEN b ELSE e)
      /\ Start(0, b, a) = 0 * d + (IF 0 < e THEN 0 ELSE e)
      /\ Count(k, b, a) = d + (IF k < e THEN 1 ELSE 0)
  BY DEF Start, Count, d, e
<1>5. QED
  BY <1>1, <1>2, <1>3, <1>4

-----------------------------------------------------------------------------
\* Every partition given out so far has one owner, and no other is given out.
Given ==
  /\ \A q \in 0..(idx - 1) : \E m \in 0..(n - 1) :
       q \in out[m] /\ \A k \in 0..(n - 1) : q \in out[k] => k = m
  /\ \A m \in 0..(n - 1) : out[m] \subseteq 0..(idx - 1)

\* The inductive invariant.
RangeInv == TypeOK /\ Progress /\ Given

\* The invariant holds before the first member's turn.
LEMMA InitInv == ASSUME Init PROVE RangeInv
<1>1. n \in Nat /\ n > 0 /\ p \in Nat /\ 0 < n
  BY RangeAssumption DEF Init
<1>2. Start(0, n, p) = 0
  BY <1>1, StartNext
<1>3. TypeOK
  BY <1>1 DEF Init, TypeOK
<1>4. Given
  BY <1>1 DEF Init, Given
<1>5. Progress
  BY <1>1, <1>2 DEF Init, Progress
<1>6. QED
  BY <1>3, <1>4, <1>5 DEF RangeInv

\* A member's turn preserves it: the new slice starts where the last one ended.
LEMMA StepInv == ASSUME RangeInv, Step PROVE RangeInv'
<1> DEFINE c == Count(i, n, p)
           G == Slice(idx, idx + c)
<1>1. n \in Nat /\ n > 0 /\ p \in Nat /\ i \in Nat /\ i < n /\ idx \in Nat
  BY RangeAssumption DEF RangeInv, TypeOK, Step
<1>2. c \in Nat /\ Start(i + 1, n, p) = idx + c /\ idx + c <= p
  BY <1>1, StartNext DEF RangeInv, Progress
<1>3. /\ idx' = idx + c /\ i' = i + 1 /\ n' = n /\ p' = p
      /\ out' = [out EXCEPT ![i] = @ \cup G]
  BY DEF Step
<1>g. G = idx..(idx + c - 1)
  BY <1>1, <1>2 DEF Slice
<1> HIDE DEF c, G
<1>4. out \in [0..(n - 1) -> SUBSET Nat] /\ i \in 0..(n - 1)
  BY <1>1 DEF RangeInv, TypeOK
<1>5. \A m \in 0..(n - 1) :
        out'[m] = IF m = i THEN out[m] \cup G ELSE out[m]
  BY <1>3, <1>4
<1>6. TypeOK'
  <2>1. G \subseteq Nat
    BY <1>1, <1>2, <1>g
  <2>2. out' \in [0..(n - 1) -> SUBSET Nat]
    BY <2>1, <1>3, <1>4
  <2>3. QED
    BY <2>2, <1>1, <1>2, <1>3 DEF RangeInv, TypeOK
<1>7. Progress'
  <2>1. idx' = Start(i', n', p')
    BY <1>2, <1>3
  <2>2. G = Share(i, n, p)
    BY <1>1, <1>2, <1>g DEF RangeInv, Progress, Share, c
  <2>3. ASSUME NEW m \in 0..(n - 1)
        PROVE  out'[m] = IF m < i + 1 THEN Share(m, n, p) ELSE {}
    <3>1. out[m] = IF m < i THEN Share(m, n, p) ELSE {}
      BY DEF RangeInv, Progress
    <3>2. CASE m = i
      <4>1. out[m] = {} /\ m < i + 1
        BY <3>1, <3>2, <1>1
      <4>2. out'[m] = Share(m, n, p)
        BY <4>1, <3>2, <2>2, <1>5
      <4>3. QED
        BY <4>1, <4>2
    <3>3. CASE m # i
      <4>1. m < i <=> m < i + 1
        BY <3>3, <1>1
      <4>2. out'[m] = out[m]
        BY <3>3, <1>5
      <4>3. QED
        BY <4>1, <4>2, <3>1
    <3>4. QED
      BY <3>2, <3>3
  <2>4. (0..(n - 1))' = 0..(n - 1)
    BY <1>3
  <2>5. QED
    BY <2>1, <2>3, <2>4, <1>3 DEF Progress
<1>8. Given'
  <2>1. ASSUME NEW m \in 0..(n - 1) PROVE out'[m] \subseteq 0..(idx + c - 1)
    <3>1. out[m] \subseteq 0..(idx - 1)
      BY DEF RangeInv, Given
    <3>2. out'[m] \subseteq out[m] \cup G
      BY <1>5
    <3>3. QED
      BY <3>1, <3>2, <1>1, <1>2, <1>g
  <2>2. ASSUME NEW q \in 0..(idx + c - 1)
        PROVE  \E m \in 0..(n - 1) :
                 q \in out'[m] /\ \A k \in 0..(n - 1) : q \in out'[k] => k = m
    <3>1. CASE q < idx
      <4>1. q \in 0..(idx - 1) /\ q \notin G
        BY <3>1, <1>1, <1>2, <1>g
      <4>2. PICK m \in 0..(n - 1) :
              q \in out[m] /\ \A k \in 0..(n - 1) : q \in out[k] => k = m
        BY <4>1 DEF RangeInv, Given
      <4>3. q \in out'[m] /\ \A k \in 0..(n - 1) : q \in out'[k] => k = m
        BY <4>1, <4>2, <1>5
      <4>4. QED
        BY <4>3
    <3>2. CASE q >= idx
      <4>1. q \in G
        BY <3>2, <1>1, <1>2, <1>g
      <4>2. \A k \in 0..(n - 1) : q \notin out[k]
        BY <3>2, <1>1 DEF RangeInv, Given
      <4>3. q \in out'[i] /\ \A k \in 0..(n - 1) : q \in out'[k] => k = i
        BY <4>1, <4>2, <1>4, <1>5
      <4>4. QED
        BY <4>3, <1>4
    <3>3. QED
      BY <3>1, <3>2, <1>1, <1>2
  <2>3. (0..(idx - 1))' = 0..(idx + c - 1) /\ (0..(n - 1))' = 0..(n - 1)
    BY <1>1, <1>2, <1>3
  <2>4. QED
    BY <2>1, <2>2, <2>3 DEF Given
<1>9. QED
  BY <1>6, <1>7, <1>8 DEF RangeInv

\* What the invariant says of the loop's result.
LEMMA InvCorrect == ASSUME RangeInv PROVE RangeCorrect
<1>1. n \in Nat /\ n > 0 /\ p \in Nat /\ i \in 0..n /\ idx \in 0..p
  BY RangeAssumption DEF RangeInv, TypeOK
<1>2. SliceInBounds
  BY <1>1, StartNext DEF RangeInv, Progress, SliceInBounds
<1>3. OneOwner
  <2>1. CASE p = 0
    BY <2>1 DEF OneOwner
  <2>2. CASE i = n
    <3>1. 0 \in Nat /\ 0 < n
      BY <1>1
    <3>2. idx = p
      BY <2>2, <3>1, <1>1, StartNext DEF RangeInv, Progress
    <3>3. QED
      BY <3>2 DEF RangeInv, Given, OneOwner
  <2>3. QED
    BY <2>1, <2>2 DEF OneOwner, Finished
<1>4. OnlyPartitions
  BY <1>1 DEF RangeInv, Given, OnlyPartitions
<1>5. Balanced
  BY <1>1, DivMod DEF Balanced, Count
<1>6. QED
  BY <1>2, <1>3, <1>4, <1>5 DEF RangeCorrect

\* The invariant holds throughout the loop.
LEMMA LoopInvariant == Spec => []RangeInv
<1>1. Init => RangeInv
  BY InitInv
<1>2. RangeInv /\ [Next]_vars => RangeInv'
  <2> SUFFICES ASSUME RangeInv, [Next]_vars PROVE RangeInv'
    OBVIOUS
  <2>1. CASE Step
    BY <2>1, StepInv
  <2>2. CASE UNCHANGED vars
    BY <2>2 DEF vars, RangeInv, TypeOK, Progress, Given
  <2>3. QED
    BY <2>1, <2>2 DEF Next
<1>3. QED
  BY <1>1, <1>2, PTL DEF Spec

\* The loop of assignRange, for any number of members and partitions: its slice
\* expressions are in bounds, and when it ends every partition has exactly one
\* owner and the shares are balanced.
THEOREM RangeAssignCorrect == Spec => []RangeCorrect
<1>1. RangeInv => RangeCorrect
  BY InvCorrect
<1>2. QED
  BY <1>1, LoopInvariant, PTL

\* The loop of assignRange computes the closed form Share, which the group
\* coordinator's model uses for it.
THEOREM RangeAssignIsShare == Spec => []LoopInv
<1>1. RangeInv => LoopInv
  BY DEF RangeInv, LoopInv
<1>2. QED
  BY <1>1, LoopInvariant, PTL
============================================================================

-------------------------- MODULE CommitLogProofs --------------------------
(***************************************************************************)
(* The commit log keeps its shape, its index and its promise through every *)
(* sequence of appends, rotations, kills, power losses and recoveries, for *)
(* any record sizes and any limits, and a read returns what it promises.   *)
(*                                                                         *)
(* Positions, the recovery scan, the log as one sequence, the bisection of *)
(* the index and the loop of a read are recursive functions.  That such a  *)
(* function exists, and what it returns, is shown by looking at the least  *)
(* argument for which it would fail.                                       *)
(***************************************************************************)
EXTENDS CommitLog, WellFoundedInduction, SequenceTheorems, FiniteSetTheorems, TLAPS

Less == {ss \in Nat \X Nat : ss[1] < ss[2]}

\* A non-empty set of naturals has a least element.  A fact about every frame of
\* a file is shown with it: the least frame for which it fails is not the first,
\* and for the one before it the fact holds.
LEMMA LeastNat ==
  ASSUME NEW T, T \subseteq Nat, T # {}
  PROVE  \E x \in T : \A y \in T : x <= y
<1>1. IsWellFoundedOn(Less, Nat)
  BY NatLessThanWellFounded, Zenon DEF OpToRel, Less
<1>2. PICK x \in T : \A y \in T : ~(<<y, x>> \in Less)
  BY <1>1, WFMin, Zenon
<1>3. \A u \in Nat, v \in Nat : u < v => <<u, v>> \in Less
  BY DEF Less
<1>4. \A y \in T : x <= y
  <2> TAKE y \in T
  <2>1. x \in Nat /\ y \in Nat
    OBVIOUS
  <2>2. ~(y < x)
    BY <1>2, <1>3, <2>1, Zenon
  <2> QED BY <2>1, <2>2
<1> QED BY <1>4

-----------------------------------------------------------------------------
(* Byte positions *)

\* Positions of the first n frames, as the file's scan adds them up.
IsPos(p, frames, n) ==
  p = [k \in 1..(n + 1) |-> IF k = 1 THEN 0 ELSE p[k - 1] + frames[k - 1]]

\* The recursive definition of the positions has a solution.
LEMMA PosExists ==
  ASSUME NEW frames \in Seq(Nat)
  PROVE  \E p : IsPos(p, frames, Len(frames))
<1> DEFINE T == {n \in 0..Len(frames) : ~ \E p : IsPos(p, frames, n)}
<1>1. CASE T = {}
  <2>1. Len(frames) \in 0..Len(frames)
    OBVIOUS
  <2> QED BY <1>1, <2>1
<1>2. CASE T # {}
  <2>1. PICK n \in T : \A m \in T : n <= m
    <3>1. T \subseteq Nat
      OBVIOUS
    <3> HIDE DEF T
    <3> QED BY <1>2, <3>1, LeastNat
  <2>2. n \in Nat /\ n <= Len(frames)
    OBVIOUS
  <2>3. CASE n = 0
    <3>1. IsPos([k \in 1..1 |-> 0], frames, 0)
      BY DEF IsPos
    <3> QED BY <2>1, <2>3, <3>1
  <2>4. CASE n # 0
    <3>1. n - 1 \in 0..Len(frames) /\ ~(n <= n - 1)
      BY <2>2, <2>4
    <3>2. PICK p : IsPos(p, frames, n - 1)
      BY <2>1, <3>1
    <3>3. p = [k \in 1..n |-> IF k = 1 THEN 0 ELSE p[k - 1] + frames[k - 1]]
      BY <2>2, <3>2 DEF IsPos
    <3> DEFINE q == [k \in 1..(n + 1) |-> IF k = n + 1 THEN p[n] + frames[n] ELSE p[k]]
    <3>4. ASSUME NEW k \in 1..(n + 1)
          PROVE  q[k] = IF k = 1 THEN 0 ELSE q[k - 1] + frames[k - 1]
      <4>1. CASE k = n + 1
        BY <2>2, <2>4, <4>1
      <4>2. CASE k # n + 1
        <5>1. k \in 1..n /\ q[k] = p[k]
          BY <2>2, <4>2
        <5>2. k # 1 => k - 1 \in 1..n /\ q[k - 1] = p[k - 1]
          BY <2>2, <5>1
        <5> QED BY <3>3, <5>1, <5>2
      <4> QED BY <4>1, <4>2
    <3>5. q = [k \in 1..(n + 1) |-> IF k = 1 THEN 0 ELSE q[k - 1] + frames[k - 1]]
      BY <3>4
    <3> HIDE DEF q
    <3>6. IsPos(q, frames, n)
      BY <3>5, Zenon DEF IsPos
    <3> QED BY <2>1, <3>6
  <2> QED BY <2>3, <2>4
<1> QED BY <1>1, <1>2

\* What Pos returns, frame by frame.
LEMMA PosFacts ==
  ASSUME NEW frames \in Seq(Nat)
  PROVE  /\ Pos(frames, 1) = 0
         /\ \A k \in 1..Len(frames) : Pos(frames, k + 1) = Pos(frames, k) + frames[k]
<1> DEFINE p == CHOOSE f : IsPos(f, frames, Len(frames))
<1>1. IsPos(p, frames, Len(frames))
  BY PosExists, Zenon
<1>2. \A i : Pos(frames, i) = p[i]
  BY Zenon DEF Pos, IsPos
<1> HIDE DEF p
<1>3. Len(frames) \in Nat
  OBVIOUS
<1>4. \A k \in 1..(Len(frames) + 1) : p[k] = IF k = 1 THEN 0 ELSE p[k - 1] + frames[k - 1]
  BY <1>1, Zenon DEF IsPos
<1>5. p[1] = 0
  BY <1>3, <1>4
<1>6. ASSUME NEW k \in 1..Len(frames)
      PROVE  p[k + 1] = p[k] + frames[k]
  <2>1. k + 1 \in 1..(Len(frames) + 1) /\ k + 1 # 1 /\ k + 1 - 1 = k
    BY <1>3
  <2> QED BY <1>4, <2>1
<1> QED BY <1>2, <1>5, <1>6

\* Positions are numbers.
LEMMA PosNat ==
  ASSUME NEW frames \in Seq(Nat), NEW i \in 1..(Len(frames) + 1)
  PROVE  Pos(frames, i) \in Nat
<1> DEFINE T == {k \in 1..(Len(frames) + 1) : Pos(frames, k) \notin Nat}
<1>1. T = {}
  <2> SUFFICES ASSUME T # {}
               PROVE  FALSE
    OBVIOUS
  <2>1. T \subseteq Nat
    OBVIOUS
  <2>2. PICK k \in T : \A m \in T : k <= m
    BY <2>1, LeastNat
  <2>3. k # 1
    BY PosFacts
  <2>4. k - 1 \in 1..Len(frames) /\ k - 1 \in 1..(Len(frames) + 1) /\ ~(k <= k - 1)
    BY <2>3
  <2>5. Pos(frames, k - 1) \in Nat
    BY <2>2, <2>4
  <2>6. Pos(frames, k - 1 + 1) = Pos(frames, k - 1) + frames[k - 1]
    BY <2>4, PosFacts
  <2>7. k - 1 + 1 = k /\ frames[k - 1] \in Nat
    BY <2>4
  <2> QED BY <2>2, <2>5, <2>6, <2>7
<1> QED BY <1>1

\* A position depends on the frames before it only.
LEMMA PosPrefix ==
  ASSUME NEW f \in Seq(Nat), NEW g \in Seq(Nat), NEW n \in Nat,
         n <= Len(f), n <= Len(g), \A k \in 1..n : f[k] = g[k],
         NEW i \in 1..(n + 1)
  PROVE  Pos(f, i) = Pos(g, i)
<1> DEFINE T == {k \in 1..(n + 1) : Pos(f, k) # Pos(g, k)}
<1>1. T = {}
  <2> SUFFICES ASSUME T # {}
               PROVE  FALSE
    OBVIOUS
  <2>1. T \subseteq Nat
    OBVIOUS
  <2>2. PICK k \in T : \A m \in T : k <= m
    BY <2>1, LeastNat
  <2>3. k # 1
    BY PosFacts
  <2>4. /\ k - 1 \in 1..Len(f) /\ k - 1 \in 1..Len(g) /\ k - 1 \in 1..n
        /\ k - 1 \in 1..(n + 1) /\ ~(k <= k - 1) /\ k - 1 + 1 = k
    BY <2>3
  <2>5. Pos(f, k - 1) = Pos(g, k - 1) /\ f[k - 1] = g[k - 1]
    BY <2>2, <2>4
  <2>6. Pos(f, k) = Pos(f, k - 1) + f[k - 1] /\ Pos(g, k) = Pos(g, k - 1) + g[k - 1]
    BY <2>4, PosFacts
  <2> QED BY <2>2, <2>5, <2>6
<1> QED BY <1>1

-----------------------------------------------------------------------------
(* Segments *)

Segment == [base : 0..MaxAppends, frames : Seq(Sizes), index : Seq(Entries), since : Nat]

\* The index of s can be trusted: what IndexSound says of a segment.
Sound(s) ==
  /\ s.frames # <<>> => s.index # <<>> /\ s.index[1].rel = 0
  /\ \A k \in 1..Len(s.index) :
       /\ s.index[k].rel < Len(s.frames)
       /\ s.index[k].pos = Pos(s.frames, s.index[k].rel + 1)
       /\ k > 1 => s.index[k - 1].rel < s.index[k].rel

\* A segment that is open for appends: the count of bytes since the last index
\* entry is 0 exactly while there is no frame.
Ready(s) == Sound(s) /\ (s.since = 0 <=> s.frames = <<>>)

\* The empty sequence is the one of length 0.
LEMMA EmptyLen ==
  ASSUME NEW S, NEW q \in Seq(S)
  PROVE  Len(q) \in Nat /\ (q = <<>> <=> Len(q) = 0)
<1>1. CASE q # <<>>
  <2>1. Len(q) \in Nat /\ Len(q) >= 1
    BY <1>1
  <2> QED BY <1>1, <2>1
<1>2. CASE q = <<>>
  BY <1>2
<1> QED BY <1>1, <1>2

\* The constants are numbers, and record sizes positive ones.
LEMMA SizesNat ==
  /\ Seq(Sizes) \subseteq Seq(Nat)
  /\ \A sz \in Sizes : sz \in Nat /\ sz > 0
  /\ MaxAppends \in Nat /\ MaxSegmentBytes \in Nat /\ IndexInterval \in Nat /\ IndexInterval > 0
<1>1. Sizes \subseteq Nat \ {0}
  BY CommitLogAssumption
<1>2. ASSUME NEW f \in Seq(Sizes)
      PROVE  f \in Seq(Nat)
  <2>1. f \in [1..Len(f) -> Sizes] /\ Len(f) \in Nat
    OBVIOUS
  <2>2. f \in [1..Len(f) -> Nat]
    BY <1>1, <2>1
  <2> QED BY <2>1, <2>2
<1> QED BY <1>1, <1>2, CommitLogAssumption

\* An empty segment is ready, wherever it starts.
LEMMA EmptyReady ==
  ASSUME NEW b \in 0..MaxAppends
  PROVE  /\ EmptySegment(b) \in Segment /\ Ready(EmptySegment(b))
         /\ EmptySegment(b).base = b /\ EmptySegment(b).frames = <<>>
<1>1. <<>> \in Seq(Sizes) /\ <<>> \in Seq(Entries) /\ 0 \in Nat
  OBVIOUS
<1>2. EmptySegment(b) \in Segment
  BY <1>1 DEF EmptySegment, Segment
<1> QED BY <1>2 DEF EmptySegment, Ready, Sound

\* segment.append writes one frame and keeps the index sound, by the positions of
\* the frames before it, which it does not move.
LEMMA AppendFrameFacts ==
  ASSUME NEW s \in Segment, NEW sz \in Sizes, Len(s.frames) < MaxAppends
  PROVE  /\ AppendFrame(s, sz) \in Segment
         /\ Ready(s) => Ready(AppendFrame(s, sz))
         /\ AppendFrame(s, sz).base = s.base
         /\ AppendFrame(s, sz).frames = Append(s.frames, sz)
<1>1. PICK fs \in Seq(Sizes), n \in Nat : fs = s.frames /\ n = Len(fs)
  BY DEF Segment
<1>2. PICK ix \in Seq(Entries), l \in Nat : ix = s.index /\ l = Len(ix)
  BY DEF Segment
<1> DEFINE due == s.since = 0 \/ s.since >= IndexInterval
           ent == [rel |-> n, pos |-> Size(s)]
           gs  == Append(fs, sz)
           jx  == IF due THEN Append(ix, ent) ELSE ix
           a   == AppendFrame(s, sz)
<1>3. n < MaxAppends /\ fs \in Seq(Nat) /\ sz \in Nat /\ sz > 0 /\ MaxAppends \in Nat
  BY <1>1, SizesNat
<1>4. Size(s) = Pos(fs, n + 1) /\ Size(s) \in Nat
  <2>1. n + 1 \in 1..(Len(fs) + 1)
    BY <1>1
  <2> QED BY <1>1, <1>3, <2>1, PosNat DEF Size
<1>5. ent \in Entries /\ ent.rel = n /\ ent.pos = Size(s)
  BY <1>3, <1>4 DEF Entries
<1>6. gs \in Seq(Sizes) /\ gs \in Seq(Nat) /\ Len(gs) = n + 1 /\ gs # <<>>
      /\ \A k \in 1..n : gs[k] = fs[k]
  <2>1. gs \in Seq(Sizes) /\ Len(gs) = n + 1 /\ \A k \in 1..n : gs[k] = fs[k]
    BY <1>1
  <2>2. gs # <<>>
    BY <2>1
  <2> QED BY <2>1, <2>2, SizesNat
<1> HIDE DEF ent, gs
<1>7. jx \in Seq(Entries)
  BY <1>5
<1>8. PICK c \in Nat : c = (IF due THEN 0 ELSE s.since) + sz
  BY <1>3 DEF Segment
<1>9. c # 0
  BY <1>3, <1>8 DEF Segment
<1>10. a = [s EXCEPT !.frames = gs, !.index = jx, !.since = c]
  BY <1>1, <1>2, <1>8 DEF AppendFrame, gs, ent
<1> HIDE DEF a
<1>11. /\ a.frames = gs /\ a.index = jx /\ a.since = c /\ a.base = s.base
       /\ a \in Segment
  <2> HIDE DEF jx
  <2> QED BY <1>6, <1>7, <1>10 DEF Segment
<1> SUFFICES ASSUME Ready(s)
             PROVE  Ready(a)
  BY <1>1, <1>11 DEF a, gs
<1>12. \A i \in 1..(n + 1) : Pos(gs, i) = Pos(fs, i)
  <2>1. n <= Len(fs) /\ n <= Len(gs)
    BY <1>1, <1>6
  <2> QED BY <1>3, <1>6, <2>1, PosPrefix
<1>13. \A k \in 1..l : ix[k] \in Entries /\ ix[k].rel \in Nat /\ ix[k].rel < n
                       /\ ix[k].pos = Pos(fs, ix[k].rel + 1)
                       /\ (k > 1 => ix[k - 1].rel < ix[k].rel)
  <2> TAKE k \in 1..l
  <2>1. ix[k] \in Entries
    BY <1>2
  <2>2. ix[k].rel \in Nat
    BY <1>3, <2>1 DEF Entries
  <2> QED BY <1>1, <1>2, <2>1, <2>2 DEF Ready, Sound
<1>14. jx # <<>> /\ jx[1].rel = 0
  <2>1. CASE n = 0
    <3>1. fs = <<>>
      BY <1>1, <2>1, EmptyLen
    <3>2. s.since = 0
      BY <1>1, <3>1 DEF Ready
    <3>3. l = 0
      <4> SUFFICES ASSUME l # 0
                   PROVE  FALSE
        OBVIOUS
      <4>1. 1 \in 1..l
        OBVIOUS
      <4>2. ix[1].rel \in Nat /\ ix[1].rel < n
        BY <1>13, <4>1
      <4> QED BY <2>1, <4>2
    <3>4. ix = <<>>
      BY <1>2, <3>3, EmptyLen
    <3>5. jx = <<ent>>
      BY <3>2, <3>4
    <3> HIDE DEF jx
    <3> QED BY <1>5, <2>1, <3>5
  <2>2. CASE n # 0
    <3>1. fs # <<>>
      BY <1>1, <2>2
    <3>2. ix # <<>> /\ ix[1].rel = 0
      BY <1>1, <1>2, <3>1 DEF Ready, Sound
    <3>3. l > 0
      BY <1>2, <3>2
    <3>4. Len(jx) >= l /\ jx[1] = ix[1]
      BY <1>2, <1>5, <3>3
    <3> HIDE DEF jx
    <3>5. jx # <<>>
      BY <3>3, <3>4
    <3> QED BY <3>2, <3>4, <3>5
  <2> QED BY <2>1, <2>2
<1>15. ASSUME NEW k \in 1..Len(jx)
       PROVE  /\ jx[k].rel < n + 1
              /\ jx[k].pos = Pos(gs, jx[k].rel + 1)
              /\ k > 1 => jx[k - 1].rel < jx[k].rel
  <2>1. CASE k \in 1..l
    <3>1. jx[k] = ix[k] /\ (k > 1 => jx[k - 1] = ix[k - 1])
      BY <1>2, <1>5, <2>1
    <3>2. ix[k].rel \in Nat /\ ix[k].rel < n /\ ix[k].pos = Pos(fs, ix[k].rel + 1)
          /\ (k > 1 => ix[k - 1].rel < ix[k].rel)
      BY <1>13, <2>1
    <3>3. ix[k].rel + 1 \in 1..(n + 1) /\ ix[k].rel < n + 1
      BY <3>2
    <3>4. Pos(gs, ix[k].rel + 1) = Pos(fs, ix[k].rel + 1)
      BY <1>12, <3>3
    <3> QED BY <3>1, <3>2, <3>3, <3>4
  <2>2. CASE k \notin 1..l
    <3>1. due /\ k = l + 1 /\ jx[k] = ent
      BY <1>2, <1>5, <2>2
    <3>2. n + 1 \in 1..(n + 1) /\ n < n + 1
      OBVIOUS
    <3>3. jx[k].rel = n /\ jx[k].pos = Pos(gs, n + 1)
      BY <1>4, <1>5, <1>12, <3>1, <3>2
    <3>4. k > 1 => jx[k - 1].rel < n
      <4> SUFFICES ASSUME k > 1
                   PROVE  jx[k - 1].rel < n
        OBVIOUS
      <4>1. k - 1 \in 1..l
        BY <3>1
      <4>2. jx[k - 1] = ix[k - 1]
        BY <1>2, <1>5, <3>1, <4>1
      <4> QED BY <1>13, <4>1, <4>2
    <3> QED BY <3>2, <3>3, <3>4
  <2> QED BY <2>1, <2>2
<1> HIDE DEF jx
<1> QED BY <1>6, <1>9, <1>11, <1>14, <1>15 DEF Ready, Sound

\* The segments a scan of the first n frames goes through.
IsScan(r, base, frames, n) ==
  r = [i \in 0..n |-> IF i = 0 THEN EmptySegment(base)
                      ELSE AppendFrame(r[i - 1], frames[i])]

\* The recursive definition of the scan has a solution.
LEMMA ScanExists ==
  ASSUME NEW base, NEW frames \in Seq(Sizes)
  PROVE  \E r : IsScan(r, base, frames, Len(frames))
<1> DEFINE T == {n \in 0..Len(frames) : ~ \E r : IsScan(r, base, frames, n)}
<1>1. CASE T = {}
  <2>1. Len(frames) \in 0..Len(frames)
    OBVIOUS
  <2> QED BY <1>1, <2>1
<1>2. CASE T # {}
  <2>1. PICK n \in T : \A m \in T : n <= m
    <3>1. T \subseteq Nat
      OBVIOUS
    <3> HIDE DEF T
    <3> QED BY <1>2, <3>1, LeastNat
  <2>2. n \in Nat /\ n <= Len(frames)
    OBVIOUS
  <2>3. CASE n = 0
    <3>1. IsScan([i \in 0..0 |-> EmptySegment(base)], base, frames, 0)
      BY DEF IsScan
    <3> QED BY <2>1, <2>3, <3>1
  <2>4. CASE n # 0
    <3>1. n - 1 \in 0..Len(frames) /\ ~(n <= n - 1)
      BY <2>2, <2>4
    <3>2. PICK r : IsScan(r, base, frames, n - 1)
      BY <2>1, <3>1
    <3>3. r = [i \in 0..(n - 1) |-> IF i = 0 THEN EmptySegment(base)
                                    ELSE AppendFrame(r[i - 1], frames[i])]
      BY <3>2, Zenon DEF IsScan
    <3> DEFINE q == [i \in 0..n |-> IF i = n THEN AppendFrame(r[n - 1], frames[n]) ELSE r[i]]
    <3>4. ASSUME NEW i \in 0..n
          PROVE  q[i] = IF i = 0 THEN EmptySegment(base)
                        ELSE AppendFrame(q[i - 1], frames[i])
      <4>1. CASE i = n
        <5>1. n - 1 \in 0..n /\ n - 1 # n
          BY <2>2, <2>4
        <5>2. q[n - 1] = r[n - 1] /\ q[i] = AppendFrame(r[n - 1], frames[n])
          BY <4>1, <5>1
        <5> HIDE DEF q
        <5> QED BY <2>4, <4>1, <5>2
      <4>2. CASE i # n
        <5>1. i \in 0..(n - 1) /\ q[i] = r[i]
          BY <2>2, <4>2
        <5>2. i # 0 => q[i - 1] = r[i - 1]
          BY <2>2, <5>1
        <5> HIDE DEF q
        <5> QED BY <3>3, <5>1, <5>2
      <4> QED BY <4>1, <4>2
    <3>5. q = [i \in 0..n |-> IF i = 0 THEN EmptySegment(base)
                              ELSE AppendFrame(q[i - 1], frames[i])]
      BY <3>4
    <3> HIDE DEF q
    <3>6. IsScan(q, base, frames, n)
      BY <3>5, Zenon DEF IsScan
    <3> QED BY <2>1, <3>6
  <2> QED BY <2>3, <2>4
<1> QED BY <1>1, <1>2

\* segment.recover keeps the frames and rebuilds an index that is sound.
LEMMA ScanFacts ==
  ASSUME NEW s, s.base \in 0..MaxAppends, s.frames \in Seq(Sizes),
         Len(s.frames) <= MaxAppends
  PROVE  /\ Scan(s) \in Segment /\ Ready(Scan(s))
         /\ Scan(s).base = s.base /\ Scan(s).frames = s.frames
<1>1. PICK b \in 0..MaxAppends, fs \in Seq(Sizes), n \in Nat :
        b = s.base /\ fs = s.frames /\ n = Len(fs)
  OBVIOUS
<1> DEFINE r == CHOOSE f : IsScan(f, b, fs, n)
<1>2. IsScan(r, b, fs, n)
  BY <1>1, ScanExists, Zenon
<1>3. Scan(s) = r[n]
  BY <1>1, Zenon DEF Scan, IsScan
<1> HIDE DEF r
<1>4. \A i \in 0..n : r[i] = IF i = 0 THEN EmptySegment(b) ELSE AppendFrame(r[i - 1], fs[i])
  BY <1>2, Zenon DEF IsScan
<1> DEFINE Good(i) == /\ r[i] \in Segment /\ Ready(r[i]) /\ r[i].base = b
                      /\ Len(r[i].frames) = i
                      /\ \A k \in 1..i : r[i].frames[k] = fs[k]
           T == {i \in 0..n : ~Good(i)}
<1>5. T = {}
  <2> SUFFICES ASSUME T # {}
               PROVE  FALSE
    OBVIOUS
  <2>1. PICK i \in T : \A m \in T : i <= m
    <3>1. T \subseteq Nat
      OBVIOUS
    <3> HIDE DEF T
    <3> QED BY <3>1, LeastNat
  <2>2. i \in 0..n /\ ~Good(i)
    OBVIOUS
  <2>3. CASE i = 0
    <3>1. 0 \in 0..n
      BY <1>1
    <3>2. r[0] = EmptySegment(b)
      BY <1>4, <3>1
    <3>3. Good(0)
      BY <3>2, EmptyReady
    <3> QED BY <2>2, <2>3, <3>3
  <2>4. CASE i # 0
    <3>1. i - 1 \in 0..n /\ ~(i <= i - 1) /\ i \in Nat
      BY <2>2, <2>4
    <3>2. Good(i - 1)
      BY <2>1, <3>1
    <3>3. PICK z \in Sizes : z = fs[i]
      BY <1>1, <2>2, <2>4
    <3>4. i - 1 < MaxAppends
      BY <1>1, <2>2, <2>4, SizesNat
    <3>5. r[i] = AppendFrame(r[i - 1], z)
      BY <1>4, <2>2, <2>4, <3>3
    <3>6. PICK u \in Segment : u = r[i - 1]
      BY <3>2
    <3>7. /\ Ready(u) /\ u.base = b /\ Len(u.frames) = i - 1
          /\ \A k \in 1..(i - 1) : u.frames[k] = fs[k]
      BY <3>2, <3>6
    <3>8. PICK h \in Seq(Sizes) : h = u.frames
      BY DEF Segment
    <3> HIDE DEF Good, T
    <3>9. /\ r[i] \in Segment /\ Ready(r[i]) /\ r[i].base = u.base
          /\ r[i].frames = Append(u.frames, z)
      <4>1. Len(u.frames) < MaxAppends
        BY <3>4, <3>7
      <4>2. /\ AppendFrame(u, z) \in Segment /\ (Ready(u) => Ready(AppendFrame(u, z)))
            /\ AppendFrame(u, z).base = u.base
            /\ AppendFrame(u, z).frames = Append(u.frames, z)
        BY <4>1, AppendFrameFacts
      <4> QED BY <3>5, <3>6, <3>7, <4>2
    <3>10. Len(h) = i - 1 /\ Len(Append(h, z)) = Len(h) + 1 /\ i - 1 + 1 = i
      BY <3>1, <3>7, <3>8
    <3>11. ASSUME NEW k \in 1..i
           PROVE  Append(h, z)[k] = fs[k]
      <4>1. CASE k = i
        <5>1. Append(h, z)[Len(h) + 1] = z
          OBVIOUS
        <5> QED BY <3>3, <3>10, <4>1, <5>1
      <4>2. CASE k # i
        <5>1. k \in 1..(i - 1) /\ k \in 1..Len(h)
          BY <3>1, <3>10, <4>2
        <5>2. Append(h, z)[k] = h[k]
          BY <5>1
        <5> QED BY <3>7, <3>8, <5>1, <5>2
      <4> QED BY <4>1, <4>2
    <3>12. Good(i)
      BY <3>7, <3>8, <3>9, <3>10, <3>11 DEF Good
    <3> QED BY <2>2, <3>12
  <2> QED BY <2>3, <2>4
<1>6. Good(n)
  <2>1. n \in 0..n
    BY <1>1
  <2> QED BY <1>5, <2>1
<1>7. r[n].frames = fs
  <2>1. r[n].frames \in Seq(Sizes) /\ Len(r[n].frames) = Len(fs)
    BY <1>1, <1>6 DEF Segment
  <2> QED BY <1>1, <1>6, <2>1, SeqEqual
<1> QED BY <1>1, <1>3, <1>6, <1>7

\* openSegment of the active segment keeps its frames, and leaves it ready unless
\* an index survived the file it belongs to.
LEMMA RecoverFacts ==
  ASSUME NEW s \in Segment, Len(s.frames) <= MaxAppends, NEW t \in BOOLEAN
  PROVE  /\ RecoverActive(s, t) \in Segment
         /\ RecoverActive(s, t).base = s.base
         /\ RecoverActive(s, t).frames = s.frames
         /\ (~t /\ s.frames = <<>> => s.index = <<>>) => Ready(RecoverActive(s, t))
<1>1. CASE s.frames = <<>> /\ ~t
  <2> DEFINE z == [s EXCEPT !.since = 0]
  <2>1. RecoverActive(s, t) = z
    BY <1>1 DEF RecoverActive
  <2>2. z \in Segment /\ z.base = s.base /\ z.frames = s.frames /\ z.index = s.index /\ z.since = 0
    BY DEF Segment
  <2>3. s.index = <<>> => Ready(z)
    <3> HIDE DEF z
    <3> QED BY <1>1, <2>2 DEF Ready, Sound
  <2> QED BY <1>1, <2>1, <2>2, <2>3
<1>2. CASE ~(s.frames = <<>> /\ ~t)
  <2>1. RecoverActive(s, t) = Scan(s)
    BY <1>2 DEF RecoverActive
  <2>2. s.base \in 0..MaxAppends /\ s.frames \in Seq(Sizes)
    BY DEF Segment
  <2> QED BY <2>1, <2>2, ScanFacts
<1> QED BY <1>1, <1>2

-----------------------------------------------------------------------------
(* The invariant *)

\* The log's end and what was fsynced stay in bounds.
Bounded == LEO <= MaxAppends /\ synced <= LEO

\* The index of a closed segment can be trusted at any time, the one of the
\* active segment while the log is open; a file that a power loss empties has
\* lost its index with it.
Indexed ==
  /\ \A i \in 1..(Len(segments) - 1) : Sound(segments[i])
  /\ open => Ready(Active)
  /\ ~open /\ ~torn /\ Active.frames = <<>> => Active.index = <<>>

\* The inductive invariant.
IndInv ==
  /\ TypeOK /\ SegmentsContiguous /\ Bounded
  /\ ~IndexOutlivesLog => Indexed

\* What the invariant says of the active segment.
LEMMA ActiveFacts ==
  ASSUME IndInv
  PROVE  /\ segments \in Seq(Segment) /\ Len(segments) \in Nat /\ Len(segments) > 0
         /\ Active \in Segment /\ Active.base \in 0..MaxAppends
         /\ Active.frames \in Seq(Sizes) /\ Active.index \in Seq(Entries)
         /\ Len(Active.frames) \in Nat /\ LEO = Active.base + Len(Active.frames)
         /\ Len(Active.frames) <= MaxAppends /\ LEO \in 0..MaxAppends
<1>1. segments \in Seq(Segment) /\ segments # <<>>
  BY DEF IndInv, TypeOK, Segment
<1>2. Len(segments) \in Nat /\ Len(segments) > 0
  BY <1>1, EmptyLen
<1>3. Active \in Segment
  BY <1>1, <1>2 DEF Active
<1>4. PICK a \in Segment : a = Active
  BY <1>3
<1>5. a.base \in 0..MaxAppends /\ a.frames \in Seq(Sizes) /\ a.index \in Seq(Entries)
  BY DEF Segment
<1>6. Len(a.frames) \in Nat
  BY <1>5
<1>7. LEO = a.base + Len(a.frames) /\ LEO <= MaxAppends
  BY <1>4 DEF IndInv, Bounded, LEO, NextOffset
<1>8. Len(a.frames) <= MaxAppends /\ LEO \in 0..MaxAppends
  BY <1>5, <1>6, <1>7, SizesNat
<1> QED BY <1>1, <1>2, <1>4, <1>5, <1>6, <1>7, <1>8

\* A step that changes the active segment in place, keeping its base.
LEMMA ReplaceActive ==
  ASSUME IndInv, NEW z \in Segment, z.base = Active.base,
         segments' = [segments EXCEPT ![Len(segments)] = z]
  PROVE  /\ segments' \in Seq(Segment) /\ segments' # <<>>
         /\ Len(segments') = Len(segments)
         /\ Active' = z /\ LEO' = z.base + Len(z.frames)
         /\ \A i \in 1..(Len(segments) - 1) : segments'[i] = segments[i]
         /\ SegmentsContiguous'
<1>1. PICK n \in Nat : n = Len(segments) /\ n > 0
  BY ActiveFacts
<1>2. segments \in Seq(Segment) /\ segments' = [segments EXCEPT ![n] = z]
  BY <1>1, ActiveFacts
<1>3. /\ segments' \in Seq(Segment) /\ Len(segments') = n /\ segments'[n] = z
      /\ \A i \in 1..(n - 1) : segments'[i] = segments[i]
  BY <1>1, <1>2
<1>4. segments' # <<>>
  BY <1>1, <1>3
<1>5. Active' = z /\ Active = segments[n]
  BY <1>1, <1>3 DEF Active
<1>6. LEO' = z.base + Len(z.frames)
  BY <1>5 DEF LEO, NextOffset
<1>7. SegmentsContiguous'
  <2>1. segments'[1].base = 0
    <3>1. segments[1].base = 0
      BY DEF IndInv, SegmentsContiguous
    <3>2. CASE n = 1
      BY <1>3, <1>5, <3>1, <3>2
    <3>3. CASE n # 1
      <4>1. 1 \in 1..(n - 1)
        BY <1>1, <3>3
      <4> QED BY <1>3, <3>1, <4>1
    <3> QED BY <3>2, <3>3
  <2>2. ASSUME NEW i \in 1..(n - 1)
        PROVE  /\ segments'[i].frames # <<>>
               /\ segments'[i + 1].base = segments'[i].base + Len(segments'[i].frames)
    <3>1. /\ segments[i].frames # <<>>
          /\ segments[i + 1].base = segments[i].base + Len(segments[i].frames)
      BY <1>1 DEF IndInv, SegmentsContiguous
    <3>2. segments'[i + 1].base = segments[i + 1].base
      <4>1. CASE i + 1 = n
        BY <1>3, <1>5, <4>1
      <4>2. CASE i + 1 # n
        <5>1. i + 1 \in 1..(n - 1)
          BY <4>2
        <5> QED BY <1>3, <5>1
      <4> QED BY <4>1, <4>2
    <3> QED BY <1>3, <3>1, <3>2
  <2> QED BY <1>3, <2>1, <2>2 DEF SegmentsContiguous
<1> QED BY <1>1, <1>3, <1>4, <1>5, <1>6, <1>7

\* A step that adds a segment after an active one that is not empty.
LEMMA AddActive ==
  ASSUME IndInv, NEW z \in Segment, z.base = LEO, Active.frames # <<>>,
         segments' = Append(segments, z)
  PROVE  /\ segments' \in Seq(Segment) /\ segments' # <<>>
         /\ Len(segments') = Len(segments) + 1
         /\ Active' = z /\ LEO' = z.base + Len(z.frames)
         /\ \A i \in 1..Len(segments) : segments'[i] = segments[i]
         /\ SegmentsContiguous'
<1>1. PICK n \in Nat : n = Len(segments) /\ n > 0
  BY ActiveFacts
<1>2. segments \in Seq(Segment) /\ segments' = Append(segments, z)
  BY ActiveFacts
<1>3. /\ segments' \in Seq(Segment) /\ Len(segments') = n + 1 /\ segments'[n + 1] = z
      /\ \A i \in 1..n : segments'[i] = segments[i]
  BY <1>1, <1>2
<1>4. segments' # <<>>
  BY <1>1, <1>3
<1>5. Active' = z /\ Active = segments[n]
  BY <1>1, <1>3 DEF Active
<1>6. LEO' = z.base + Len(z.frames)
  BY <1>5 DEF LEO, NextOffset
<1>7. SegmentsContiguous'
  <2>1. segments'[1].base = 0
    <3>1. segments[1].base = 0 /\ 1 \in 1..n
      BY <1>1 DEF IndInv, SegmentsContiguous
    <3> QED BY <1>3, <3>1
  <2>2. ASSUME NEW i \in 1..n
        PROVE  /\ segments'[i].frames # <<>>
               /\ segments'[i + 1].base = segments'[i].base + Len(segments'[i].frames)
    <3>1. CASE i = n
      BY <1>3, <1>5, <3>1 DEF LEO, NextOffset
    <3>2. CASE i # n
      <4>1. i \in 1..(n - 1) /\ i + 1 \in 1..n
        BY <3>2
      <4>2. /\ segments[i].frames # <<>>
            /\ segments[i + 1].base = segments[i].base + Len(segments[i].frames)
        BY <1>1, <4>1 DEF IndInv, SegmentsContiguous
      <4> QED BY <1>3, <4>1, <4>2
    <3> QED BY <3>1, <3>2
  <2>3. Len(segments') - 1 = n
    BY <1>3
  <2> QED BY <2>1, <2>2, <2>3 DEF SegmentsContiguous
<1> QED BY <1>1, <1>3, <1>4, <1>5, <1>6, <1>7

\* A rotation is due only when the active segment holds a record.
LEMMA RollsNonempty ==
  ASSUME IndInv, NEW sz, Rolls(sz)
  PROVE  Active.frames # <<>>
<1> SUFFICES ASSUME Active.frames = <<>>
             PROVE  FALSE
  OBVIOUS
<1>1. <<>> \in Seq(Nat) /\ Len(<<>>) + 1 = 1
  OBVIOUS
<1>2. Size(Active) = 0
  BY <1>1, PosFacts DEF Size
<1> QED BY <1>2 DEF Rolls

\* The invariant holds when the log is created.
LEMMA InitInv == Init => IndInv
<1> SUFFICES ASSUME Init
             PROVE  IndInv
  OBVIOUS
<1> DEFINE e == EmptySegment(0)
<1>1. 0 \in 0..MaxAppends /\ 0 \in 0..MaxCrashes /\ 0 \in Nat
  BY CommitLogAssumption
<1>2. e \in Segment /\ Ready(e) /\ e.base = 0 /\ e.frames = <<>>
  BY <1>1, EmptyReady
<1> HIDE DEF e
<1>3. segments = <<e>> /\ open = TRUE /\ torn = FALSE /\ appends = 0 /\ synced = 0 /\ crashes = 0
  BY DEF Init, e
<1>4. segments \in Seq(Segment) /\ segments # <<>> /\ Len(segments) = 1 /\ segments[1] = e
  BY <1>2, <1>3
<1>5. TypeOK
  BY <1>1, <1>3, <1>4 DEF TypeOK, Segment
<1>6. SegmentsContiguous
  BY <1>2, <1>4 DEF SegmentsContiguous
<1>7. Active = e /\ LEO = 0
  BY <1>2, <1>4 DEF Active, LEO, NextOffset
<1>8. Bounded
  BY <1>1, <1>3, <1>7 DEF Bounded
<1>9. Indexed
  BY <1>2, <1>3, <1>4, <1>7 DEF Indexed
<1> QED BY <1>5, <1>6, <1>8, <1>9 DEF IndInv

\* An append keeps the invariant, whether it rotates or not.
LEMMA AppendStep ==
  ASSUME IndInv, NEW sz \in Sizes, DoAppend(sz)
  PROVE  IndInv'
<1>1. PICK n \in Nat, l \in Nat, a \in Segment :
        n = Len(segments) /\ n > 0 /\ l = LEO /\ a = Active
  BY ActiveFacts
<1>2. /\ open = TRUE /\ l < MaxAppends /\ torn = FALSE
      /\ open' = open /\ torn' = torn /\ crashes' = crashes /\ appends' = appends + 1
  BY <1>1 DEF DoAppend, IndInv, TypeOK
<1>3. appends' \in Nat /\ crashes' \in 0..MaxCrashes /\ MaxAppends \in Nat
  BY <1>2, SizesNat DEF IndInv, TypeOK
<1>4. l \in 0..MaxAppends /\ l + 1 \in 0..MaxAppends /\ synced \in 0..MaxAppends /\ synced <= l
  BY <1>1, <1>2, <1>3 DEF IndInv, TypeOK, Bounded
<1>5. synced' \in {l + 1, l, synced}
  BY <1>1 DEF DoAppend
<1>6. synced' \in 0..MaxAppends /\ synced' <= l + 1
  BY <1>4, <1>5
<1>7. ~IndexOutlivesLog => Ready(a) /\ \A i \in 1..(n - 1) : Sound(segments[i])
  BY <1>1, <1>2 DEF IndInv, Indexed
<1>8. SUFFICES ASSUME NEW z \in Segment, Active' = z, LEO' = l + 1,
                      segments' \in Seq(Segment), segments' # <<>>, SegmentsContiguous',
                      ~IndexOutlivesLog =>
                         Ready(z) /\ \A i \in 1..(Len(segments') - 1) : Sound(segments'[i])
               PROVE  IndInv'
  <2>1. CASE Rolls(sz)
    <3> DEFINE e == EmptySegment(l)
               z == AppendFrame(e, sz)
    <3>1. e \in Segment /\ Ready(e) /\ e.base = l /\ e.frames = <<>> /\ Len(e.frames) = 0
      BY <1>4, EmptyReady
    <3>2. 0 < MaxAppends
      BY <1>2, <1>3
    <3> HIDE DEF e
    <3>3. z \in Segment /\ Ready(z) /\ z.base = l /\ z.frames = Append(e.frames, sz)
      BY <3>1, <3>2, AppendFrameFacts
    <3>4. segments' = Append(segments, z)
      BY <1>1, <2>1 DEF DoAppend, e
    <3> HIDE DEF z
    <3>5. Len(z.frames) = 1
      BY <3>1, <3>3
    <3>6. Active.frames # <<>> /\ z.base = LEO
      BY <1>1, <2>1, <3>3, RollsNonempty
    <3>7. /\ segments' \in Seq(Segment) /\ segments' # <<>> /\ Len(segments') = n + 1
          /\ Active' = z /\ LEO' = l + 1
          /\ \A i \in 1..n : segments'[i] = segments[i]
          /\ SegmentsContiguous'
      BY <1>1, <3>3, <3>4, <3>5, <3>6, AddActive
    <3>8. ~IndexOutlivesLog => \A i \in 1..(Len(segments') - 1) : Sound(segments'[i])
      <4> SUFFICES ASSUME ~IndexOutlivesLog, NEW i \in 1..(Len(segments') - 1)
                   PROVE  Sound(segments'[i])
        OBVIOUS
      <4>1. i \in 1..n /\ segments'[i] = segments[i]
        BY <3>7
      <4>2. i = n => segments[i] = a
        BY <1>1 DEF Active
      <4>3. i # n => i \in 1..(n - 1)
        BY <4>1
      <4> QED BY <1>7, <4>1, <4>2, <4>3 DEF Ready
    <3> QED BY <3>3, <3>7, <3>8
  <2>2. CASE ~Rolls(sz)
    <3> DEFINE z == AppendFrame(a, sz)
    <3>1. /\ a.frames \in Seq(Sizes) /\ a.base \in Nat /\ Len(a.frames) \in Nat
          /\ a.base + Len(a.frames) = l
      BY <1>1, <1>3, ActiveFacts
    <3>2. Len(a.frames) < MaxAppends
      BY <1>2, <1>3, <3>1
    <3>3. /\ z \in Segment /\ z.base = a.base /\ z.frames = Append(a.frames, sz)
          /\ (Ready(a) => Ready(z))
      BY <3>2, AppendFrameFacts
    <3>4. segments' = [segments EXCEPT ![n] = z]
      BY <1>1, <2>2 DEF DoAppend, Active
    <3> HIDE DEF z
    <3>5. z.base + Len(z.frames) = l + 1
      <4>1. PICK m \in Nat, c \in Nat : m = Len(a.frames) /\ c = a.base
        BY <3>1
      <4>2. Len(Append(a.frames, sz)) = m + 1
        BY <3>1, <4>1
      <4>3. c + (m + 1) = l + 1
        BY <3>1, <4>1
      <4> QED BY <3>3, <4>1, <4>2, <4>3
    <3>6. /\ segments' \in Seq(Segment) /\ segments' # <<>> /\ Len(segments') = n
          /\ Active' = z /\ LEO' = l + 1
          /\ \A i \in 1..(n - 1) : segments'[i] = segments[i]
          /\ SegmentsContiguous'
      BY <1>1, <3>3, <3>4, <3>5, ReplaceActive
    <3> QED BY <1>7, <3>3, <3>6
  <2> QED BY <2>1, <2>2
<1>9. TypeOK'
  BY <1>2, <1>3, <1>6, <1>8 DEF TypeOK, Segment
<1>10. Bounded'
  BY <1>4, <1>6, <1>8 DEF Bounded
<1>11. ~IndexOutlivesLog => Indexed'
  BY <1>2, <1>8 DEF Indexed
<1> QED BY <1>8, <1>9, <1>10, <1>11 DEF IndInv

\* A close or a kill that leaves the segments alone.
LEMMA StopStep ==
  ASSUME IndInv, open, open' = FALSE, UNCHANGED <<segments, torn, appends>>,
         crashes' \in 0..MaxCrashes, synced' \in {LEO, synced}
  PROVE  IndInv'
<1>1. PICK l \in Nat, a \in Segment : l = LEO /\ a = Active
  BY ActiveFacts
<1>2. LEO' = l /\ Active' = a /\ torn' = torn /\ segments' = segments /\ appends' = appends
  BY <1>1 DEF LEO, Active
<1>3. l \in 0..MaxAppends /\ synced \in 0..MaxAppends /\ synced <= l
  BY <1>1, ActiveFacts DEF IndInv, TypeOK, Bounded
<1>4. synced' \in 0..MaxAppends /\ synced' <= l
  BY <1>1, <1>3
<1>5. TypeOK'
  BY <1>2, <1>4 DEF IndInv, TypeOK
<1>6. SegmentsContiguous'
  BY <1>2 DEF IndInv, SegmentsContiguous
<1>7. Bounded'
  BY <1>2, <1>3, <1>4 DEF Bounded
<1>8. a.frames = <<>> /\ Ready(a) => a.index = <<>>
  <2> SUFFICES ASSUME a.frames = <<>>, Ready(a), a.index # <<>>
               PROVE  FALSE
    OBVIOUS
  <2>1. a.index \in Seq(Entries)
    BY DEF Segment
  <2>2. 1 \in 1..Len(a.index)
    BY <2>1
  <2>3. a.index[1].rel < Len(a.frames)
    BY <2>2 DEF Ready, Sound
  <2>4. Len(a.frames) = 0
    OBVIOUS
  <2>5. PICK e \in Entries : e = a.index[1]
    BY <2>1, <2>2
  <2>6. e.rel \in Nat
    BY SizesNat DEF Entries
  <2> QED BY <2>3, <2>4, <2>5, <2>6
<1>9. ~IndexOutlivesLog => Indexed'
  BY <1>1, <1>2, <1>8 DEF IndInv, Indexed
<1> QED BY <1>5, <1>6, <1>7, <1>9 DEF IndInv

\* A kill keeps the invariant, also one that leaves a rotation's new segment empty.
LEMMA KillStep ==
  ASSUME IndInv, Kill
  PROVE  IndInv'
<1>1. /\ open /\ crashes < MaxCrashes /\ open' = FALSE /\ crashes' = crashes + 1
      /\ torn' = torn /\ appends' = appends
  BY DEF Kill
<1>2. crashes' \in 0..MaxCrashes
  BY <1>1, CommitLogAssumption DEF IndInv, TypeOK
<1>3. CASE UNCHANGED <<segments, synced>>
  BY <1>1, <1>2, <1>3, StopStep
<1>4. ASSUME NEW sz \in Sizes, Rolls(sz), segments' = Append(segments, EmptySegment(LEO)),
             synced' = LEO
      PROVE  IndInv'
  <2>1. PICK n \in Nat, l \in 0..MaxAppends, a \in Segment :
          n = Len(segments) /\ n > 0 /\ l = LEO /\ a = Active
    BY ActiveFacts
  <2> DEFINE e == EmptySegment(l)
  <2>2. /\ e \in Segment /\ Ready(e) /\ e.base = l /\ e.frames = <<>> /\ e.index = <<>>
        /\ Len(e.frames) = 0
    BY EmptyReady DEF EmptySegment
  <2>3. segments' = Append(segments, e)
    BY <1>4, <2>1
  <2> HIDE DEF e
  <2>4. Active.frames # <<>>
    BY <1>4, RollsNonempty
  <2>5. l + 0 = l
    BY <2>1, SizesNat
  <2>6. /\ segments' \in Seq(Segment) /\ segments' # <<>> /\ Len(segments') = n + 1
        /\ Active' = e /\ LEO' = l
        /\ \A i \in 1..n : segments'[i] = segments[i]
        /\ SegmentsContiguous'
    BY <2>1, <2>2, <2>3, <2>4, <2>5, AddActive
  <2>7. TypeOK'
    BY <1>1, <1>2, <1>4, <2>1, <2>6 DEF IndInv, TypeOK, Segment
  <2>8. Bounded'
    BY <1>4, <2>1, <2>6, SizesNat DEF Bounded
  <2>9. ~IndexOutlivesLog => Indexed'
    <3> SUFFICES ASSUME ~IndexOutlivesLog
                 PROVE  Indexed'
      OBVIOUS
    <3>1. Ready(a) /\ \A i \in 1..(n - 1) : Sound(segments[i])
      BY <1>1, <2>1 DEF IndInv, Indexed
    <3>2. ASSUME NEW i \in 1..(Len(segments') - 1)
          PROVE  Sound(segments'[i])
      <4>1. i \in 1..n /\ segments'[i] = segments[i]
        BY <2>6
      <4>2. i = n => segments[i] = a
        BY <2>1 DEF Active
      <4>3. i # n => i \in 1..(n - 1)
        BY <4>1
      <4> QED BY <3>1, <4>1, <4>2, <4>3 DEF Ready
    <3> QED BY <1>1, <2>2, <2>6, <3>2 DEF Indexed
  <2> QED BY <2>6, <2>7, <2>8, <2>9 DEF IndInv
<1> QED BY <1>3, <1>4 DEF Kill

\* A power loss keeps it: what was fsynced survives, and an index does not
\* outlive its file.
LEMMA PowerLossStep ==
  ASSUME IndInv, PowerLoss
  PROVE  IndInv'
<1>1. PICK n \in Nat, a \in Segment :
        n = Len(segments) /\ n > 0 /\ a = Active
  BY ActiveFacts
<1>2. /\ a.base \in 0..MaxAppends /\ a.frames \in Seq(Sizes) /\ a.index \in Seq(Entries)
      /\ LEO = a.base + Len(a.frames) /\ LEO \in 0..MaxAppends
  BY <1>1, ActiveFacts
<1>3. PICK k \in 0..Len(a.frames), j \in 0..Len(a.index), t \in BOOLEAN :
        /\ a.base + k >= synced
        /\ k = 0 /\ ~t => j = 0 \/ IndexOutlivesLog
        /\ torn' = t
        /\ segments' = [segments EXCEPT
             ![Len(segments)].frames = SubSeq(@, 1, k),
             ![Len(segments)].index  = SubSeq(@, 1, j)]
  BY <1>1 DEF PowerLoss
<1>4. /\ open' = FALSE /\ crashes < MaxCrashes /\ crashes' = crashes + 1
      /\ appends' = appends /\ synced' = synced
  BY DEF PowerLoss
<1> DEFINE z == [a EXCEPT !.frames = SubSeq(a.frames, 1, k), !.index = SubSeq(a.index, 1, j)]
<1>5. SubSeq(a.frames, 1, k) \in Seq(Sizes) /\ Len(SubSeq(a.frames, 1, k)) = k
  BY <1>2
<1>6. SubSeq(a.index, 1, j) \in Seq(Entries) /\ Len(SubSeq(a.index, 1, j)) = j
  BY <1>2
<1>7. /\ z \in Segment /\ z.base = a.base
      /\ z.frames = SubSeq(a.frames, 1, k) /\ z.index = SubSeq(a.index, 1, j)
  BY <1>5, <1>6 DEF Segment
<1>8. segments' = [segments EXCEPT ![n] = z]
  <2>1. segments \in Seq(Segment) /\ segments[n] = a /\ n \in DOMAIN segments
    BY <1>1, ActiveFacts DEF Active
  <2> QED BY <1>1, <1>3, <2>1
<1> HIDE DEF z
<1>9. z.base + Len(z.frames) = a.base + k
  BY <1>5, <1>7
<1>10. /\ segments' \in Seq(Segment) /\ segments' # <<>> /\ Len(segments') = n
       /\ Active' = z /\ LEO' = a.base + k
       /\ \A i \in 1..(n - 1) : segments'[i] = segments[i]
       /\ SegmentsContiguous'
  BY <1>1, <1>7, <1>8, <1>9, ReplaceActive
<1>11. TypeOK'
  <2>1. crashes' \in 0..MaxCrashes
    BY <1>4, CommitLogAssumption DEF IndInv, TypeOK
  <2> QED BY <1>3, <1>4, <1>10, <2>1 DEF IndInv, TypeOK, Segment
<1>12. Bounded'
  <2>1. a.base + k <= LEO /\ LEO <= MaxAppends /\ a.base + k \in Nat
    BY <1>2, SizesNat
  <2>2. synced' <= a.base + k
    BY <1>3, <1>4, <2>1 DEF IndInv, TypeOK
  <2> QED BY <1>2, <1>10, <2>1, <2>2, SizesNat DEF Bounded
<1>13. ~IndexOutlivesLog => Indexed'
  <2> SUFFICES ASSUME ~IndexOutlivesLog
               PROVE  Indexed'
    OBVIOUS
  <2>1. \A i \in 1..(n - 1) : Sound(segments'[i])
    BY <1>1, <1>10 DEF IndInv, Indexed
  <2>2. ~torn' /\ z.frames = <<>> => z.index = <<>>
    <3> SUFFICES ASSUME ~torn', z.frames = <<>>
                 PROVE  z.index = <<>>
      OBVIOUS
    <3>1. k = 0
      BY <1>5, <1>7
    <3>2. j = 0
      BY <1>3, <3>1
    <3> QED BY <1>6, <1>7, <3>2, EmptyLen
  <2> QED BY <1>4, <1>10, <2>1, <2>2 DEF Indexed
<1> QED BY <1>10, <1>11, <1>12, <1>13 DEF IndInv

\* Recovery keeps it, and the records with it.
LEMMA OpenStep ==
  ASSUME IndInv, Open
  PROVE  /\ IndInv'
         /\ \E z \in Segment : /\ z.frames = Active.frames
                               /\ segments' = [segments EXCEPT ![Len(segments)] = z]
<1>1. PICK n \in Nat, a \in Segment :
        n = Len(segments) /\ n > 0 /\ a = Active
  BY ActiveFacts
<1>2. /\ ~open /\ open' = TRUE /\ torn' = FALSE /\ appends' = 0
      /\ synced' = synced /\ crashes' = crashes
      /\ segments' = [segments EXCEPT ![n] = RecoverActive(a, torn)]
  BY <1>1 DEF Open, Active
<1>3. torn \in BOOLEAN /\ Len(a.frames) <= MaxAppends /\ LEO = a.base + Len(a.frames)
  BY <1>1, ActiveFacts DEF IndInv, TypeOK
<1>4. PICK z : z = RecoverActive(a, torn)
  OBVIOUS
<1>5. /\ z \in Segment /\ z.base = a.base /\ z.frames = a.frames
      /\ (~torn /\ a.frames = <<>> => a.index = <<>>) => Ready(z)
  BY <1>3, <1>4, RecoverFacts
<1>6. /\ segments' \in Seq(Segment) /\ segments' # <<>> /\ Len(segments') = n
      /\ Active' = z /\ LEO' = LEO
      /\ \A i \in 1..(n - 1) : segments'[i] = segments[i]
      /\ SegmentsContiguous'
  BY <1>1, <1>2, <1>3, <1>4, <1>5, ReplaceActive
<1>7. TypeOK'
  BY <1>2, <1>6 DEF IndInv, TypeOK, Segment
<1>8. Bounded'
  BY <1>2, <1>6 DEF IndInv, Bounded
<1>9. ~IndexOutlivesLog => Indexed'
  BY <1>1, <1>2, <1>5, <1>6 DEF IndInv, Indexed
<1>10. IndInv'
  BY <1>6, <1>7, <1>8, <1>9 DEF IndInv
<1> QED BY <1>1, <1>2, <1>4, <1>5, <1>10

\* Every step keeps the invariant.
LEMMA NextInv == IndInv /\ [Next]_vars => IndInv'
<1> SUFFICES ASSUME IndInv, [Next]_vars
             PROVE  IndInv'
  OBVIOUS
<1>1. CASE \E sz \in Sizes : DoAppend(sz)
  BY <1>1, AppendStep
<1>2. CASE Close
  <2>1. crashes' \in 0..MaxCrashes
    BY <1>2 DEF Close, IndInv, TypeOK
  <2> QED BY <1>2, <2>1, StopStep DEF Close
<1>3. CASE Kill
  BY <1>3, KillStep
<1>4. CASE PowerLoss
  BY <1>4, PowerLossStep
<1>5. CASE Open
  BY <1>5, OpenStep
<1>6. CASE UNCHANGED vars
  BY <1>6 DEF vars, IndInv, TypeOK, SegmentsContiguous, Bounded, Indexed, LEO, Active
<1> QED BY <1>1, <1>2, <1>3, <1>4, <1>5, <1>6 DEF Next

\* The invariant holds in every behaviour.
LEMMA LogInv == Spec => []IndInv
BY InitInv, NextInv, PTL DEF Spec

-----------------------------------------------------------------------------
(* The properties *)

\* Every variable keeps its type, and a log that is open ends in a whole frame,
\* whatever is appended and however often the process or the machine stops.
THEOREM LogTypes == Spec => []TypeOK
<1>1. IndInv => TypeOK
  BY DEF IndInv
<1> QED BY <1>1, LogInv, PTL

\* Rotation, kills between a rotation and its write, power losses and recovery
\* leave no hole between segments and no empty segment but the active one.
THEOREM LogHasNoHole == Spec => []SegmentsContiguous
<1>1. IndInv => SegmentsContiguous
  BY DEF IndInv
<1> QED BY <1>1, LogInv, PTL

\* While the log is open every index can be trusted.
LEMMA AllSound ==
  ASSUME ~IndexOutlivesLog, IndInv, open, NEW i \in 1..Len(segments)
  PROVE  Sound(segments[i])
<1>1. PICK n \in Nat : n = Len(segments)
  BY ActiveFacts
<1>2. i = n => segments[i] = Active
  BY <1>1 DEF Active
<1>3. i # n => i \in 1..(n - 1)
  BY <1>1
<1> QED BY <1>1, <1>2, <1>3 DEF IndInv, Indexed, Ready

\* In a log that is open each index entry points at the record it names, for
\* every sequence of appends, rotations, crashes and recoveries, unless a power
\* loss keeps the index of a file it empties.
THEOREM IndexTrusted ==
  ASSUME ~IndexOutlivesLog
  PROVE  Spec => []IndexSound
<1>1. ASSUME IndInv
      PROVE  IndexSound
  <2> SUFFICES ASSUME open, NEW i \in 1..Len(segments)
               PROVE  Sound(segments[i])
    BY DEF IndexSound, Sound
  <2> QED BY <1>1, AllSound
<1> QED BY <1>1, LogInv, PTL

-----------------------------------------------------------------------------
(* The frames of all segments as one sequence *)

\* g[i] is what the first i of the sequences fs hold.
IsFlat(g, fs, n) == g = [i \in 1..n |-> IF i = 1 THEN fs[i] ELSE g[i - 1] \o fs[i]]

\* The recursive definition of FlattenSeq has a solution.
LEMMA FlatExists ==
  ASSUME NEW S, NEW fs \in Seq(Seq(S)), Len(fs) > 0
  PROVE  \E g : IsFlat(g, fs, Len(fs))
<1> DEFINE T == {n \in 1..Len(fs) : ~ \E g : IsFlat(g, fs, n)}
<1>1. CASE T = {}
  <2>1. Len(fs) \in 1..Len(fs)
    OBVIOUS
  <2> QED BY <1>1, <2>1
<1>2. CASE T # {}
  <2>1. PICK n \in T : \A m \in T : n <= m
    <3>1. T \subseteq Nat
      OBVIOUS
    <3> HIDE DEF T
    <3> QED BY <1>2, <3>1, LeastNat
  <2>2. n \in Nat /\ n >= 1 /\ n <= Len(fs)
    OBVIOUS
  <2>3. CASE n = 1
    <3>1. IsFlat([i \in 1..1 |-> fs[i]], fs, 1)
      BY DEF IsFlat
    <3> QED BY <2>1, <2>3, <3>1
  <2>4. CASE n # 1
    <3>1. n - 1 \in 1..Len(fs) /\ ~(n <= n - 1)
      BY <2>2, <2>4
    <3>2. PICK g : IsFlat(g, fs, n - 1)
      BY <2>1, <3>1
    <3>3. g = [i \in 1..(n - 1) |-> IF i = 1 THEN fs[i] ELSE g[i - 1] \o fs[i]]
      BY <3>2, Zenon DEF IsFlat
    <3> DEFINE q == [i \in 1..n |-> IF i = n THEN g[n - 1] \o fs[n] ELSE g[i]]
    <3>4. ASSUME NEW i \in 1..n
          PROVE  q[i] = IF i = 1 THEN fs[i] ELSE q[i - 1] \o fs[i]
      <4>1. CASE i = n
        <5>1. n - 1 \in 1..n /\ n - 1 # n
          BY <2>2, <2>4
        <5>2. q[n - 1] = g[n - 1] /\ q[i] = g[n - 1] \o fs[n]
          BY <4>1, <5>1
        <5> HIDE DEF q
        <5> QED BY <2>4, <4>1, <5>2
      <4>2. CASE i # n
        <5>1. i \in 1..(n - 1) /\ q[i] = g[i]
          BY <2>2, <4>2
        <5>2. i # 1 => q[i - 1] = g[i - 1]
          BY <2>2, <5>1
        <5> HIDE DEF q
        <5> QED BY <3>3, <5>1, <5>2
      <4> QED BY <4>1, <4>2
    <3>5. q = [i \in 1..n |-> IF i = 1 THEN fs[i] ELSE q[i - 1] \o fs[i]]
      BY <3>4
    <3> HIDE DEF q
    <3>6. IsFlat(q, fs, n)
      BY <3>5, Zenon DEF IsFlat
    <3> QED BY <2>1, <3>6
  <2> QED BY <2>3, <2>4
<1> QED BY <1>1, <1>2

\* The same, sequence by sequence.
Parts(g, fs, S) ==
  /\ g[1] = fs[1]
  /\ \A i \in 2..Len(fs) : g[i] = g[i - 1] \o fs[i]
  /\ \A i \in 1..Len(fs) : g[i] \in Seq(S)

\* FlattenSeq returns what all the sequences hold.
LEMMA FlatParts ==
  ASSUME NEW S, NEW fs \in Seq(Seq(S)), Len(fs) > 0
  PROVE  \E g : Parts(g, fs, S) /\ FlattenSeq(fs) = g[Len(fs)]
<1>1. PICK n \in Nat : n = Len(fs) /\ n > 0
  OBVIOUS
<1> DEFINE g == CHOOSE f : IsFlat(f, fs, Len(fs))
<1>2. IsFlat(g, fs, Len(fs))
  BY FlatExists, Zenon
<1>3. FlattenSeq(fs) = g[Len(fs)]
  <2>1. Len(fs) # 0
    OBVIOUS
  <2> QED BY <2>1, Zenon DEF FlattenSeq, IsFlat
<1> HIDE DEF g
<1>4. \A i \in 1..n : g[i] = IF i = 1 THEN fs[i] ELSE g[i - 1] \o fs[i]
  BY <1>1, <1>2, Zenon DEF IsFlat
<1>5. g[1] = fs[1] /\ \A i \in 2..n : g[i] = g[i - 1] \o fs[i]
  <2>1. 1 \in 1..n /\ \A i \in 2..n : i \in 1..n /\ i # 1
    BY <1>1
  <2> QED BY <1>4, <2>1
<1> DEFINE T == {i \in 1..n : g[i] \notin Seq(S)}
<1>6. T = {}
  <2> SUFFICES ASSUME T # {}
               PROVE  FALSE
    OBVIOUS
  <2>1. T \subseteq Nat
    OBVIOUS
  <2>2. PICK i \in T : \A m \in T : i <= m
    <3> HIDE DEF T
    <3> QED BY <2>1, LeastNat
  <2>3. i \in 1..n /\ g[i] \notin Seq(S) /\ fs[i] \in Seq(S)
    BY <1>1
  <2>4. i # 1
    BY <1>5, <2>3
  <2>5. i \in 2..n /\ i - 1 \in 1..n /\ ~(i <= i - 1)
    BY <2>3, <2>4
  <2>6. g[i - 1] \in Seq(S)
    BY <2>2, <2>5
  <2>7. g[i] = g[i - 1] \o fs[i]
    BY <1>5, <2>5
  <2> QED BY <2>3, <2>6, <2>7, ConcatProperties
<1>7. Parts(g, fs, S)
  BY <1>1, <1>5, <1>6 DEF Parts
<1> QED BY <1>3, <1>7

\* The first m sequences of fs and gs are the same.
Agree(fs, gs, m) == m <= Len(fs) /\ m <= Len(gs) /\ \A j \in 1..m : fs[j] = gs[j]

\* What the first m sequences hold depends on them only.
LEMMA FlatSame ==
  ASSUME NEW S, NEW fs \in Seq(Seq(S)), NEW gs \in Seq(Seq(S)), NEW g, NEW h,
         Parts(g, fs, S), Parts(h, gs, S), NEW m \in Nat, Agree(fs, gs, m)
  PROVE  \A i \in 1..m : g[i] = h[i]
<1> DEFINE T == {k \in 1..m : g[k] # h[k]}
<1>1. T = {}
  <2> SUFFICES ASSUME T # {}
               PROVE  FALSE
    OBVIOUS
  <2>1. T \subseteq Nat
    OBVIOUS
  <2>2. PICK k \in T : \A x \in T : k <= x
    <3> HIDE DEF T
    <3> QED BY <2>1, LeastNat
  <2>3. k \in 1..m /\ g[k] # h[k]
    OBVIOUS
  <2>4. k # 1
    BY <2>3 DEF Parts, Agree
  <2>5. k \in 2..Len(fs) /\ k \in 2..Len(gs) /\ k - 1 \in 1..m /\ ~(k <= k - 1)
    BY <2>3, <2>4 DEF Agree
  <2>6. g[k - 1] = h[k - 1]
    BY <2>2, <2>5
  <2> QED BY <2>3, <2>5, <2>6 DEF Parts, Agree
<1> QED BY <1>1

\* Two lists of sequences that differ in the last one only.
LEMMA FlatLast ==
  ASSUME NEW n \in Nat, n > 0, NEW fs \in Seq(Seq(Sizes)), NEW gs \in Seq(Seq(Sizes)),
         Len(fs) = n, Len(gs) = n, Agree(fs, gs, n - 1)
  PROVE  \E c \in Seq(Sizes) : /\ FlattenSeq(fs) = c \o fs[n]
                           /\ FlattenSeq(gs) = c \o gs[n]
<1>1. PICK g : Parts(g, fs, Sizes) /\ FlattenSeq(fs) = g[n]
  BY FlatParts
<1>2. PICK h : Parts(h, gs, Sizes) /\ FlattenSeq(gs) = h[n]
  BY FlatParts
<1>3. CASE n = 1
  <2>1. /\ FlattenSeq(fs) = fs[n] /\ FlattenSeq(gs) = gs[n]
        /\ fs[n] \in Seq(Sizes) /\ gs[n] \in Seq(Sizes)
    BY <1>1, <1>2, <1>3 DEF Parts
  <2>2. <<>> \in Seq(Sizes)
    OBVIOUS
  <2>3. <<>> \o fs[n] = fs[n] /\ <<>> \o gs[n] = gs[n]
    BY <2>1, ConcatEmptySeq
  <2> QED BY <2>1, <2>2, <2>3
<1>4. CASE n # 1
  <2>1. n - 1 \in Nat /\ n - 1 <= n /\ n - 1 \in 1..(n - 1) /\ n - 1 \in 1..n /\ n \in 2..n
    BY <1>4
  <2>2. g[n - 1] = h[n - 1]
    <3>1. PICK m \in Nat : m = n - 1
      BY <2>1
    <3>2. Agree(fs, gs, m) /\ m \in 1..m
      BY <2>1, <3>1
    <3>3. \A i \in 1..m : g[i] = h[i]
      BY <1>1, <1>2, <3>2, FlatSame
    <3> QED BY <3>1, <3>2, <3>3
  <2>3. g[n] = g[n - 1] \o fs[n] /\ h[n] = h[n - 1] \o gs[n] /\ g[n - 1] \in Seq(Sizes)
    BY <1>1, <1>2, <2>1 DEF Parts
  <2> QED BY <1>1, <1>2, <2>2, <2>3
<1> QED BY <1>3, <1>4

\* One more sequence at the end.
LEMMA FlatMore ==
  ASSUME NEW S, NEW fs \in Seq(Seq(S)), Len(fs) > 0, NEW x \in Seq(S)
  PROVE  FlattenSeq(Append(fs, x)) = FlattenSeq(fs) \o x
<1>1. PICK n \in Nat : n = Len(fs) /\ n > 0
  OBVIOUS
<1> DEFINE gs == Append(fs, x)
<1>2. /\ gs \in Seq(Seq(S)) /\ Len(gs) = n + 1 /\ gs[n + 1] = x
      /\ \A i \in 1..n : fs[i] = gs[i]
  BY <1>1
<1> HIDE DEF gs
<1>3. PICK g : Parts(g, fs, S) /\ FlattenSeq(fs) = g[n]
  BY <1>1, FlatParts
<1>4. PICK h : Parts(h, gs, S) /\ FlattenSeq(gs) = h[n + 1]
  <2>1. Len(gs) > 0
    BY <1>1, <1>2
  <2> QED BY <1>2, <2>1, FlatParts
<1>5. n <= n + 1 /\ n \in 1..n /\ n + 1 \in 2..(n + 1) /\ n + 1 - 1 = n
  BY <1>1
<1>6. g[n] = h[n]
  <2>1. Agree(fs, gs, n)
    BY <1>1, <1>2, <1>5 DEF Agree
  <2>2. \A i \in 1..n : g[i] = h[i]
    BY <1>2, <1>3, <1>4, <2>1, FlatSame
  <2> QED BY <1>5, <2>2
<1>7. h[n + 1] = h[n] \o x
  <2>1. PICK m \in 2..Len(gs) : m = n + 1 /\ m - 1 = n
    BY <1>2, <1>5
  <2>2. h[m] = h[m - 1] \o gs[m]
    BY <1>4, Zenon DEF Parts
  <2> QED BY <1>2, <2>1, <2>2
<1> QED BY <1>3, <1>4, <1>6, <1>7 DEF gs

\* The frames of the segments, segment by segment.
Column == [i \in 1..Len(segments) |-> segments[i].frames]

\* It is a list of sequences whose last one is the active segment's.
LEMMA ColumnFacts ==
  ASSUME IndInv
  PROVE  /\ Column \in Seq(Seq(Sizes)) /\ Len(Column) = Len(segments)
         /\ Column[Len(segments)] = Active.frames
         /\ Frames = FlattenSeq(Column)
<1>1. PICK n \in Nat : n = Len(segments) /\ n > 0
  BY ActiveFacts
<1>2. segments \in Seq(Segment)
  BY ActiveFacts
<1>3. \A i \in 1..n : segments[i] \in Segment
  BY <1>1, <1>2
<1>4. \A i \in 1..n : segments[i].frames \in Seq(Sizes)
  BY <1>3 DEF Segment
<1>5. Column \in [1..n -> Seq(Sizes)]
  BY <1>1, <1>4 DEF Column
<1>6. Column \in Seq(Seq(Sizes)) /\ Len(Column) = n
  BY <1>5
<1>7. Column[n] = Active.frames
  BY <1>1 DEF Column, Active
<1> QED BY <1>1, <1>6, <1>7 DEF Frames, Column

\* g[i] is what the first i segments hold, the records below the end of the i-th.
FrameParts(g, fs) ==
  /\ fs \in Seq(Seq(Sizes)) /\ Len(fs) = Len(segments)
  /\ \A i \in 1..Len(segments) : fs[i] = segments[i].frames
  /\ Parts(g, fs, Sizes) /\ Frames = g[Len(segments)]
  /\ \A i \in 1..Len(segments) : Len(g[i]) = segments[i].base + Len(fs[i])

\* There are such parts, since each segment starts where the one before it ends.
LEMMA FramePartsExist ==
  ASSUME IndInv
  PROVE  \E g, fs : FrameParts(g, fs)
<1>1. PICK n \in Nat : n = Len(segments) /\ n > 0
  BY ActiveFacts
<1>2. PICK fs \in Seq(Seq(Sizes)) :
        /\ Len(fs) = n /\ Frames = FlattenSeq(fs)
        /\ \A i \in 1..n : fs[i] = segments[i].frames
  BY <1>1, ColumnFacts DEF Column
<1>3. PICK g : Parts(g, fs, Sizes) /\ Frames = g[n]
  BY <1>1, <1>2, FlatParts
<1>4. \A i \in 1..n : segments[i].base \in Nat /\ fs[i] \in Seq(Sizes) /\ Len(fs[i]) \in Nat
  <2>1. segments \in Seq(Segment) /\ MaxAppends \in Nat
    BY ActiveFacts, SizesNat
  <2>2. \A i \in 1..n : segments[i] \in Segment
    BY <1>1, <2>1
  <2>3. \A i \in 1..n : segments[i].base \in Nat
    BY <2>1, <2>2 DEF Segment
  <2> QED BY <1>2, <2>3
<1> DEFINE T == {i \in 1..n : Len(g[i]) # segments[i].base + Len(fs[i])}
<1>5. T = {}
  <2> SUFFICES ASSUME T # {}
               PROVE  FALSE
    OBVIOUS
  <2>1. T \subseteq Nat
    OBVIOUS
  <2>2. PICK i \in T : \A m \in T : i <= m
    <3> HIDE DEF T
    <3> QED BY <2>1, LeastNat
  <2>3. i \in 1..n /\ Len(g[i]) # segments[i].base + Len(fs[i])
    OBVIOUS
  <2>4. CASE i = 1
    <3>1. g[1] = fs[1]
      BY <1>3 DEF Parts
    <3>2. segments[1].base = 0
      BY DEF IndInv, SegmentsContiguous
    <3> QED BY <1>4, <2>3, <2>4, <3>1, <3>2
  <2>5. CASE i # 1
    <3>1. PICK j \in 1..(n - 1) : j = i - 1 /\ j + 1 = i /\ j \in 1..n
      BY <2>3, <2>5
    <3>2. Len(g[j]) = segments[j].base + Len(fs[j])
      <4>1. ~(i <= j)
        BY <3>1
      <4> QED BY <2>2, <3>1, <4>1
    <3>3. segments[i].base = segments[j].base + Len(fs[j])
      BY <1>1, <1>2, <3>1 DEF IndInv, SegmentsContiguous
    <3>4. g[i] = g[i - 1] \o fs[i]
      <4>1. i \in 2..Len(fs)
        BY <1>2, <2>3, <2>5
      <4> QED BY <1>3, <4>1, Zenon DEF Parts
    <3>5. g[j] \in Seq(Sizes) /\ fs[i] \in Seq(Sizes)
      BY <1>2, <1>3, <1>4, <2>3, <3>1 DEF Parts
    <3>6. Len(g[j] \o fs[i]) = Len(g[j]) + Len(fs[i])
      BY <3>5, ConcatProperties
    <3> QED BY <2>3, <3>1, <3>2, <3>3, <3>4, <3>6
  <2> QED BY <2>4, <2>5
<1>6. \A i \in 1..n : Len(g[i]) = segments[i].base + Len(fs[i])
  BY <1>5
<1>7. FrameParts(g, fs)
  BY <1>1, <1>2, <1>3, <1>6 DEF FrameParts
<1> QED BY <1>7

\* The log holds LEO records.
LEMMA FramesLen ==
  ASSUME IndInv
  PROVE  Frames \in Seq(Sizes) /\ Len(Frames) = LEO
<1>1. PICK n \in Nat : n = Len(segments) /\ n > 0
  BY ActiveFacts
<1>2. PICK g, fs : FrameParts(g, fs)
  BY FramePartsExist
<1>3. n \in 1..n
  BY <1>1
<1>4. Len(Frames) = segments[n].base + Len(segments[n].frames)
  BY <1>1, <1>2, <1>3 DEF FrameParts
<1>5. Frames \in Seq(Sizes)
  BY <1>1, <1>2, <1>3 DEF FrameParts, Parts
<1> QED BY <1>1, <1>4, <1>5 DEF LEO, NextOffset, Active

\* A step that changes the active segment changes the log behind its base only.
LEMMA ReplaceFrames ==
  ASSUME IndInv, IndInv', NEW z \in Segment,
         segments' = [segments EXCEPT ![Len(segments)] = z]
  PROVE  \E c \in Seq(Sizes) : /\ Frames = c \o Active.frames
                               /\ Frames' = c \o z.frames
                               /\ Len(c) = Active.base
<1>1. PICK n \in Nat : n = Len(segments) /\ n > 0
  BY ActiveFacts
<1>2. /\ Len(segments') = n /\ segments'[n] = z
      /\ \A i \in 1..(n - 1) : segments'[i] = segments[i]
  BY <1>1, ActiveFacts
<1>3. PICK fs \in Seq(Seq(Sizes)) : fs = Column
  BY ColumnFacts
<1>4. Len(fs) = n /\ fs[n] = Active.frames /\ Frames = FlattenSeq(fs)
  BY <1>1, <1>3, ColumnFacts
<1>5. PICK gs : gs = [i \in 1..n |-> segments'[i].frames]
  OBVIOUS
<1>6. Frames' = FlattenSeq(gs)
  BY <1>2, <1>5 DEF Frames
<1>7. gs[n] = z.frames /\ \A i \in 1..(n - 1) : gs[i] = fs[i]
  BY <1>1, <1>2, <1>3, <1>5 DEF Column
<1>8. gs \in Seq(Seq(Sizes)) /\ Len(gs) = n
  <2>1. z.frames \in Seq(Sizes)
    BY DEF Segment
  <2>2. ASSUME NEW i \in 1..n
        PROVE  gs[i] \in Seq(Sizes)
    <3>1. i # n => i \in 1..(n - 1) /\ gs[i] = fs[i]
      BY <1>7
    <3> QED BY <1>4, <1>7, <2>1, <3>1
  <2>3. gs \in [1..n -> Seq(Sizes)]
    BY <1>5, <2>2
  <2> QED BY <2>3
<1>9. PICK c \in Seq(Sizes) : FlattenSeq(fs) = c \o fs[n] /\ FlattenSeq(gs) = c \o gs[n]
  <2>1. n - 1 <= n
    OBVIOUS
  <2>2. Agree(fs, gs, n - 1)
    BY <1>4, <1>7, <1>8, <2>1 DEF Agree
  <2>3. n > 0 /\ Len(fs) = n /\ Len(gs) = n /\ gs \in Seq(Seq(Sizes))
    BY <1>1, <1>4, <1>8
  <2> QED BY <2>2, <2>3, FlatLast
<1>10. Len(c) = Active.base
  <2>1. PICK a \in Seq(Sizes) : a = Active.frames
    BY ActiveFacts
  <2>2. Len(c \o a) = Len(c) + Len(a)
    BY ConcatProperties
  <2>3. Len(c \o a) = Active.base + Len(a)
    BY <1>4, <1>9, <2>1, FramesLen, ActiveFacts
  <2>4. Active.base \in Nat /\ Len(a) \in Nat /\ Len(c) \in Nat
    BY <2>1, ActiveFacts, SizesNat
  <2> QED BY <2>2, <2>3, <2>4
<1> QED BY <1>4, <1>6, <1>7, <1>9, <1>10

\* A step that adds a segment adds its frames to the log.
LEMMA AddFrames ==
  ASSUME IndInv, NEW z \in Segment, segments' = Append(segments, z)
  PROVE  Frames' = Frames \o z.frames
<1>1. PICK n \in Nat : n = Len(segments) /\ n > 0
  BY ActiveFacts
<1>2. /\ Len(segments') = n + 1 /\ segments'[n + 1] = z
      /\ \A i \in 1..n : segments'[i] = segments[i]
  BY <1>1, ActiveFacts
<1>3. PICK fs \in Seq(Seq(Sizes)) : fs = Column
  BY ColumnFacts
<1>4. Len(fs) = n /\ Frames = FlattenSeq(fs)
  BY <1>1, <1>3, ColumnFacts
<1>5. PICK x \in Seq(Sizes) : x = z.frames
  BY DEF Segment
<1> DEFINE gs == [i \in 1..(n + 1) |-> segments'[i].frames]
<1>6. Frames' = FlattenSeq(gs)
  BY <1>2 DEF Frames
<1>7. gs = Append(fs, x)
  <2>1. gs[n + 1] = x /\ \A i \in 1..n : gs[i] = fs[i]
    BY <1>1, <1>2, <1>3, <1>5 DEF Column
  <2> HIDE DEF gs
  <2>2. /\ Append(fs, x) \in Seq(Seq(Sizes)) /\ Len(Append(fs, x)) = n + 1
        /\ Append(fs, x)[n + 1] = x /\ \A i \in 1..n : Append(fs, x)[i] = fs[i]
    BY <1>4
  <2>3. \A i \in 1..(n + 1) : gs[i] = Append(fs, x)[i] /\ gs[i] \in Seq(Sizes)
    <3> TAKE i \in 1..(n + 1)
    <3>1. i # n + 1 => i \in 1..n /\ fs[i] \in Seq(Sizes)
      BY <1>4
    <3> QED BY <2>1, <2>2, <3>1
  <2>4. gs \in [1..(n + 1) -> Seq(Sizes)]
    BY <2>3 DEF gs
  <2>5. gs \in Seq(Seq(Sizes)) /\ Len(gs) = n + 1
    BY <2>4
  <2> QED BY <2>2, <2>3, <2>5, SeqEqual
<1> HIDE DEF gs
<1> QED BY <1>1, <1>4, <1>5, <1>6, <1>7, FlatMore

-----------------------------------------------------------------------------
(* The segmented log implements the abstract one *)

\* Appending one element is concatenating a sequence of one.
LEMMA ConcatAppend ==
  ASSUME NEW S, NEW c \in Seq(S), NEW f \in Seq(S), NEW x \in S
  PROVE  c \o Append(f, x) = Append(c \o f, x)
<1>1. PICK m \in Nat, n \in Nat : m = Len(c) /\ n = Len(f)
  OBVIOUS
<1> DEFINE d == Append(f, x)
           p == c \o d
           q == Append(c \o f, x)
<1>2. c \o f \in Seq(S) /\ Len(c \o f) = m + n
  BY <1>1, ConcatProperties
<1>3. q \in Seq(S) /\ Len(q) = m + n + 1 /\ q[m + n + 1] = x
      /\ \A i \in 1..(m + n) : q[i] = (c \o f)[i]
  BY <1>2
<1>4. d \in Seq(S) /\ Len(d) = n + 1 /\ d[n + 1] = x /\ \A i \in 1..n : d[i] = f[i]
  BY <1>1
<1> HIDE DEF d
<1>5. p \in Seq(S) /\ Len(p) = m + (n + 1)
      /\ \A i \in 1..(m + (n + 1)) : p[i] = IF i <= m THEN c[i] ELSE d[i - m]
  <2>1. /\ p \in Seq(S) /\ Len(p) = Len(c) + Len(d)
        /\ \A i \in 1..(Len(c) + Len(d)) : p[i] = IF i <= Len(c) THEN c[i] ELSE d[i - Len(c)]
    BY <1>4, ConcatProperties, Zenon
  <2> QED BY <1>1, <1>4, <2>1, Zenon
<1>6. \A i \in 1..(m + n) : (c \o f)[i] = IF i <= m THEN c[i] ELSE f[i - m]
  BY <1>1, ConcatProperties
<1> HIDE DEF p, q
<1>7. ASSUME NEW i \in 1..(m + n + 1)
      PROVE  p[i] = q[i]
  <2>1. i \in 1..(m + (n + 1))
    OBVIOUS
  <2>2. CASE i = m + n + 1
    <3>1. ~(i <= m) /\ i - m = n + 1
      BY <2>2
    <3> QED BY <1>3, <1>4, <1>5, <2>1, <2>2, <3>1
  <2>3. CASE i # m + n + 1
    <3>1. i \in 1..(m + n) /\ (~(i <= m) => i - m \in 1..n)
      BY <2>3
    <3> QED BY <1>3, <1>4, <1>5, <1>6, <2>1, <3>1
  <2> QED BY <2>2, <2>3
<1>8. Len(p) = Len(q) /\ Len(p) = m + n + 1
  BY <1>3, <1>5
<1> QED BY <1>3, <1>5, <1>7, <1>8, SeqEqual DEF p, q, d

\* A prefix that reaches into the second of two sequences.
LEMMA ConcatPrefix ==
  ASSUME NEW S, NEW c \in Seq(S), NEW f \in Seq(S), NEW k \in 0..Len(f)
  PROVE  c \o SubSeq(f, 1, k) = SubSeq(c \o f, 1, Len(c) + k)
<1>1. PICK m \in Nat, n \in Nat : m = Len(c) /\ n = Len(f)
  OBVIOUS
<1> DEFINE h == SubSeq(f, 1, k)
           p == c \o h
           q == SubSeq(c \o f, 1, m + k)
<1>2. k \in Nat /\ k <= n /\ m + k <= m + n
  BY <1>1
<1>3. /\ c \o f \in Seq(S) /\ Len(c \o f) = m + n
      /\ \A i \in 1..(m + n) : (c \o f)[i] = IF i <= m THEN c[i] ELSE f[i - m]
  BY <1>1, ConcatProperties
<1>4. h \in Seq(S) /\ Len(h) = k /\ \A i \in 1..k : h[i] = f[i]
  BY <1>1, <1>2
<1>5. q \in Seq(S) /\ Len(q) = m + k /\ \A i \in 1..(m + k) : q[i] = (c \o f)[i]
  <2>1. PICK j \in 0..(m + n) : j = m + k
    BY <1>2
  <2>2. PICK w \in Seq(S) : w = c \o f /\ j \in 0..Len(w)
    BY <1>3, <2>1
  <2>3. /\ SubSeq(w, 1, j) \in Seq(S) /\ Len(SubSeq(w, 1, j)) = j
        /\ \A i \in 1..j : SubSeq(w, 1, j)[i] = w[i]
    BY <2>2
  <2> QED BY <2>1, <2>2, <2>3
<1> HIDE DEF h
<1>6. /\ p \in Seq(S) /\ Len(p) = m + k
      /\ \A i \in 1..(m + k) : p[i] = IF i <= m THEN c[i] ELSE h[i - m]
  <2>1. /\ p \in Seq(S) /\ Len(p) = Len(c) + Len(h)
        /\ \A i \in 1..(Len(c) + Len(h)) : p[i] = IF i <= Len(c) THEN c[i] ELSE h[i - Len(c)]
    BY <1>4, ConcatProperties, Zenon
  <2> QED BY <1>1, <1>4, <2>1, Zenon
<1> HIDE DEF p, q
<1>7. ASSUME NEW i \in 1..(m + k)
      PROVE  p[i] = q[i]
  <2>1. i \in 1..(m + n) /\ (~(i <= m) => i - m \in 1..k)
    BY <1>2
  <2> QED BY <1>3, <1>4, <1>5, <1>6, <2>1
<1> QED BY <1>1, <1>5, <1>6, <1>7, SeqEqual DEF p, q, h

\* An append adds its record at the end, and fsyncs some prefix or none.
LEMMA AppendAbs ==
  ASSUME IndInv, IndInv', NEW sz \in Sizes, DoAppend(sz)
  PROVE  Abs!Add(sz)
<1>1. PICK n \in Nat, l \in Nat, a \in Segment :
        n = Len(segments) /\ n > 0 /\ l = LEO /\ a = Active
  BY ActiveFacts
<1>2. l < MaxAppends /\ MaxAppends \in Nat
  BY <1>1, SizesNat DEF DoAppend
<1>3. Frames' = Append(Frames, sz)
  <2>1. CASE Rolls(sz)
    <3> DEFINE e == EmptySegment(l)
               z == AppendFrame(e, sz)
    <3>1. l \in 0..MaxAppends /\ 0 < MaxAppends
      BY <1>2
    <3>2. e \in Segment /\ e.frames = <<>> /\ Len(e.frames) = 0
      BY <3>1, EmptyReady
    <3>3. segments' = Append(segments, z)
      BY <1>1, <2>1 DEF DoAppend
    <3> HIDE DEF e
    <3>4. z \in Segment /\ z.frames = <<sz>>
      BY <3>1, <3>2, AppendFrameFacts
    <3> HIDE DEF z
    <3>5. Frames' = Frames \o <<sz>>
      BY <3>3, <3>4, AddFrames
    <3>6. Frames \in Seq(Sizes)
      BY FramesLen
    <3> QED BY <3>5, <3>6
  <2>2. CASE ~Rolls(sz)
    <3> DEFINE z == AppendFrame(a, sz)
    <3>1. PICK f \in Seq(Sizes) : f = a.frames
      BY DEF Segment
    <3>2. Len(a.frames) < MaxAppends
      <4>1. PICK b \in Nat, k \in Nat : b = a.base /\ k = Len(a.frames) /\ b + k = l
        BY <1>1, <1>2, ActiveFacts
      <4> QED BY <1>2, <4>1
    <3>3. z \in Segment /\ z.frames = Append(f, sz)
      BY <3>1, <3>2, AppendFrameFacts
    <3>4. segments' = [segments EXCEPT ![Len(segments)] = z]
      BY <1>1, <2>2 DEF DoAppend, Active
    <3> HIDE DEF z
    <3>5. PICK c \in Seq(Sizes) : Frames = c \o f /\ Frames' = c \o Append(f, sz)
      BY <1>1, <3>1, <3>3, <3>4, ReplaceFrames
    <3> QED BY <3>5, ConcatAppend
  <2> QED BY <2>1, <2>2
<1>4. Len(Frames') = l + 1
  <2>1. Frames \in Seq(Sizes) /\ Len(Frames) = l
    BY <1>1, FramesLen
  <2>2. Len(Append(Frames, sz)) = l + 1
    BY <2>1
  <2> QED BY <1>3, <2>2
<1>5. synced' \in {l + 1, l, synced} /\ synced \in Nat /\ synced <= l
  BY <1>1, <1>2 DEF DoAppend, IndInv, TypeOK, Bounded
<1>6. synced' \in synced..(l + 1)
  BY <1>5
<1> QED BY <1>3, <1>4, <1>6 DEF Abs!Add

\* Closing the log makes all of it durable; a kill loses nothing, and a rotation
\* it interrupts has fsynced what it closed.
LEMMA StopAbs ==
  ASSUME IndInv, IndInv', Close \/ Kill
  PROVE  Abs!Sync \/ UNCHANGED <<Frames, synced>>
<1>1. Frames \in Seq(Sizes) /\ Len(Frames) = LEO
  BY FramesLen
<1>2. CASE segments' = segments /\ synced' \in {LEO, synced}
  <2>1. Frames' = Frames
    BY <1>2 DEF Frames
  <2> QED BY <1>1, <1>2, <2>1 DEF Abs!Sync
<1>3. CASE segments' = Append(segments, EmptySegment(LEO)) /\ synced' = LEO
  <2>1. LEO \in 0..MaxAppends
    BY ActiveFacts
  <2>2. PICK e \in Segment : e = EmptySegment(LEO) /\ e.frames = <<>>
    BY <2>1, EmptyReady
  <2>3. Frames' = Frames \o <<>>
    BY <1>3, <2>2, AddFrames
  <2>4. Frames' = Frames
    BY <1>1, <2>3, ConcatEmptySeq
  <2> QED BY <1>1, <1>3, <2>4 DEF Abs!Sync
<1> QED BY <1>2, <1>3 DEF Close, Kill

\* A power loss takes a tail behind what was fsynced.
LEMMA PowerLossAbs ==
  ASSUME IndInv, IndInv', PowerLoss
  PROVE  \E k \in 0..Len(Frames) : Abs!Lose(k)
<1>1. PICK n \in Nat, a \in Segment :
        n = Len(segments) /\ n > 0 /\ a = Active
  BY ActiveFacts
<1>2. /\ a.base \in Nat /\ a.frames \in Seq(Sizes) /\ a.index \in Seq(Entries)
      /\ LEO = a.base + Len(a.frames)
  BY <1>1, ActiveFacts, SizesNat
<1>3. PICK k \in 0..Len(a.frames), j \in 0..Len(a.index) :
        /\ a.base + k >= synced
        /\ segments' = [segments EXCEPT
             ![Len(segments)].frames = SubSeq(@, 1, k),
             ![Len(segments)].index  = SubSeq(@, 1, j)]
  BY <1>1 DEF PowerLoss
<1> DEFINE z == [a EXCEPT !.frames = SubSeq(a.frames, 1, k), !.index = SubSeq(a.index, 1, j)]
<1>4. z \in Segment /\ z.frames = SubSeq(a.frames, 1, k)
  <2>1. SubSeq(a.frames, 1, k) \in Seq(Sizes) /\ SubSeq(a.index, 1, j) \in Seq(Entries)
    BY <1>2
  <2> QED BY <2>1 DEF Segment
<1>5. segments' = [segments EXCEPT ![Len(segments)] = z]
  <2>1. segments \in Seq(Segment) /\ segments[n] = a /\ n \in DOMAIN segments
    BY <1>1, ActiveFacts DEF Active
  <2> QED BY <1>1, <1>3, <2>1
<1> HIDE DEF z
<1>6. PICK c \in Seq(Sizes) : /\ Frames = c \o a.frames
                              /\ Frames' = c \o SubSeq(a.frames, 1, k)
                              /\ Len(c) = a.base
  BY <1>1, <1>4, <1>5, ReplaceFrames
<1>7. Frames' = SubSeq(Frames, 1, a.base + k)
  BY <1>2, <1>6, ConcatPrefix
<1>8. a.base + k \in 0..Len(Frames)
  <2>1. PICK m \in Nat : m = Len(a.frames) /\ Len(Frames) = a.base + m
    BY <1>2, FramesLen
  <2> QED BY <1>2, <2>1
<1>9. synced' = synced
  BY DEF PowerLoss
<1> QED BY <1>3, <1>7, <1>8, <1>9 DEF Abs!Lose

\* Recovery changes no record.
LEMMA OpenAbs ==
  ASSUME IndInv, IndInv', Open
  PROVE  UNCHANGED <<Frames, synced>>
<1>1. PICK z \in Segment : /\ z.frames = Active.frames
                           /\ segments' = [segments EXCEPT ![Len(segments)] = z]
  BY OpenStep
<1>2. Frames' = Frames
  BY <1>1, ReplaceFrames
<1> QED BY <1>2 DEF Open

\* The segmented log with its rotation, recovery and crashes is an append-only
\* sequence of records: appends only extend it, rotation and recovery do not
\* change it, and a power loss takes at most the tail that was not fsynced.
THEOREM LogImplementsAbstract == Spec => AppendOnly
<1>1. Init => Abs!Init
  <2> SUFFICES ASSUME Init
               PROVE  Abs!Init
    OBVIOUS
  <2>1. IndInv
    BY InitInv
  <2>2. segments = <<EmptySegment(0)>> /\ synced = 0
    BY DEF Init
  <2>3. 0 \in 0..MaxAppends
    BY SizesNat
  <2>4. Active = EmptySegment(0)
    BY <2>2 DEF Active
  <2>5. LEO = 0
    BY <2>3, <2>4, EmptyReady DEF LEO, NextOffset
  <2>6. Frames = <<>>
    BY <2>1, <2>5, FramesLen, EmptyLen
  <2> QED BY <2>2, <2>6 DEF Abs!Init
<1>2. IndInv /\ IndInv' /\ [Next]_vars => [Abs!Next]_<<Frames, synced>>
  <2> SUFFICES ASSUME IndInv, IndInv', [Next]_vars
               PROVE  [Abs!Next]_<<Frames, synced>>
    OBVIOUS
  <2>1. CASE \E sz \in Sizes : DoAppend(sz)
    BY <2>1, AppendAbs DEF Abs!Next
  <2>2. CASE Close \/ Kill
    BY <2>2, StopAbs DEF Abs!Next
  <2>3. CASE PowerLoss
    BY <2>3, PowerLossAbs DEF Abs!Next
  <2>4. CASE Open
    BY <2>4, OpenAbs
  <2>5. CASE UNCHANGED vars
    BY <2>5 DEF vars, Frames
  <2> QED BY <2>1, <2>2, <2>3, <2>4, <2>5 DEF Next
<1> QED BY <1>1, <1>2, LogInv, PTL DEF Spec, AppendOnly, Abs!Spec

-----------------------------------------------------------------------------
(* The lookup in the sparse index *)

\* Where a bisection of i..j-1 ends if r is the first hit.
Clamp(r, i, j) == IF i >= j \/ r <= i THEN i ELSE IF r >= j THEN j ELSE r

\* What the bisection of sort.Search computes for each window i..j-1.
IsSearch(s, n, hits) ==
  s = [w \in (0..n) \X (0..n) |->
        LET i == w[1]
            j == w[2]
            h == (i + j) \div 2
        IN  IF i >= j THEN i
            ELSE IF h \in hits THEN s[<<i, h>>] ELSE s[<<h + 1, j>>]]

\* The hits are the numbers from r on.
From(hits, r, n) == \A h \in 0..(n - 1) : h \in hits <=> h >= r

\* Halving a window keeps where the bisection ends.
LEMMA ClampStep ==
  ASSUME NEW n \in Nat, NEW r \in 0..n, NEW hits, From(hits, r, n),
         NEW i \in 0..n, NEW j \in 0..n, i < j, NEW h, h = (i + j) \div 2
  PROVE  /\ h \in 0..n /\ h + 1 \in 0..n /\ i <= h /\ h < j
         /\ h \in hits => Clamp(r, i, h) = Clamp(r, i, j)
         /\ h \notin hits => Clamp(r, h + 1, j) = Clamp(r, i, j)
<1>1. h \in Nat /\ i <= h /\ h < j
  OBVIOUS
<1>2. h \in 0..n /\ h + 1 \in 0..n /\ h \in 0..(n - 1)
  BY <1>1
<1>3. h \in hits <=> h >= r
  BY <1>2 DEF From
<1> QED BY <1>1, <1>2, <1>3 DEF Clamp

\* The recursive definition of the bisection has a solution.
LEMMA SearchExists ==
  ASSUME NEW n \in Nat, NEW r \in 0..n, NEW hits, From(hits, r, n)
  PROVE  \E s : IsSearch(s, n, hits)
<1> DEFINE c == [w \in (0..n) \X (0..n) |-> Clamp(r, w[1], w[2])]
<1>1. ASSUME NEW w \in (0..n) \X (0..n)
      PROVE  c[w] = LET i == w[1]
                        j == w[2]
                        h == (i + j) \div 2
                    IN  IF i >= j THEN i
                        ELSE IF h \in hits THEN c[<<i, h>>] ELSE c[<<h + 1, j>>]
  <2>1. PICK i \in 0..n, j \in 0..n : w = <<i, j>>
    OBVIOUS
  <2>2. c[w] = Clamp(r, i, j)
    BY <2>1
  <2>3. CASE i >= j
    BY <2>1, <2>2, <2>3 DEF Clamp
  <2>4. CASE i < j
    <3>1. PICK h : h = (i + j) \div 2
      OBVIOUS
    <3>2. h \in 0..n /\ h + 1 \in 0..n
      BY <2>4, <3>1, ClampStep
    <3>3. c[<<i, h>>] = Clamp(r, i, h) /\ c[<<h + 1, j>>] = Clamp(r, h + 1, j)
      <4>1. <<i, h>> \in (0..n) \X (0..n) /\ <<h + 1, j>> \in (0..n) \X (0..n)
        BY <3>2
      <4> QED BY <4>1
    <3>4. /\ h \in hits => Clamp(r, i, h) = Clamp(r, i, j)
          /\ h \notin hits => Clamp(r, h + 1, j) = Clamp(r, i, j)
      BY <2>4, <3>1, ClampStep
    <3> HIDE DEF c
    <3>5. c[w] = IF h \in hits THEN c[<<i, h>>] ELSE c[<<h + 1, j>>]
      BY <2>2, <3>3, <3>4
    <3> QED BY <2>1, <2>4, <3>1, <3>5
  <2> QED BY <2>3, <2>4
<1>2. c = [w \in (0..n) \X (0..n) |->
             LET i == w[1]
                 j == w[2]
                 h == (i + j) \div 2
             IN  IF i >= j THEN i
                 ELSE IF h \in hits THEN c[<<i, h>>] ELSE c[<<h + 1, j>>]]
  <2> DEFINE e(w) == LET i == w[1]
                         j == w[2]
                         h == (i + j) \div 2
                     IN  IF i >= j THEN i
                         ELSE IF h \in hits THEN c[<<i, h>>] ELSE c[<<h + 1, j>>]
  <2>1. c = [w \in (0..n) \X (0..n) |-> c[w]]
    OBVIOUS
  <2>2. \A w \in (0..n) \X (0..n) : c[w] = e(w)
    BY <1>1
  <2> HIDE DEF c, e
  <2>3. c = [w \in (0..n) \X (0..n) |-> e(w)]
    BY <2>1, <2>2
  <2> QED BY <2>3 DEF e
<1> HIDE DEF c
<1>3. IsSearch(c, n, hits)
  BY <1>2, Zenon DEF IsSearch
<1> QED BY <1>3

\* sort.Search finds the first hit.
LEMMA SearchFacts ==
  ASSUME NEW n \in Nat, NEW r \in 0..n, NEW hits, From(hits, r, n)
  PROVE  Search(n, hits) = r
<1> DEFINE s == CHOOSE s : IsSearch(s, n, hits)
<1>1. IsSearch(s, n, hits)
  BY SearchExists, Zenon
<1>2. Search(n, hits) = s[<<0, n>>]
  BY Zenon DEF Search, IsSearch
<1> HIDE DEF s
<1>3. s = [w \in (0..n) \X (0..n) |->
             LET i == w[1]
                 j == w[2]
                 h == (i + j) \div 2
             IN  IF i >= j THEN i
                 ELSE IF h \in hits THEN s[<<i, h>>] ELSE s[<<h + 1, j>>]]
  BY <1>1, Zenon DEF IsSearch
<1>4. ASSUME NEW i \in 0..n, NEW j \in 0..n, NEW h, h = (i + j) \div 2
      PROVE  s[<<i, j>>] = IF i >= j THEN i
                           ELSE IF h \in hits THEN s[<<i, h>>] ELSE s[<<h + 1, j>>]
  <2>1. PICK w \in (0..n) \X (0..n) : w = <<i, j>>
    OBVIOUS
  <2>2. w[1] = i /\ w[2] = j
    BY <2>1
  <2> QED BY <1>3, <1>4, <2>1, <2>2
<1> DEFINE T == {d \in 0..n : \E i, j \in 0..n : j - i = d /\ s[<<i, j>>] # Clamp(r, i, j)}
<1>5. T = {}
  <2> SUFFICES ASSUME T # {}
               PROVE  FALSE
    OBVIOUS
  <2>1. PICK d \in T : \A e \in T : d <= e
    <3>1. T \subseteq Nat
      OBVIOUS
    <3> HIDE DEF T
    <3> QED BY <3>1, LeastNat
  <2>2. PICK i \in 0..n, j \in 0..n : j - i = d /\ s[<<i, j>>] # Clamp(r, i, j)
    OBVIOUS
  <2>3. PICK h : h = (i + j) \div 2
    OBVIOUS
  <2>4. ASSUME NEW x \in 0..n, NEW y \in 0..n, y - x \in 0..n, y - x < d
        PROVE  s[<<x, y>>] = Clamp(r, x, y)
    <3> SUFFICES ASSUME s[<<x, y>>] # Clamp(r, x, y)
                 PROVE  FALSE
      OBVIOUS
    <3>1. PICK g \in 0..n : y - x = g
      BY <2>4
    <3>2. g \in T
      BY <3>1
    <3>3. d \in Nat
      OBVIOUS
    <3>4. d <= g
      <4> HIDE DEF T
      <4> QED BY <2>1, <3>2
    <3> QED BY <2>4, <3>1, <3>3, <3>4
  <2>5. CASE i >= j
    BY <1>4, <2>2, <2>3, <2>5 DEF Clamp
  <2>6. CASE i < j
    <3>1. /\ h \in 0..n /\ h + 1 \in 0..n /\ i <= h /\ h < j
          /\ h \in hits => Clamp(r, i, h) = Clamp(r, i, j)
          /\ h \notin hits => Clamp(r, h + 1, j) = Clamp(r, i, j)
      BY <2>3, <2>6, ClampStep
    <3>2. s[<<i, h>>] = Clamp(r, i, h)
      <4>1. h - i \in 0..n /\ h - i < d
        BY <2>2, <3>1
      <4> QED BY <2>4, <3>1, <4>1
    <3>3. s[<<h + 1, j>>] = Clamp(r, h + 1, j)
      <4>1. j - (h + 1) \in 0..n /\ j - (h + 1) < d
        BY <2>2, <3>1
      <4>2. PICK g \in 0..n : g = h + 1
        BY <3>1
      <4> QED BY <2>4, <4>1, <4>2
    <3>4. s[<<i, j>>] = IF h \in hits THEN s[<<i, h>>] ELSE s[<<h + 1, j>>]
      BY <1>4, <2>3, <2>6
    <3> QED BY <2>2, <3>1, <3>2, <3>3, <3>4
  <2> QED BY <2>5, <2>6
<1>6. s[<<0, n>>] = Clamp(r, 0, n)
  <2>1. 0 \in 0..n /\ n \in 0..n /\ n - 0 = n
    OBVIOUS
  <2> QED BY <1>5, <2>1
<1> QED BY <1>2, <1>6 DEF Clamp

\* Later frames start at greater positions.
LEMMA PosGrows ==
  ASSUME NEW frames \in Seq(Sizes), NEW i \in 1..(Len(frames) + 1),
         NEW j \in 1..(Len(frames) + 1), i < j
  PROVE  Pos(frames, i) < Pos(frames, j)
<1>1. frames \in Seq(Nat)
  BY SizesNat
<1>2. PICK l \in Nat : l = Len(frames)
  BY <1>1
<1> DEFINE T == {k \in (i + 1)..(l + 1) : ~(Pos(frames, i) < Pos(frames, k))}
<1>3. CASE T # {}
  <2>1. PICK k \in T : \A m \in T : k <= m
    <3>1. T \subseteq Nat
      BY <1>2
    <3> HIDE DEF T
    <3> QED BY <1>3, <3>1, LeastNat
  <2>2. k \in (i + 1)..(l + 1) /\ ~(Pos(frames, i) < Pos(frames, k))
    OBVIOUS
  <2>3. PICK m \in 1..l : m + 1 = k
    <3>1. k - 1 \in 1..l /\ (k - 1) + 1 = k
      BY <1>2, <2>2
    <3> QED BY <3>1
  <2>4. Pos(frames, m + 1) = Pos(frames, m) + frames[m] /\ frames[m] \in Nat /\ frames[m] > 0
    <3>1. frames[m] \in Sizes
      BY <1>2
    <3> QED BY <1>1, <1>2, <3>1, PosFacts, SizesNat
  <2>5. PICK a \in Nat, b \in Nat : a = Pos(frames, i) /\ b = Pos(frames, m)
    <3>1. m \in 1..(Len(frames) + 1)
      BY <1>2
    <3> QED BY <1>1, <3>1, PosNat
  <2>6. a <= b
    <3>1. CASE m = i
      BY <2>5, <3>1
    <3>2. CASE m # i
      <4>1. m \in (i + 1)..(l + 1) /\ ~(k <= m)
        BY <1>2, <2>2, <2>3, <3>2
      <4>2. m \notin T
        <5> HIDE DEF T
        <5> QED BY <2>1, <4>1
      <4>3. Pos(frames, i) < Pos(frames, m)
        BY <4>1, <4>2
      <4> QED BY <2>5, <4>3
    <3> QED BY <3>1, <3>2
  <2> QED BY <2>2, <2>3, <2>4, <2>5, <2>6
<1>4. CASE T = {}
  <2>1. j \in (i + 1)..(l + 1)
    BY <1>2
  <2> QED BY <1>4, <2>1
<1> QED BY <1>3, <1>4

\* The relative offset of an index entry is a number.
LEMMA EntryNat ==
  ASSUME NEW q \in Seq(Entries), NEW k \in 1..Len(q)
  PROVE  q[k].rel \in Nat
<1>1. q[k] \in Entries
  OBVIOUS
<1>2. q[k].rel \in 0..MaxAppends
  BY <1>1 DEF Entries
<1> QED BY <1>2, SizesNat

\* The entries of a sound index are in order.
LEMMA IndexSorted ==
  ASSUME NEW s \in Segment, Sound(s), NEW a \in 1..Len(s.index), NEW b \in 1..Len(s.index),
         a < b
  PROVE  s.index[a].rel < s.index[b].rel
<1>1. s.index \in Seq(Entries)
  BY DEF Segment
<1>2. PICK n \in Nat : n = Len(s.index)
  BY <1>1
<1>3. \A k \in 1..n : s.index[k].rel \in Nat
  BY <1>1, <1>2, EntryNat
<1> DEFINE T == {k \in (a + 1)..n : ~(s.index[a].rel < s.index[k].rel)}
<1>4. CASE T # {}
  <2>1. PICK k \in T : \A m \in T : k <= m
    <3>1. T \subseteq Nat
      BY <1>2
    <3> HIDE DEF T
    <3> QED BY <1>4, <3>1, LeastNat
  <2>2. k \in (a + 1)..n /\ ~(s.index[a].rel < s.index[k].rel)
    OBVIOUS
  <2>3. PICK m \in 1..n : m = k - 1 /\ m < k
    <3>1. k - 1 \in 1..n /\ k - 1 < k
      BY <1>2, <2>2
    <3> QED BY <3>1
  <2>4. s.index[m].rel < s.index[k].rel
    <3>1. k \in 1..Len(s.index) /\ k > 1
      BY <1>2, <2>2
    <3>2. s.index[k - 1].rel < s.index[k].rel
      BY <3>1 DEF Sound
    <3> QED BY <2>3, <3>2
  <2>5. s.index[a].rel <= s.index[m].rel
    <3>1. CASE m = a
      BY <1>2, <1>3, <3>1
    <3>2. CASE m # a
      <4>1. m \in (a + 1)..n /\ ~(k <= m)
        BY <1>2, <2>2, <2>3, <3>2
      <4>2. m \notin T
        <5> HIDE DEF T
        <5> QED BY <2>1, <4>1
      <4>3. s.index[a].rel < s.index[m].rel
        BY <4>1, <4>2
      <4> QED BY <1>2, <1>3, <4>3
    <3> QED BY <3>1, <3>2
  <2>6. s.index[a].rel \in Nat /\ s.index[m].rel \in Nat /\ s.index[k].rel \in Nat
    <3>1. a \in 1..n /\ m \in 1..n /\ k \in 1..n
      BY <1>2, <2>2, <2>3
    <3> QED BY <1>3, <3>1
  <2> QED BY <2>2, <2>4, <2>5, <2>6
<1>5. CASE T = {}
  <2>1. b \in (a + 1)..n
    BY <1>2
  <2> QED BY <1>5, <2>1
<1> QED BY <1>4, <1>5

\* lookup returns the position of the greatest indexed offset that is not above
\* the one asked for, which is where that record starts.
THEOREM LookupFindsGreatest ==
  ASSUME NEW s \in Segment, Sound(s), NEW rel \in 0..(Len(s.frames) - 1)
  PROVE  \E e \in 1..Len(s.index) :
           /\ s.index[e].rel <= rel
           /\ \A d \in 1..Len(s.index) : s.index[d].rel <= rel => d <= e
           /\ Lookup(s.index, rel) = s.index[e].pos
           /\ Lookup(s.index, rel) = Pos(s.frames, s.index[e].rel + 1)
<1>1. s.index \in Seq(Entries) /\ s.frames \in Seq(Sizes)
  BY DEF Segment
<1>2. PICK n \in Nat, l \in Nat : n = Len(s.index) /\ l = Len(s.frames)
  BY <1>1
<1>3. rel \in Nat /\ s.frames # <<>>
  BY <1>1, <1>2
<1>4. n > 0 /\ s.index[1].rel = 0
  BY <1>1, <1>2, <1>3 DEF Sound
<1>5. \A k \in 1..n : s.index[k].rel \in Nat
  BY <1>1, <1>2, EntryNat
<1> DEFINE T == {k \in 0..n : k = n \/ s.index[k + 1].rel > rel}
<1>6. PICK r \in T : \A m \in T : r <= m
  <2>1. T \subseteq Nat /\ n \in T
    BY <1>2
  <2> HIDE DEF T
  <2> QED BY <2>1, LeastNat
<1>7. r \in 0..n /\ (r = n \/ s.index[r + 1].rel > rel)
  OBVIOUS
<1>8. ASSUME NEW h \in 0..(n - 1), h < r
      PROVE  ~(s.index[h + 1].rel > rel)
  <2>1. h \in 0..n /\ ~(r <= h)
    BY <1>2, <1>7, <1>8
  <2>2. h \notin T
    <3> HIDE DEF T
    <3> QED BY <1>6, <2>1
  <2> QED BY <2>1, <2>2
<1> HIDE DEF T
<1>9. ASSUME NEW h \in 0..(n - 1), h >= r
      PROVE  s.index[h + 1].rel > rel
  <2>1. r # n /\ s.index[r + 1].rel > rel
    BY <1>2, <1>7, <1>9
  <2>2. CASE h = r
    BY <2>1, <2>2
  <2>3. CASE h # r
    <3>1. PICK a \in 1..n, b \in 1..n : a = r + 1 /\ b = h + 1 /\ a < b
      <4>1. r + 1 \in 1..n /\ h + 1 \in 1..n /\ r + 1 < h + 1
        BY <1>2, <1>7, <1>9, <2>1, <2>3
      <4> QED BY <4>1
    <3>2. s.index[a].rel < s.index[b].rel
      BY <1>2, <3>1, IndexSorted
    <3>3. s.index[a].rel \in Nat /\ s.index[b].rel \in Nat /\ s.index[a].rel > rel
      BY <1>5, <2>1, <3>1
    <3>4. s.index[b].rel > rel
      BY <1>3, <3>2, <3>3
    <3> QED BY <3>1, <3>4
  <2> QED BY <2>2, <2>3
<1>10. Search(n, Above(s.index, rel)) = r
  <2>1. From(Above(s.index, rel), r, n)
    <3> SUFFICES ASSUME NEW h \in 0..(n - 1)
                 PROVE  h \in Above(s.index, rel) <=> h >= r
      BY DEF From
    <3>1. h \in Above(s.index, rel) <=> s.index[h + 1].rel > rel
      BY <1>2 DEF Above
    <3>2. h < r \/ h >= r
      BY <1>2, <1>7
    <3>3. ~(h < r /\ h >= r)
      BY <1>2, <1>7
    <3> QED BY <1>8, <1>9, <3>1, <3>2, <3>3
  <2> QED BY <1>7, <2>1, SearchFacts
<1>11. r # 0
  <2> SUFFICES ASSUME r = 0
               PROVE  FALSE
    OBVIOUS
  <2>1. s.index[0 + 1].rel > rel
    BY <1>4, <1>7
  <2> QED BY <1>3, <1>4, <2>1
<1>12. r \in 1..n
  BY <1>2, <1>7, <1>11
<1>13. Lookup(s.index, rel) = s.index[r].pos
  BY <1>2, <1>10, <1>11 DEF Lookup
<1>14. s.index[r].rel <= rel
  <2>1. PICK h \in 0..(n - 1) : h + 1 = r
    <3>1. r - 1 \in 0..(n - 1) /\ (r - 1) + 1 = r
      BY <1>2, <1>12
    <3> QED BY <3>1
  <2>2. ~(s.index[r].rel > rel)
    BY <1>7, <1>8, <2>1
  <2>3. s.index[r].rel \in Nat
    BY <1>5, <1>12
  <2> QED BY <1>3, <2>2, <2>3
<1>15. ASSUME NEW d \in 1..n, s.index[d].rel <= rel
       PROVE  d <= r
  <2> SUFFICES ASSUME d > r
               PROVE  FALSE
    BY <1>12
  <2>1. PICK h \in 0..(n - 1) : h + 1 = d /\ h >= r
    <3>1. d - 1 \in 0..(n - 1) /\ (d - 1) + 1 = d /\ d - 1 >= r
      BY <1>2, <1>12
    <3> QED BY <3>1
  <2>2. s.index[d].rel > rel
    BY <1>9, <2>1
  <2>3. s.index[d].rel \in Nat
    BY <1>5
  <2> QED BY <1>3, <1>15, <2>2, <2>3
<1>16. s.index[r].pos = Pos(s.frames, s.index[r].rel + 1)
  BY <1>2, <1>12 DEF Sound
<1> QED BY <1>2, <1>12, <1>13, <1>14, <1>15, <1>16

-----------------------------------------------------------------------------
(* A read of one segment *)

\* The greater of two numbers.
LEMMA MaxOfTwo ==
  ASSUME NEW a \in Int, NEW b \in Int, a <= b
  PROVE  Max({a} \cup {b}) = b
<1>1. b \in {a} \cup {b} /\ \A y \in {a} \cup {b} : b >= y
  OBVIOUS
<1>2. \A x \in {a} \cup {b} : (\A y \in {a} \cup {b} : x >= y) => x = b
  OBVIOUS
<1> DEFINE P(x) == \A y \in {a} \cup {b} : x >= y
<1>3. Max({a} \cup {b}) = CHOOSE x \in {a} \cup {b} : P(x)
  BY DEF Max
<1>4. (CHOOSE x \in {a} \cup {b} : P(x)) \in {a} \cup {b} /\ P(CHOOSE x \in {a} \cup {b} : P(x))
  <2>1. \E x \in {a} \cup {b} : P(x)
    BY <1>1
  <2> HIDE DEF P
  <2> QED BY <2>1, Zenon
<1> QED BY <1>2, <1>3, <1>4

\* What readFrom returns.
Run(from, c) == [k \in 1..c |-> from + k - 1]

\* segment.readFrom, asked for a record it has: it returns that record and the
\* ones that follow it, none at or above the bound, no more than the budget allows
\* but for the first, and all that the budget allows.
THEOREM SegmentReadSound ==
  ASSUME NEW s \in Segment, Sound(s), NEW from \in Nat, NEW bytes \in Int, NEW max \in Nat,
         s.base <= from, from < NextOffset(s), from < max
  PROVE  \E c \in Nat \ {0} :
           /\ ReadFrom(s, from, bytes, max) = Run(from, c)
           /\ from + c <= NextOffset(s) /\ from + c <= max
           /\ c > 1 => Pos(s.frames, from + c - s.base + 1)
                         - Pos(s.frames, from - s.base + 1) <= bytes
           /\ \A e \in Nat :
                /\ from < e /\ e <= NextOffset(s) /\ e <= max
                /\ Pos(s.frames, e - s.base + 1) - Pos(s.frames, from - s.base + 1) <= bytes
                => e <= from + c
<1> DEFINE start == Lookup(s.index, from - s.base)
           at == {i \in 1..Len(s.frames) : Pos(s.frames, i) = start}
           first == Max(at \cup {from - s.base + 1})
           taken == {i \in first..Len(s.frames) :
                       /\ s.base + i - 1 < max
                       /\ i = first \/ Pos(s.frames, i + 1) - Pos(s.frames, first) <= bytes}
<1>1. ReadFrom(s, from, bytes, max) =
        IF \/ from < s.base \/ from >= NextOffset(s) \/ max <= from
           \/ start >= Size(s)
        THEN <<>>
        ELSE IF at = {} THEN ReadError
        ELSE [k \in 1..Cardinality(taken) |-> s.base + first + k - 2]
  BY DEF ReadFrom
<1>2. s.index \in Seq(Entries) /\ s.frames \in Seq(Sizes) /\ s.base \in Nat
  BY SizesNat DEF Segment
<1>3. PICK b \in Nat, l \in Nat : b = s.base /\ l = Len(s.frames)
  BY <1>2
<1>4. NextOffset(s) = b + l
  BY <1>3 DEF NextOffset
<1>5. PICK f \in 1..l : from = b + f - 1
  <2>1. from - b + 1 \in 1..l /\ from = b + (from - b + 1) - 1
    BY <1>3, <1>4
  <2> QED BY <2>1
<1>6. f \in Nat /\ f >= 1 /\ f <= l /\ from - b + 1 = f /\ from - b = f - 1
  BY <1>5
<1>7. from - s.base + 1 = f
  BY <1>3, <1>6
<1>8. PICK q \in 1..f : start = Pos(s.frames, q)
  <2>1. PICK rel \in 0..(Len(s.frames) - 1) : rel = from - s.base /\ rel = f - 1
    <3>1. f - 1 \in 0..(l - 1)
      BY <1>6
    <3> QED BY <1>3, <1>6, <3>1
  <2>2. PICK e \in 1..Len(s.index) :
          s.index[e].rel <= rel /\ Lookup(s.index, rel) = Pos(s.frames, s.index[e].rel + 1)
    BY LookupFindsGreatest
  <2>3. PICK k \in Nat : k = s.index[e].rel
    BY <1>2, EntryNat
  <2>4. k + 1 \in 1..f
    <3>1. k <= f - 1
      BY <2>1, <2>2, <2>3
    <3> QED BY <1>6, <3>1
  <2> QED BY <2>1, <2>2, <2>3, <2>4
<1>9. \A i \in 1..(l + 1) : Pos(s.frames, i) \in Nat
  <2>1. s.frames \in Seq(Nat)
    BY <1>2, SizesNat
  <2> QED BY <1>3, <2>1, PosNat
<1>10. \A i, j \in 1..(l + 1) : i < j => Pos(s.frames, i) < Pos(s.frames, j)
  BY <1>2, <1>3, PosGrows
<1>11. at = {q}
  <2>1. q \in 1..l /\ q \in 1..(l + 1)
    BY <1>5, <1>8
  <2>2. ASSUME NEW i \in 1..l, Pos(s.frames, i) = start
        PROVE  i = q
    <3>1. i \in 1..(l + 1)
      OBVIOUS
    <3>2. ~(Pos(s.frames, i) < Pos(s.frames, q)) /\ ~(Pos(s.frames, q) < Pos(s.frames, i))
      BY <1>8, <1>9, <2>1, <2>2, <3>1
    <3>3. ~(i < q) /\ ~(q < i)
      BY <1>10, <2>1, <3>1, <3>2
    <3> QED BY <2>1, <3>3
  <2> HIDE DEF start
  <2> QED BY <1>3, <1>8, <2>1, <2>2
<1> HIDE DEF at, start
<1>12. first = f
  <2>1. q \in Int /\ f \in Int /\ q <= f
    BY <1>5, <1>8
  <2>2. Max({q} \cup {f}) = f
    BY <2>1, MaxOfTwo
  <2> QED BY <1>11, <1>7, <2>2
<1>13. start < Size(s) /\ start \in Nat /\ Size(s) \in Nat
  <2>1. q \in 1..(l + 1) /\ l + 1 \in 1..(l + 1) /\ q < l + 1
    BY <1>5, <1>8
  <2>2. Size(s) = Pos(s.frames, l + 1)
    BY <1>3 DEF Size
  <2> QED BY <1>8, <1>9, <1>10, <2>1, <2>2
<1> HIDE DEF first
<1>14. taken = {i \in f..l : /\ b + i - 1 < max
                             /\ i = f \/ Pos(s.frames, i + 1) - Pos(s.frames, f) <= bytes}
  BY <1>3, <1>12
<1> HIDE DEF taken
<1>15. ReadFrom(s, from, bytes, max) = [k \in 1..Cardinality(taken) |-> b + f + k - 2]
  <2>1. ~(from < s.base) /\ ~(from >= NextOffset(s)) /\ ~(max <= from) /\ ~(start >= Size(s))
    BY <1>3, <1>4, <1>13
  <2>2. at # {}
    BY <1>11
  <2> QED BY <1>1, <1>3, <1>12, <2>1, <2>2
<1> DEFINE T == {i \in Nat : i >= f /\ i \notin taken}
<1>16. PICK x \in T : \A y \in T : x <= y
  <2>1. T \subseteq Nat /\ l + 1 \in T
    BY <1>5, <1>14
  <2> HIDE DEF T
  <2> QED BY <2>1, LeastNat
<1>17. x \in Nat /\ x >= f /\ x \notin taken
  OBVIOUS
<1>18. \A i \in f..(x - 1) : i \in taken
  <2> SUFFICES ASSUME NEW i \in f..(x - 1), i \notin taken
               PROVE  FALSE
    OBVIOUS
  <2>1. i \in Nat /\ i >= f /\ ~(x <= i)
    BY <1>5, <1>17
  <2>2. i \in T
    BY <2>1
  <2> HIDE DEF T
  <2> QED BY <1>16, <2>1, <2>2
<1> HIDE DEF T
<1>19. f \in taken /\ x > f
  <2>1. f \in f..l /\ b + f - 1 < max
    BY <1>5, <1>6
  <2>2. f \in taken
    BY <1>14, <2>1
  <2> QED BY <1>17, <1>6, <2>2
<1>20. ASSUME NEW i \in taken
       PROVE  i < x
  <2> SUFFICES ASSUME i >= x
               PROVE  FALSE
    BY <1>14, <1>17
  <2>1. i \in f..l /\ b + i - 1 < max
        /\ (i = f \/ Pos(s.frames, i + 1) - Pos(s.frames, f) <= bytes)
    BY <1>14
  <2>2. i # x /\ i > x
    BY <1>17, <2>1
  <2>3. x \in f..l /\ b + x - 1 < max /\ x + 1 < i + 1 /\ x + 1 \in 1..(l + 1) /\ i + 1 \in 1..(l + 1)
    BY <1>5, <1>17, <2>1, <2>2
  <2>4. Pos(s.frames, i + 1) - Pos(s.frames, f) <= bytes
    <3>1. i # f
      BY <1>17, <1>19, <1>6, <2>1, <2>2
    <3> QED BY <2>1, <3>1
  <2>5. PICK u \in Nat, v \in Nat, w \in Nat :
          u = Pos(s.frames, x + 1) /\ v = Pos(s.frames, i + 1) /\ w = Pos(s.frames, f)
    <3>1. f \in 1..(l + 1)
      BY <1>5
    <3> QED BY <1>9, <2>3, <3>1
  <2>6. u < v
    BY <1>10, <2>3, <2>5
  <2>7. u - w <= bytes
    BY <2>4, <2>5, <2>6
  <2>8. x \in taken
    BY <1>14, <2>3, <2>5, <2>7
  <2> QED BY <1>17, <2>8
<1>21. taken = f..(x - 1) /\ x \in f..(l + 1)
  <2>1. \A i \in taken : i \in f..(x - 1)
    BY <1>14, <1>17, <1>20
  <2>2. x - 1 \in f..l
    <3>1. x - 1 \in f..(x - 1)
      BY <1>5, <1>17, <1>19
    <3>2. x - 1 \in taken
      BY <1>18, <3>1
    <3> QED BY <1>14, <3>2
  <2>3. taken = f..(x - 1)
    BY <1>18, <2>1
  <2> QED BY <1>17, <2>2, <2>3
<1> DEFINE c == x - f
<1>22. c \in Nat \ {0} /\ Cardinality(taken) = c
  <2>1. Cardinality(f..(x - 1)) = c
    <3>1. f \in Int /\ x - 1 \in Int /\ ~(f > x - 1) /\ (x - 1) - f + 1 = x - f
      BY <1>5, <1>17, <1>19
    <3> QED BY <3>1, FS_Interval
  <2>2. c \in Nat \ {0}
    BY <1>5, <1>17, <1>19
  <2> QED BY <1>21, <2>1, <2>2
<1>23. ReadFrom(s, from, bytes, max) = Run(from, c)
  <2>1. \A k \in 1..c : b + f + k - 2 = from + k - 1
    BY <1>5, <1>22
  <2> HIDE DEF c
  <2> QED BY <1>15, <1>22, <2>1 DEF Run
<1>24. from + c <= NextOffset(s) /\ from + c <= max
  <2>1. x - 1 \in taken
    BY <1>5, <1>17, <1>18, <1>19
  <2>2. x - 1 \in f..l /\ b + (x - 1) - 1 < max
    BY <1>14, <2>1
  <2> QED BY <1>4, <1>5, <1>17, <2>2
<1>25. c > 1 => Pos(s.frames, from + c - s.base + 1) - Pos(s.frames, from - s.base + 1) <= bytes
  <2> SUFFICES ASSUME c > 1
               PROVE  Pos(s.frames, from + c - s.base + 1) - Pos(s.frames, from - s.base + 1) <= bytes
    OBVIOUS
  <2>1. PICK z \in Nat : z = x - 1 /\ z \in taken /\ z # f
    BY <1>5, <1>17, <1>18, <1>19
  <2>2. Pos(s.frames, z + 1) - Pos(s.frames, f) <= bytes
    BY <1>14, <2>1
  <2>3. from + c - b + 1 = z + 1
    BY <1>5, <1>17, <1>6, <2>1
  <2> QED BY <1>3, <1>7, <2>2, <2>3
<1>26. ASSUME NEW e \in Nat, from < e, e <= NextOffset(s), e <= max,
              Pos(s.frames, e - s.base + 1) - Pos(s.frames, from - s.base + 1) <= bytes
       PROVE  e <= from + c
  <2>1. PICK i \in f..l : i = e - b
    <3>1. e <= b + l /\ from < e
      BY <1>4, <1>26
    <3>2. e - b \in f..l
      BY <1>5, <1>6, <3>1
    <3> QED BY <3>2
  <2>2. Pos(s.frames, i + 1) - Pos(s.frames, f) <= bytes
    BY <1>3, <1>26, <1>7, <2>1
  <2>3. b + i - 1 < max
    BY <1>5, <1>26, <2>1
  <2>4. i \in taken
    BY <1>14, <2>2, <2>3
  <2>5. i < x
    BY <1>20, <2>4
  <2> QED BY <1>5, <1>17, <2>1, <2>5
<1> HIDE DEF c
<1> QED BY <1>22, <1>23, <1>24, <1>25, <1>26

-----------------------------------------------------------------------------
(* Segments as parts of the log *)

\* The offset at which the first k segments end.
End(k) == IF k = 0 THEN 0 ELSE NextOffset(segments[k])

\* Each segment holds the records from the end of the one before it to its own.
LEMMA EndFacts ==
  ASSUME IndInv, NEW k \in 1..Len(segments)
  PROVE  /\ segments[k] \in Segment
         /\ segments[k].base \in Nat /\ Len(segments[k].frames) \in Nat
         /\ segments[k].base = End(k - 1)
         /\ End(k) = segments[k].base + Len(segments[k].frames)
<1>1. PICK n \in Nat : n = Len(segments) /\ n > 0
  BY ActiveFacts
<1>2. segments[k] \in Segment
  BY ActiveFacts
<1>3. PICK s \in Segment : s = segments[k]
  BY <1>2
<1>4. s.base \in Nat /\ s.frames \in Seq(Sizes) /\ Len(s.frames) \in Nat
  BY SizesNat DEF Segment
<1>5. CASE k = 1
  <2>1. segments[1].base = 0
    BY DEF IndInv, SegmentsContiguous
  <2> QED BY <1>3, <1>4, <1>5, <2>1 DEF End, NextOffset
<1>6. CASE k # 1
  <2>1. PICK j \in 1..(n - 1) : j = k - 1 /\ j + 1 = k /\ j # 0
    BY <1>1, <1>6
  <2>2. segments[j + 1].base = segments[j].base + Len(segments[j].frames)
    BY <1>1, <2>1 DEF IndInv, SegmentsContiguous
  <2>3. segments[k].base = End(k - 1)
    BY <2>1, <2>2 DEF End, NextOffset
  <2>4. k # 0
    BY <1>1
  <2> QED BY <1>3, <1>4, <2>3, <2>4 DEF End, NextOffset
<1> QED BY <1>5, <1>6

\* The ends are in order, and the last one is the log's.
LEMMA EndOrder ==
  ASSUME IndInv
  PROVE  /\ End(0) = 0 /\ End(Len(segments)) = LEO
         /\ \A k \in 1..Len(segments) : /\ End(k - 1) \in Nat /\ End(k) \in Nat
                                        /\ End(k - 1) <= End(k) /\ End(k) <= LEO
<1>1. PICK n \in Nat : n = Len(segments) /\ n > 0
  BY ActiveFacts
<1>2. End(0) = 0 /\ End(n) = LEO
  BY <1>1 DEF End, LEO, Active
<1>3. \A k \in 1..n : End(k - 1) \in Nat /\ End(k) \in Nat /\ End(k - 1) <= End(k)
  <2> TAKE k \in 1..n
  <2>1. PICK b \in Nat, l \in Nat : b = End(k - 1) /\ End(k) = b + l
    BY <1>1, EndFacts
  <2> QED BY <2>1
<1>4. ASSUME NEW k \in 1..n
      PROVE  End(k) <= LEO
  <2> DEFINE T == {d \in Nat : d < n /\ ~(End(n - d) <= LEO)}
  <2>1. CASE T # {}
    <3>1. PICK d \in T : \A m \in T : d <= m
      <4>1. T \subseteq Nat
        OBVIOUS
      <4> HIDE DEF T
      <4> QED BY <2>1, <4>1, LeastNat
    <3>2. d \in Nat /\ d < n /\ ~(End(n - d) <= LEO)
      OBVIOUS
    <3>3. LEO \in Nat
      BY ActiveFacts, SizesNat
    <3>4. d # 0
      BY <1>2, <3>2, <3>3
    <3>5. PICK e \in Nat : e = d - 1 /\ e < n /\ ~(d <= e)
      BY <3>2, <3>4
    <3>6. e \notin T
      <4> HIDE DEF T
      <4> QED BY <3>1, <3>5
    <3>7. End(n - e) <= LEO
      BY <3>5, <3>6
    <3>8. n - e \in 1..n /\ (n - e) - 1 = n - d
      BY <1>1, <3>2, <3>4, <3>5
    <3>9. End(n - d) \in Nat /\ End(n - e) \in Nat /\ End(n - d) <= End(n - e)
      BY <1>3, <3>8
    <3> QED BY <3>2, <3>3, <3>7, <3>9
  <2>2. CASE T = {}
    <3>1. n - k \in Nat /\ n - k < n /\ n - (n - k) = k
      OBVIOUS
    <3>2. n - k \notin T
      BY <2>2
    <3> QED BY <3>1, <3>2
  <2> QED BY <2>1, <2>2
<1> QED BY <1>1, <1>2, <1>3, <1>4

\* A record of a segment is the one at its offset in the log.
LEMMA SegmentFrames ==
  ASSUME IndInv, NEW k \in 1..Len(segments), NEW i \in 1..Len(segments[k].frames)
  PROVE  Frames[segments[k].base + i] = segments[k].frames[i]
<1>1. PICK n \in Nat : n = Len(segments) /\ n > 0
  BY ActiveFacts
<1>2. PICK g, fs : FrameParts(g, fs)
  BY FramePartsExist
<1>3. /\ \A j \in 1..n : fs[j] = segments[j].frames /\ fs[j] \in Seq(Sizes) /\ g[j] \in Seq(Sizes)
      /\ \A j \in 1..n : Len(g[j]) = segments[j].base + Len(fs[j])
      /\ g[1] = fs[1] /\ \A j \in 2..n : g[j] = g[j - 1] \o fs[j]
      /\ Frames = g[n]
  <2>1. /\ fs \in Seq(Seq(Sizes)) /\ Len(fs) = n
        /\ \A j \in 1..n : fs[j] = segments[j].frames
        /\ \A j \in 1..n : Len(g[j]) = segments[j].base + Len(fs[j])
        /\ Parts(g, fs, Sizes) /\ Frames = g[n]
    BY <1>1, <1>2, Zenon DEF FrameParts
  <2>2. \A j \in 1..n : fs[j] \in Seq(Sizes)
    BY <2>1
  <2>3. /\ g[1] = fs[1] /\ \A j \in 2..n : g[j] = g[j - 1] \o fs[j]
        /\ \A j \in 1..n : g[j] \in Seq(Sizes)
    BY <2>1, Zenon DEF Parts
  <2> QED BY <2>1, <2>2, <2>3, Zenon
<1>4. PICK b \in Nat, l \in Nat : b = segments[k].base /\ l = Len(segments[k].frames)
  BY EndFacts
<1>5. k \in 1..n /\ i \in 1..l /\ b + i \in 1..(b + l)
  BY <1>1, <1>4
<1>6. g[k][b + i] = fs[k][i]
  <2>1. CASE k = 1
    <3>1. b = 0
      BY <1>4, <2>1 DEF IndInv, SegmentsContiguous
    <3> QED BY <1>3, <1>5, <2>1, <3>1
  <2>2. CASE k # 1
    <3>1. PICK j \in 1..n : j = k - 1 /\ k \in 2..n
      BY <1>5, <2>2
    <3>2. PICK p \in Seq(Sizes), f \in Seq(Sizes) : p = g[j] /\ f = fs[k] /\ g[k] = p \o f
      BY <1>3, <1>5, <3>1
    <3>3. Len(p) = b /\ Len(f) = l
      <4>1. Len(g[k]) = b + l /\ Len(f) = l
        BY <1>3, <1>4, <1>5, <3>2, Zenon
      <4>2. Len(p \o f) = Len(p) + Len(f)
        BY ConcatProperties
      <4>3. PICK x \in Nat : x = Len(p)
        OBVIOUS
      <4>4. x + l = b + l
        BY <3>2, <4>1, <4>2, <4>3
      <4>5. x = b
        BY <4>4
      <4> QED BY <4>1, <4>3, <4>5
    <3>4. \A x \in 1..(b + l) : (p \o f)[x] = IF x <= b THEN p[x] ELSE f[x - b]
      BY <3>3, ConcatProperties
    <3>5. ~(b + i <= b) /\ (b + i) - b = i
      BY <1>5
    <3> QED BY <1>5, <3>2, <3>4, <3>5
  <2> QED BY <2>1, <2>2
<1> DEFINE T == {j \in k..n : ~(Len(g[j]) >= b + l /\ g[j][b + i] = g[k][b + i])}
<1>7. CASE T # {}
  <2>1. PICK j \in T : \A m \in T : j <= m
    <3>1. T \subseteq Nat
      BY <1>1
    <3> HIDE DEF T
    <3> QED BY <1>7, <3>1, LeastNat
  <2>2. j \in k..n /\ ~(Len(g[j]) >= b + l /\ g[j][b + i] = g[k][b + i])
    OBVIOUS
  <2> HIDE DEF T
  <2>3. j # k
    <3>1. Len(g[k]) = b + l
      BY <1>3, <1>4, <1>5, Zenon
    <3>2. b + l >= b + l
      OBVIOUS
    <3> QED BY <2>2, <3>1, <3>2
  <2>4. PICK m \in k..n : m = j - 1 /\ ~(j <= m) /\ m \in 1..n /\ j \in 2..n /\ j \in 1..n
    BY <1>5, <2>2, <2>3
  <2>5. m \notin T
    BY <2>1, <2>4
  <2>6. Len(g[m]) >= b + l /\ g[m][b + i] = g[k][b + i]
    BY <2>4, <2>5 DEF T
  <2>7. PICK p \in Seq(Sizes), f \in Seq(Sizes) : p = g[m] /\ f = fs[j] /\ g[j] = p \o f
    BY <1>3, <2>4
  <2>8. PICK u \in Nat, v \in Nat : u = Len(p) /\ v = Len(f)
    OBVIOUS
  <2>9. Len(p \o f) = u + v /\ \A x \in 1..(u + v) : (p \o f)[x] = IF x <= u THEN p[x] ELSE f[x - u]
    BY <2>8, ConcatProperties
  <2>10. u >= b + l
    BY <2>6, <2>7, <2>8
  <2>11. b + i <= u /\ b + i \in 1..(u + v) /\ u + v >= b + l
    BY <1>5, <2>10
  <2> QED BY <2>2, <2>6, <2>7, <2>9, <2>11
<1>8. CASE T = {}
  <2>1. n \in k..n
    BY <1>1, <1>5
  <2>2. g[n][b + i] = g[k][b + i]
    BY <1>8, <2>1
  <2> QED BY <1>3, <1>4, <1>5, <1>6, <2>2
<1> QED BY <1>7, <1>8

\* So a position in a segment's file is one in the log, counted from its base.
LEMMA SegmentPos ==
  ASSUME IndInv, NEW k \in 1..Len(segments), NEW o \in 0..Len(segments[k].frames)
  PROVE  Pos(Frames, segments[k].base + o + 1)
           = Pos(Frames, segments[k].base + 1) + Pos(segments[k].frames, o + 1)
<1>1. PICK b \in Nat, l \in Nat : b = segments[k].base /\ l = Len(segments[k].frames)
  BY EndFacts
<1>2. PICK fs \in Seq(Sizes) : fs = segments[k].frames /\ fs \in Seq(Nat)
  BY EndFacts, SizesNat DEF Segment
<1>3. PICK h \in Seq(Sizes) : h = Frames /\ h \in Seq(Nat) /\ Len(h) >= b + l /\ Len(h) \in Nat
  <2>1. Frames \in Seq(Sizes) /\ Len(Frames) = LEO
    BY FramesLen
  <2>2. LEO >= b + l
    <3>1. LEO \in Nat
      BY ActiveFacts, SizesNat
    <3>2. End(k) = b + l /\ End(k) <= LEO
      BY <1>1, EndFacts, EndOrder
    <3> QED BY <3>1, <3>2
  <2> QED BY <2>1, <2>2, SizesNat
<1>4. \A i \in 1..l : h[b + i] = fs[i]
  BY <1>1, <1>2, <1>3, SegmentFrames
<1>5. \A i \in 1..l : /\ Pos(h, b + i + 1) = Pos(h, b + i) + h[b + i]
                      /\ Pos(fs, i + 1) = Pos(fs, i) + fs[i]
  <2> TAKE i \in 1..l
  <2>1. b + i \in 1..Len(h) /\ i \in 1..Len(fs)
    <3>1. PICK c \in Nat : c = Len(h) /\ c >= b + l
      BY <1>3
    <3>2. b + i \in 1..c
      BY <3>1
    <3>3. Len(fs) = l
      BY <1>1, <1>2
    <3> QED BY <3>1, <3>2, <3>3
  <2> QED BY <1>2, <1>3, <2>1, PosFacts
<1>6. /\ \A i \in 1..(l + 1) : Pos(fs, i) \in Nat
      /\ \A i \in 1..(b + l + 1) : Pos(h, i) \in Nat
  <2>1. \A i \in 1..(l + 1) : Pos(fs, i) \in Nat
    BY <1>1, <1>2, PosNat
  <2>2. \A i \in 1..(b + l + 1) : i \in 1..(Len(h) + 1)
    BY <1>3
  <2> QED BY <1>3, <2>1, <2>2, PosNat
<1> DEFINE T == {x \in 0..l : Pos(h, b + x + 1) # Pos(h, b + 1) + Pos(fs, x + 1)}
<1>7. CASE T # {}
  <2>1. PICK x \in T : \A m \in T : x <= m
    <3>1. T \subseteq Nat
      BY <1>1
    <3> HIDE DEF T
    <3> QED BY <1>7, <3>1, LeastNat
  <2>2. x \in 0..l /\ Pos(h, b + x + 1) # Pos(h, b + 1) + Pos(fs, x + 1)
    OBVIOUS
  <2> HIDE DEF T
  <2>3. x # 0
    <3> SUFFICES ASSUME x = 0
                 PROVE  FALSE
      OBVIOUS
    <3>1. Pos(fs, 1) = 0
      BY <1>2, PosFacts
    <3>2. b + 0 + 1 = b + 1 /\ 0 + 1 = 1 /\ b + 1 \in 1..(b + l + 1)
      BY <1>1
    <3>3. Pos(h, b + 1) \in Nat
      BY <1>6, <3>2
    <3> QED BY <2>2, <3>1, <3>2, <3>3
  <2>4. PICK m \in 0..l : m + 1 = x /\ ~(x <= m) /\ x \in 1..l
    <3>1. x - 1 \in 0..l /\ (x - 1) + 1 = x /\ ~(x <= x - 1) /\ x \in 1..l
      BY <2>2, <2>3
    <3> QED BY <3>1
  <2>5. m \notin T
    BY <2>1, <2>4
  <2>6. Pos(h, b + m + 1) = Pos(h, b + 1) + Pos(fs, m + 1)
    BY <2>4, <2>5 DEF T
  <2>7. b + m + 1 = b + x
    BY <2>4
  <2>8. /\ Pos(h, b + x + 1) = Pos(h, b + x) + h[b + x]
        /\ Pos(fs, x + 1) = Pos(fs, x) + fs[x] /\ h[b + x] = fs[x]
    BY <1>4, <1>5, <2>4
  <2>9. PICK c \in Nat, d \in Nat, z \in Nat : c = Pos(h, b + 1) /\ d = Pos(fs, x) /\ z = fs[x]
    <3>1. b + 1 \in 1..(b + l + 1) /\ x \in 1..(l + 1)
      BY <2>4
    <3>2. fs[x] \in Nat
      <4>1. Len(fs) = l
        BY <1>1, <1>2
      <4> QED BY <1>2, <2>4, <4>1
    <3> QED BY <1>6, <3>1, <3>2
  <2>10. Pos(h, b + x) = c + d /\ Pos(h, b + x + 1) = (c + d) + z /\ Pos(fs, x + 1) = d + z
    BY <2>4, <2>6, <2>7, <2>8, <2>9
  <2>11. (c + d) + z = c + (d + z)
    OBVIOUS
  <2> QED BY <2>2, <2>9, <2>10, <2>11
<1>8. CASE T = {}
  <2>1. o \in 0..l
    BY <1>1
  <2>2. Pos(h, b + o + 1) = Pos(h, b + 1) + Pos(fs, o + 1)
    BY <1>8, <2>1
  <2> QED BY <1>1, <1>2, <1>3, <2>2
<1> QED BY <1>7, <1>8

-----------------------------------------------------------------------------
(* A read of the log *)

\* The lesser of two numbers.
LEMMA MinOfTwo ==
  ASSUME NEW a \in Int, NEW b \in Int
  PROVE  Min({a, b}) = IF a <= b THEN a ELSE b
<1> DEFINE S == {a, b}
           c == IF a <= b THEN a ELSE b
           P(x) == \A y \in S : x <= y
<1>1. c \in S /\ P(c)
  OBVIOUS
<1>2. \A x \in S : P(x) => x = c
  OBVIOUS
<1>3. Min(S) = CHOOSE x \in S : P(x)
  BY DEF Min
<1> HIDE DEF S, c, P
<1>4. (CHOOSE x \in S : P(x)) \in S /\ P(CHOOSE x \in S : P(x))
  BY <1>1, Zenon
<1>5. Min(S) = c
  BY <1>2, <1>3, <1>4
<1> QED BY <1>5 DEF S, c

\* The records below an offset take a number of bytes that grows with it.
LEMMA BytesGrow ==
  ASSUME IndInv
  PROVE  /\ \A o \in 0..LEO : Pos(Frames, o + 1) \in Nat
         /\ \A o \in 0..LEO, p \in 0..LEO : o < p => Pos(Frames, o + 1) < Pos(Frames, p + 1)
<1>1. PICK l \in Nat : l = LEO
  BY ActiveFacts, SizesNat
<1>2. PICK h \in Seq(Sizes) : h = Frames /\ Len(h) = l /\ h \in Seq(Nat)
  BY <1>1, FramesLen, SizesNat
<1>3. \A o \in 0..l : o + 1 \in 1..(l + 1)
  OBVIOUS
<1>4. \A i \in 1..(l + 1) : Pos(h, i) \in Nat
  BY <1>2, PosNat
<1>5. \A i, j \in 1..(l + 1) : i < j => Pos(h, i) < Pos(h, j)
  BY <1>2, PosGrows
<1>6. ASSUME NEW o \in 0..l, NEW p \in 0..l, o < p
      PROVE  Pos(h, o + 1) < Pos(h, p + 1)
  <2>1. o + 1 < p + 1
    BY <1>6
  <2> QED BY <1>3, <1>5, <2>1
<1> QED BY <1>1, <1>2, <1>3, <1>4, <1>6

\* What readFrom returns is a non-empty sequence of offsets, not an error.
LEMMA RunFacts ==
  ASSUME NEW from \in Nat, NEW c \in Nat \ {0}
  PROVE  /\ Run(from, c) \in Seq(Nat) /\ Len(Run(from, c)) = c
         /\ \A k \in 1..c : Run(from, c)[k] = from + k - 1
         /\ Run(from, c) # <<>> /\ Run(from, c) # ReadError
         /\ Head(Run(from, c)) = from /\ Last(Run(from, c)) = from + c - 1
<1>1. PICK q : q = Run(from, c)
  OBVIOUS
<1>2. \A k \in 1..c : from + k - 1 \in Nat
  OBVIOUS
<1>3. q \in [1..c -> Nat] /\ \A k \in 1..c : q[k] = from + k - 1
  BY <1>1, <1>2 DEF Run
<1>4. q \in Seq(Nat) /\ Len(q) = c
  BY <1>3
<1>5. 1 \in 1..c /\ c \in 1..c /\ from + 1 - 1 = from
  OBVIOUS
<1>6. q # <<>>
  BY <1>4
<1>7. q # ReadError
  <2> SUFFICES ASSUME q = ReadError
               PROVE  FALSE
    OBVIOUS
  <2>1. q[1] = -1
    BY DEF ReadError
  <2>2. q[1] = from
    BY <1>3, <1>5
  <2> QED BY <2>1, <2>2
<1>8. Head(q) = q[1] /\ Last(q) = q[c]
  BY <1>4, <1>6 DEF Last
<1> QED BY <1>1, <1>3, <1>4, <1>5, <1>6, <1>7, <1>8

\* The records from lo to hi of one segment take as many bytes in its file as in
\* the log.
LEMMA SegmentBytes ==
  ASSUME IndInv, NEW k \in 1..Len(segments), NEW lo \in Nat, NEW hi \in Nat,
         End(k - 1) <= lo, lo <= End(k), End(k - 1) <= hi, hi <= End(k)
  PROVE  Pos(segments[k].frames, hi - segments[k].base + 1)
           - Pos(segments[k].frames, lo - segments[k].base + 1) = Bytes(lo, hi)
<1>1. PICK b \in Nat, l \in Nat : /\ b = segments[k].base /\ l = Len(segments[k].frames)
                                  /\ End(k - 1) = b /\ End(k) = b + l
  BY EndFacts
<1>2. PICK x \in 0..l, y \in 0..l : lo = b + x /\ hi = b + y /\ x = lo - b /\ y = hi - b
  <2>1. b <= lo /\ lo <= b + l /\ b <= hi /\ hi <= b + l
    BY <1>1
  <2>2. lo - b \in 0..l /\ hi - b \in 0..l /\ lo = b + (lo - b) /\ hi = b + (hi - b)
    BY <2>1
  <2> QED BY <2>2
<1>3. /\ Pos(Frames, b + x + 1) = Pos(Frames, b + 1) + Pos(segments[k].frames, x + 1)
      /\ Pos(Frames, b + y + 1) = Pos(Frames, b + 1) + Pos(segments[k].frames, y + 1)
  BY <1>1, SegmentPos
<1>4. PICK c \in Nat, d \in Nat, e \in Nat :
        c = Pos(Frames, b + 1) /\ d = Pos(segments[k].frames, x + 1) /\ e = Pos(segments[k].frames, y + 1)
  <2>1. PICK f \in Seq(Nat) : f = segments[k].frames /\ Len(f) = l
    BY <1>1, EndFacts, SizesNat DEF Segment
  <2>2. x + 1 \in 1..(Len(f) + 1) /\ y + 1 \in 1..(Len(f) + 1)
    BY <2>1
  <2>3. b \in 0..LEO
    <3>1. LEO \in Nat /\ b + l <= LEO
      BY <1>1, EndOrder, ActiveFacts, SizesNat
    <3> QED BY <3>1
  <2> QED BY <2>1, <2>2, <2>3, BytesGrow, PosNat
<1>5. Bytes(lo, hi) = (c + e) - (c + d)
  BY <1>2, <1>3, <1>4 DEF Bytes
<1>6. (c + e) - (c + d) = e - d
  OBVIOUS
<1> QED BY <1>1, <1>2, <1>4, <1>5, <1>6

\* SegmentReadSound, in terms of the log: readFrom of the k-th segment returns c
\* records from from on, no more than the budget allows but for the first, and
\* all that it allows.
SegmentGives(k, from, bytes, max, c) ==
  /\ ReadFrom(segments[k], from, bytes, max) = Run(from, c)
  /\ from + c <= End(k) /\ from + c <= max
  /\ \A e \in Nat : from < e /\ e <= End(k) /\ e <= max /\ Bytes(from, e) <= bytes
                    => e <= from + c

\* It does so wherever the record asked for is in that segment.
LEMMA SegmentRead ==
  ASSUME IndInv, NEW k \in 1..Len(segments), Sound(segments[k]),
         NEW from \in Nat, NEW bytes \in Int, NEW max \in Nat,
         End(k - 1) <= from, from < End(k), from < max
  PROVE  \E c \in Nat \ {0} : SegmentGives(k, from, bytes, max, c)
<1>1. PICK s \in Segment : s = segments[k] /\ s.base = End(k - 1)
  BY EndFacts
<1>2. End(k) = NextOffset(s) /\ End(k - 1) \in Nat /\ End(k) \in Nat
  <2>1. k # 0
    BY ActiveFacts
  <2> QED BY <1>1, <2>1, EndOrder DEF End
<1>3. s.base <= from /\ from < NextOffset(s) /\ Sound(s)
  BY <1>1, <1>2
<1>4. PICK c \in Nat \ {0} :
        /\ ReadFrom(s, from, bytes, max) = Run(from, c)
        /\ from + c <= NextOffset(s) /\ from + c <= max
        /\ \A e \in Nat :
             /\ from < e /\ e <= NextOffset(s) /\ e <= max
             /\ Pos(s.frames, e - s.base + 1) - Pos(s.frames, from - s.base + 1) <= bytes
             => e <= from + c
  BY <1>3, SegmentReadSound
<1>5. ASSUME NEW e \in Nat, from < e, e <= End(k), e <= max, Bytes(from, e) <= bytes
      PROVE  e <= from + c
  <2>1. End(k - 1) <= e /\ from <= End(k)
    BY <1>2, <1>5
  <2>2. Pos(s.frames, e - s.base + 1) - Pos(s.frames, from - s.base + 1) = Bytes(from, e)
    BY <1>1, <1>5, <2>1, SegmentBytes
  <2> QED BY <1>2, <1>4, <1>5, <2>2
<1>6. SegmentGives(k, from, bytes, max, c)
  BY <1>1, <1>2, <1>4, <1>5 DEF SegmentGives
<1> QED BY <1>6

\* What the loop of Log.Read keeps.
Acc == [out : Seq(Nat), n : Nat, from : Nat, done : BOOLEAN]

\* One round of the loop reads nothing and stays at the same place, ends it, passes
\* over a segment, or reads c records.
Stays(k, a, z) == (a.done \/ End(k) <= a.from) /\ z = a

Ends(k, a, max, z) ==
  ~a.done /\ a.from < End(k) /\ max <= End(k - 1) /\ z = [a EXCEPT !.done = TRUE]

Passes(k, a, bytes, max, z) ==
  /\ ~a.done /\ a.from < End(k) /\ End(k - 1) < max
  /\ a.from < End(k - 1) \/ max <= a.from
  /\ z = [out |-> a.out, n |-> a.n, from |-> End(k), done |-> a.n >= bytes]

Gives(k, a, bytes, max, c, z) ==
  /\ ~a.done /\ a.from < End(k) /\ End(k - 1) <= a.from /\ a.from < max
  /\ SegmentGives(k, a.from, bytes - a.n, max, c)
  /\ z = [out  |-> a.out \o Run(a.from, c),
          n    |-> a.n + Bytes(a.from, a.from + c),
          from |-> a.from + c,
          done |-> a.n + Bytes(a.from, a.from + c) >= bytes]

\* Each round is one of these.
LEMMA StepCases ==
  ASSUME IndInv, NEW k \in 1..Len(segments), Sound(segments[k]), NEW a \in Acc,
         NEW bytes \in Nat, NEW max \in Nat,
         NEW z, z = ReadStep(a, segments[k], bytes, max)
  PROVE  \/ Stays(k, a, z) \/ Ends(k, a, max, z) \/ Passes(k, a, bytes, max, z)
         \/ \E c \in Nat \ {0} : Gives(k, a, bytes, max, c, z)
<1>1. PICK s \in Segment : s = segments[k] /\ s.base = End(k - 1)
  BY EndFacts
<1>2. NextOffset(s) = End(k) /\ End(k - 1) \in Nat /\ End(k) \in Nat /\ End(k - 1) <= End(k)
  <2>1. k # 0
    BY ActiveFacts
  <2> QED BY <1>1, <2>1, EndOrder DEF End
<1>3. a.out \in Seq(Nat) /\ a.n \in Nat /\ a.from \in Nat /\ a.done \in BOOLEAN
  BY DEF Acc
<1> DEFINE recs == ReadFrom(s, a.from, bytes - a.n, max)
           size == Pos(s.frames, Last(recs) - s.base + 2) - Pos(s.frames, Head(recs) - s.base + 1)
           n    == a.n + (IF recs = <<>> THEN 0 ELSE size)
<1>4. z = CASE a.done \/ NextOffset(s) <= a.from -> a
            [] ~a.done /\ NextOffset(s) > a.from /\ s.base >= max -> [a EXCEPT !.done = TRUE]
            [] OTHER ->
                 IF recs = ReadError
                 THEN [a EXCEPT !.out = ReadError, !.done = TRUE]
                 ELSE [out  |-> a.out \o recs,
                       n    |-> n,
                       from |-> IF recs # <<>> THEN Last(recs) + 1 ELSE NextOffset(s),
                       done |-> n >= bytes]
  BY <1>1 DEF ReadStep
<1> HIDE DEF n
<1>5. CASE a.done \/ End(k) <= a.from
  <2>1. a.done \/ NextOffset(s) <= a.from
    BY <1>2, <1>5
  <2>2. ~(~a.done /\ NextOffset(s) > a.from /\ s.base >= max)
    BY <1>2, <1>3, <1>5
  <2>3. z = a
    <3> HIDE DEF recs
    <3> QED BY <1>4, <2>1, <2>2
  <2> QED BY <1>5, <2>3 DEF Stays
<1>6. CASE ~a.done /\ a.from < End(k) /\ max <= End(k - 1)
  <2>1. ~(a.done \/ NextOffset(s) <= a.from)
    BY <1>2, <1>3, <1>6
  <2>2. NextOffset(s) > a.from /\ s.base >= max
    BY <1>1, <1>2, <1>6
  <2>3. z = [a EXCEPT !.done = TRUE]
    BY <1>4, <1>6, <2>1, <2>2
  <2> QED BY <1>6, <2>3 DEF Ends
<1>7. CASE ~a.done /\ a.from < End(k) /\ End(k - 1) < max
  <2>1. ~(a.done \/ NextOffset(s) <= a.from) /\ ~(s.base >= max)
    BY <1>1, <1>2, <1>3, <1>7
  <2>2. recs # ReadError =>
          z = [out  |-> a.out \o recs,
               n    |-> n,
               from |-> IF recs # <<>> THEN Last(recs) + 1 ELSE NextOffset(s),
               done |-> n >= bytes]
    <3> HIDE DEF recs
    <3> QED BY <1>4, <2>1
  <2>3. CASE a.from < End(k - 1) \/ max <= a.from
    <3>1. recs = <<>>
      BY <1>1, <2>3 DEF ReadFrom
    <3> HIDE DEF recs
    <3>2. recs # ReadError
      <4>1. Len(<<-1>>) = 1 /\ Len(<<>>) = 0
        OBVIOUS
      <4> QED BY <3>1, <4>1 DEF ReadError
    <3>3. n = a.n
      BY <1>3, <3>1 DEF n
    <3>4. a.out \o recs = a.out
      BY <1>3, <3>1, ConcatEmptySeq
    <3> QED BY <1>2, <1>7, <2>2, <2>3, <3>1, <3>2, <3>3, <3>4 DEF Passes
  <2>4. CASE End(k - 1) <= a.from /\ a.from < max
    <3>1. PICK from \in Nat, left \in Int : from = a.from /\ left = bytes - a.n
      BY <1>3
    <3>2. PICK c \in Nat \ {0} : SegmentGives(k, from, left, max, c)
      BY <1>1, <1>7, <2>4, <3>1, SegmentRead
    <3>3. recs = Run(from, c) /\ from + c <= End(k) /\ from + c <= max
      BY <1>1, <3>1, <3>2 DEF SegmentGives
    <3> HIDE DEF recs, size
    <3>4. /\ recs # <<>> /\ recs # ReadError
          /\ Head(recs) = from /\ Last(recs) = from + c - 1
      BY <3>3, RunFacts
    <3>5. n = a.n + Bytes(from, from + c)
      <4>1. (from + c - 1) - s.base + 2 = (from + c) - s.base + 1
        BY <1>1, <1>2
      <4>2. Pos(s.frames, (from + c) - s.base + 1) - Pos(s.frames, from - s.base + 1)
              = Bytes(from, from + c)
        <5>1. from + c \in Nat /\ End(k - 1) <= from + c /\ from <= End(k)
          BY <1>2, <1>7, <2>4, <3>1
        <5> QED BY <1>1, <2>4, <3>1, <3>3, <5>1, SegmentBytes
      <4>3. size = Bytes(from, from + c)
        BY <3>4, <4>1, <4>2 DEF size
      <4> QED BY <3>4, <4>3 DEF n
    <3>6. Last(recs) + 1 = from + c
      BY <3>4
    <3>7. z = [out  |-> a.out \o Run(from, c), n |-> n, from |-> from + c, done |-> n >= bytes]
      BY <2>2, <3>3, <3>4, <3>6
    <3>8. Gives(k, a, bytes, max, c, z)
      BY <1>7, <2>4, <3>1, <3>2, <3>5, <3>7 DEF Gives
    <3> QED BY <3>8
  <2> QED BY <1>2, <1>3, <2>3, <2>4
<1> QED BY <1>2, <1>3, <1>5, <1>6, <1>7

\* Where the loop of Log.Read starts.
Start(from) == [out |-> <<>>, n |-> 0, from |-> from, done |-> FALSE]

\* What was read starts at from, is in order, and lies below u and below where the
\* loop goes on.
Ordered(a, from, u) ==
  /\ a.out # <<>> => a.out[1] = from
  /\ \A j \in 1..Len(a.out) : /\ a.out[j] < u /\ a.out[j] < a.from
                              /\ j > 1 => a.out[j - 1] < a.out[j]

\* Nothing was read yet exactly while the record asked for is in a later segment.
Placed(k, a, from) == IF End(k) <= from THEN a = Start(from) ELSE a.out # <<>>

\* The bound of a read: the greatest offset below both max and the end of the log.
Bound(u, max) == u \in Nat /\ u <= max /\ u <= LEO /\ (u = max \/ u = LEO)

\* The size of a stretch of the log is a number.
LEMMA BytesNat ==
  ASSUME IndInv, NEW lo \in Nat, NEW hi \in Nat, lo <= hi, hi <= LEO
  PROVE  Bytes(lo, hi) \in Nat
<1>1. PICK l \in Nat : l = LEO
  BY ActiveFacts, SizesNat
<1>2. lo \in 0..l /\ hi \in 0..l
  BY <1>1
<1>3. PICK p \in Nat, q \in Nat : p = Pos(Frames, lo + 1) /\ q = Pos(Frames, hi + 1)
  BY <1>1, <1>2, BytesGrow
<1>4. p <= q
  <2>1. CASE lo = hi
    BY <1>3, <2>1
  <2>2. CASE lo < hi
    BY <1>1, <1>2, <1>3, <2>2, BytesGrow
  <2> QED BY <2>1, <2>2
<1> QED BY <1>3, <1>4 DEF Bytes

\* A sequence of offsets with a run of c behind it.
LEMMA ConcatRun ==
  ASSUME NEW q \in Seq(Nat), NEW from \in Nat, NEW c \in Nat \ {0}
  PROVE  /\ q \o Run(from, c) \in Seq(Nat) /\ Len(q \o Run(from, c)) = Len(q) + c
         /\ q \o Run(from, c) # <<>>
         /\ \A j \in 1..(Len(q) + c) :
              (q \o Run(from, c))[j] = IF j <= Len(q) THEN q[j] ELSE from + (j - Len(q)) - 1
<1>1. PICK r \in Seq(Nat) : /\ r = Run(from, c) /\ Len(r) = c
                            /\ \A k \in 1..c : r[k] = from + k - 1
  BY RunFacts
<1>2. PICK l \in Nat : l = Len(q)
  OBVIOUS
<1>3. /\ q \o r \in Seq(Nat) /\ Len(q \o r) = l + c
      /\ \A j \in 1..(l + c) : (q \o r)[j] = IF j <= l THEN q[j] ELSE r[j - l]
  <2>1. /\ q \o r \in Seq(Nat) /\ Len(q \o r) = Len(q) + Len(r)
        /\ \A j \in 1..(Len(q) + Len(r)) : (q \o r)[j] = IF j <= Len(q) THEN q[j] ELSE r[j - Len(q)]
    BY <1>1, ConcatProperties, Zenon
  <2> QED BY <1>1, <1>2, <2>1, Zenon
<1>4. q \o r # <<>>
  <2>1. l + c # 0
    OBVIOUS
  <2> QED BY <1>3, <2>1, EmptyLen
<1>5. ASSUME NEW j \in 1..(l + c)
      PROVE  (q \o r)[j] = IF j <= l THEN q[j] ELSE from + (j - l) - 1
  <2>1. ~(j <= l) => j - l \in 1..c
    OBVIOUS
  <2> QED BY <1>1, <1>3, <2>1
<1> QED BY <1>1, <1>2, <1>3, <1>4, <1>5

\* Each round keeps what was read in order.
LEMMA StepOrdered ==
  ASSUME IndInv, NEW k \in 1..Len(segments), Sound(segments[k]), NEW a \in Acc,
         NEW bytes \in Nat, NEW max \in Nat, NEW from \in Nat, NEW u, Bound(u, max), from < max,
         Ordered(a, from, u), Placed(k - 1, a, from),
         NEW z, z = ReadStep(a, segments[k], bytes, max)
  PROVE  z \in Acc /\ Ordered(z, from, u) /\ Placed(k, z, from)
<1>1. PICK b \in Nat, e \in Nat, l \in Nat : b = End(k - 1) /\ e = End(k) /\ l = LEO
  BY EndOrder, ActiveFacts, SizesNat
<1>2. b <= e /\ e <= l /\ u \in Nat /\ u <= max /\ u <= l /\ (u = max \/ u = l)
  BY <1>1, EndOrder DEF Bound
<1>3. a.out \in Seq(Nat) /\ a.n \in Nat /\ a.from \in Nat /\ a.done \in BOOLEAN
  BY DEF Acc
<1>4. b <= from => a.out = <<>> /\ a.n = 0 /\ a.from = from /\ a.done = FALSE
  BY <1>1 DEF Placed, Start
<1>5. e <= from => b <= from
  BY <1>2
<1>6. ~(b <= from) => a.out # <<>>
  BY <1>1 DEF Placed
<1>7. PICK f \in Nat, q \in Seq(Nat), m \in Nat : f = a.from /\ q = a.out /\ m = Len(q)
  BY <1>3
<1>8. \A j \in 1..m : q[j] \in Nat /\ q[j] < u /\ q[j] < f /\ (j > 1 => q[j - 1] < q[j])
  <2> TAKE j \in 1..m
  <2>1. q[j] \in Nat
    <3>1. j \in 1..Len(q)
      BY <1>7
    <3> QED BY <3>1
  <2>2. q[j] < u /\ q[j] < f /\ (j > 1 => q[j - 1] < q[j])
    BY <1>7 DEF Ordered
  <2> QED BY <2>1, <2>2
<1>9. CASE Stays(k, a, z)
  <2>1. z = a /\ (a.done \/ e <= a.from)
    BY <1>1, <1>9 DEF Stays
  <2>2. Placed(k, a, from)
    <3>1. CASE e <= from
      BY <1>1, <1>5, <3>1 DEF Placed
    <3>2. CASE ~(e <= from)
      BY <1>1, <1>4, <1>6, <2>1, <3>2 DEF Placed
    <3> QED BY <3>1, <3>2
  <2> QED BY <2>1, <2>2
<1>10. CASE Ends(k, a, max, z)
  <2>1. z = [a EXCEPT !.done = TRUE] /\ max <= b
    BY <1>1, <1>10 DEF Ends
  <2>2. z \in Acc /\ z.out = a.out /\ z.from = a.from
    BY <1>3, <2>1 DEF Acc
  <2>3. ~(b <= from) /\ ~(e <= from)
    BY <1>2, <2>1
  <2> QED BY <1>1, <1>6, <2>2, <2>3 DEF Ordered, Placed
<1>11. CASE Passes(k, a, bytes, max, z)
  <2>1. /\ a.from < e /\ b < max /\ (a.from < b \/ max <= a.from)
        /\ z = [out |-> a.out, n |-> a.n, from |-> e, done |-> a.n >= bytes]
    BY <1>1, <1>11 DEF Passes
  <2>2. z.out = a.out /\ z.from = e /\ z \in Acc
    BY <1>3, <2>1 DEF Acc
  <2>3. ~(b <= from)
    BY <1>2, <1>4, <2>1
  <2>4. ~(e <= from)
    BY <1>5, <2>3
  <2>5. \A j \in 1..m : q[j] < e
    <3> TAKE j \in 1..m
    <3>1. q[j] \in Nat /\ q[j] < f /\ f < e
      BY <1>7, <1>8, <2>1
    <3> QED BY <3>1
  <2>6. Placed(k, z, from)
    BY <1>1, <1>6, <2>2, <2>3, <2>4 DEF Placed
  <2>7. Ordered(z, from, u)
    BY <1>7, <2>2, <2>5 DEF Ordered
  <2> QED BY <2>2, <2>6, <2>7
<1>12. ASSUME NEW c \in Nat \ {0}, Gives(k, a, bytes, max, c, z)
       PROVE  z \in Acc /\ Ordered(z, from, u) /\ Placed(k, z, from)
  <2>1. f < e /\ b <= f /\ f < max /\ f + c <= e /\ f + c <= max
    BY <1>1, <1>12, <1>7 DEF Gives, SegmentGives
  <2>2. PICK y \in Nat : y = Bytes(f, f + c)
    <3>1. f + c \in Nat /\ f <= f + c /\ f + c <= LEO
      BY <1>1, <1>2, <2>1
    <3> QED BY <3>1, BytesNat
  <2>3. PICK w \in Seq(Nat) : /\ w = q \o Run(f, c) /\ Len(w) = m + c /\ w # <<>>
                              /\ \A j \in 1..(m + c) : w[j] = IF j <= m THEN q[j] ELSE f + (j - m) - 1
    <3>1. /\ q \o Run(f, c) \in Seq(Nat) /\ Len(q \o Run(f, c)) = Len(q) + c
          /\ q \o Run(f, c) # <<>>
          /\ \A j \in 1..(Len(q) + c) :
               (q \o Run(f, c))[j] = IF j <= Len(q) THEN q[j] ELSE f + (j - Len(q)) - 1
      BY ConcatRun, Zenon
    <3> QED BY <1>7, <3>1, Zenon
  <2>4. PICK v \in Nat : v = a.n + y
    BY <1>3
  <2> DEFINE d == v >= bytes
  <2>5. z = [out |-> w, n |-> v, from |-> f + c, done |-> d]
    BY <1>12, <1>7, <2>4, <2>2, <2>3 DEF Gives
  <2>6. d \in BOOLEAN
    OBVIOUS
  <2> HIDE DEF d
  <2>7. z.out = w /\ z.from = f + c /\ z \in Acc
    <3>1. f + c \in Nat
      OBVIOUS
    <3> QED BY <2>5, <2>6, <3>1 DEF Acc
  <2>8. ~(e <= from)
    <3>1. CASE b <= from
      BY <1>4, <1>7, <2>1, <3>1
    <3>2. CASE ~(b <= from)
      BY <1>5, <3>2
    <3> QED BY <3>1, <3>2
  <2>9. Placed(k, z, from)
    BY <1>1, <2>3, <2>7, <2>8 DEF Placed
  <2>10. w[1] = from
    <3>1. 1 \in 1..(m + c)
      OBVIOUS
    <3>2. CASE b <= from
      <4>1. m = 0 /\ f = from
        BY <1>4, <1>7, <3>2
      <4>2. ~(1 <= m) /\ f + (1 - m) - 1 = from
        BY <4>1
      <4> QED BY <2>3, <3>1, <4>2
    <3>3. CASE ~(b <= from)
      <4>1. q # <<>> /\ q[1] = from
        BY <1>6, <1>7, <3>3 DEF Ordered
      <4>2. 1 <= m
        BY <1>7, <4>1
      <4> QED BY <2>3, <3>1, <4>1, <4>2
    <3> QED BY <3>2, <3>3
  <2>11. ASSUME NEW j \in 1..(m + c)
         PROVE  w[j] < u /\ w[j] < f + c /\ (j > 1 => w[j - 1] < w[j])
    <3>1. CASE j <= m
      <4>1. j \in 1..m /\ w[j] = q[j]
        <5>1. j \in 1..m
          BY <3>1
        <5>2. w[j] = q[j]
          BY <2>3, <3>1
        <5> QED BY <5>1, <5>2
      <4>2. j > 1 => j - 1 \in 1..(m + c) /\ j - 1 <= m
        BY <3>1
      <4>3. j > 1 => w[j - 1] = q[j - 1]
        BY <2>3, <4>2
      <4> QED BY <1>8, <4>1, <4>3
    <3>2. CASE ~(j <= m)
      <4>1. w[j] = f + (j - m) - 1
        BY <2>3, <3>2
      <4>2. f + (j - m) - 1 < f + c /\ f + (j - m) - 1 >= f
        BY <3>2
      <4>3. f + c <= u
        BY <1>2, <2>1
      <4>4. w[j] < u /\ w[j] < f + c
        BY <1>2, <4>1, <4>2, <4>3
      <4>5. ASSUME j > 1
            PROVE  w[j - 1] < w[j]
        <5>1. PICK i \in 1..(m + c) : i = j - 1
          BY <4>5
        <5>2. CASE i <= m
          <6>1. i \in 1..m /\ w[i] = q[i]
            <7>1. i \in 1..m
              BY <5>2
            <7>2. w[i] = q[i]
              BY <2>3, <5>2
            <7> QED BY <7>1, <7>2
          <6>2. PICK x \in Nat : x = q[i] /\ x < f
            BY <1>8, <6>1
          <6>3. x < f + (j - m) - 1
            BY <4>2, <6>2
          <6> QED BY <4>1, <5>1, <6>1, <6>2, <6>3
        <5>3. CASE ~(i <= m)
          <6>1. w[i] = f + (i - m) - 1
            BY <2>3, <5>3
          <6>2. f + (i - m) - 1 < f + (j - m) - 1
            BY <5>1
          <6> QED BY <4>1, <5>1, <6>1, <6>2
        <5> QED BY <5>2, <5>3
      <4> QED BY <4>4, <4>5
    <3> QED BY <3>1, <3>2
  <2>12. Ordered(z, from, u)
    BY <2>3, <2>7, <2>10, <2>11 DEF Ordered
  <2> QED BY <2>7, <2>9, <2>12
<1> QED BY <1>9, <1>10, <1>11, <1>12, StepCases

\* How far a read that starts at from has come after k segments, when the budget
\* does not stop it.
Reached(k, from, u) == IF End(k) <= from THEN from ELSE IF End(k) <= u THEN End(k) ELSE u

\* All records up to there were read, and the loop ends at the bound only.
Covers(k, a, from, u) ==
  /\ Len(a.out) = Reached(k, from, u) - from
  /\ a.n = Bytes(from, Reached(k, from, u))
  /\ IF a.done THEN Reached(k, from, u) = u ELSE a.from = Reached(k, from, u)

\* Each round keeps that, when the budget covers all that is asked for.
LEMMA StepCovers ==
  ASSUME IndInv, NEW k \in 1..Len(segments), Sound(segments[k]), NEW a \in Acc,
         NEW bytes \in Nat, NEW max \in Nat, NEW from \in Nat, NEW u, Bound(u, max), from < u,
         Covers(k - 1, a, from, u), Bytes(from, u) <= bytes,
         NEW z, z = ReadStep(a, segments[k], bytes, max)
  PROVE  Covers(k, z, from, u)
<1>1. PICK b \in Nat, e \in Nat, l \in Nat : b = End(k - 1) /\ e = End(k) /\ l = LEO
  BY EndOrder, ActiveFacts, SizesNat
<1>2. b <= e /\ e <= l /\ u \in Nat /\ u <= max /\ u <= l /\ (u = max \/ u = l)
  BY <1>1, EndOrder DEF Bound
<1>3. a.out \in Seq(Nat) /\ a.n \in Nat /\ a.from \in Nat /\ a.done \in BOOLEAN
  BY DEF Acc
<1>4. PICK g \in Nat, h \in Nat : g = Reached(k - 1, from, u) /\ h = Reached(k, from, u)
  BY <1>1, <1>2 DEF Reached
<1>5. /\ g = IF b <= from THEN from ELSE IF b <= u THEN b ELSE u
      /\ h = IF e <= from THEN from ELSE IF e <= u THEN e ELSE u
  BY <1>1, <1>4 DEF Reached
<1>6. from <= g /\ g <= h /\ h <= u
  BY <1>2, <1>5
<1>7. /\ Len(a.out) = g - from /\ a.n = Bytes(from, g)
      /\ (a.done => g = u) /\ (~a.done => a.from = g)
  BY <1>3, <1>4 DEF Covers
<1>8. CASE Stays(k, a, z)
  <2>1. z = a /\ (a.done \/ e <= a.from)
    BY <1>1, <1>8 DEF Stays
  <2>2. g = h
    <3>1. CASE a.done
      BY <1>6, <1>7, <3>1
    <3>2. CASE ~a.done
      <4>1. e <= g
        BY <1>7, <2>1, <3>2
      <4> QED BY <1>2, <1>5, <1>6, <4>1
    <3> QED BY <3>1, <3>2
  <2> QED BY <1>4, <2>1, <2>2 DEF Covers
<1>9. CASE Ends(k, a, max, z)
  <2>1. z = [a EXCEPT !.done = TRUE] /\ max <= b
    BY <1>1, <1>9 DEF Ends
  <2>2. z.out = a.out /\ z.n = a.n /\ z.done
    BY <1>3, <2>1 DEF Acc
  <2>3. g = u /\ h = u
    BY <1>2, <1>5, <1>6, <2>1
  <2> QED BY <1>4, <1>7, <2>2, <2>3 DEF Covers
<1>10. CASE Passes(k, a, bytes, max, z)
  <2>1. ~a.done /\ a.from < e /\ b < max /\ (a.from < b \/ max <= a.from)
    BY <1>1, <1>10 DEF Passes
  <2>2. a.from = g
    BY <1>7, <2>1
  <2> QED BY <1>2, <1>5, <2>1, <2>2
<1>11. ASSUME NEW c \in Nat \ {0}, Gives(k, a, bytes, max, c, z)
       PROVE  Covers(k, z, from, u)
  <2>1. ~a.done /\ a.from = g
    BY <1>7, <1>11 DEF Gives
  <2>2. g < e /\ b <= g /\ g < max /\ g + c <= e /\ g + c <= max
    BY <1>1, <1>11, <2>1 DEF Gives, SegmentGives
  <2>3. \A x \in Nat : g < x /\ x <= e /\ x <= max /\ Bytes(g, x) <= bytes - a.n => x <= g + c
    BY <1>1, <1>11, <2>1 DEF Gives, SegmentGives
  <2>4. from \in 0..l /\ g \in 0..l /\ h \in 0..l /\ u \in 0..l
    BY <1>2, <1>6
  <2>5. PICK p \in Nat, q \in Nat, r \in Nat, t \in Nat :
          /\ p = Pos(Frames, from + 1) /\ q = Pos(Frames, g + 1)
          /\ r = Pos(Frames, h + 1) /\ t = Pos(Frames, u + 1)
    BY <1>1, <2>4, BytesGrow
  <2>6. a.n = q - p /\ Bytes(g, h) = r - q /\ Bytes(from, h) = r - p /\ t - p <= bytes
    BY <1>7, <2>5 DEF Bytes
  <2>7. PICK v \in Nat, y \in Int : v = a.n /\ y = Bytes(g, h) /\ v = q - p /\ y = r - q
    BY <1>3, <2>6
  <2>8. r <= t /\ (r >= t => h = u)
    <3>1. h < u => r < t
      BY <1>1, <2>4, <2>5, BytesGrow
    <3>2. h = u => r = t
      BY <2>5
    <3>3. h < u \/ h = u
      BY <1>2, <1>6
    <3> QED BY <3>1, <3>2, <3>3
  <2>9. g < h /\ h <= e /\ h <= max
    BY <1>2, <1>5, <1>6, <2>2
  <2>10. h = g + c
    <3>1. y <= bytes - v
      BY <2>6, <2>8, <2>7
    <3>2. h <= g + c
      BY <2>3, <2>9, <2>7, <3>1
    <3>3. g + c <= h
      BY <1>2, <1>5, <1>6, <2>2
    <3> QED BY <3>2, <3>3
  <2>11. v + y = r - p
    BY <2>7
  <2> DEFINE d == v + y >= bytes
  <2>12. /\ z.out = a.out \o Run(g, c) /\ z.n = r - p /\ z.from = h
         /\ z.done = d
    <3>1. z = [out |-> a.out \o Run(g, c), n |-> v + y, from |-> h, done |-> d]
      BY <1>11, <2>1, <2>10, <2>7 DEF Gives
    <3> HIDE DEF d
    <3> QED BY <2>11, <3>1
  <2>13. Len(z.out) = h - from
    <3>1. Len(z.out) = Len(a.out) + c
      BY <1>3, <2>12, ConcatRun
    <3> QED BY <1>7, <2>10, <3>1
  <2>14. d => h = u
    BY <2>6, <2>8, <2>11
  <2> HIDE DEF d
  <2>15. z.n = Bytes(from, h)
    BY <2>6, <2>12
  <2> QED BY <1>4, <2>12, <2>13, <2>14, <2>15 DEF Covers
<1> QED BY <1>8, <1>9, <1>10, <1>11, StepCases

\* The rounds of the loop of Log.Read over the first n segments.
IsRead(f, n, from, bytes, max) ==
  f = [k \in 0..n |-> IF k = 0 THEN Start(from)
                      ELSE ReadStep(f[k - 1], segments[k], bytes, max)]

\* The recursive definition of the loop has a solution.
LEMMA ReadExists ==
  ASSUME NEW n \in Nat, NEW from, NEW bytes, NEW max
  PROVE  \E f : IsRead(f, n, from, bytes, max)
<1> DEFINE T == {m \in 0..n : ~ \E f : IsRead(f, m, from, bytes, max)}
<1>1. CASE T = {}
  <2>1. n \in 0..n
    OBVIOUS
  <2> QED BY <1>1, <2>1
<1>2. CASE T # {}
  <2>1. PICK m \in T : \A y \in T : m <= y
    <3>1. T \subseteq Nat
      OBVIOUS
    <3> HIDE DEF T
    <3> QED BY <1>2, <3>1, LeastNat
  <2>2. m \in Nat /\ m <= n
    OBVIOUS
  <2>3. CASE m = 0
    <3>1. IsRead([k \in 0..0 |-> Start(from)], 0, from, bytes, max)
      BY DEF IsRead
    <3> QED BY <2>1, <2>3, <3>1
  <2>4. CASE m # 0
    <3>1. m - 1 \in 0..n /\ ~(m <= m - 1)
      BY <2>2, <2>4
    <3>2. PICK r : IsRead(r, m - 1, from, bytes, max)
      BY <2>1, <3>1
    <3>3. r = [k \in 0..(m - 1) |-> IF k = 0 THEN Start(from)
                                    ELSE ReadStep(r[k - 1], segments[k], bytes, max)]
      BY <3>2, Zenon DEF IsRead
    <3> DEFINE q == [k \in 0..m |-> IF k = m THEN ReadStep(r[m - 1], segments[m], bytes, max)
                                    ELSE r[k]]
    <3>4. ASSUME NEW k \in 0..m
          PROVE  q[k] = IF k = 0 THEN Start(from)
                        ELSE ReadStep(q[k - 1], segments[k], bytes, max)
      <4>1. CASE k = m
        <5>1. m - 1 \in 0..m /\ m - 1 # m
          BY <2>2, <2>4
        <5>2. q[m - 1] = r[m - 1] /\ q[k] = ReadStep(r[m - 1], segments[m], bytes, max)
          BY <4>1, <5>1
        <5> HIDE DEF q
        <5> QED BY <2>4, <4>1, <5>2
      <4>2. CASE k # m
        <5>1. k \in 0..(m - 1) /\ q[k] = r[k]
          BY <2>2, <4>2
        <5>2. k # 0 => q[k - 1] = r[k - 1]
          BY <2>2, <5>1
        <5> HIDE DEF q
        <5> QED BY <3>3, <5>1, <5>2
      <4> QED BY <4>1, <4>2
    <3>5. q = [k \in 0..m |-> IF k = 0 THEN Start(from)
                              ELSE ReadStep(q[k - 1], segments[k], bytes, max)]
      BY <3>4
    <3> HIDE DEF q
    <3>6. IsRead(q, m, from, bytes, max)
      BY <3>5, Zenon DEF IsRead
    <3> QED BY <2>1, <3>6
  <2> QED BY <2>3, <2>4
<1> QED BY <1>1, <1>2

\* What Log.Read returns, round by round.
LEMMA ReadRounds ==
  ASSUME NEW n \in Nat, n = Len(segments), NEW from, NEW bytes, NEW max,
         ~(from >= LEO), ~(from >= max)
  PROVE  \E f : /\ f[0] = Start(from)
                /\ \A k \in 1..n : f[k] = ReadStep(f[k - 1], segments[k], bytes, max)
                /\ Read(from, bytes, max) = f[n].out
<1> DEFINE f == CHOOSE g : IsRead(g, n, from, bytes, max)
<1>1. IsRead(f, n, from, bytes, max)
  BY ReadExists, Zenon
<1>2. Read(from, bytes, max) = f[n].out
  BY Zenon DEF Read, IsRead, Start
<1> HIDE DEF f
<1>3. \A k \in 0..n : f[k] = IF k = 0 THEN Start(from)
                             ELSE ReadStep(f[k - 1], segments[k], bytes, max)
  BY <1>1, Zenon DEF IsRead
<1>4. 0 \in 0..n /\ \A k \in 1..n : k \in 0..n /\ k # 0
  OBVIOUS
<1>5. f[0] = Start(from) /\ \A k \in 1..n : f[k] = ReadStep(f[k - 1], segments[k], bytes, max)
  BY <1>3, <1>4
<1> QED BY <1>2, <1>5

\* What holds of the loop after k segments.
Reading(k, a, from, bytes, u) ==
  /\ a \in Acc /\ Ordered(a, from, u) /\ Placed(k, a, from)
  /\ Bytes(from, u) <= bytes => Covers(k, a, from, u)

\* A read from from with bound u returned out: what ReadSound says of it.
Returns(out, from, bytes, u) ==
  /\ out \in Seq(Nat) /\ out # <<>> /\ out[1] = from
  /\ \A j \in 1..Len(out) : out[j] < u /\ (j > 1 => out[j - 1] < out[j])
  /\ Bytes(from, u) <= bytes => Len(out) = u - from

\* Log.Read of a record that the log has.
LEMMA ReadFacts ==
  ASSUME ~IndexOutlivesLog, IndInv, open, NEW from \in Nat, NEW bytes \in Nat, NEW max \in Nat,
         NEW u, Bound(u, max), from < u
  PROVE  Returns(Read(from, bytes, max), from, bytes, u)
<1>1. PICK out : out = Read(from, bytes, max)
  OBVIOUS
<1>2. PICK n \in Nat, l \in Nat : n = Len(segments) /\ n > 0 /\ l = LEO
  BY ActiveFacts, SizesNat
<1>3. u \in Nat /\ u <= max /\ u <= l /\ from < max /\ from < l
  BY <1>2 DEF Bound
<1>4. PICK f : /\ f[0] = Start(from)
               /\ \A k \in 1..n : f[k] = ReadStep(f[k - 1], segments[k], bytes, max)
               /\ out = f[n].out
  <2>1. ~(from >= LEO) /\ ~(from >= max)
    BY <1>2, <1>3
  <2> QED BY <1>2, <1>1, <2>1, ReadRounds
<1>5. End(0) = 0 /\ End(n) = l
  BY <1>2, EndOrder
<1> DEFINE Holds(k) == Reading(k, f[k], from, bytes, u)
<1>6. Holds(0)
  <2>1. PICK a : a = Start(from)
    OBVIOUS
  <2>2. /\ a = [out |-> <<>>, n |-> 0, from |-> from, done |-> FALSE]
        /\ a.out = <<>> /\ a.n = 0 /\ a.from = from /\ a.done = FALSE
    BY <2>1 DEF Start
  <2>3. a \in Acc
    <3>1. <<>> \in Seq(Nat)
      OBVIOUS
    <3> QED BY <2>2, <3>1 DEF Acc
  <2>4. Len(a.out) = 0
    BY <2>2
  <2>5. Ordered(a, from, u)
    BY <2>2, <2>4 DEF Ordered
  <2>6. Placed(0, a, from)
    BY <1>5, <2>1 DEF Placed
  <2>7. Reached(0, from, u) = from
    BY <1>5 DEF Reached
  <2>8. Bytes(from, from) = 0
    <3>1. from \in 0..l
      BY <1>3
    <3>2. Pos(Frames, from + 1) \in Nat
      BY <1>2, <3>1, BytesGrow
    <3> QED BY <3>2 DEF Bytes
  <2>9. Covers(0, a, from, u)
    BY <2>2, <2>4, <2>7, <2>8 DEF Covers
  <2> QED BY <1>4, <2>1, <2>3, <2>5, <2>6, <2>9 DEF Reading
<1>7. ASSUME NEW k \in 1..n, Holds(k - 1)
      PROVE  Holds(k)
  <2>1. PICK a \in Acc : a = f[k - 1]
    BY <1>7 DEF Reading
  <2>2. PICK z : z = f[k] /\ z = ReadStep(a, segments[k], bytes, max)
    BY <1>4, <2>1
  <2>3. /\ Ordered(a, from, u) /\ Placed(k - 1, a, from)
        /\ Bytes(from, u) <= bytes => Covers(k - 1, a, from, u)
    BY <1>7, <2>1 DEF Reading
  <2>4. k \in 1..Len(segments) /\ Sound(segments[k])
    BY <1>2, AllSound
  <2>5. z \in Acc /\ Ordered(z, from, u) /\ Placed(k, z, from)
    BY <1>3, <2>2, <2>3, <2>4, StepOrdered
  <2>6. Bytes(from, u) <= bytes => Covers(k, z, from, u)
    BY <2>2, <2>3, <2>4, StepCovers
  <2> QED BY <2>2, <2>5, <2>6 DEF Reading
<1> HIDE DEF Holds
<1> DEFINE T == {k \in 0..n : ~Holds(k)}
<1>8. Holds(n)
  <2> SUFFICES ASSUME ~Holds(n)
               PROVE  FALSE
    OBVIOUS
  <2>1. PICK k \in T : \A y \in T : k <= y
    <3>1. T \subseteq Nat /\ n \in T
      OBVIOUS
    <3> HIDE DEF T
    <3> QED BY <3>1, LeastNat
  <2>2. k \in 0..n /\ ~Holds(k)
    OBVIOUS
  <2>3. k # 0
    BY <1>6, <2>2
  <2>4. k \in 1..n /\ k - 1 \in 0..n /\ ~(k <= k - 1)
    BY <2>2, <2>3
  <2>5. Holds(k - 1)
    BY <2>1, <2>4
  <2> QED BY <1>7, <2>2, <2>4, <2>5
<1>9. PICK a \in Acc : /\ out = a.out /\ Ordered(a, from, u) /\ Placed(n, a, from)
                       /\ Bytes(from, u) <= bytes => Covers(n, a, from, u)
  BY <1>4, <1>8 DEF Holds, Reading
<1>10. out \in Seq(Nat)
  BY <1>9 DEF Acc
<1>11. out # <<>>
  <2>1. ~(End(n) <= from)
    BY <1>3, <1>5
  <2> QED BY <1>9, <2>1 DEF Placed
<1>12. Reached(n, from, u) = u
  BY <1>3, <1>5 DEF Reached
<1>13. Bytes(from, u) <= bytes => Len(out) = u - from
  BY <1>9, <1>12 DEF Covers
<1>14. out[1] = from /\ \A j \in 1..Len(out) : out[j] < u /\ (j > 1 => out[j - 1] < out[j])
  BY <1>9, <1>11 DEF Ordered
<1> QED BY <1>10, <1>11, <1>13, <1>14, <1>1 DEF Returns

\* In a log that is open every read of a record it has returns that record first,
\* then later ones in order and below the bound, and all of them when the budget
\* covers them.
THEOREM ReadsSound ==
  ASSUME ~IndexOutlivesLog
  PROVE  Spec => []ReadSound
<1>1. ASSUME IndInv
      PROVE  ReadSound
  <2> SUFFICES ASSUME open, NEW r \in Reads, NEW u, u = Min({r.max, LEO}),
                      NEW bytes \in Budgets \cup {Bytes(r.from, u)},
                      NEW out, out = Read(r.from, bytes, r.max)
               PROVE  /\ out # <<>> /\ Head(out) = r.from
                      /\ \A k \in 1..Len(out) : out[k] < u /\ (k > 1 => out[k - 1] < out[k])
                      /\ bytes >= Bytes(r.from, u) => Len(out) = u - r.from
    BY Zenon DEF ReadSound
  <2>1. PICK l \in Nat : l = LEO
    BY <1>1, ActiveFacts, SizesNat
  <2>2. PICK from \in Nat, max \in Nat : from = r.from /\ max = r.max /\ from < max /\ from < l
    BY <2>1, SizesNat DEF Reads
  <2>3. u = IF max <= l THEN max ELSE l
    BY <2>1, <2>2, MinOfTwo
  <2>4. Bound(u, max) /\ from < u /\ u \in Nat /\ u <= LEO
    BY <2>1, <2>2, <2>3 DEF Bound
  <2>5. PICK need \in Nat : need = Bytes(from, u)
    BY <1>1, <2>4, BytesNat
  <2>6. bytes \in Nat
    BY <2>2, <2>5, SizesNat DEF Budgets
  <2>7. /\ out \in Seq(Nat) /\ out # <<>> /\ out[1] = from
        /\ \A j \in 1..Len(out) : out[j] < u /\ (j > 1 => out[j - 1] < out[j])
        /\ Bytes(from, u) <= bytes => Len(out) = u - from
    <3>1. out = Read(from, bytes, max)
      BY <2>2
    <3>2. Returns(Read(from, bytes, max), from, bytes, u)
      BY <1>1, <2>4, <2>6, ReadFacts
    <3> QED BY <3>1, <3>2 DEF Returns
  <2>8. Head(out) = out[1]
    BY <2>7
  <2>9. bytes >= need => need <= bytes
    BY <2>6
  <2> QED BY <2>2, <2>5, <2>7, <2>8, <2>9, Zenon
<1> QED BY <1>1, LogInv, PTL
=============================================================================

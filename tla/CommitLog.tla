----------------------------- MODULE CommitLog -----------------------------
(***************************************************************************)
(* The commit log of one partition (internal/log): segments with a sparse  *)
(* index, rotation, fsync, recovery after a kill or a power loss, and the  *)
(* read path.                                                              *)
(*                                                                         *)
(* A record is abstracted to its encoded size; its offset is its place in  *)
(* the log.  A segment's file is the sequence of the sizes of its frames,  *)
(* so the byte position of a frame is the sum of the sizes before it.      *)
(* Writes go to the file unbuffered: what the process has written and what *)
(* the file holds are the same until a power loss.                         *)
(***************************************************************************)
EXTENDS Integers, Sequences, SequencesExt, FiniteSetsExt

CONSTANTS
  Sizes,             \* encoded sizes of records
  MaxSegmentBytes,   \* segments roll when an append would exceed this
  IndexInterval,     \* bytes between two index entries
  FsyncEvery,        \* appends between two fsyncs, 0 for never
  MaxAppends,        \* bound: records in the log
  MaxCrashes,        \* bound: crashes and power losses
  IndexOutlivesLog   \* TRUE when a power loss may keep the index of a segment
                     \* whose log file it empties

ASSUME CommitLogAssumption ==
  /\ Sizes \subseteq Nat \ {0} /\ Sizes # {}
  /\ MaxSegmentBytes \in Nat \ {0} /\ IndexInterval \in Nat \ {0}
  /\ FsyncEvery \in Nat /\ MaxAppends \in Nat /\ MaxCrashes \in Nat
  /\ IndexOutlivesLog \in BOOLEAN
  \* The model keeps no stale index file for a second recovery to read.
  /\ IndexOutlivesLog => MaxCrashes <= 1

VARIABLES
  segments,   \* the segments, the active one last
  open,       \* the process has the log open
  torn,       \* the active file ends in a frame cut short by a power loss
  appends,    \* appends since the log was opened
  synced,     \* offset below which every record was fsynced
  crashes     \* number of crashes and power losses so far

vars == <<segments, open, torn, appends, synced, crashes>>

-----------------------------------------------------------------------------
(* Segments *)

\* Byte position of the i-th frame; of the end of the file for i = Len + 1.
Pos(frames, i) ==
  LET p[k \in 1..(Len(frames) + 1)] ==
        IF k = 1 THEN 0 ELSE p[k - 1] + frames[k - 1]
  IN  p[i]

Size(s) == Pos(s.frames, Len(s.frames) + 1)
\* Mutant: the offset of the last record instead of the one after it.
NextOffsetLast(s) == IF s.frames = <<>> THEN s.base ELSE s.base + Len(s.frames) - 1

NextOffset(s) == s.base + Len(s.frames)

\* createSegment
EmptySegment(base) == [base |-> base, frames |-> <<>>, index |-> <<>>, since |-> 0]

\* Mutant: the index entry gets the position after the write.
AppendFrameLate(s, sz) ==
  LET due == s.since = 0 \/ s.since >= IndexInterval
      ent == [rel |-> Len(s.frames), pos |-> Size(s) + sz]
  IN  [s EXCEPT !.frames = Append(@, sz),
                !.index  = IF due THEN Append(@, ent) ELSE @,
                !.since  = (IF due THEN 0 ELSE @) + sz]

\* segment.append: write the frame, index it when it is the first one or
\* IndexInterval bytes were written since the last indexed one.
AppendFrame(s, sz) ==
  LET due == s.since = 0 \/ s.since >= IndexInterval
      ent == [rel |-> Len(s.frames), pos |-> Size(s)]
  IN  [s EXCEPT !.frames = Append(@, sz),
                !.index  = IF due THEN Append(@, ent) ELSE @,
                !.since  = (IF due THEN 0 ELSE @) + sz]

\* segment.recover with a full scan: the index is rebuilt from the frames that
\* decode, by the rule that append follows.
Scan(s) ==
  LET r[i \in 0..Len(s.frames)] ==
        IF i = 0 THEN EmptySegment(s.base) ELSE AppendFrame(r[i - 1], s.frames[i])
  IN  r[Len(s.frames)]

\* Mutant: recovery cuts the last intact frame off.
RecoverActiveShort(s, isTorn) ==
  Scan([s EXCEPT !.frames = IF @ = <<>> THEN @ ELSE Front(@)])

\* openSegment of the active segment: an empty file returns before the index is
\* looked at, whatever openIndex has loaded.
RecoverActive(s, isTorn) ==
  IF s.frames = <<>> /\ ~isTorn THEN [s EXCEPT !.since = 0] ELSE Scan(s)

Active == segments[Len(segments)]
LEO == NextOffset(Active)

Init ==
  /\ segments = <<EmptySegment(0)>>
  /\ open = TRUE /\ torn = FALSE
  /\ appends = 0 /\ synced = 0 /\ crashes = 0

-----------------------------------------------------------------------------
(* Operations *)

\* rotateLocked is due before a record of size sz.
Rolls(sz) == Size(Active) > 0 /\ Size(Active) + sz > MaxSegmentBytes

\* Append and AppendAt: rotate if due (which fsyncs the old segment), write,
\* fsync every FsyncEvery appends.
DoAppend(sz) ==
  /\ open /\ LEO < MaxAppends
  /\ segments' = IF Rolls(sz)
                 THEN Append(segments, AppendFrame(EmptySegment(LEO), sz))
                 ELSE [segments EXCEPT ![Len(segments)] = AppendFrame(@, sz)]
  /\ appends' = appends + 1
  /\ synced' = IF FsyncEvery > 0 /\ appends' % FsyncEvery = 0 THEN LEO + 1
               ELSE IF Rolls(sz) THEN LEO ELSE synced
  /\ UNCHANGED <<open, torn, crashes>>

\* Log.Close flushes every segment.
Close ==
  /\ open
  /\ open' = FALSE
  /\ synced' = LEO
  /\ UNCHANGED <<segments, torn, appends, crashes>>

\* The process is killed: the page cache keeps what was written.  A kill in the
\* middle of an append may leave the new segment of a rotation empty; one after
\* the write is as one after the append, since recovery rebuilds the index.
Kill ==
  /\ open /\ crashes < MaxCrashes
  /\ open' = FALSE /\ crashes' = crashes + 1
  /\ \/ UNCHANGED <<segments, synced>>
     \/ /\ \E sz \in Sizes : Rolls(sz)
        /\ segments' = Append(segments, EmptySegment(LEO))
        /\ synced' = LEO
  /\ UNCHANGED <<torn, appends>>

\* The machine loses power: of the active segment the fsynced frames survive,
\* and any prefix of the rest, the last of it possibly torn; its index file
\* keeps any prefix that covers the fsynced frames.
PowerLoss ==
  /\ open /\ crashes < MaxCrashes
  /\ open' = FALSE /\ crashes' = crashes + 1
  /\ \E k \in 0..Len(Active.frames), j \in 0..Len(Active.index), t \in BOOLEAN :
       /\ Active.base + k >= synced
       /\ t => k < Len(Active.frames)
       /\ \A e \in (j + 1)..Len(Active.index) :
            Active.base + Active.index[e].rel >= synced
       /\ k = 0 /\ ~t => j = 0 \/ IndexOutlivesLog
       /\ torn' = t
       /\ segments' = [segments EXCEPT
            ![Len(segments)].frames = SubSeq(@, 1, k),
            ![Len(segments)].index  = SubSeq(@, 1, j)]
  /\ UNCHANGED <<appends, synced>>

\* Mutant: a torn frame is not truncated.
OpenTorn ==
  /\ ~open
  /\ open' = TRUE /\ appends' = 0
  /\ segments' = [segments EXCEPT ![Len(segments)] = RecoverActive(@, torn)]
  /\ UNCHANGED <<torn, synced, crashes>>

\* Log.Open: closed segments are read back through their index, the active one
\* is recovered; a torn frame is truncated.
Open ==
  /\ ~open
  /\ open' = TRUE /\ torn' = FALSE /\ appends' = 0
  /\ segments' = [segments EXCEPT ![Len(segments)] = RecoverActive(@, torn)]
  /\ UNCHANGED <<synced, crashes>>

Next ==
  \/ \E sz \in Sizes : DoAppend(sz)
  \/ Close \/ Kill \/ PowerLoss \/ Open

Spec == Init /\ [][Next]_vars

-----------------------------------------------------------------------------
(* The read path *)

\* sort.Search: bisection over 0..n-1 for the first element of hits, or n.
Search(n, hits) ==
  LET s[w \in (0..n) \X (0..n)] ==
        LET i == w[1]
            j == w[2]
            h == (i + j) \div 2
        IN  IF i >= j THEN i
            ELSE IF h \in hits THEN s[<<i, h>>] ELSE s[<<h + 1, j>>]
  IN  s[<<0, n>>]

\* The predicate lookup searches with, as the set of entries it holds for.
Above(index, rel) == {k \in 0..(Len(index) - 1) : index[k + 1].rel > rel}

\* Mutant: the entry after the one that is wanted.
LookupNext(index, rel) ==
  LET n == Search(Len(index), Above(index, rel))
  IN  IF n < Len(index) THEN index[n + 1].pos ELSE index[n].pos

\* sparseIndex.lookup: the position of the greatest indexed offset <= rel.
Lookup(index, rel) ==
  LET n == Search(Len(index), Above(index, rel))
  IN  IF n = 0 THEN 0 ELSE index[n].pos

ReadError == <<-1>>

\* segment.readFrom, as the sequence of offsets it returns: the scan starts at
\* the indexed position, skips what is below from, and stops at maxOffset or
\* when the next record would exceed maxBytes, but never before one record.
\* A scan that starts inside a frame fails to decode it.
ReadFrom(s, from, maxBytes, maxOffset) ==
  LET start == Lookup(s.index, from - s.base)
      at    == {i \in 1..Len(s.frames) : Pos(s.frames, i) = start}
      first == Max(at \cup {from - s.base + 1})
      taken == {i \in first..Len(s.frames) :
                  /\ s.base + i - 1 < maxOffset
                  /\ i = first \/ Pos(s.frames, i + 1) - Pos(s.frames, first)
                                    <= maxBytes}
  IN  IF \/ from < s.base \/ from >= NextOffset(s) \/ maxOffset <= from
         \/ start >= Size(s)
      THEN <<>>
      ELSE IF at = {} THEN ReadError
      ELSE [k \in 1..Cardinality(taken) |-> s.base + first + k - 2]

\* One round of the loop of Log.Read over the segments: out is what was read, n
\* its size, from the offset to go on from.
ReadStep(acc, s, maxBytes, maxOffset) ==
  LET recs == ReadFrom(s, acc.from, maxBytes - acc.n, maxOffset)
      n    == acc.n + (IF recs = <<>> THEN 0
                       ELSE Pos(s.frames, Last(recs) - s.base + 2)
                              - Pos(s.frames, Head(recs) - s.base + 1))
  IN  CASE acc.done \/ NextOffset(s) <= acc.from -> acc
        [] ~acc.done /\ NextOffset(s) > acc.from /\ s.base >= maxOffset ->
             [acc EXCEPT !.done = TRUE]
        [] OTHER ->
             IF recs = ReadError
             THEN [acc EXCEPT !.out = ReadError, !.done = TRUE]
             ELSE [out  |-> acc.out \o recs,
                   n    |-> n,
                   from |-> IF recs # <<>> THEN Last(recs) + 1 ELSE NextOffset(s),
                   done |-> n >= maxBytes]

\* Log.Read, for maxBytes > 0 and maxOffset >= 0 (other values stand for 1 MiB
\* and for LEO).
Read(from, maxBytes, maxOffset) ==
  LET acc[k \in 0..Len(segments)] ==
        IF k = 0 THEN [out |-> <<>>, n |-> 0, from |-> from, done |-> FALSE]
        ELSE ReadStep(acc[k - 1], segments[k], maxBytes, maxOffset)
  IN  IF from >= LEO \/ from >= maxOffset THEN <<>> ELSE acc[Len(segments)].out

-----------------------------------------------------------------------------
(* Properties *)

Entries == [rel : 0..MaxAppends, pos : Nat]

\* Every variable has its type.
TypeOK ==
  /\ segments \in Seq([base : 0..MaxAppends, frames : Seq(Sizes),
                       index : Seq(Entries), since : Nat])
  /\ segments # <<>>
  /\ open \in BOOLEAN /\ torn \in BOOLEAN /\ (open => ~torn)
  /\ appends \in Nat /\ synced \in 0..MaxAppends /\ crashes \in 0..MaxCrashes

\* The log has no hole: rotation, recovery and truncation leave segments each
\* of which starts at the offset where the one before it ends, and none of
\* which but the active one is empty.
SegmentsContiguous ==
  /\ segments[1].base = 0
  /\ \A i \in 1..(Len(segments) - 1) :
       /\ segments[i].frames # <<>>
       /\ segments[i + 1].base = segments[i].base + Len(segments[i].frames)

\* The sparse index can be trusted: once the log is open each entry points at
\* the first byte of the record it names, entries are in order and, for
\* readFrom to start early enough, the first record has one.
IndexSound ==
  open => \A i \in 1..Len(segments) :
    LET s == segments[i]
    IN  /\ s.frames # <<>> => s.index # <<>> /\ s.index[1].rel = 0
        /\ \A k \in 1..Len(s.index) :
             /\ s.index[k].rel < Len(s.frames)
             /\ s.index[k].pos = Pos(s.frames, s.index[k].rel + 1)
             /\ k > 1 => s.index[k - 1].rel < s.index[k].rel

\* Bounds of the reads that the properties below ask for.
Budgets == 1..(MaxSegmentBytes + 1)
Reads == {r \in [from : 0..MaxAppends, max : 0..MaxAppends] :
            r.from < r.max /\ r.from < LEO}

\* The frames of all segments, and the bytes of those with offsets lo to hi - 1.
Frames == FlattenSeq([i \in 1..Len(segments) |-> segments[i].frames])
Bytes(lo, hi) == Pos(Frames, hi + 1) - Pos(Frames, lo + 1)

\* "Read returns records in [from, min(LEO, maxOffset))": a read makes progress
\* whatever its budget, starts at the record asked for, returns offsets in
\* order, below the bound, and all of them when the budget covers them.
ReadSound ==
  open => \A r \in Reads :
    LET upto == Min({r.max, LEO})
        need == Bytes(r.from, upto)
    IN  \A bytes \in Budgets \cup {need} :
          LET out == Read(r.from, bytes, r.max)
          IN  /\ out # <<>> /\ Head(out) = r.from
              /\ \A k \in 1..Len(out) :
                   out[k] < upto /\ (k > 1 => out[k - 1] < out[k])
              /\ bytes >= need => Len(out) = upto - r.from

\* "Read returns records in [from, min(LEO, maxOffset)) totaling up to
\* maxBytes": the records a read returns follow each other, so a consumer that
\* goes on from the last one misses none.
ReadContiguous ==
  open => \A r \in Reads, bytes \in Budgets :
    LET out == Read(r.from, bytes, r.max)
    IN  \A k \in 1..Len(out) : out[k] = r.from + k - 1

\* The segmented log implements the abstract one: appends only extend it,
\* rotation and recovery do not change it, and a power loss takes at most the
\* tail that was not fsynced.
Abs == INSTANCE AbstractLog WITH
         content <- Frames, durable <- synced, Items <- Sizes

AppendOnly == Abs!Spec
=============================================================================

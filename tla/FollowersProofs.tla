-------------------------- MODULE FollowersProofs --------------------------
(***************************************************************************)
(* The follow loops, for any number of loops that have not returned and    *)
(* any length of the logs: records stay aligned with their offsets, at     *)
(* most one loop runs uncancelled, and Close closes the store under none.  *)
(***************************************************************************)
EXTENDS Followers, FiniteSetTheorems, WellFoundedInduction, TLAPS

Places == {"returned", "open", "top", "fetch", "apply", "append"}
Held == 0..(MaxRecords - 1)
LoopStates == [at : Places, cancelled : BOOLEAN, from : Nat, recs : SUBSET Held]

\* The types the actions need of the loops, one loop at a time.
LoopOK(l) ==
  /\ l \in LoopStates
  /\ l.recs # {} => l.at \in {"apply", "append"}
  /\ l.at = "append" => l.recs # {}

Typed ==
  /\ leads \in BOOLEAN
  /\ callers \in [Callers -> {"idle", "sync", "wanted", "unwanted", "gone"}]
  /\ key \in Slots \cup {None}
  /\ loops \in [Slots -> LoopStates]
  /\ \A s \in Slots : LoopOK(loops[s])
  /\ log \in Seq(Held)
  /\ store \in {"none", "open", "closed", "late"}
  /\ closing \in {"no", "stop", "shutdown", "wait", "done"}

\* followCancel's entry is the only loop that is not cancelled: what makes
\* OneFollower inductive.
OnlyKeyRuns == \A s \in Slots : Live(s) /\ ~loops[s].cancelled => s = key

\* A loop started after the store was closed never gets past its top.
EarlyAfterClose ==
  closing = "done" => \A s \in Slots : loops[s].at \in {"returned", "open", "top"}

\* After Close the log is closed, not opened yet or opened late.
StoreClosed == closing = "done" => store # "open"

IndInv == Typed /\ Aligned /\ OnlyKeyRuns /\ EarlyAfterClose /\ StoreClosed

-----------------------------------------------------------------------------
Less == {ss \in Nat \X Nat : ss[1] < ss[2]}

\* Min is the least element of a non-empty set of naturals: the record that
\* followLoop deals with next, and the slot of a new loop.
LEMMA MinIsLeast ==
  ASSUME NEW T, T \subseteq Nat, T # {}
  PROVE  Min(T) \in T /\ \A y \in T : Min(T) <= y
<1>1. IsWellFoundedOn(Less, Nat)
  BY NatLessThanWellFounded, Zenon DEF OpToRel, Less
<1>2. PICK x \in T : \A y \in T : ~(<<y, x>> \in Less)
  BY <1>1, WFMin, Zenon
<1>3. \A u \in Nat, v \in Nat : u < v => <<u, v>> \in Less
  BY DEF Less
<1>4. \A y \in T : x <= y
  <2>1. TAKE y \in T
  <2>2. x \in Nat /\ y \in Nat
    OBVIOUS
  <2>3. ~(y < x)
    BY <1>2, <1>3, <2>2, Zenon
  <2> QED BY <2>2, <2>3
<1> QED BY <1>4, Zenon DEF Min

\* Slots are positive, so None is none of them.
LEMMA SlotsPositive == Slots \subseteq Nat /\ None \notin Slots
  BY FollowersAssumption DEF Slots, None

\* A step leaves the Store alone or opens the log.
StoreMoves == store' \in {store, Opened}

\* The log's place in the Store then has its type, and no closed Store has it open.
LEMMA OpenedOK ==
  ASSUME IndInv, StoreMoves, UNCHANGED closing
  PROVE  store' \in {"none", "open", "closed", "late"} /\ StoreClosed'
<1>1. store \in {"none", "open", "closed", "late"} /\ StoreClosed
  BY DEF IndInv, Typed
<1>2. CASE store # "none"
  BY <1>1, <1>2 DEF StoreMoves, Opened, StoreClosed
<1>3. CASE store = "none" /\ closing = "done"
  BY <1>1, <1>3 DEF StoreMoves, Opened, StoreClosed
<1>4. CASE store = "none" /\ closing # "done"
  BY <1>1, <1>4 DEF StoreMoves, Opened, StoreClosed
<1> QED BY <1>2, <1>3, <1>4

\* What is left to show of a step that moves one loop and nothing else.
LEMMA MoveLoop ==
  ASSUME IndInv, NEW s \in Slots, NEW l,
         LoopOK(l),
         l.at # "returned" => l.cancelled = loops[s].cancelled,
         closing = "done" => l.at \in {"returned", "open", "top"},
         loops[s].at # "returned",
         Continue(s, l), StoreMoves, UNCHANGED <<leads, callers, key, log, closing>>
  PROVE  IndInv'
<1>1. l \in LoopStates /\ loops \in [Slots -> LoopStates]
  BY DEF LoopOK, IndInv, Typed
<1>2. loops' = [loops EXCEPT ![s] = l]
  BY DEF Continue
<1>3. loops' \in [Slots -> LoopStates]
  BY <1>1, <1>2
<1>4. \A t \in Slots : loops'[t] = IF t = s THEN l ELSE loops[t]
  BY <1>1, <1>2
<1>5. Typed'
  BY <1>3, <1>4, OpenedOK DEF IndInv, Typed, LoopOK
<1>6. Aligned'
  BY DEF IndInv, Aligned, LEO
<1>7. OnlyKeyRuns'
  BY <1>4 DEF IndInv, OnlyKeyRuns, Live
<1>8. EarlyAfterClose'
  BY <1>4 DEF IndInv, EarlyAfterClose
<1> QED BY <1>5, <1>6, <1>7, <1>8, OpenedOK DEF IndInv

\* Appending the record whose offset is the LEO keeps the log aligned.
LEMMA AppendAligned ==
  ASSUME IndInv, LEO \in Held, log' = Append(log, LEO)
  PROVE  log' \in Seq(Held) /\ Aligned'
<1>1. log \in Seq(Held) /\ LEO = Len(log) /\ LEO \in Nat
  BY DEF IndInv, Typed, LEO
<1>2. log' \in Seq(Held) /\ Len(log') = LEO + 1
  BY <1>1
<1>3. \A i \in 1..(LEO + 1) : log'[i] = IF i = LEO + 1 THEN LEO ELSE log[i]
  BY <1>1
<1>4. \A i \in 1..(LEO + 1) : log'[i] = i - 1
  <2> TAKE i \in 1..(LEO + 1)
  <2>1. CASE i = LEO + 1
    BY <2>1, <1>1, <1>3
  <2>2. CASE i # LEO + 1
    <3>1. i \in 1..LEO
      BY <2>2, <1>1
    <3> QED BY <3>1, <2>2, <1>3 DEF IndInv, Aligned
  <2> QED BY <2>1, <2>2
<1>5. Aligned'
  BY <1>2, <1>4 DEF Aligned, LEO
<1> QED BY <1>2, <1>5

-----------------------------------------------------------------------------
\* Start finds no loop and an empty log.
LEMMA InitInv == ASSUME Init PROVE IndInv
<1>1. Free \in LoopStates /\ LoopOK(Free) /\ Free.at = "returned"
  BY DEF LoopOK, LoopStates, Places, Free
<1>2. loops \in [Slots -> LoopStates] /\ \A s \in Slots : loops[s] = Free
  BY <1>1 DEF Init
<1>3. log \in Seq(Held) /\ LEO = 0
  BY DEF Init, LEO
<1>4. Typed
  BY <1>1, <1>2, <1>3 DEF Init, Typed, Callers
<1>5. Aligned
  BY <1>3 DEF Aligned
<1>6. OnlyKeyRuns /\ EarlyAfterClose /\ StoreClosed
  BY <1>1, <1>2 DEF Init, OnlyKeyRuns, EarlyAfterClose, StoreClosed, Live
<1> QED BY <1>4, <1>5, <1>6 DEF IndInv

\* Metadata changes, the snapshot of syncFollowers, the end of the ticks and
\* fetches that the broker serves leave loops and log alone.
LEMMA CallerInv ==
  ASSUME IndInv,
         TickEnds \/ ServeFetch \/ \E c \in Callers : Begin(c) \/ Snapshot(c)
  PROVE  IndInv'
<1>1. UNCHANGED <<key, loops, log, closing>> /\ StoreMoves
  BY DEF Begin, Snapshot, TickEnds, ServeFetch, StoreMoves
<1>2. store' \in {"none", "open", "closed", "late"} /\ StoreClosed'
  BY <1>1, OpenedOK
<1>3. leads' \in BOOLEAN
      /\ callers' \in [Callers -> {"idle", "sync", "wanted", "unwanted", "gone"}]
  BY DEF IndInv, Typed, Begin, Snapshot, TickEnds, ServeFetch
<1>4. Typed'
  BY <1>1, <1>2, <1>3 DEF IndInv, Typed, LoopOK
<1> QED BY <1>1, <1>2, <1>4 DEF IndInv, Aligned, LEO, OnlyKeyRuns, EarlyAfterClose, Live

\* Cancelling the entry's loop, as Cancel and Close do, whatever becomes of the
\* entry.
LEMMA CancelledLoops ==
  ASSUME IndInv,
         loops' = [s \in Slots |-> IF s = key /\ Live(s)
                                   THEN [loops[s] EXCEPT !.cancelled = TRUE]
                                   ELSE loops[s]]
  PROVE  /\ loops' \in [Slots -> LoopStates]
         /\ \A s \in Slots : LoopOK(loops'[s]) /\ loops'[s].at = loops[s].at
         /\ \A s \in Slots : loops'[s].at = "returned" \/ loops'[s].cancelled
<1>1. \A s \in Slots : loops[s] \in LoopStates /\ LoopOK(loops[s])
  BY DEF IndInv, Typed
<1>2. ASSUME NEW s \in Slots
      PROVE  LoopOK([loops[s] EXCEPT !.cancelled = TRUE])
  BY <1>1 DEF LoopOK, LoopStates
<1>3. \A s \in Slots : loops'[s] \in LoopStates
  BY <1>1, <1>2 DEF LoopOK
<1>4. loops' \in [Slots -> LoopStates]
  BY <1>3
<1>5. ASSUME NEW s \in Slots
      PROVE  LoopOK(loops'[s]) /\ loops'[s].at = loops[s].at
  BY <1>1, <1>2 DEF LoopStates
<1>6. ASSUME NEW s \in Slots
      PROVE  loops'[s].at = "returned" \/ loops'[s].cancelled
  <2>1. CASE s = key /\ Live(s)
    BY <2>1, <1>1 DEF LoopStates
  <2>2. CASE ~(s = key /\ Live(s))
    <3>1. loops'[s] = loops[s]
      BY <2>2
    <3> QED BY <2>2, <3>1, <1>1 DEF IndInv, OnlyKeyRuns, Live, LoopStates
  <2> QED BY <2>1, <2>2
<1> QED BY <1>4, <1>5, <1>6

\* syncFollowers cancels the loop and deletes its entry.
LEMMA CancelInv == ASSUME IndInv, NEW c \in Callers, Cancel(c) PROVE IndInv'
<1>1. /\ loops' \in [Slots -> LoopStates]
      /\ \A s \in Slots : LoopOK(loops'[s]) /\ loops'[s].at = loops[s].at
      /\ \A s \in Slots : loops'[s].at = "returned" \/ loops'[s].cancelled
  BY CancelledLoops DEF Cancel
<1>2. callers' \in [Callers -> {"idle", "sync", "wanted", "unwanted", "gone"}]
  BY DEF IndInv, Typed, Cancel
<1>3. key' = None /\ UNCHANGED <<leads, log, store, closing>>
  BY DEF Cancel
<1>4. Typed'
  BY <1>1, <1>2, <1>3 DEF IndInv, Typed, LoopOK
<1>5. Aligned'
  BY <1>3 DEF IndInv, Aligned, LEO
<1>6. OnlyKeyRuns'
  BY <1>1 DEF OnlyKeyRuns, Live
<1>7. EarlyAfterClose' /\ StoreClosed'
  BY <1>1, <1>3 DEF IndInv, EarlyAfterClose, StoreClosed
<1> QED BY <1>4, <1>5, <1>6, <1>7 DEF IndInv

\* syncFollowers starts a loop only where there is no entry, and so no loop that
\* is not cancelled.
LEMMA LaunchInv == ASSUME IndInv, NEW c \in Callers, Launch(c) PROVE IndInv'
<1>1. callers' \in [Callers -> {"idle", "sync", "wanted", "unwanted", "gone"}]
      /\ UNCHANGED <<leads, log, store, closing>>
  BY DEF IndInv, Typed, Launch
<1>2. Aligned' /\ StoreClosed'
  BY <1>1 DEF IndInv, Aligned, LEO, StoreClosed
<1>3. CASE key # None
  <2>1. UNCHANGED <<key, loops>>
    BY <1>3 DEF Launch
  <2> QED BY <1>1, <1>2, <2>1
          DEF IndInv, Typed, OnlyKeyRuns, EarlyAfterClose, Live, LoopOK
<1>4. CASE key = None
  <2>1. /\ {s \in Slots : ~Live(s)} # {}
        /\ key' = Min({s \in Slots : ~Live(s)})
        /\ loops' = [loops EXCEPT ![key'] = Opening]
    BY <1>4 DEF Launch
  <2>2. key' \in Slots
    BY <2>1, SlotsPositive, MinIsLeast
  <2>3. LoopOK(Opening) /\ Opening \in LoopStates /\ Opening.at = "open"
    BY DEF LoopOK, LoopStates, Places, Opening, Free
  <2>4. loops \in [Slots -> LoopStates]
    BY DEF IndInv, Typed
  <2>5. \A s \in Slots : loops'[s] = IF s = key' THEN Opening ELSE loops[s]
    BY <2>1, <2>2, <2>4
  <2>6. loops' \in [Slots -> LoopStates]
    BY <2>1, <2>3, <2>4
  <2>7. Typed'
    BY <1>1, <2>2, <2>3, <2>5, <2>6 DEF IndInv, Typed, LoopOK
  <2>8. OnlyKeyRuns'
    BY <1>4, <2>2, <2>5, SlotsPositive DEF IndInv, OnlyKeyRuns, Live
  <2>9. EarlyAfterClose'
    BY <1>1, <2>3, <2>5 DEF IndInv, EarlyAfterClose
  <2> QED BY <1>2, <2>7, <2>8, <2>9 DEF IndInv
<1> QED BY <1>3, <1>4

\* A loop that returns is no loop that runs.
LEMMA ReturnInv ==
  ASSUME IndInv, NEW s \in Slots, loops[s].at # "returned", Return(s), StoreMoves,
         UNCHANGED <<leads, callers, key, log, closing>>
  PROVE  IndInv'
<1> DEFINE b == s = key /\ loops[s].cancelled
           l == [Free EXCEPT !.cancelled = b]
<1>1. b \in BOOLEAN
  OBVIOUS
<1> HIDE DEF b
<1>2. LoopOK(l) /\ l.at = "returned"
  BY <1>1 DEF LoopOK, LoopStates, Places, Free
<1>3. Continue(s, l)
  BY DEF Return, Continue, b
<1> HIDE DEF l
<1> QED BY <1>2, <1>3, MoveLoop

\* The steps of a loop before it has a response.
LEMMA QuietStepInv ==
  ASSUME IndInv, NEW s \in Slots, Open(s) \/ Top(s) \/ Fetched(s)
  PROVE  IndInv'
<1> DEFINE l == loops[s]
<1>0. /\ UNCHANGED <<leads, callers, key, log, closing>> /\ StoreMoves
      /\ l.at \in {"open", "top", "fetch"}
  BY DEF Open, Top, Fetched, StoreMoves
<1>1. LoopOK(l) /\ l \in LoopStates /\ l.recs = {}
  BY <1>0 DEF IndInv, Typed, LoopOK
<1>2. l.at = "fetch" => closing # "done"
  BY DEF IndInv, EarlyAfterClose
<1>3. LEO \in Nat
  BY DEF IndInv, Typed, LEO
<1>4. CASE Open(s) \/ Top(s)
  <2>1. CASE Return(s)
    BY <2>1, <1>0, ReturnInv
  <2>2. CASE Continue(s, [l EXCEPT !.at = "top"])
    <3> DEFINE n == [l EXCEPT !.at = "top"]
    <3>1. LoopOK(n) /\ n.at = "top" /\ n.cancelled = l.cancelled
      BY <1>1 DEF LoopOK, LoopStates, Places
    <3> HIDE DEF n
    <3> QED BY <3>1, <2>2, <1>0, MoveLoop DEF n
  <2>3. CASE ~Stopped /\ Continue(s, [l EXCEPT !.at = "fetch", !.from = LEO])
    <3> DEFINE n == [l EXCEPT !.at = "fetch", !.from = LEO]
    <3>1. LoopOK(n) /\ n.at = "fetch" /\ n.cancelled = l.cancelled
      BY <1>1, <1>3 DEF LoopOK, LoopStates, Places
    <3>2. closing # "done"
      BY <2>3 DEF Stopped
    <3> HIDE DEF n
    <3> QED BY <3>1, <3>2, <2>3, <1>0, MoveLoop DEF n
  <2> QED BY <2>1, <2>2, <2>3, <1>4 DEF Open, Top
<1>5. CASE Fetched(s)
  <2>1. ASSUME NEW recs \in SUBSET (l.from..(MaxRecords - 1)),
               Continue(s, [l EXCEPT !.at = "apply", !.from = 0, !.recs = recs])
        PROVE  IndInv'
    <3> DEFINE n == [l EXCEPT !.at = "apply", !.from = 0, !.recs = recs]
    <3>1. recs \subseteq Held
      BY <1>1, FollowersAssumption DEF Held, LoopStates
    <3>2. LoopOK(n) /\ n.at = "apply" /\ n.cancelled = l.cancelled
      BY <3>1, <1>1 DEF LoopOK, LoopStates, Places
    <3>3. closing # "done"
      BY <1>2, <1>5 DEF Fetched
    <3> HIDE DEF n
    <3> QED BY <3>2, <3>3, <2>1, <1>0, MoveLoop DEF n
  <2>2. CASE Continue(s, [l EXCEPT !.at = "top", !.from = 0])
    <3> DEFINE n == [l EXCEPT !.at = "top", !.from = 0]
    <3>1. LoopOK(n) /\ n.at = "top" /\ n.cancelled = l.cancelled
      BY <1>1 DEF LoopOK, LoopStates, Places
    <3> HIDE DEF n
    <3> QED BY <3>1, <2>2, <1>0, MoveLoop DEF n
  <2> QED BY <2>1, <2>2, <1>5 DEF Fetched
<1> QED BY <1>4, <1>5

\* The test of the next record.
LEMMA ApplyInv == ASSUME IndInv, NEW s \in Slots, Apply(s) PROVE IndInv'
<1> DEFINE l == loops[s]
           n == IF l.recs = {} \/ Min(l.recs) > LEO THEN [l EXCEPT !.at = "top", !.recs = {}]
                ELSE IF Min(l.recs) < LEO THEN [l EXCEPT !.recs = @ \ {Min(l.recs)}]
                ELSE [l EXCEPT !.at = "append"]
<1>1. /\ l.at = "apply" /\ Continue(s, n) /\ StoreMoves
      /\ UNCHANGED <<leads, callers, key, log, closing>>
  BY DEF Apply, StoreMoves
<1>2. LoopOK(l) /\ l \in LoopStates
  BY DEF IndInv, Typed
<1>3. LoopOK(n) /\ n.at # "returned" /\ n.cancelled = l.cancelled
  BY <1>1, <1>2 DEF LoopOK, LoopStates, Places
<1>4. closing # "done"
  BY <1>1 DEF IndInv, EarlyAfterClose
<1> HIDE DEF n
<1> QED BY <1>1, <1>3, <1>4, MoveLoop

\* AppendAt appends nothing but the record of the next offset, whichever loop
\* calls it and however old its response is.
LEMMA AppendAtInv == ASSUME IndInv, NEW s \in Slots, AppendAt(s) PROVE IndInv'
<1> DEFINE l == loops[s]
           v == Min(l.recs)
           ok == v = LEO /\ store # "closed"
           n == [l EXCEPT !.at = "apply", !.recs = IF ok THEN @ \ {v} ELSE {}]
<1>1. /\ l.at = "append" /\ loops' = [loops EXCEPT ![s] = n]
      /\ log' = IF ok THEN Append(log, v) ELSE log
      /\ UNCHANGED <<leads, callers, key, store, closing>>
  BY DEF AppendAt, Continue
<1>2. LoopOK(l) /\ l \in LoopStates /\ loops \in [Slots -> LoopStates]
  BY DEF IndInv, Typed
<1>3. v \in Held
  <2>1. l.recs \subseteq Nat /\ l.recs # {} /\ l.recs \subseteq Held
    BY <1>1, <1>2, FollowersAssumption DEF LoopOK, LoopStates, Held
  <2> QED BY <2>1, MinIsLeast
<1>4. log' \in Seq(Held) /\ Aligned'
  <2>1. CASE ok
    BY <2>1, <1>1, <1>3, AppendAligned
  <2>2. CASE ~ok
    BY <2>2, <1>1 DEF IndInv, Typed, Aligned, LEO
  <2> QED BY <2>1, <2>2
<1>5. LoopOK(n) /\ n.at = "apply" /\ n.cancelled = l.cancelled
  <2> HIDE DEF v, ok
  <2> QED BY <1>2 DEF LoopOK, LoopStates, Places
<1>6. n \in LoopStates
  BY <1>5 DEF LoopOK
<1> HIDE DEF n
<1>7. \A t \in Slots : loops'[t] = IF t = s THEN n ELSE loops[t]
  BY <1>1, <1>2
<1>8. loops' \in [Slots -> LoopStates]
  BY <1>1, <1>2, <1>6
<1>9. Typed'
  BY <1>1, <1>4, <1>5, <1>7, <1>8 DEF IndInv, Typed, LoopOK
<1>10. OnlyKeyRuns'
  BY <1>1, <1>5, <1>7 DEF IndInv, OnlyKeyRuns, Live
<1>11. EarlyAfterClose' /\ StoreClosed'
  BY <1>1 DEF IndInv, EarlyAfterClose, StoreClosed
<1> QED BY <1>4, <1>9, <1>10, <1>11 DEF IndInv

\* A produce appends at the LEO.
LEMMA ProduceInv == ASSUME IndInv, Produce PROVE IndInv'
<1>1. LEO \in Held /\ log' = Append(log, LEO)
      /\ UNCHANGED <<leads, callers, key, loops, closing>> /\ StoreMoves
  BY FollowersAssumption DEF IndInv, Typed, Produce, LEO, Held, StoreMoves
<1>2. log' \in Seq(Held) /\ Aligned'
  BY <1>1, AppendAligned
<1>3. store' \in {"none", "open", "closed", "late"} /\ StoreClosed'
  BY <1>1, OpenedOK
<1> QED BY <1>1, <1>2, <1>3
        DEF IndInv, Typed, OnlyKeyRuns, EarlyAfterClose, Live, LoopOK

\* Close waits for every loop before it closes the store.
LEMMA CloseInv == ASSUME IndInv, CloseStep PROVE IndInv'
<1>1. UNCHANGED <<leads, callers, key, log>>
      /\ closing' \in {"no", "stop", "shutdown", "wait", "done"}
      /\ (closing' = "done" => \A s \in Slots : ~Live(s))
      /\ closing # "done"
  BY DEF CloseStep
<1>4. store' \in {"none", "open", "closed", "late"} /\ StoreClosed'
  BY <1>1 DEF CloseStep, Closed, IndInv, Typed, StoreClosed
<1>2. CASE UNCHANGED loops
  BY <1>1, <1>2, <1>4
     DEF IndInv, Typed, Aligned, LEO, OnlyKeyRuns, EarlyAfterClose, Live, LoopOK
<1>3. CASE /\ closing = "stop" /\ closing' = "shutdown"
           /\ loops' = [s \in Slots |-> IF s = key /\ Live(s)
                                        THEN [loops[s] EXCEPT !.cancelled = TRUE]
                                        ELSE loops[s]]
  <2>1. /\ loops' \in [Slots -> LoopStates]
        /\ \A s \in Slots : LoopOK(loops'[s]) /\ loops'[s].at = loops[s].at
        /\ \A s \in Slots : loops'[s].at = "returned" \/ loops'[s].cancelled
    BY <1>3, CancelledLoops
  <2>2. Typed'
    BY <1>1, <1>4, <2>1 DEF IndInv, Typed, LoopOK
  <2>3. Aligned' /\ OnlyKeyRuns' /\ EarlyAfterClose'
    BY <1>1, <1>3, <2>1 DEF IndInv, Aligned, LEO, OnlyKeyRuns, EarlyAfterClose, Live
  <2> QED BY <1>4, <2>2, <2>3 DEF IndInv
<1> QED BY <1>2, <1>3 DEF CloseStep

-----------------------------------------------------------------------------
\* The invariant holds in every reachable state.
LEMMA Inductive == Spec => []IndInv
<1>1. Init => IndInv
  BY InitInv
<1>2. IndInv /\ [Next]_vars => IndInv'
  <2> SUFFICES ASSUME IndInv, [Next]_vars PROVE IndInv'
    OBVIOUS
  <2>1. ASSUME NEW c \in Callers, Begin(c) \/ Snapshot(c) \/ Cancel(c) \/ Launch(c)
        PROVE  IndInv'
    BY <2>1, CallerInv, CancelInv, LaunchInv
  <2>2. ASSUME NEW s \in Slots, LoopStep(s) PROVE IndInv'
    BY <2>2, QuietStepInv, ApplyInv, AppendAtInv DEF LoopStep
  <2>3. CASE Produce \/ TickEnds \/ ServeFetch
    BY <2>3, ProduceInv, CallerInv
  <2>4. CASE CloseStep
    BY <2>4, CloseInv
  <2>5. CASE UNCHANGED vars
    BY <2>5 DEF vars, IndInv, Typed, Aligned, LEO, OnlyKeyRuns, EarlyAfterClose,
                StoreClosed, Live, LoopOK
  <2> QED BY <2>1, <2>2, <2>3, <2>4, <2>5 DEF Next
<1> QED BY <1>1, <1>2, PTL DEF Spec

\* Every variable keeps its type, and a follow loop holds fetched records only
\* between a response and the end of its loop over them.
THEOREM FollowersTypes == Spec => []TypeOK
<1>1. IndInv => TypeOK
  BY DEF IndInv, Typed, TypeOK, LoopOK, LoopStates, Places, Held
<1> QED BY <1>1, Inductive, PTL

\* AppendAt's second test of the offset, under the log's lock, keeps every record
\* at the offset it carries, however many cancelled loops still append.
THEOREM FollowersAligned == Spec => []Aligned
<1>1. IndInv => Aligned
  BY DEF IndInv
<1> QED BY <1>1, Inductive, PTL

\* syncFollowers never has two loops running that are not cancelled, however its
\* callers cross between the snapshot and followMu.
THEOREM AtMostOneFollower == Spec => []OneFollower
<1>1. ASSUME IndInv PROVE OneFollower
  <2> DEFINE R == {s \in Slots : Live(s) /\ ~loops[s].cancelled}
  <2>1. R \subseteq {key}
    BY <1>1 DEF IndInv, OnlyKeyRuns
  <2>2. IsFiniteSet({key}) /\ Cardinality({key}) = 1
    BY FS_Singleton
  <2>3. IsFiniteSet(R) /\ Cardinality(R) <= Cardinality({key})
    BY <2>1, <2>2, FS_Subset
  <2> QED BY <2>2, <2>3 DEF OneFollower
<1>2. IndInv => OneFollower
  BY <1>1
<1> QED BY <1>2, Inductive, PTL

\* Close closes the store under no follow loop, and none that starts later fetches
\* or appends; what still grows is a log that a produce handler opens afterwards.
THEOREM NothingAfterClose == Spec => QuietAfterClose
<1> DEFINE Quiet == /\ \A s \in Slots : loops[s].at \notin {"fetch", "apply", "append"}
                    /\ log' = log \/ store' = "late"
<1>1. ASSUME IndInv, Next, closing = "done" PROVE Quiet
  <2>1. \A s \in Slots : loops[s].at \in {"returned", "open", "top"}
    BY <1>1 DEF IndInv, EarlyAfterClose
  <2>2. CASE Produce
    <3>1. store \in {"none", "late"}
      BY <1>1, <2>2 DEF IndInv, Typed, StoreClosed, Produce
    <3>2. store' = "late"
      BY <1>1, <2>2, <3>1 DEF Produce, Opened
    <3> QED BY <2>1, <3>2
  <2>3. CASE ~Produce
    <3>1. log' = log
      BY <1>1, <2>1, <2>3
         DEF Next, Begin, Snapshot, Cancel, Launch, TickEnds, ServeFetch, LoopStep, Open,
             Top, Fetched, Apply, AppendAt, CloseStep
    <3> QED BY <2>1, <3>1
  <2> QED BY <2>2, <2>3
<1>2. IndInv /\ [Next]_vars => [closing = "done" => Quiet]_vars
  BY <1>1 DEF vars
<1> QED BY <1>2, Inductive, PTL DEF Spec, QuietAfterClose
=============================================================================

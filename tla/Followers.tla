----------------------------- MODULE Followers -----------------------------
(***************************************************************************)
(* The follow loops of one broker for one of its partitions: syncFollowers *)
(* starts and cancels them from the tick, from metadata pushes and from    *)
(* Start, all at the same time; a loop that was cancelled may still be in  *)
(* the middle of a fetch when its successor starts; and Close must end     *)
(* them before it closes the store.                                        *)
(*                                                                         *)
(* The broker and one peer lead in turns.  A record is its offset, so the  *)
(* log is the sequence of the offsets its records carry.  High watermarks  *)
(* and acks are the subject of Replication.                                *)
(***************************************************************************)
EXTENDS Naturals, Sequences, FiniteSetsExt

CONSTANTS
  MaxRecords,   \* bound: records in the peer's log, and in this broker's
  MaxLoops      \* bound: follow loops that have not returned at the same time

ASSUME FollowersAssumption == MaxRecords \in Nat /\ MaxLoops \in Nat \ {0}

VARIABLES
  leads,     \* this broker's metadata names it as the leader
  callers,   \* callers[c]: where c is in syncFollowers
  key,       \* followCancel's entry: a slot of loops, or None
  loops,     \* the follow loops
  log,       \* the offsets of the records in the log
  store,     \* the log's place in the Store: not opened yet, open, closed by
             \* Close, or opened after that
  closing    \* how far Close has come

vars == <<leads, callers, key, loops, log, store, closing>>

\* The ticker's goroutine; Start, and after it the push handlers one at a time.
Callers == {"tick", "push"}
Slots == 1..MaxLoops
None == 0

\* A loop's place, whether its context is cancelled, the LEO it asked from and
\* the records of the response it has not dealt with.
Free == [at |-> "returned", cancelled |-> FALSE, from |-> 0, recs |-> {}]
Opening == [Free EXCEPT !.at = "open"]

LEO == Len(log)
Live(s) == loops[s].at # "returned"
Stopped == closing # "no"

\* Store.Open: the log that is in the map, closed or not, or else a new one;
\* nothing in the Store says that it was closed.
Opened == CASE store # "none"    -> store
            [] closing = "done"  -> "late"
            [] OTHER             -> "open"

Init ==
  /\ leads \in BOOLEAN
  /\ callers = [c \in Callers |-> IF c = "push" THEN "sync" ELSE "idle"]
  /\ key = None
  /\ loops = [s \in Slots |-> Free]
  /\ log = <<>>
  /\ store \in {"none", "open"}
  /\ closing = "no"

-----------------------------------------------------------------------------
(* Metadata changes and syncFollowers *)

\* controllerTick or applyTopics may change the leader, and syncFollowers
\* follows; before that a tick recomputes the high watermark of a partition that
\* the broker leads, which opens its log.  The select of the ticker's goroutine
\* may choose a tick although stop is closed; pushes come until Shutdown is done.
Begin(c) ==
  /\ callers[c] = "idle"
  /\ c = "push" => closing \in {"no", "stop", "shutdown"}
  /\ leads' \in BOOLEAN
  /\ store' = IF c = "tick" /\ leads' THEN Opened ELSE store
  /\ callers' = [callers EXCEPT ![c] = "sync"]
  /\ UNCHANGED <<key, loops, log, closing>>

\* The select chooses stop.
TickEnds ==
  /\ callers["tick"] = "idle" /\ Stopped
  /\ callers' = [callers EXCEPT !["tick"] = "gone"]
  /\ UNCHANGED <<leads, key, loops, log, store, closing>>

\* snapshotTopics: whether a loop is wanted is read before followMu is taken.
Snapshot(c) ==
  /\ callers[c] = "sync"
  /\ callers' = [callers EXCEPT ![c] = IF leads THEN "unwanted" ELSE "wanted"]
  /\ UNCHANGED <<leads, key, loops, log, store, closing>>

\* Mutants: the loop is forgotten but not cancelled; it is cancelled but its
\* entry stays.
CancelForgets(c) ==
  /\ callers[c] = "unwanted"
  /\ key' = None
  /\ callers' = [callers EXCEPT ![c] = "idle"]
  /\ UNCHANGED <<leads, loops, log, store, closing>>

CancelKeepsKey(c) ==
  /\ callers[c] = "unwanted"
  /\ loops' = [s \in Slots |-> IF s = key /\ Live(s)
                               THEN [loops[s] EXCEPT !.cancelled = TRUE]
                               ELSE loops[s]]
  /\ callers' = [callers EXCEPT ![c] = "idle"]
  /\ UNCHANGED <<leads, key, log, store, closing>>

\* The rest of syncFollowers when no loop is wanted: cancel it, delete its entry.
Cancel(c) ==
  /\ callers[c] = "unwanted"
  /\ loops' = [s \in Slots |-> IF s = key /\ Live(s)
                               THEN [loops[s] EXCEPT !.cancelled = TRUE]
                               ELSE loops[s]]
  /\ key' = None
  /\ callers' = [callers EXCEPT ![c] = "idle"]
  /\ UNCHANGED <<leads, log, store, closing>>

\* The rest when one is wanted: nothing if there is an entry, whether or not its
\* loop still runs; else a new loop.
Launch(c) ==
  /\ callers[c] = "wanted"
  /\ IF key # None THEN UNCHANGED <<key, loops>>
     ELSE /\ \E s \in Slots : ~Live(s)
          /\ key' = Min({s \in Slots : ~Live(s)})
          /\ loops' = [loops EXCEPT ![key'] = Opening]
  /\ callers' = [callers EXCEPT ![c] = "idle"]
  /\ UNCHANGED <<leads, log, store, closing>>

-----------------------------------------------------------------------------
(* followLoop *)

\* The loop returns.  Its entry of followCancel, if it has one, stays.
Return(s) ==
  loops' = [loops EXCEPT ![s] = [Free EXCEPT !.cancelled =
                                   s = key /\ loops[s].cancelled]]

Continue(s, l) == loops' = [loops EXCEPT ![s] = l]

\* store.Open, which may fail.
Open(s) ==
  /\ loops[s].at = "open"
  /\ \/ Continue(s, [loops[s] EXCEPT !.at = "top"]) /\ store' = Opened
     \/ Return(s) /\ UNCHANGED store
  /\ UNCHANGED <<leads, callers, key, log, closing>>

\* The top of the loop: return when cancelled, stopped or leader; else send a
\* ReplicaFetch from the LEO.
Top(s) ==
  /\ loops[s].at = "top"
  /\ IF loops[s].cancelled \/ Stopped \/ leads THEN Return(s)
     ELSE Continue(s, [loops[s] EXCEPT !.at = "fetch", !.from = LEO])
  /\ UNCHANGED <<leads, callers, key, log, store, closing>>

\* The answer: records from the offset asked for on, maybe with a gap (the
\* peer's Read may leave some out); or an error or a timeout.
Fetched(s) ==
  /\ loops[s].at = "fetch"
  /\ \/ \E recs \in SUBSET (loops[s].from..(MaxRecords - 1)) :
          /\ recs # {} => loops[s].from \in recs
          /\ Continue(s, [loops[s] EXCEPT !.at = "apply", !.from = 0, !.recs = recs])
     \/ Continue(s, [loops[s] EXCEPT !.at = "top", !.from = 0])
  /\ UNCHANGED <<leads, callers, key, log, store, closing>>

\* Mutant: the records after a gap are kept for the next round.
ApplyKeepsRest(s) ==
  LET l == loops[s]
      first == Min(l.recs)
  IN  /\ l.at = "apply"
      /\ Continue(s, IF l.recs = {} \/ first > LEO THEN [l EXCEPT !.at = "top"]
                     ELSE IF first < LEO THEN [l EXCEPT !.recs = @ \ {first}]
                     ELSE [l EXCEPT !.at = "append"])
      /\ UNCHANGED <<leads, callers, key, log, store, closing>>

\* The test of the next record: skip one below the LEO, end at a gap.  After the
\* last the loop sets its high watermark, sends its ack and starts over.
Apply(s) ==
  LET l == loops[s]
      first == Min(l.recs)
  IN  /\ l.at = "apply"
      /\ Continue(s, IF l.recs = {} \/ first > LEO
                     THEN [l EXCEPT !.at = "top", !.recs = {}]
                     ELSE IF first < LEO THEN [l EXCEPT !.recs = @ \ {first}]
                     ELSE [l EXCEPT !.at = "append"])
      /\ UNCHANGED <<leads, callers, key, log, store, closing>>

\* Mutant: AppendAt trusts the caller's test of the offset.
AppendAtUnchecked(s) ==
  LET l == loops[s]
  IN  /\ l.at = "append"
      /\ log' = Append(log, Min(l.recs))
      /\ Continue(s, [l EXCEPT !.at = "apply", !.recs = @ \ {Min(l.recs)}])
      /\ UNCHANGED <<leads, callers, key, store, closing>>

\* Log.AppendAt, which tests the offset again under the log's lock and cannot
\* write to a closed file; its error ends the loop over the records.
AppendAt(s) ==
  LET l == loops[s]
      ok == Min(l.recs) = LEO /\ store # "closed"
  IN  /\ l.at = "append"
      /\ log' = IF ok THEN Append(log, Min(l.recs)) ELSE log
      /\ Continue(s, [l EXCEPT !.at = "apply",
                               !.recs = IF ok THEN @ \ {Min(l.recs)} ELSE {}])
      /\ UNCHANGED <<leads, callers, key, store, closing>>

LoopStep(s) == Open(s) \/ Top(s) \/ Fetched(s) \/ Apply(s) \/ AppendAt(s)

-----------------------------------------------------------------------------
(* Produces and Close *)

\* A record of a produce that passed the leader check: Store.Open and Log.Append,
\* which fails on a closed file.  Handlers wait for high watermarks longer than
\* Shutdown waits for handlers, and go on with the next record after Close.
Produce ==
  /\ leads /\ LEO < MaxRecords /\ store # "closed"
  /\ store' = Opened
  /\ log' = Append(log, LEO)
  /\ UNCHANGED <<leads, callers, key, loops, closing>>

\* serveFetch, for consumers and replicas, opens the log of a partition that the
\* broker leads.
ServeFetch ==
  /\ leads
  /\ store' = Opened
  /\ UNCHANGED <<leads, callers, key, loops, log, closing>>

\* Store.Close closes the log if it is open.
Closed == IF store = "open" THEN "closed" ELSE store

\* Mutants: Close does not wait for the follow loops; it waits until they have
\* no entry left.
CloseStepNoWait ==
  /\ \/ closing = "no" /\ closing' = "stop" /\ UNCHANGED store
     \/ closing = "stop" /\ closing' = "shutdown" /\ UNCHANGED store
     \/ closing = "shutdown" /\ closing' = "wait" /\ UNCHANGED store
     \/ /\ closing = "wait" /\ closing' = "done" /\ store' = Closed
        /\ callers["tick"] = "gone"
  /\ UNCHANGED <<leads, callers, key, loops, log>>

CloseStepNoEntry ==
  /\ \/ closing = "no" /\ closing' = "stop" /\ UNCHANGED store
     \/ closing = "stop" /\ closing' = "shutdown" /\ UNCHANGED store
     \/ closing = "shutdown" /\ closing' = "wait" /\ UNCHANGED store
     \/ /\ closing = "wait" /\ closing' = "done" /\ store' = Closed /\ key = None
        /\ callers["tick"] = "gone" /\ \A s \in Slots : ~Live(s)
  /\ UNCHANGED <<leads, callers, key, loops, log>>

\* Close: close(stop); cancel the loops under followMu; Shutdown, which waits
\* for the handlers but not for ever; wait for the goroutines; close the store.
CloseStep ==
  /\ \/ closing = "no" /\ closing' = "stop" /\ UNCHANGED <<loops, store>>
     \/ /\ closing = "stop" /\ closing' = "shutdown" /\ UNCHANGED store
        /\ loops' = [s \in Slots |-> IF s = key /\ Live(s)
                                     THEN [loops[s] EXCEPT !.cancelled = TRUE]
                                     ELSE loops[s]]
     \/ closing = "shutdown" /\ closing' = "wait" /\ UNCHANGED <<loops, store>>
     \/ /\ closing = "wait" /\ closing' = "done" /\ UNCHANGED loops
        /\ callers["tick"] = "gone" /\ \A s \in Slots : ~Live(s)
        /\ store' = Closed
  /\ UNCHANGED <<leads, callers, key, log>>

Next ==
  \/ \E c \in Callers : Begin(c) \/ Snapshot(c) \/ Cancel(c) \/ Launch(c)
  \/ \E s \in Slots : LoopStep(s)
  \/ TickEnds \/ Produce \/ ServeFetch \/ CloseStep

Spec == Init /\ [][Next]_vars

\* The ticker ticks, goroutines go on, calls return or time out, a select does not
\* choose ticks for ever when stop is closed, and a Close that has begun is
\* carried through.
FairSpec ==
  /\ Spec
  /\ WF_vars(Begin("tick")) /\ SF_vars(TickEnds)
  /\ \A c \in Callers : WF_vars(Snapshot(c) \/ Cancel(c) \/ Launch(c))
  /\ \A s \in Slots : WF_vars(LoopStep(s))
  /\ WF_vars(Stopped /\ CloseStep)

-----------------------------------------------------------------------------
(* Properties *)

\* The entry's loop runs uncancelled; the entry's loop has returned by itself.
Following == key # None /\ Live(key) /\ ~loops[key].cancelled
Stranded == key # None /\ ~Live(key) /\ ~loops[key].cancelled

\* Every variable has its type; a loop holds records only while it deals with a
\* response.
TypeOK ==
  /\ leads \in BOOLEAN
  /\ callers \in [Callers -> {"idle", "sync", "wanted", "unwanted", "gone"}]
  /\ key \in Slots \cup {None}
  /\ \A s \in Slots :
       /\ loops[s].at \in {"returned", "open", "top", "fetch", "apply", "append"}
       /\ loops[s].recs # {} => loops[s].at \in {"apply", "append"}
       /\ loops[s].at = "append" => loops[s].recs # {}
  /\ log \in Seq(0..(MaxRecords - 1))
  /\ store \in {"none", "open", "closed", "late"}
  /\ closing \in {"no", "stop", "shutdown", "wait", "done"}

\* Every record lies at the offset it carries, although a cancelled loop, its
\* successor and produces append to the same log at the same time, each from
\* what it saw of the log before.
Aligned == \A i \in 1..LEO : log[i] = i - 1

\* However ticks, pushes and Start's own syncFollowers cross, at most one loop
\* is not cancelled: the others end when they next look at their context.
OneFollower ==
  Cardinality({s \in Slots : Live(s) /\ ~loops[s].cancelled}) <= 1

\* The store is closed under no loop: none fetches or appends from then on, not
\* even one that a push handler which outlived Shutdown's timeout has started.
\* The log grows after that only if it is opened after it, by a produce handler
\* that outlived the timeout, in a Store that does not know that it was closed.
QuietAfterClose ==
  [][closing = "done" =>
       /\ \A s \in Slots : loops[s].at \notin {"fetch", "apply", "append"}
       /\ log' = log \/ store' = "late"]_vars

\* A Close that has begun ends, wherever the loops and the callers are.
CloseEnds == (closing = "stop") ~> (closing = "done")

\* A broker that stays a follower has a loop that runs, unless its entry is one
\* of a loop that returned by itself (it saw leadership come and go again, or
\* could not open the log), which syncFollowers takes for one that runs.
FollowsOrStranded ==
  <>[](~leads /\ ~Stopped) => <>[](Following \/ Stranded)
=============================================================================

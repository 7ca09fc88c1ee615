---------------------------- MODULE Replication ----------------------------
(***************************************************************************)
(* One partition of a logship cluster: leaders that accept produces,       *)
(* followers that pull and acknowledge, a controller that moves the        *)
(* leadership, metadata pushed between brokers, and brokers that crash and *)
(* restart (broker.go, replica.go, metadata.go, handlers.go, cluster.go).  *)
(*                                                                         *)
(* Records are the numbers 1..produced in the order in which leaders       *)
(* append them, so two records are never equal; offset o of a log is its   *)
(* element o + 1.  Log appends reach the file before the append returns,   *)
(* so a killed process loses nothing (power loss is the subject of         *)
(* CommitLog), and topics.json is rewritten with every metadata change, so *)
(* meta survives a crash.                                                  *)
(***************************************************************************)
EXTENDS PartitionMeta

CONSTANTS
  MaxRecords,     \* bound: records produced
  MaxCrashes,     \* bound: broker crashes
  MaxPushes,      \* bound: metadata pushes in flight
  MaxAcks,        \* bound: replica acks in flight
  MaxCalls,       \* bound: recomputations interrupted at the same time
  AckModes,       \* acks of the produce requests: a set of "1" and "all"
  Killable,       \* the brokers that may crash
  CanRestart,     \* TRUE when a crashed broker may come back
  MaxFaults       \* bound: network faults between live brokers

ASSUME BoundsAssumption ==
  /\ MaxRecords \in Nat /\ MaxCrashes \in Nat
  /\ MaxPushes \in Nat /\ MaxAcks \in Nat /\ MaxCalls \in Nat
  /\ AckModes \subseteq {"1", "all"}
  /\ Killable \subseteq Brokers
  /\ CanRestart \in BOOLEAN /\ MaxFaults \in Nat

VARIABLES
  up,          \* up[b]: the process of broker b runs
  alive,       \* alive[b]: the brokers b heard from within the session timeout
  meta,        \* meta[b]: b's copy of the partition's metadata (topics.json)
  bcast,       \* bcast[b]: a broadcastMetadata of b has not taken its snapshot
  pushes,      \* metadata snapshots in flight
  log,         \* log[b]: the records of b's log
  hw,          \* hw[b]: b's high watermark, in memory only
  replicaLEO,  \* replicaLEO[b][r]: LEO of r's last recent ack at b, or NoAck
  fetch,       \* fetch[b]: replica fetch response b's follow loop is applying
  acks,        \* replica acks in flight
  admitted,    \* admitted[b]: a produce passed b's leader check
  calls,       \* interrupted calls of recomputeHW and maybeSoloHW
  waiting,     \* acks=all produces blocked in WaitHighWatermark
  produced,    \* number of records produced so far
  crashes,     \* number of crashes so far
  faults       \* number of network faults so far

vars == <<up, alive, meta, bcast, pushes, log, hw, replicaLEO, fetch, acks,
          admitted, calls, waiting, produced, crashes, faults>>

Records == 1..MaxRecords
Offsets == 0..MaxRecords
Pushes == [to : Brokers, meta : Metas]
Acks == [from : Brokers, to : Brokers, leo : Offsets]
Waiters == [broker : Brokers, off : Offsets]
Calls == [broker : Brokers, then : {"tick", "ack", "solo", "wait"},
          off : Offsets, step : {"lock", "set", "solo", "soloset"},
          isr : SUBSET ReplicaSet, hw : Offsets, changed : BOOLEAN]
Fetches == [src : Brokers \cup {0}, off : Offsets, recs : Seq(Records),
            hw : Offsets]

NoFetch == [src |-> 0, off |-> 0, recs |-> <<>>, hw |-> 0]

LEO(b) == Len(log[b])

Init ==
  /\ up = [b \in Brokers |-> TRUE]
  /\ alive = [b \in Brokers |-> Brokers]
  /\ meta = [b \in Brokers |-> [leader |-> Replicas[1], isr |-> {Replicas[1]}]]
  /\ bcast = [b \in Brokers |-> FALSE]
  /\ pushes = {}
  /\ log = [b \in Brokers |-> <<>>]
  /\ hw = [b \in Brokers |-> 0]
  /\ replicaLEO = [b \in Brokers |-> [r \in Brokers |-> NoAck]]
  /\ fetch = [b \in Brokers |-> NoFetch]
  /\ acks = {}
  /\ admitted = [b \in Brokers |-> FALSE]
  /\ calls = {}
  /\ waiting = {}
  /\ produced = 0
  /\ crashes = 0
  /\ faults = 0

-----------------------------------------------------------------------------
\* Mutant: no clamp to the log end.
SetHighWatermarkUnclamped(cur, h, leo) == IF h > cur THEN h ELSE cur

\* Log.SetHighWatermark: clamped to the log end, and never lowered.
SetHighWatermark(cur, h, leo) ==
  LET c == IF h > leo THEN leo ELSE h
  IN  IF c > cur THEN c ELSE cur

(***************************************************************************)
(* recomputeHW runs on the goroutines of the tick, of ack handlers and of  *)
(* produces.  It copies the metadata; computes the ISR and the candidate   *)
(* and writes the ISR, under b.mu; and then sets the high watermark.  A    *)
(* produce goes on to maybeSoloHW ("solo", acks=1), which reads the ISR    *)
(* and then sets the high watermark, or to WaitHighWatermark ("wait",      *)
(* acks=all).  A call runs through all of this in one step, or is          *)
(* interrupted: then its frame is in calls and every lock section is a     *)
(* step of its own.                                                        *)
(***************************************************************************)
RecomputedMeta(b, m, acked) ==
  IF m.leader = b THEN [m EXCEPT !.isr = ComputeISR(b, alive[b], acked)] ELSE m

RecomputedHW(b, m, leo, acked) ==
  IF m.leader = b
  THEN SetHighWatermark(hw[b],
         ComputeHW(b, leo, acked, ComputeISR(b, alive[b], acked)), leo)
  ELSE hw[b]

Waits(b, then, off, h) ==
  IF then = "wait" /\ h <= off THEN {[broker |-> b, off |-> off]} ELSE {}

\* A call of recomputeHW at b by a caller that has metadata m, a log of length
\* leo and the acks acked in front of it, and asks for a broadcast if bc.
Recompute(b, m, leo, acked, then, off, bc) ==
  LET m2 == RecomputedMeta(b, m, acked)
      h  == RecomputedHW(b, m, leo, acked)
  IN  /\ meta' = [meta EXCEPT ![b] = m2]
      /\ bcast' = [bcast EXCEPT ![b] = @ \/ bc \/ m2 # m]
      /\ hw' = [hw EXCEPT ![b] = IF then = "solo" /\ m2.isr = {b}
                                 THEN SetHighWatermark(h, leo, leo) ELSE h]
      /\ waiting' = waiting \cup Waits(b, then, off, h)
      /\ UNCHANGED calls

\* The same call, interrupted after its first look at the metadata: the copy of
\* the ISR it has is that of m.
Interrupt(b, m, then, off, bc) ==
  /\ m.leader = b \/ then = "solo"
  /\ Cardinality(calls) < MaxCalls
  /\ calls' = calls \cup
       {[broker |-> b, then |-> then, off |-> off,
         step |-> IF m.leader = b THEN "lock" ELSE "solo",
         isr |-> IF m.leader = b THEN m.isr ELSE {}, hw |-> 0,
         changed |-> FALSE]}
  /\ meta' = [meta EXCEPT ![b] = m]
  /\ bcast' = [bcast EXCEPT ![b] = @ \/ bc]
  /\ UNCHANGED <<hw, waiting>>

Becomes(c, d) == calls' = (calls \ {c}) \cup {d}

\* Under b.mu: compute the ISR and the candidate; write the ISR, whoever leads
\* by now, if it differs from the one that was read.
RecomputeLock(c) ==
  LET b   == c.broker
      isr == ComputeISR(b, alive[b], replicaLEO[b])
  IN  /\ c.step = "lock"
      /\ meta' = IF isr # c.isr THEN [meta EXCEPT ![b].isr = isr] ELSE meta
      /\ Becomes(c, [c EXCEPT !.step = "set", !.isr = isr,
                              !.hw = ComputeHW(b, LEO(b), replicaLEO[b], isr),
                              !.changed = isr # c.isr])
      /\ UNCHANGED <<up, alive, bcast, pushes, log, hw, replicaLEO, fetch, acks,
                     admitted, waiting, produced, crashes, faults>>

\* After the unlock: SetHighWatermark, then broadcast a change of the ISR.
RecomputeSet(c) ==
  LET b == c.broker
      h == SetHighWatermark(hw[b], c.hw, LEO(b))
  IN  /\ c.step = "set"
      /\ hw' = [hw EXCEPT ![b] = h]
      /\ bcast' = [bcast EXCEPT ![b] = @ \/ c.changed]
      /\ IF c.then = "solo"
         THEN Becomes(c, [c EXCEPT !.step = "solo", !.isr = {}, !.hw = 0,
                                   !.changed = FALSE])
         ELSE calls' = calls \ {c}
      /\ waiting' = waiting \cup Waits(b, c.then, c.off, h)
      /\ UNCHANGED <<up, alive, meta, pushes, log, replicaLEO, fetch, acks,
                     admitted, produced, crashes, faults>>

\* maybeSoloHW: the ISR is read, and a broker alone in it sets its high
\* watermark to a log end it has had since.
SoloRead(c) ==
  LET b == c.broker
  IN  /\ c.step = "solo"
      /\ IF meta[b].isr = {b}
         THEN Becomes(c, [c EXCEPT !.step = "soloset", !.isr = {b},
                                   !.hw = LEO(b)])
         ELSE calls' = calls \ {c}
      /\ UNCHANGED <<up, alive, meta, bcast, pushes, log, hw, replicaLEO, fetch,
                     acks, admitted, waiting, produced, crashes, faults>>

SoloSet(c) ==
  LET b == c.broker
  IN  /\ c.step = "soloset"
      /\ \E h \in c.hw..LEO(b) :
           hw' = [hw EXCEPT ![b] = SetHighWatermark(@, h, LEO(b))]
      /\ calls' = calls \ {c}
      /\ UNCHANGED <<up, alive, meta, bcast, pushes, log, replicaLEO, fetch,
                     acks, admitted, waiting, produced, crashes, faults>>

CallStep(c) ==
  RecomputeLock(c) \/ RecomputeSet(c) \/ SoloRead(c) \/ SoloSet(c)

-----------------------------------------------------------------------------
(* Membership: heartbeats, session timeouts *)

\* tick of b posts a heartbeat to p; handlePeerHeartbeat at p marks b seen.
Heartbeat(b, p) ==
  /\ up[b] /\ up[p] /\ b # p
  /\ b \notin alive[p]
  /\ alive' = [alive EXCEPT ![p] = @ \cup {b}]
  /\ UNCHANGED <<up, meta, bcast, pushes, log, hw, replicaLEO, fetch, acks,
                 admitted, calls, waiting, produced, crashes, faults>>

\* A call between two brokers that are up fails or is delayed too long.
NetworkFault == faults < MaxFaults /\ faults' = faults + 1

\* IsAlive(p) turns false at b: SessionTimeout passed since p's last heartbeat.
SessionTimeout(b, p) ==
  /\ up[b] /\ b # p
  /\ p \in alive[b]
  /\ \/ ~up[p] /\ UNCHANGED faults
     \/ up[p] /\ NetworkFault
  /\ alive' = [alive EXCEPT ![b] = @ \ {p}]
  /\ UNCHANGED <<up, meta, bcast, pushes, log, hw, replicaLEO, fetch, acks,
                 admitted, calls, waiting, produced, crashes>>

\* ReplicaLagTime passed at b since r's last ack.
LagExpire(b, r) ==
  /\ up[b] /\ replicaLEO[b][r] # NoAck
  /\ replicaLEO' = [replicaLEO EXCEPT ![b][r] = NoAck]
  /\ UNCHANGED <<up, alive, meta, bcast, pushes, log, hw, fetch, acks,
                 admitted, calls, waiting, produced, crashes, faults>>

-----------------------------------------------------------------------------
(* The periodic tick and the metadata it spreads *)

\* Mutant: a tick without recomputeAllHW.
TickNoRecompute(b) ==
  /\ up[b]
  /\ LET ctl == IsController(b, alive[b])
     IN  /\ meta' = [meta EXCEPT ![b] =
                       IF ctl THEN ControllerFix(@, alive[b]) ELSE @]
         /\ bcast' = [bcast EXCEPT ![b] =
                        @ \/ (ctl /\ FixChanges(meta[b], alive[b]))]
  /\ UNCHANGED <<up, alive, pushes, log, hw, replicaLEO, fetch, acks, admitted,
                 calls, waiting, produced, crashes, faults>>

\* tick: a controller repairs the metadata, and a change asks for a broadcast;
\* then recomputeAllHW calls recomputeHW.  The next tick waits for this one.
Tick(b) ==
  LET ctl == IsController(b, alive[b])
      m   == IF ctl THEN ControllerFix(meta[b], alive[b]) ELSE meta[b]
      bc  == ctl /\ FixChanges(meta[b], alive[b])
  IN  /\ up[b]
      /\ \A c \in calls : c.broker = b => c.then # "tick"
      /\ \/ Recompute(b, m, LEO(b), replicaLEO[b], "tick", 0, bc)
         \/ Interrupt(b, m, "tick", 0, bc)
      /\ UNCHANGED <<up, alive, pushes, log, replicaLEO, fetch, acks, admitted,
                     produced, crashes, faults>>

\* broadcastMetadata: snapshot the metadata and post it to every other peer;
\* the post to a peer that is down fails at once.
Broadcast(b) ==
  LET peers == {p \in Brokers \ {b} : up[p]}
  IN  /\ up[b] /\ bcast[b]
      /\ Cardinality(pushes) + Cardinality(peers) <= MaxPushes
      /\ bcast' = [bcast EXCEPT ![b] = FALSE]
      /\ pushes' = pushes \cup [to : peers, meta : {meta[b]}]
      /\ UNCHANGED <<up, alive, meta, log, hw, replicaLEO, fetch, acks,
                     admitted, calls, waiting, produced, crashes, faults>>

\* handleMetadataPush: applyTopics, in whatever order the pushes arrive.
PushDeliver(m) ==
  /\ up[m.to]
  /\ meta' = [meta EXCEPT ![m.to] = ApplyPush(@, m.meta, m.to, alive[m.to])]
  /\ pushes' = pushes \ {m}
  /\ UNCHANGED <<up, alive, bcast, log, hw, replicaLEO, fetch, acks, admitted,
                 calls, waiting, produced, crashes, faults>>

\* PushMetadata returned an error, which broadcastMetadata ignores.
PushLost(m) ==
  /\ NetworkFault
  /\ pushes' = pushes \ {m}
  /\ UNCHANGED <<up, alive, meta, bcast, log, hw, replicaLEO, fetch, acks,
                 admitted, calls, waiting, produced, crashes>>

-----------------------------------------------------------------------------
(* Produce *)

\* Mutant: a produce without the leader check.
ProduceCheckAnyone(b) ==
  /\ up[b] /\ ~admitted[b]
  /\ produced < MaxRecords
  /\ admitted' = [admitted EXCEPT ![b] = TRUE]
  /\ UNCHANGED <<up, alive, meta, bcast, pushes, log, hw, replicaLEO, fetch,
                 acks, calls, waiting, produced, crashes, faults>>

\* produceLocal up to its leader check.
ProduceCheck(b) ==
  /\ up[b] /\ ~admitted[b]
  /\ produced < MaxRecords
  /\ meta[b].leader = b
  /\ admitted' = [admitted EXCEPT ![b] = TRUE]
  /\ UNCHANGED <<up, alive, meta, bcast, pushes, log, hw, replicaLEO, fetch,
                 acks, calls, waiting, produced, crashes, faults>>

\* produceLocal from the append on: recomputeHW, then maybeSoloHW or
\* WaitHighWatermark.  (noteSelfLEO notes the broker's own LEO, which nothing
\* reads.)
ProduceAppend(b, mode) ==
  LET then == IF mode = "all" THEN "wait" ELSE "solo"
  IN  /\ up[b] /\ admitted[b]
      /\ produced < MaxRecords
      /\ log' = [log EXCEPT ![b] = Append(@, produced + 1)]
      /\ \/ Recompute(b, meta[b], LEO(b) + 1, replicaLEO[b], then, LEO(b),
                     FALSE)
         \/ Interrupt(b, meta[b], then, LEO(b), FALSE)
      /\ admitted' = [admitted EXCEPT ![b] = FALSE]
      /\ produced' = produced + 1
      /\ UNCHANGED <<up, alive, pushes, replicaLEO, fetch, acks, crashes,
                     faults>>

\* WaitHighWatermark returns: the high watermark passed the offset, or
\* ProduceTimeout did.
ProduceReturn(w) ==
  /\ hw[w.broker] > w.off
  /\ waiting' = waiting \ {w}
  /\ UNCHANGED <<up, alive, meta, bcast, pushes, log, hw, replicaLEO, fetch,
                 acks, admitted, calls, produced, crashes, faults>>

ProduceTimeout(w) ==
  /\ hw[w.broker] <= w.off
  /\ waiting' = waiting \ {w}
  /\ UNCHANGED <<up, alive, meta, bcast, pushes, log, hw, replicaLEO, fetch,
                 acks, admitted, calls, produced, crashes, faults>>

-----------------------------------------------------------------------------
(* The follow loop *)

\* One ReplicaFetch from b's LEO, answered by the broker b takes for the
\* leader if that broker agrees (serveFetch): n records, cut by max_bytes.
Fetch(b) ==
  LET l == meta[b].leader
      n == IF LEO(l) > LEO(b) THEN LEO(l) - LEO(b) ELSE 0
  IN  /\ up[b] /\ fetch[b] = NoFetch
      /\ b \in ReplicaSet /\ l # b
      /\ up[l] /\ meta[l].leader = l
      /\ \E k \in 0..n :
           /\ n > 0 => k > 0
           /\ fetch' = [fetch EXCEPT ![b] =
                          [src |-> l, off |-> LEO(b), hw |-> hw[l],
                           recs |-> SubSeq(log[l], LEO(b) + 1, LEO(b) + k)]]
      /\ UNCHANGED <<up, alive, meta, bcast, pushes, log, hw, replicaLEO, acks,
                     admitted, calls, waiting, produced, crashes, faults>>

\* Mutant: a record is appended whatever its offset.
ApplyRecordUnchecked(b) ==
  /\ up[b] /\ fetch[b].recs # <<>>
  /\ log' = [log EXCEPT ![b] = Append(@, Head(fetch[b].recs))]
  /\ fetch' = [fetch EXCEPT ![b].off = @ + 1, ![b].recs = Tail(@)]
  /\ UNCHANGED <<up, alive, meta, bcast, pushes, hw, replicaLEO, acks,
                 admitted, calls, waiting, produced, crashes, faults>>

\* The loop over fr.Records: a record below the LEO is skipped, one above it
\* ends the loop, the one at the LEO is appended.
ApplyRecord(b) ==
  LET f == fetch[b]
  IN  /\ up[b] /\ f.recs # <<>>
      /\ log' = IF f.off = LEO(b)
                THEN [log EXCEPT ![b] = Append(@, Head(f.recs))] ELSE log
      /\ fetch' = [fetch EXCEPT ![b] =
                     IF f.off > LEO(b)
                     THEN [f EXCEPT !.recs = <<>>]
                     ELSE [f EXCEPT !.off = @ + 1, !.recs = Tail(@)]]
      /\ UNCHANGED <<up, alive, meta, bcast, pushes, hw, replicaLEO, acks,
                     admitted, calls, waiting, produced, crashes, faults>>

\* Mutant: the ack names the fetched records before they are applied.
FetchDoneEarly(b) ==
  /\ up[b] /\ fetch[b] # NoFetch
  /\ Cardinality(acks) < MaxAcks
  /\ acks' = acks \cup {[from |-> b, to |-> fetch[b].src,
                         leo |-> fetch[b].off + Len(fetch[b].recs)]}
  /\ fetch' = [fetch EXCEPT ![b] = NoFetch]
  /\ UNCHANGED <<up, alive, meta, bcast, pushes, log, hw, replicaLEO, admitted,
                 calls, waiting, produced, crashes, faults>>

\* After the records: take the leader's high watermark and post an ack.
FetchDone(b) ==
  /\ up[b] /\ fetch[b] # NoFetch /\ fetch[b].recs = <<>>
  /\ Cardinality(acks) < MaxAcks
  /\ hw' = [hw EXCEPT ![b] = SetHighWatermark(@, fetch[b].hw, LEO(b))]
  /\ acks' = acks \cup {[from |-> b, to |-> l, leo |-> LEO(b)] :
                         l \in {fetch[b].src} \cap {p \in Brokers : up[p]}}
  /\ fetch' = [fetch EXCEPT ![b] = NoFetch]
  /\ UNCHANGED <<up, alive, meta, bcast, pushes, log, replicaLEO, admitted,
                 calls, waiting, produced, crashes, faults>>

\* handleReplicaAck: note the ack, whoever leads, then recomputeHW.
AckDeliver(a) ==
  LET b     == a.to
      acked == [replicaLEO[b] EXCEPT ![a.from] = a.leo]
  IN  /\ up[b]
      /\ acks' = acks \ {a}
      /\ replicaLEO' = [replicaLEO EXCEPT ![b] = acked]
      /\ \/ Recompute(b, meta[b], LEO(b), acked, "ack", 0, FALSE)
         \/ Interrupt(b, meta[b], "ack", 0, FALSE)
      /\ UNCHANGED <<up, alive, pushes, log, fetch, admitted, produced, crashes,
                     faults>>

AckLost(a) ==
  /\ NetworkFault
  /\ acks' = acks \ {a}
  /\ UNCHANGED <<up, alive, meta, bcast, pushes, log, hw, replicaLEO, fetch,
                 admitted, calls, waiting, produced, crashes>>

-----------------------------------------------------------------------------
(* Crash and restart *)

\* The process is killed: its memory is gone, and so are the calls to it that
\* have not been served.  hw[b] keeps its last value until the restart.
Crash(b) ==
  /\ up[b] /\ b \in Killable
  /\ crashes < MaxCrashes
  /\ crashes' = crashes + 1
  /\ up' = [up EXCEPT ![b] = FALSE]
  /\ alive' = [alive EXCEPT ![b] = {b}]
  /\ bcast' = [bcast EXCEPT ![b] = FALSE]
  /\ pushes' = {m \in pushes : m.to # b}
  /\ replicaLEO' = [replicaLEO EXCEPT ![b] = [r \in Brokers |-> NoAck]]
  /\ fetch' = [fetch EXCEPT ![b] = NoFetch]
  /\ acks' = {a \in acks : a.to # b}
  /\ admitted' = [admitted EXCEPT ![b] = FALSE]
  /\ calls' = {c \in calls : c.broker # b}
  /\ waiting' = {w \in waiting : w.broker # b}
  /\ UNCHANGED <<meta, log, hw, produced, faults>>

\* broker.New: the log and topics.json are read back; for the rest the broker
\* starts anew, alone in its own view, with its high watermark at 0.
Restart(b) ==
  /\ ~up[b] /\ CanRestart
  /\ up' = [up EXCEPT ![b] = TRUE]
  /\ hw' = [hw EXCEPT ![b] = 0]
  /\ UNCHANGED <<alive, meta, bcast, pushes, log, replicaLEO, fetch, acks,
                 admitted, calls, waiting, produced, crashes, faults>>

-----------------------------------------------------------------------------
Next ==
  \/ \E b \in Brokers : \/ Tick(b) \/ Broadcast(b)
                        \/ ProduceCheck(b)
                        \/ \E mode \in AckModes : ProduceAppend(b, mode)
                        \/ Fetch(b) \/ ApplyRecord(b) \/ FetchDone(b)
                        \/ Crash(b) \/ Restart(b)
  \/ \E b, p \in Brokers : \/ Heartbeat(b, p) \/ SessionTimeout(b, p)
                           \/ LagExpire(b, p)
  \/ \E m \in pushes : PushDeliver(m) \/ PushLost(m)
  \/ \E a \in acks : AckDeliver(a) \/ AckLost(a)
  \/ \E c \in calls : CallStep(c)
  \/ \E w \in waiting : ProduceReturn(w) \/ ProduceTimeout(w)

Spec == Init /\ [][Next]_vars
-----------------------------------------------------------------------------
(* Fairness: tickers, timers and calls between live brokers make progress. *)

Fairness ==
  /\ \A b \in Brokers :
       /\ WF_vars(Tick(b)) /\ WF_vars(Broadcast(b))
       /\ WF_vars(\E mode \in AckModes : ProduceAppend(b, mode))
       /\ WF_vars(Fetch(b) \/ ApplyRecord(b) \/ FetchDone(b))
  /\ \A b \in Brokers : \A p \in Brokers \ {b} :
       /\ WF_vars(Heartbeat(b, p))
       /\ WF_vars(~up[p] /\ SessionTimeout(b, p))
       /\ WF_vars(~up[p] /\ LagExpire(b, p))
  /\ WF_vars(\E m \in pushes : PushDeliver(m) \/ PushLost(m))
  /\ WF_vars(\E a \in acks : AckDeliver(a) \/ AckLost(a))
  /\ \A b \in Brokers :
       WF_vars(\E c \in calls : c.broker = b /\ c.then = "tick" /\ CallStep(c))
  /\ WF_vars(\E c \in calls : c.then # "tick" /\ CallStep(c))

FairSpec == Spec /\ Fairness

-----------------------------------------------------------------------------
(* Properties *)

\* Every variable has its type; in particular every broker's metadata names a
\* leader from the replica list and a non-empty ISR of replicas, whatever
\* elections and pushes (controllerTick, applyTopics) are interleaved.
TypeOK ==
  /\ up \in [Brokers -> BOOLEAN]
  /\ alive \in [Brokers -> SUBSET Brokers]
  /\ \A b \in Brokers : b \in alive[b]
  /\ meta \in [Brokers -> Metas]
  /\ bcast \in [Brokers -> BOOLEAN]
  /\ pushes \subseteq Pushes
  /\ log \in [Brokers -> Seq(Records)]
  /\ \A b \in Brokers : LEO(b) <= MaxRecords
  /\ hw \in [Brokers -> Offsets]
  /\ replicaLEO \in [Brokers -> [Brokers -> Offsets \cup {NoAck}]]
  /\ fetch \in [Brokers -> Fetches]
  /\ acks \subseteq Acks
  /\ admitted \in [Brokers -> BOOLEAN]
  /\ calls \subseteq Calls
  /\ \A c \in calls : c.step \in {"lock", "set"} => c.broker \in ReplicaSet
  /\ waiting \subseteq Waiters
  /\ produced \in Offsets
  /\ crashes \in 0..MaxCrashes
  /\ faults \in 0..MaxFaults

\* A record has one offset: wherever it was copied by followers, through
\* leader changes, restarts and produces that race with the follow loop, it
\* sits at the offset its leader gave it, and in no log twice.
OffsetIdentity ==
  \A a, b \in Brokers : \A i \in 1..LEO(a), j \in 1..LEO(b) :
    log[a][i] = log[b][j] => i = j

\* A leader never believes a follower has more than it has: every ack in
\* flight and every LEO in replicaLEO is covered by the follower's log.
AckedLEOReal ==
  /\ \A a \in acks : a.leo <= LEO(a.from)
  /\ \A b, r \in Brokers : replicaLEO[b][r] <= LEO(r)

\* The high watermark never passes the end of the broker's own log, although a
\* follower takes it from a leader whose log is longer (followLoop).
HWWithinLog == \A b \in Brokers : hw[b] <= LEO(b)

\* What the follow loop still has to apply is a copy of its source's log, at
\* the same offsets (serveFetch answers from the log, and no log shrinks).
FetchCopies ==
  \A b \in Brokers :
    LET f == fetch[b]
    IN  /\ f.src = 0 => f.recs = <<>>
        /\ f.src # 0 => \A k \in 1..Len(f.recs) :
             f.off + k <= LEO(f.src) /\ f.recs[k] = log[f.src][f.off + k]

\* Logs hold only records that were produced.
LogsProduced ==
  \A b \in Brokers :
    LEO(b) <= produced /\ \A i \in 1..LEO(b) : log[b][i] <= produced

\* A high watermark that recomputeHW has computed and not yet set is covered by
\* the log of every member of the ISR it was computed for; maybeSoloHW goes on
\* only for a broker that read itself alone.
CallsCovered ==
  \A c \in calls :
    /\ c.step = "set" => \A r \in c.isr : c.hw <= LEO(r)
    /\ c.step = "soloset" => c.isr = {c.broker}

\* The invariant the steps of the system preserve.
IndInv ==
  /\ TypeOK /\ LogsProduced /\ FetchCopies
  /\ OffsetIdentity /\ AckedLEOReal /\ HWWithinLog /\ CallsCovered

\* The ISR for which a step of b computed its high watermark: that of the call
\* it finishes, or the one it has just written or read.
CommitISR(b, isr) ==
  \/ \E c \in calls \ calls' : c.broker = b /\ isr = c.isr
  \/ calls \subseteq calls' /\ isr = meta'[b].isr

\* A leader's high watermark rises only to offsets that every member of the ISR
\* they were computed for holds, although SetHighWatermark comes after the
\* unlock (recomputeHW) or after the ISR was read (maybeSoloHW): meanwhile acks
\* and ticks may have changed the ISR, brokers may have crashed and come back,
\* and the leadership may have moved.
CommitCovered ==
  [][\A b \in Brokers :
       hw'[b] > hw[b] /\ fetch'[b] = fetch[b] =>
         \E isr \in SUBSET ReplicaSet :
           CommitISR(b, isr) /\ \A r \in isr : Len(log'[r]) >= hw'[b]]_vars

\* The followers' logs are prefixes of the log of a leader that never lost
\* its role.
FollowersPrefix ==
  \A b \in Brokers : \A i \in 1..LEO(b) :
    i <= LEO(Replicas[1]) /\ log[b][i] = log[Replicas[1]][i]

\* "The high watermark is the minimum log end of brokers currently in the
\* ISR": every member of a leader's ISR holds every record below its high
\* watermark, and so every record a produce with acks=all was confirmed for.
HWIsMinISR ==
  \A b \in Brokers : up[b] /\ meta[b].leader = b =>
    \A r \in meta[b].isr : hw[b] <= LEO(r)

\* A produce with acks=all at a leader that stays up is not pinned by a
\* follower that died: its offset is committed in the end.
ProduceCommits ==
  \A o \in 0..(MaxRecords - 1) :
    [broker |-> Replicas[1], off |-> o] \in waiting ~> hw[Replicas[1]] > o

\* The lowest broker that stays up ends with a leader that is up, whatever
\* stale or lost pushes and false session timeouts come in between.
Lowest(b) == up[b] /\ \A c \in Brokers : up[c] => b <= c

ControllerRepairs ==
  <>[](\A b \in Brokers : Lowest(b) =>
         (meta[b].leader \in {c \in Brokers : up[c]}
            \/ \A c \in ReplicaSet : ~up[c]))
=============================================================================

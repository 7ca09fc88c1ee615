--------------------------- MODULE ProduceRouting ---------------------------
(***************************************************************************)
(* One produce request on its way through the cluster: the client's        *)
(* retries (client.Produce), the handler that routes and appends record by *)
(* record (handleProduce, produceLocal), and the proxy call of a broker    *)
(* that is not the leader, which is again a client.Produce, so that calls  *)
(* nest.  Brokers go by their own metadata, which may be old and may       *)
(* disagree.  A call that times out goes on at the broker, unheard.        *)
(*                                                                         *)
(* A record is its place in the request.  What follows an append           *)
(* (replicas, high watermark) is in Replication; here a wait for it may    *)
(* fail.                                                                   *)
(***************************************************************************)
EXTENDS Integers, SequencesExt

CONSTANTS
  Brokers,      \* broker ids
  N,            \* number of partitions of the topic
  Keys,         \* record keys
  NoKey,        \* the empty key
  Hash,         \* Hash[k]: Hash32(k) modulo N
  Requests,     \* the requests: key, partition, and the Records list
  Attempts,     \* the attempts of client.Produce (5 in the code)
  MaxHops,      \* bound: nested calls; one more times out
  MaxFaults,    \* bound: calls that time out and waits that fail
  MaxMoves      \* bound: changes in the brokers' metadata

Partitions == 0..(N - 1)

ASSUME RoutingAssumption ==
  /\ Brokers \subseteq Nat \ {0} /\ Brokers # {}
  /\ N \in Nat \ {0} /\ NoKey \notin Keys /\ Hash \in [Keys -> Partitions]
  /\ Attempts \in Nat \ {0} /\ MaxHops \in Nat \ {0}
  /\ MaxFaults \in Nat /\ MaxMoves \in Nat

\* The partition may be any number the JSON holds.
ASSUME RequestsAssumption ==
  LET Record == [key : Keys \cup {NoKey}, partition : Int]
  IN  \A r \in Requests :
        r \in [key : Keys \cup {NoKey}, partition : Int, records : Seq(Record)]

VARIABLES
  request,   \* the request
  view,      \* view[b][q]: the leader of q in b's metadata
  known,     \* the brokers that know the topic
  rr,        \* rr[b]: the round-robin counter of b's Partitioner, modulo N
  logs,      \* logs[b][q]: the log of q at b
  threads,   \* threads[1]: the client's calls; the others: calls that time out left
  reply,     \* what the client was told
  faults,    \* number of timeouts and failed waits so far
  moves      \* number of metadata changes so far

vars == <<request, view, known, rr, logs, threads, reply, faults, moves>>

Threads == 1..(MaxFaults + 1)

\* A call of client.Produce, the broker it has reached and that broker's handler:
\* the next record, the results so far and the leader it proxies to.  A call that
\* has returned an error is at no broker.
Call(b) == [at |-> b, attempt |-> 1, next |-> 1, out |-> <<>>, leader |-> 0]
Nowhere == 0

\* "recs" is what produceLocal iterates over.
Recs == IF request.records = <<>>
        THEN <<[key |-> request.key, partition |-> request.partition]>>
        ELSE request.records

NoReply == [status |-> "none", at |-> Nowhere, out |-> <<>>]
Failed == [NoReply EXCEPT !.status = "error"]

\* The brokers agree at first.  The counters matter to records without a key
\* only.  The client calls the first broker of its list (pick); which one that
\* is makes no difference.
Init ==
  /\ request \in Requests
  /\ \E v \in [Partitions -> Brokers] : view = [b \in Brokers |-> v]
  /\ known \in {Brokers} \cup {Brokers \ {b} : b \in Brokers}
  /\ rr \in [Brokers -> IF \E i \in DOMAIN Recs : Recs[i].key = NoKey
                        THEN Partitions ELSE {0}]
  /\ logs = [b \in Brokers |-> [q \in Partitions |-> <<>>]]
  /\ threads = [t \in Threads |-> IF t = 1 THEN <<Call(Min(Brokers))>> ELSE <<>>]
  /\ reply = NoReply
  /\ faults = 0 /\ moves = 0

-----------------------------------------------------------------------------
(* Routing: produceLocal's choice of the partition *)

Explicit(rec) ==
  IF request.partition > 0 /\ rec.partition = 0 /\ request.key = rec.key
  THEN request.partition ELSE rec.partition

ByPartitioner(rec) ==
  \/ Explicit(rec) <= 0 /\ rec.partition = 0 /\ request.partition <= 0
  \/ Explicit(rec) \notin Partitions

\* Partitioner.Partition at b.
Partition(b, key) == IF key = NoKey THEN rr[b] ELSE Hash[key]

RouteOf(b, rec) == IF ByPartitioner(rec) THEN Partition(b, rec.key) ELSE Explicit(rec)

CountRoute(b, rec) ==
  rr' = IF ByPartitioner(rec) /\ rec.key = NoKey
        THEN [rr EXCEPT ![b] = (@ + 1) % N] ELSE rr

-----------------------------------------------------------------------------
(* Steps of the call on top of a thread's stack *)

Stack(t, s) == threads' = [threads EXCEPT ![t] = s]
Top(t) == Last(threads[t])
WithTop(t, f) == Front(threads[t]) \o <<f>>
Serving(t) == threads[t] # <<>> /\ Top(t).at # Nowhere

\* The call returns an error (not a 409) to the one who made it.
Errs(t) == Stack(t, WithTop(t, [Top(t) EXCEPT !.at = Nowhere]))

Fault == faults < MaxFaults /\ faults' = faults + 1

\* The topic is not known here: 404.
UnknownTopic(t) ==
  /\ Serving(t) /\ Top(t).at \notin known
  /\ Errs(t)
  /\ UNCHANGED <<request, view, known, rr, logs, reply, faults, moves>>

\* Mutant: the records are taken from the last one on.
CurrentFromEnd(f) == Len(Recs) + 1 - f.next

\* The record the handler of f deals with.
Current(f) == f.next

\* Mutant: the offset of a record is the log end after it.
ResultLEO(b, q) == [partition |-> q, offset |-> Len(logs[b][q]) + 1]

\* The result of a record that is appended to q at b.
Result(b, q) == [partition |-> q, offset |-> Len(logs[b][q])]

\* The next record is for this broker: append it, then note the LEO, recompute
\* the high watermark and wait for it if acks is "all"; the wait may time out,
\* which fails the request here (500).
AppendRecord(t, waited) ==
  /\ Serving(t) /\ Top(t).at \in known
  /\ LET f == Top(t)
         b == f.at
         q == RouteOf(b, Recs[Current(f)])
     IN  /\ f.next <= Len(Recs)
         /\ view[b][q] = b
         /\ CountRoute(b, Recs[Current(f)])
         /\ logs' = [logs EXCEPT ![b][q] = Append(@, Current(f))]
         /\ IF waited
            THEN /\ UNCHANGED faults
                 /\ Stack(t, WithTop(t,
                      [f EXCEPT !.next = @ + 1,
                                !.out = Append(@, Result(b, q))]))
            ELSE Fault /\ Errs(t)
  /\ UNCHANGED <<request, view, known, reply, moves>>

\* The next record is for another broker: hand the whole request on, whatever was
\* appended already.
Proxy(t) ==
  /\ Serving(t) /\ Top(t).at \in known
  /\ LET f == Top(t)
         b == f.at
         q == RouteOf(b, Recs[Current(f)])
     IN  /\ f.next <= Len(Recs)
         /\ view[b][q] # b
         /\ CountRoute(b, Recs[Current(f)])
         /\ Stack(t, WithTop(t, [f EXCEPT !.leader = view[b][q]])
                       \o <<IF Len(threads[t]) < MaxHops THEN Call(view[b][q])
                            ELSE [Call(view[b][q]) EXCEPT !.at = Nowhere]>>)
  /\ UNCHANGED <<request, view, known, logs, reply, faults, moves>>

\* Mutant: a broker takes the success of its proxy call for a failure.
SuccessDropped(t) ==
  /\ Serving(t) /\ Top(t).next > Len(Recs)
  /\ IF Len(threads[t]) > 1 THEN Errs(t) /\ UNCHANGED reply
     ELSE /\ Stack(t, <<>>)
          /\ reply' = IF t = 1 THEN [status |-> "ok", at |-> Top(t).at, out |-> Top(t).out]
                      ELSE reply
  /\ UNCHANGED <<request, view, known, rr, logs, faults, moves>>

\* All records are appended: 200, passed on by every broker on the way back.
Success(t) ==
  /\ Serving(t) /\ Top(t).next > Len(Recs)
  /\ Stack(t, <<>>)
  /\ reply' = IF t = 1 THEN [status |-> "ok", at |-> Top(t).at, out |-> Top(t).out]
              ELSE reply
  /\ UNCHANGED <<request, view, known, rr, logs, faults, moves>>

\* Mutants: attempts are not counted; results of the last attempt are kept.
RetryForEver(f) == [Call(f.leader) EXCEPT !.attempt = f.attempt]

RetryKeepsResults(f) ==
  IF f.attempt < Attempts
  THEN [Call(f.leader) EXCEPT !.attempt = f.attempt + 1, !.out = f.out]
  ELSE [f EXCEPT !.at = Nowhere]

\* A 409 naming f.leader reaches the call f: try again there, from the start.
Retry(f) ==
  IF f.attempt < Attempts /\ f.leader # f.at
  THEN [Call(f.leader) EXCEPT !.attempt = f.attempt + 1]
  ELSE [f EXCEPT !.at = Nowhere]

\* A call that returned an error: the broker that made it answers 409, naming the
\* leader it had tried, whatever the error was; the client gives up.
Unwind(t) ==
  /\ threads[t] # <<>> /\ Top(t).at = Nowhere
  /\ LET below == Front(threads[t])
     IN  IF below = <<>>
         THEN Stack(t, <<>>) /\ reply' = IF t = 1 THEN Failed ELSE reply
         ELSE /\ Stack(t, Front(below) \o <<Retry(Last(below))>>)
              /\ UNCHANGED reply
  /\ UNCHANGED <<request, view, known, rr, logs, faults, moves>>

Step(t) ==
  \/ UnknownTopic(t) \/ Proxy(t) \/ Success(t) \/ Unwind(t)
  \/ \E waited \in BOOLEAN : AppendRecord(t, waited)

\* The call at depth d times out or its answer is lost: it returns an error, and
\* what it had started goes on as thread u, with nobody to try again for it;
\* unless the request never reached its broker.  Thread 1 stays the client's.
Timeout(t, d, u, arrived) ==
  /\ Fault
  /\ d <= Len(threads[t]) /\ threads[t][d].at # Nowhere
  /\ u # 1 /\ threads[u] = <<>>
  /\ ~arrived => d = Len(threads[t]) /\ Top(t).next = 1
  /\ LET f == threads[t][d]
         unheard == <<[f EXCEPT !.attempt = Attempts]>>
                      \o SubSeq(threads[t], d + 1, Len(threads[t]))
     IN  threads' = [threads EXCEPT
           ![t] = SubSeq(@, 1, d - 1) \o <<[f EXCEPT !.at = Nowhere]>>,
           ![u] = IF arrived THEN unheard ELSE <<>>]
  /\ UNCHANGED <<request, view, known, rr, logs, reply, moves>>

-----------------------------------------------------------------------------
(* The rest of the cluster *)

\* A broker's metadata changes: a push, or its own controllerTick.
Move(b, q, l) ==
  /\ moves < MaxMoves /\ view[b][q] # l
  /\ moves' = moves + 1
  /\ view' = [view EXCEPT ![b][q] = l]
  /\ UNCHANGED <<request, known, rr, logs, threads, reply, faults>>

\* The push that brings the topic.
Learn(b) ==
  /\ b \notin known
  /\ known' = known \cup {b}
  /\ UNCHANGED <<request, view, rr, logs, threads, reply, faults, moves>>

Next ==
  \/ \E t \in Threads : Step(t)
  \/ \E t, u \in Threads, d \in 1..MaxHops, arrived \in BOOLEAN :
       Timeout(t, d, u, arrived)
  \/ \E b, l \in Brokers, q \in Partitions : Move(b, q, l)
  \/ \E b \in Brokers : Learn(b)

Spec == Init /\ [][Next]_vars

\* Handlers and clients go on.
FairSpec == Spec /\ \A t \in Threads : WF_vars(Step(t))

-----------------------------------------------------------------------------
(* Properties *)

\* Every variable has its type; a handler has a result for every record before
\* its next one.
TypeOK ==
  /\ request \in Requests
  /\ view \in [Brokers -> [Partitions -> Brokers]]
  /\ known \subseteq Brokers
  /\ rr \in [Brokers -> Partitions]
  /\ logs \in [Brokers -> [Partitions -> Seq(0..Len(Recs))]]
  /\ \A t \in Threads : \A d \in 1..Len(threads[t]) :
       LET f == threads[t][d]
       IN  /\ f.at \in Brokers \cup {Nowhere} /\ f.attempt \in 1..Attempts
           /\ f.at # Nowhere => Len(f.out) = f.next - 1
           /\ d < Len(threads[t]) => f.leader \in Brokers \ {f.at}
  /\ reply.status \in {"none", "ok", "error"}

\* A success tells the truth: the record is at the partition and the offset that
\* the response gives for it, at the broker that appended it, however many
\* attempts and proxies there were and although calls that were given up go on.
ResponseTruthful ==
  reply.status = "ok" =>
    /\ Len(reply.out) = Len(Recs)
    /\ \A i \in 1..Len(Recs) :
         LET r == reply.out[i]
         IN  /\ r.offset < Len(logs[reply.at][r.partition])
             /\ logs[reply.at][r.partition][r.offset + 1] = i

\* The copies of record i in the log of q at b, and in all logs.
Copies(b, q, i) == {<<b, q, p>> : p \in {n \in DOMAIN logs[b][q] : logs[b][q][n] = i}}
Places(i) == UNION {Copies(b, q, i) : b \in Brokers, q \in Partitions}

\* Copies have causes: however brokers disagree and whatever is proxied and tried
\* again, a request leaves one copy of a record if it succeeded and none if it
\* failed, and one more for every call that timed out or wait that failed.  A
\* change of metadata may cut a longer request off, and with it every call that
\* was given up and still goes on: one more copy for each of them.  Its records
\* have one key: a batch for two leaders is cut off every time, and every attempt
\* leaves copies of what comes before the cut.
OneTarget ==
  \A i, j \in DOMAIN Recs : Recs[i] = Recs[j] /\ (i # j => Recs[i].key # NoKey)

CopiesAccounted ==
  OneTarget => \A i \in DOMAIN Recs :
    Cardinality(Places(i)) <=
      faults + (IF Len(Recs) > 1 THEN moves * (faults + 1) ELSE 0)
             + (IF reply.status = "error" THEN 0 ELSE 1)

\* Of two records of a request with the same key, the second is never in a log
\* before, or without, the first: not where a batch was cut off by a leader
\* change and not where it was sent again.
KeyOrder ==
  \A i, j \in 1..Len(Recs) :
    i < j /\ Recs[i].key = Recs[j].key /\ Recs[i].key # NoKey
          /\ ByPartitioner(Recs[i]) /\ ByPartitioner(Recs[j]) =>
      \A b \in Brokers, q \in Partitions : \A p \in 1..Len(logs[b][q]) :
        logs[b][q][p] = j => \E o \in 1..(p - 1) : logs[b][q][o] = i

\* The client gets an answer, even from brokers that each take the other for
\* the leader.
RequestEnds == <>(reply.status # "none")
=============================================================================

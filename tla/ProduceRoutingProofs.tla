------------------------ MODULE ProduceRoutingProofs ------------------------
(***************************************************************************)
(* What is proved of ProduceRouting, for any brokers, requests, numbers of *)
(* attempts, timeouts and changes of metadata: a success tells the truth,  *)
(* and records of one key keep their order in every log.                   *)
(*                                                                         *)
(* A handler knows where its own records went (Told): that is what its     *)
(* results say, it stays true because logs only grow, and it is lost       *)
(* together with the results when the call is tried again.                 *)
(***************************************************************************)
EXTENDS ProduceRouting, FiniteSetTheorems, WellFoundedInduction, TLAPS

Records == [key : Keys \cup {NoKey}, partition : Int]
Results == [partition : Partitions, offset : Nat]
Calls == [at : Brokers \cup {Nowhere}, attempt : 1..Attempts, next : Nat,
          out : Seq(Results), leader : Brokers \cup {0}]
Logs == [Brokers -> [Partitions -> Seq(0..Len(Recs))]]

\* The records that go to the partition of their key's hash.
ByHash == {i \in 1..Len(Recs) : ByPartitioner(Recs[i]) /\ Recs[i].key # NoKey}

\* The results out are true of the logs L of broker b.
Told(L, b, out) ==
  \A i \in 1..Len(out) :
    /\ out[i].offset < Len(L[b][out[i].partition])
    /\ L[b][out[i].partition][out[i].offset + 1] = i
    /\ i \in ByHash => out[i].partition = Hash[Recs[i].key]

CallOK(L, f) ==
  /\ f \in Calls
  /\ f.at # Nowhere => /\ f.next \in 1..(Len(Recs) + 1)
                       /\ Len(f.out) = f.next - 1
                       /\ Told(L, f.at, f.out)

StackOK(L, s) ==
  /\ s \in Seq(Calls)
  /\ \A d \in 1..Len(s) :
       /\ CallOK(L, s[d])
       /\ d < Len(s) => s[d].leader \in Brokers \ {s[d].at}

ReplyOK ==
  /\ reply.status \in {"none", "ok", "error"}
  /\ reply.status = "ok" => /\ reply.at \in Brokers /\ reply.out \in Seq(Results)
                            /\ Len(reply.out) = Len(Recs)
                            /\ Told(logs, reply.at, reply.out)

\* The second of two records of one key is after the first, in the logs L.
Ordered(L) ==
  \A i, j \in 1..Len(Recs) :
    i < j /\ Recs[i].key = Recs[j].key /\ i \in ByHash /\ j \in ByHash =>
      \A b \in Brokers, q \in Partitions : \A p \in 1..Len(L[b][q]) :
        L[b][q][p] = j => \E o \in 1..(p - 1) : L[b][q][o] = i

Typed ==
  /\ request \in Requests
  /\ view \in [Brokers -> [Partitions -> Brokers]]
  /\ known \subseteq Brokers
  /\ rr \in [Brokers -> Partitions]
  /\ logs \in Logs
  /\ DOMAIN threads = Threads

IndInv ==
  /\ Typed
  /\ \A t \in Threads : StackOK(logs, threads[t])
  /\ ReplyOK
  /\ Ordered(logs)

\* Where the records of a request go that has more than one and one target.
Target == IF ByPartitioner(Recs[1]) THEN Hash[Recs[1].key] ELSE Explicit(Recs[1])

\* The call f has appended record i and, in the metadata V, will not be cut off.
Settled(V, f, i) ==
  /\ f.at # Nowhere /\ i < f.next
  /\ f.next > Len(Recs) \/ V[f.at][Target] = f.at

\* The threads that go on, and those of them that may still append record i.
Live == {t \in Threads : threads[t] # <<>>}
Owing(i) == {t \in Live : ~Settled(view, Top(t), i)}

\* The copies that faults, changes of metadata and the answer account for.
Budget ==
  faults + (IF Len(Recs) > 1 THEN moves * (faults + 1) ELSE 0)
         + (IF reply.status = "error" THEN 0 ELSE 1)

Counted(i) ==
  IsFiniteSet(Places(i)) /\ Cardinality(Places(i)) + Cardinality(Owing(i)) <= Budget

CountInv ==
  /\ faults \in Nat /\ moves \in Nat
  /\ Cardinality(Live) <= faults + 1
  /\ \A t \in Live : Top(t).at # Nowhere /\ Top(t).next > 1 => Top(t).at \in known
  /\ OneTarget => \A i \in 1..Len(Recs) : Counted(i)

-----------------------------------------------------------------------------
(* Operators *)

Below == {ss \in Nat \X Nat : ss[1] < ss[2]}

\* A non-empty set of naturals has a least element, which is what Min chooses.
LEMMA LeastOf ==
  ASSUME NEW S, S \subseteq Nat, S # {}
  PROVE  Min(S) \in S
<1>1. IsWellFoundedOn(Below, Nat)
  BY NatLessThanWellFounded, Zenon DEF OpToRel, Below
<1>2. PICK n \in S : \A k \in S : ~(<<k, n>> \in Below)
  BY <1>1, WFMin, Zenon
<1>3. \A u \in Nat, v \in Nat : u < v => <<u, v>> \in Below
  BY DEF Below
<1>4. \A k \in S : n <= k
  <2> TAKE k \in S
  <2>1. n \in Nat /\ k \in Nat
    OBVIOUS
  <2>2. ~(k < n)
    BY <1>2, <1>3, <2>1, Zenon
  <2> QED BY <2>1, <2>2
<1> QED BY <1>4 DEF Min

\* The records of a request are a list of records.
LEMMA RecsType ==
  ASSUME request \in Requests
  PROVE  Recs \in Seq(Records)
<1>1. request \in [key : Keys \cup {NoKey}, partition : Int, records : Seq(Records)]
  BY RequestsAssumption DEF Records
<1>2. [key |-> request.key, partition |-> request.partition] \in Records
  BY <1>1 DEF Records
<1>3. request.records \in Seq(Records)
  BY <1>1
<1> QED BY <1>2, <1>3 DEF Recs

\* Every record has a partition, whatever number the request asks for.
LEMMA RouteType ==
  ASSUME request \in Requests, rr \in [Brokers -> Partitions],
         NEW b \in Brokers, NEW i \in 1..Len(Recs)
  PROVE  /\ RouteOf(b, Recs[i]) \in Partitions
         /\ i \in ByHash => RouteOf(b, Recs[i]) = Hash[Recs[i].key]
         /\ CountRoute(b, Recs[i]) => rr' \in [Brokers -> Partitions]
<1>1. Recs[i] \in Records
  BY RecsType
<1>2. Recs[i].key \in Keys \cup {NoKey} /\ N \in Nat \ {0} /\ Hash \in [Keys -> Partitions]
  BY <1>1, RoutingAssumption DEF Records
<1>3. ~ByPartitioner(Recs[i]) => Explicit(Recs[i]) \in Partitions
  BY DEF ByPartitioner
<1>4. rr[b] \in Partitions /\ (rr[b] + 1) % N \in Partitions
  BY <1>2 DEF Partitions
<1>5. Partition(b, Recs[i].key) \in Partitions
  BY <1>2, <1>4 DEF Partition
<1> QED BY <1>2, <1>3, <1>4, <1>5 DEF RouteOf, Partition, CountRoute, ByHash

\* A call keeps its standing when its stack is cut at d and f put there.
LEMMA CutOK ==
  ASSUME NEW L, NEW s, StackOK(L, s), NEW d \in 1..Len(s), NEW f, CallOK(L, f)
  PROVE  StackOK(L, SubSeq(s, 1, d - 1) \o <<f>>)
<1> DEFINE r == SubSeq(s, 1, d - 1) \o <<f>>
<1>1. s \in Seq(Calls) /\ f \in Calls
  BY DEF StackOK, CallOK
<1>2. /\ r \in Seq(Calls) /\ Len(r) = d /\ r[d] = f
      /\ \A e \in 1..(d - 1) : r[e] = s[e]
  BY <1>1
<1> HIDE DEF r
<1>3. \A e \in 1..Len(r) :
        CallOK(L, r[e]) /\ (e < Len(r) => r[e].leader \in Brokers \ {r[e].at})
  BY <1>1, <1>2 DEF StackOK
<1>4. StackOK(L, r)
  BY <1>2, <1>3 DEF StackOK
<1> QED BY <1>4 DEF r

\* The calls above d go on below f, which stands where s[d] did.
LEMMA TailOK ==
  ASSUME NEW L, NEW s, StackOK(L, s), NEW d \in 1..Len(s), NEW f, CallOK(L, f),
         f.at = s[d].at, f.leader = s[d].leader
  PROVE  StackOK(L, <<f>> \o SubSeq(s, d + 1, Len(s)))
<1> DEFINE r == <<f>> \o SubSeq(s, d + 1, Len(s))
<1>1. s \in Seq(Calls) /\ f \in Calls
  BY DEF StackOK, CallOK
<1>2. /\ r \in Seq(Calls) /\ Len(r) = Len(s) - d + 1 /\ r[1] = f
      /\ \A e \in 2..Len(r) : r[e] = s[d + e - 1]
  BY <1>1
<1> HIDE DEF r
<1>3. \A e \in 1..Len(r) :
        CallOK(L, r[e]) /\ (e < Len(r) => r[e].leader \in Brokers \ {r[e].at})
  <2> TAKE e \in 1..Len(r)
  <2>1. CASE e = 1
    BY <1>1, <1>2, <2>1 DEF StackOK
  <2>2. CASE e # 1
    <3>1. e \in 2..Len(r) /\ d + e - 1 \in 1..Len(s)
      BY <1>1, <1>2, <2>2
    <3>2. e < Len(r) => d + e - 1 < Len(s)
      BY <1>1, <1>2, <3>1
    <3> QED BY <1>2, <3>1, <3>2 DEF StackOK
  <2> QED BY <2>1, <2>2
<1>4. StackOK(L, r)
  BY <1>2, <1>3 DEF StackOK
<1> QED BY <1>4 DEF r

\* The call on top of a stack, and a new one in its place.
LEMMA TopOK ==
  ASSUME NEW t \in Threads, StackOK(logs, threads[t]), threads[t] # <<>>
  PROVE  /\ Len(threads[t]) \in Nat \ {0}
         /\ Top(t) = threads[t][Len(threads[t])] /\ CallOK(logs, Top(t))
         /\ \A f : WithTop(t, f) = SubSeq(threads[t], 1, Len(threads[t]) - 1) \o <<f>>
<1>1. threads[t] \in Seq(Calls)
  BY DEF StackOK
<1>2. Len(threads[t]) \in Nat \ {0}
  BY <1>1
<1> QED BY <1>1, <1>2 DEF Top, WithTop, Last, Front, StackOK

LEMMA NewTopOK ==
  ASSUME NEW t \in Threads, threads[t] # <<>>,
         NEW L, StackOK(L, threads[t]), NEW f, CallOK(L, f)
  PROVE  StackOK(L, WithTop(t, f))
<1>1. threads[t] \in Seq(Calls)
  BY DEF StackOK
<1>2. Len(threads[t]) \in 1..Len(threads[t])
  BY <1>1
<1>3. StackOK(L, SubSeq(threads[t], 1, Len(threads[t]) - 1) \o <<f>>)
  BY <1>2, CutOK
<1> QED BY <1>1, <1>3 DEF WithTop, Front

\* A call f that proxies to another broker, and its call g.
LEMMA PushOK ==
  ASSUME NEW L, NEW s, StackOK(L, s), s # <<>>, NEW f, s[Len(s)] = f,
         f.leader \in Brokers \ {f.at}, NEW g, CallOK(L, g)
  PROVE  StackOK(L, s \o <<g>>)
<1> DEFINE r == s \o <<g>>
<1>1. s \in Seq(Calls) /\ g \in Calls
  BY DEF StackOK, CallOK
<1>2. /\ r \in Seq(Calls) /\ Len(r) = Len(s) + 1 /\ r[Len(s) + 1] = g
      /\ \A e \in 1..Len(s) : r[e] = s[e]
  BY <1>1
<1> HIDE DEF r
<1>3. \A e \in 1..Len(r) :
        CallOK(L, r[e]) /\ (e < Len(r) => r[e].leader \in Brokers \ {r[e].at})
  BY <1>1, <1>2 DEF StackOK
<1>4. StackOK(L, r)
  BY <1>2, <1>3 DEF StackOK
<1> QED BY <1>4 DEF r

\* A new call is in order, wherever it goes.
LEMMA FreshOK ==
  ASSUME NEW L, NEW b \in Brokers, NEW a \in 1..Attempts,
         request \in Requests
  PROVE  /\ CallOK(L, Call(b)) /\ CallOK(L, [Call(b) EXCEPT !.at = Nowhere])
         /\ CallOK(L, [Call(b) EXCEPT !.attempt = a])
<1>1. Len(Recs) \in Nat
  BY RecsType
<1>2. 1 \in 1..Attempts
  BY RoutingAssumption
<1>3. \A c \in Brokers \cup {Nowhere}, k \in 1..Attempts :
        [at |-> c, attempt |-> k, next |-> 1, out |-> <<>>, leader |-> 0] \in Calls
  BY DEF Calls
<1>4. Told(L, b, <<>>)
  BY DEF Told
<1>5. /\ [Call(b) EXCEPT !.at = Nowhere]
           = [at |-> Nowhere, attempt |-> 1, next |-> 1, out |-> <<>>, leader |-> 0]
      /\ [Call(b) EXCEPT !.attempt = a]
           = [at |-> b, attempt |-> a, next |-> 1, out |-> <<>>, leader |-> 0]
  BY DEF Call
<1> QED BY <1>1, <1>2, <1>3, <1>4, <1>5 DEF CallOK, Call

\* So is one that has returned an error.
LEMMA ErrOK ==
  ASSUME NEW L, NEW f \in Calls
  PROVE  CallOK(L, [f EXCEPT !.at = Nowhere])
BY DEF CallOK, Calls, Nowhere

-----------------------------------------------------------------------------
(* Steps *)

\* What holds of logs and calls depends on the request besides, which stays.
LEMMA RequestKept ==
  ASSUME request' = request
  PROVE  Recs' = Recs /\ ByHash' = ByHash
<1>1. Recs' = Recs
  BY DEF Recs
<1>2. \A i \in 1..Len(Recs) : ByPartitioner(Recs[i])' <=> ByPartitioner(Recs[i])
  BY <1>1 DEF ByPartitioner, Explicit
<1> QED BY <1>1, <1>2 DEF ByHash

\* So a stack is in order after the step if it is by the records of before.
LEMMA StackPrime ==
  ASSUME request' = request, NEW u \in Threads, StackOK(logs', threads'[u])
  PROVE  StackOK(logs, threads[u])'
<1>1. Recs' = Recs /\ ByHash' = ByHash
  BY RequestKept
<1>2. \A d \in 1..Len(threads'[u]) : CallOK(logs, threads[u][d])'
  <2> TAKE d \in 1..Len(threads'[u])
  <2>1. CallOK(logs', threads'[u][d])
    BY DEF StackOK
  <2>2. threads'[u][d].at # Nowhere => Told(logs, threads[u][d].at, threads[u][d].out)'
    BY <1>1, <2>1 DEF CallOK, Told
  <2> QED BY <1>1, <2>1, <2>2 DEF CallOK
<1> QED BY <1>2 DEF StackOK

\* A step that leaves the logs alone and gives thread t a stack that is in order.
LEMMA StackStep ==
  ASSUME IndInv, NEW t \in Threads, NEW s, StackOK(logs, s), Stack(t, s),
         UNCHANGED <<request, logs>>
  PROVE  (\A u \in Threads : StackOK(logs, threads[u]))' /\ (DOMAIN threads = Threads)'
<1>1. DOMAIN threads = Threads /\ threads' = [threads EXCEPT ![t] = s]
  BY DEF IndInv, Typed, Stack
<1>2. \A u \in Threads : StackOK(logs', threads'[u])
  BY <1>1 DEF IndInv
<1>3. \A u \in Threads : StackOK(logs, threads[u])'
  BY <1>2, StackPrime
<1> QED BY <1>1, <1>3 DEF Threads

\* What else a step keeps that changes neither logs nor reply.
LEMMA RestKept ==
  ASSUME IndInv, UNCHANGED <<request, logs, reply>>
  PROVE  ReplyOK' /\ Ordered(logs)' /\ (request \in Requests)' /\ (logs \in Logs)'
<1>1. Recs' = Recs /\ ByHash' = ByHash /\ logs' = logs
  BY RequestKept
<1>2. ReplyOK'
  BY <1>1 DEF IndInv, ReplyOK, Told
<1>3. Ordered(logs)'
  BY <1>1 DEF IndInv, Ordered
<1> QED BY <1>1, <1>2, <1>3 DEF IndInv, Typed, Logs
\* 404 at a broker that does not know the topic.
LEMMA UnknownTopicInv ==
  ASSUME IndInv, NEW t \in Threads, UnknownTopic(t)
  PROVE  IndInv'
<1>1. threads[t] # <<>> /\ StackOK(logs, threads[t])
  BY DEF UnknownTopic, Serving, IndInv
<1>2. CallOK(logs, Top(t))
  BY <1>1, TopOK
<1>3. StackOK(logs, WithTop(t, [Top(t) EXCEPT !.at = Nowhere]))
  BY <1>1, <1>2, NewTopOK, ErrOK DEF CallOK
<1>4. Stack(t, WithTop(t, [Top(t) EXCEPT !.at = Nowhere]))
  BY DEF UnknownTopic, Errs
<1> QED BY <1>3, <1>4, StackStep, RestKept DEF UnknownTopic, IndInv, Typed

\* A broker hands the request to the leader it knows of.
LEMMA ProxyInv ==
  ASSUME IndInv, NEW t \in Threads, Proxy(t)
  PROVE  IndInv'
<1> DEFINE f == Top(t)
           b == f.at
           q == RouteOf(b, Recs[Current(f)])
           above == IF Len(threads[t]) < MaxHops THEN Call(view[b][q])
                    ELSE [Call(view[b][q]) EXCEPT !.at = Nowhere]
           h == [f EXCEPT !.leader = view[b][q]]
<1>1. threads[t] # <<>> /\ StackOK(logs, threads[t]) /\ b # Nowhere
  BY DEF Proxy, Serving, IndInv
<1>2. CallOK(logs, f) /\ f \in Calls /\ b \in Brokers
  BY <1>1, TopOK DEF CallOK, Calls
<1>3. Current(f) \in 1..Len(Recs)
  <2>1. f.next \in 1..(Len(Recs) + 1)
    BY <1>1, <1>2 DEF CallOK
  <2>2. f.next <= Len(Recs)
    BY DEF Proxy
  <2>3. Len(Recs) \in Nat
    BY RecsType DEF IndInv, Typed
  <2> QED BY <2>1, <2>2, <2>3 DEF Current
<1>4. q \in Partitions /\ rr' \in [Brokers -> Partitions]
  BY <1>2, <1>3, RouteType DEF Proxy, IndInv, Typed
<1>5. view[b][q] \in Brokers \ {b}
  BY <1>2, <1>4 DEF Proxy, IndInv, Typed
<1>6. CallOK(logs, h) /\ h.at = f.at /\ h.leader = view[b][q]
  BY <1>2, <1>5 DEF CallOK, Calls
<1>7. StackOK(logs, WithTop(t, h))
  BY <1>1, <1>6, NewTopOK
<1>8. WithTop(t, h) # <<>> /\ WithTop(t, h)[Len(WithTop(t, h))] = h
  <2>1. threads[t] \in Seq(Calls) /\ Len(threads[t]) \in Nat \ {0}
    BY <1>1, TopOK DEF StackOK
  <2>2. WithTop(t, h) = SubSeq(threads[t], 1, Len(threads[t]) - 1) \o <<h>>
    BY <1>1, TopOK
  <2> HIDE DEF h
  <2> QED BY <2>1, <2>2
<1>9. CallOK(logs, above)
  <2>1. request \in Requests /\ 1 \in 1..Attempts
    BY RoutingAssumption DEF IndInv, Typed
  <2>2. CallOK(logs, Call(view[b][q])) /\ CallOK(logs, [Call(view[b][q]) EXCEPT !.at = Nowhere])
    BY <1>5, <2>1, FreshOK
  <2> QED BY <2>2
<1>10. StackOK(logs, WithTop(t, h) \o <<above>>)
  <2> HIDE DEF h, above
  <2> QED BY <1>5, <1>6, <1>7, <1>8, <1>9, PushOK
<1>11. Stack(t, WithTop(t, h) \o <<above>>)
  BY DEF Proxy
<1> HIDE DEF h, above, f, q
<1> QED BY <1>4, <1>10, <1>11, StackStep, RestKept DEF Proxy, IndInv, Typed

\* All records are appended.
LEMMA SuccessInv ==
  ASSUME IndInv, NEW t \in Threads, Success(t)
  PROVE  IndInv'
<1>1. threads[t] # <<>> /\ StackOK(logs, threads[t]) /\ Top(t).at # Nowhere
  BY DEF Success, Serving, IndInv
<1>2. CallOK(logs, Top(t)) /\ Top(t) \in Calls /\ Top(t).at \in Brokers
  BY <1>1, TopOK DEF CallOK, Calls
<1>3. StackOK(logs, <<>>)
  BY DEF StackOK
<1>4. Len(Top(t).out) = Len(Recs) /\ Told(logs, Top(t).at, Top(t).out)
      /\ Top(t).out \in Seq(Results)
  BY <1>1, <1>2, RecsType DEF Success, CallOK, Calls, IndInv, Typed
<1>5. Stack(t, <<>>)
  BY DEF Success
<1>6. reply'.status \in {"none", "ok", "error"}
  BY DEF Success, IndInv, ReplyOK
<1>7. reply'.status = "ok" =>
        /\ reply'.at \in Brokers /\ reply'.out \in Seq(Results)
        /\ Len(reply'.out) = Len(Recs) /\ Told(logs, reply'.at, reply'.out)
  BY <1>2, <1>4 DEF Success, IndInv, ReplyOK
<1>8. ReplyOK'
  <2>1. Recs' = Recs /\ ByHash' = ByHash /\ logs' = logs
    BY RequestKept DEF Success
  <2> QED BY <1>6, <1>7, <2>1 DEF ReplyOK, Told
<1>9. Ordered(logs)' /\ (request \in Requests)' /\ (logs \in Logs)'
  BY RequestKept DEF Success, IndInv, Typed, Logs, Ordered
<1> QED BY <1>3, <1>5, <1>8, <1>9, StackStep DEF Success, IndInv, Typed

\* The answer 409 reaches a call, which is tried again or has failed.
LEMMA RetryOK ==
  ASSUME NEW L, NEW f \in Calls, f.leader \in Brokers, request \in Requests
  PROVE  CallOK(L, Retry(f))
<1>1. CASE f.attempt < Attempts /\ f.leader # f.at
  <2>1. f.attempt + 1 \in 1..Attempts
    BY <1>1, RoutingAssumption DEF Calls
  <2> QED BY <1>1, <2>1, FreshOK DEF Retry
<1>2. CASE ~(f.attempt < Attempts /\ f.leader # f.at)
  BY <1>2, ErrOK DEF Retry
<1> QED BY <1>1, <1>2

LEMMA UnwindInv ==
  ASSUME IndInv, NEW t \in Threads, Unwind(t)
  PROVE  IndInv'
<1> DEFINE s == threads[t]
           below == Front(s)
<1>1. s # <<>> /\ StackOK(logs, s) /\ s \in Seq(Calls)
  BY DEF Unwind, IndInv, StackOK
<1>2. below = SubSeq(s, 1, Len(s) - 1) /\ Len(s) \in Nat \ {0}
  BY <1>1 DEF Front
<1>3. CASE below = <<>>
  <2>1. StackOK(logs, <<>>) /\ Stack(t, <<>>)
    BY <1>3 DEF Unwind, StackOK
  <2>2. ReplyOK'
    <3>1. Recs' = Recs /\ ByHash' = ByHash /\ logs' = logs
      BY RequestKept DEF Unwind
    <3> QED BY <1>3, <3>1 DEF Unwind, IndInv, ReplyOK, Failed, NoReply, Told
  <2>3. Ordered(logs)' /\ (request \in Requests)' /\ (logs \in Logs)'
    <3>1. Recs' = Recs /\ ByHash' = ByHash /\ logs' = logs /\ request' = request
      BY RequestKept DEF Unwind
    <3> QED BY <3>1 DEF IndInv, Typed, Logs, Ordered
  <2> QED BY <2>1, <2>2, <2>3, StackStep DEF Unwind, IndInv, Typed
<1>4. CASE below # <<>>
  <2>1. Len(s) > 1 /\ Last(below) = s[Len(s) - 1]
        /\ Front(below) = SubSeq(s, 1, Len(s) - 1 - 1)
    BY <1>1, <1>2, <1>4 DEF Front, Last
  <2>2. Last(below) \in Calls /\ Last(below).leader \in Brokers
    BY <1>1, <1>2, <2>1 DEF StackOK
  <2>3. CallOK(logs, Retry(Last(below)))
    BY <2>2, RetryOK DEF IndInv, Typed
  <2>4. StackOK(logs, Front(below) \o <<Retry(Last(below))>>)
    <3> HIDE DEF s
    <3>1. Len(s) - 1 \in 1..Len(s)
      BY <1>2, <2>1
    <3> QED BY <1>1, <2>1, <2>3, <3>1, CutOK
  <2>5. Stack(t, Front(below) \o <<Retry(Last(below))>>) /\ UNCHANGED reply
    BY <1>4 DEF Unwind
  <2> QED BY <2>4, <2>5, StackStep, RestKept DEF Unwind, IndInv, Typed
<1> QED BY <1>3, <1>4
\* Logs that grew.
Longer(L, K) ==
  \A c \in Brokers, r \in Partitions :
    /\ L[c][r] \in Seq(Nat) /\ K[c][r] \in Seq(Nat)
    /\ Len(L[c][r]) <= Len(K[c][r])
    /\ \A p \in 1..Len(L[c][r]) : K[c][r][p] = L[c][r][p]

\* What was told stays true.
LEMMA LongerTold ==
  ASSUME NEW L, NEW K, Longer(L, K), NEW c \in Brokers, NEW out \in Seq(Results),
         Told(L, c, out)
  PROVE  Told(K, c, out)
<1> SUFFICES ASSUME NEW i \in 1..Len(out)
             PROVE  /\ out[i].offset < Len(K[c][out[i].partition])
                    /\ K[c][out[i].partition][out[i].offset + 1] = i
  BY DEF Told
<1>1. out[i] \in Results
  OBVIOUS
<1>2. PICK r \in Partitions, o \in Nat : out[i].partition = r /\ out[i].offset = o
  BY <1>1 DEF Results
<1>3. o < Len(L[c][r]) /\ L[c][r][o + 1] = i
  BY <1>2 DEF Told
<1>4. /\ L[c][r] \in Seq(Nat) /\ K[c][r] \in Seq(Nat)
      /\ Len(L[c][r]) <= Len(K[c][r])
  BY DEF Longer
<1>5. PICK l \in Nat, k \in Nat : l = Len(L[c][r]) /\ k = Len(K[c][r])
  BY <1>4
<1>6. o + 1 \in 1..l /\ o < k
  <2>1. o < l
    BY <1>3, <1>5
  <2>2. l <= k
    BY <1>4, <1>5
  <2> QED BY <2>1, <2>2
<1>7. K[c][r][o + 1] = L[c][r][o + 1]
  BY <1>5, <1>6 DEF Longer
<1> QED BY <1>2, <1>3, <1>5, <1>6, <1>7

LEMMA LongerStack ==
  ASSUME NEW L, NEW K, Longer(L, K), NEW s, StackOK(L, s)
  PROVE  StackOK(K, s)
<1> SUFFICES ASSUME NEW d \in 1..Len(s)
             PROVE  CallOK(K, s[d])
  BY DEF StackOK
<1>1. CallOK(L, s[d]) /\ s[d] \in Calls
  BY DEF StackOK, CallOK
<1>2. s[d].at # Nowhere => s[d].at \in Brokers /\ s[d].out \in Seq(Results)
  BY <1>1 DEF Calls
<1> QED BY <1>1, <1>2, LongerTold DEF CallOK

\* A handler appends a record: the record's result is true, and the earlier
\* records of its key are in the same log, where the results before it say.
LEMMA AppendInv ==
  ASSUME IndInv, NEW t \in Threads, NEW waited \in BOOLEAN, AppendRecord(t, waited)
  PROVE  IndInv'
<1> DEFINE f == Top(t)
           b == f.at
           i == Current(f)
           q == RouteOf(b, Recs[i])
           n == Len(logs[b][q])
           h == [f EXCEPT !.next = @ + 1, !.out = Append(@, Result(b, q))]
<1>1. threads[t] # <<>> /\ StackOK(logs, threads[t]) /\ b # Nowhere /\ DOMAIN threads = Threads
  BY DEF AppendRecord, Serving, IndInv, Typed
<1>2. CallOK(logs, f) /\ f \in Calls /\ b \in Brokers /\ f.out \in Seq(Results)
  BY <1>1, TopOK DEF CallOK, Calls
<1>3. Len(Recs) \in Nat /\ request \in Requests /\ rr \in [Brokers -> Partitions]
      /\ logs \in Logs
  BY RecsType DEF IndInv, Typed
<1>4. /\ i = f.next /\ i \in 1..Len(Recs)
      /\ Len(f.out) = i - 1 /\ Told(logs, b, f.out)
  <2>1. f.next \in 1..(Len(Recs) + 1) /\ Len(f.out) = f.next - 1 /\ Told(logs, b, f.out)
    BY <1>1, <1>2 DEF CallOK
  <2>2. f.next <= Len(Recs)
    BY DEF AppendRecord
  <2> QED BY <1>3, <2>1, <2>2 DEF Current
<1>5. q \in Partitions /\ rr' \in [Brokers -> Partitions]
      /\ (i \in ByHash => q = Hash[Recs[i].key])
  BY <1>2, <1>3, <1>4, RouteType DEF AppendRecord
<1>6. logs' = [logs EXCEPT ![b][q] = Append(@, i)] /\ request' = request
  BY DEF AppendRecord
<1>7. /\ logs[b][q] \in Seq(0..Len(Recs)) /\ n \in Nat
      /\ logs'[b][q] = Append(logs[b][q], i)
      /\ \A c \in Brokers, r \in Partitions :
           (c # b \/ r # q) => logs'[c][r] = logs[c][r]
  BY <1>2, <1>3, <1>5, <1>6 DEF Logs
<1>8. logs' \in Logs
  <2> HIDE DEF f, i, q
  <2>1. Append(logs[b][q], i) \in Seq(0..Len(Recs))
    BY <1>3, <1>4, <1>7
  <2> HIDE DEF b
  <2> QED BY <1>2, <1>3, <1>5, <1>6, <2>1 DEF Logs
<1>9. /\ logs'[b][q] \in Seq(0..Len(Recs)) /\ Len(logs'[b][q]) = n + 1
      /\ logs'[b][q][n + 1] = i
      /\ \A p \in 1..n : logs'[b][q][p] = logs[b][q][p]
  <2> HIDE DEF f, i, q
  <2> QED BY <1>3, <1>4, <1>7
<1> HIDE DEF i, q, b, n
<1>10. Longer(logs, logs')
  <2> SUFFICES ASSUME NEW c \in Brokers, NEW r \in Partitions
               PROVE  /\ logs[c][r] \in Seq(Nat) /\ logs'[c][r] \in Seq(Nat)
                      /\ Len(logs[c][r]) <= Len(logs'[c][r])
                      /\ \A p \in 1..Len(logs[c][r]) : logs'[c][r][p] = logs[c][r][p]
    BY DEF Longer
  <2>1. logs[c][r] \in Seq(0..Len(Recs)) /\ logs'[c][r] \in Seq(0..Len(Recs))
    BY <1>3, <1>8 DEF Logs
  <2>2. logs[c][r] \in Seq(Nat) /\ logs'[c][r] \in Seq(Nat)
    BY <2>1
  <2>3. CASE c = b /\ r = q
    <3>1. Len(logs[c][r]) = n /\ Len(logs'[c][r]) = n + 1
      BY <1>9, <2>3 DEF n
    <3>2. n <= n + 1
      BY <1>7
    <3>3. \A p \in 1..Len(logs[c][r]) : logs'[c][r][p] = logs[c][r][p]
      BY <1>9, <2>3, <3>1
    <3> QED BY <2>2, <3>1, <3>2, <3>3
  <2>4. CASE c # b \/ r # q
    BY <1>7, <2>1, <2>2, <2>4
  <2> QED BY <2>3, <2>4
<1>11. Recs' = Recs /\ ByHash' = ByHash
  BY <1>6, RequestKept
<1>12. \A u \in Threads : StackOK(logs', threads[u])
  BY <1>10, LongerStack DEF IndInv
<1>13. \E s : StackOK(logs', s) /\ threads' = [threads EXCEPT ![t] = s]
  <2>1. CASE waited
    <3>1. threads' = [threads EXCEPT ![t] = WithTop(t, h)]
      BY <2>1 DEF AppendRecord, Stack, b, q, i
    <3>2. Result(b, q) = [partition |-> q, offset |-> n] /\ Result(b, q) \in Results
      BY <1>5, <1>7 DEF Result, Results, n
    <3>3. /\ h.out = Append(f.out, Result(b, q)) /\ h.at = b
          /\ h.next = i + 1
          /\ h \in Calls
      <4> HIDE DEF f
      <4>1. Append(f.out, Result(b, q)) \in Seq(Results) /\ f.next + 1 \in Nat
        BY <1>2, <3>2 DEF Calls
      <4>2. PICK o \in Seq(Results), m \in Nat :
              o = Append(f.out, Result(b, q)) /\ m = f.next + 1
        BY <4>1
      <4>3. h = [f EXCEPT !.next = m, !.out = o]
        BY <4>2
      <4> HIDE DEF h
      <4>4. h \in Calls /\ h.out = o /\ h.at = f.at /\ h.next = m
        BY <1>2, <4>3 DEF Calls
      <4> QED BY <1>4, <4>2, <4>4 DEF b
    <3>4. Told(logs', b, h.out)
      <4>1. Told(logs', b, f.out)
        BY <1>2, <1>4, <1>10, LongerTold
      <4>2. /\ Len(h.out) = i /\ h.out[i] = Result(b, q)
            /\ \A k \in 1..(i - 1) : h.out[k] = f.out[k]
        <5> HIDE DEF h, f
        <5> QED BY <1>2, <1>3, <1>4, <3>2, <3>3
      <4> HIDE DEF h
      <4> SUFFICES ASSUME NEW k \in 1..Len(h.out)
                   PROVE  /\ h.out[k].offset < Len(logs'[b][h.out[k].partition])
                          /\ logs'[b][h.out[k].partition][h.out[k].offset + 1] = k
                          /\ k \in ByHash => h.out[k].partition = Hash[Recs[k].key]
        BY DEF Told
      <4>3. CASE k = i
        BY <1>5, <1>7, <1>9, <3>2, <4>2, <4>3
      <4>4. CASE k # i
        <5>1. k \in 1..Len(f.out) /\ h.out[k] = f.out[k]
          BY <1>3, <1>4, <4>2, <4>4
        <5> QED BY <4>1, <5>1 DEF Told
      <4> QED BY <4>3, <4>4
    <3>5. CallOK(logs', h)
      <4> HIDE DEF h, f
      <4>1. Len(h.out) = i /\ i + 1 \in 1..(Len(Recs) + 1)
        BY <1>2, <1>3, <1>4, <3>2, <3>3
      <4> QED BY <1>3, <1>4, <3>3, <3>4, <4>1 DEF CallOK
    <3>6. StackOK(logs', WithTop(t, h))
      BY <1>1, <1>12, <3>5, NewTopOK
    <3> QED BY <3>1, <3>6
  <2>2. CASE ~waited
    <3>1. threads' = [threads EXCEPT ![t] = WithTop(t, [f EXCEPT !.at = Nowhere])]
      BY <2>2 DEF AppendRecord, Errs, Stack
    <3>2. StackOK(logs', WithTop(t, [f EXCEPT !.at = Nowhere]))
      BY <1>1, <1>2, <1>12, ErrOK, NewTopOK
    <3> QED BY <3>1, <3>2
  <2> QED BY <2>1, <2>2
<1>14. DOMAIN threads' = Threads /\ \A u \in Threads : StackOK(logs, threads[u])'
  <2>1. \A u \in Threads : StackOK(logs', threads'[u])
    BY <1>1, <1>12, <1>13
  <2> QED BY <1>1, <1>6, <1>13, <2>1, StackPrime
<1>15. ReplyOK'
  <2>1. reply' = reply
    BY DEF AppendRecord
  <2>2. reply.status = "ok" => Told(logs', reply.at, reply.out)
    BY <1>10, LongerTold DEF IndInv, ReplyOK
  <2> QED BY <1>11, <2>1, <2>2 DEF IndInv, ReplyOK, Told
<1>16. Ordered(logs')
  <2> SUFFICES ASSUME NEW k \in 1..Len(Recs), NEW j \in 1..Len(Recs), k < j,
                      Recs[k].key = Recs[j].key, k \in ByHash, j \in ByHash,
                      NEW c \in Brokers, NEW r \in Partitions,
                      NEW p \in 1..Len(logs'[c][r]), logs'[c][r][p] = j
               PROVE  \E o \in 1..(p - 1) : logs'[c][r][o] = k
    BY DEF Ordered
  <2>1. logs[c][r] \in Seq(Nat) /\ logs'[c][r] \in Seq(Nat)
        /\ Len(logs[c][r]) <= Len(logs'[c][r])
        /\ \A o \in 1..Len(logs[c][r]) : logs'[c][r][o] = logs[c][r][o]
    BY <1>10 DEF Longer
  <2>2. CASE p <= Len(logs[c][r])
    <3>1. p \in 1..Len(logs[c][r])
      <4>1. PICK l \in Nat : l = Len(logs[c][r])
        BY <2>1
      <4>2. p \in Nat /\ 1 <= p /\ p <= l
        <5>1. PICK m \in Nat : m = Len(logs'[c][r])
          BY <2>1
        <5> QED BY <2>2, <4>1, <5>1
      <4> QED BY <4>1, <4>2
    <3>2. logs[c][r][p] = j
      BY <2>1, <3>1
    <3>3. PICK o \in 1..(p - 1) : logs[c][r][o] = k
      BY <3>1, <3>2 DEF IndInv, Ordered
    <3>4. o \in 1..Len(logs[c][r])
      <4>1. PICK l \in Nat : l = Len(logs[c][r])
        BY <2>1
      <4> QED BY <3>1, <3>3, <4>1
    <3> QED BY <2>1, <3>3, <3>4
  <2>3. CASE ~(p <= Len(logs[c][r]))
    <3>1. c = b /\ r = q
      <4> SUFFICES ASSUME c # b \/ r # q
                   PROVE  FALSE
        OBVIOUS
      <4>1. logs'[c][r] = logs[c][r]
        BY <1>7
      <4>2. PICK l \in Nat : l = Len(logs[c][r])
        BY <2>1
      <4>3. p \in 1..l
        BY <4>1, <4>2
      <4> QED BY <2>3, <4>2, <4>3
    <3>2. n = Len(logs[c][r]) /\ p \in 1..(n + 1)
      <4>1. n = Len(logs[c][r]) /\ Len(logs'[c][r]) = n + 1
        BY <1>9, <3>1 DEF n
      <4> QED BY <4>1
    <3>3. p = n + 1
      <4>1. n \in Nat /\ ~(p <= n)
        BY <1>7, <2>3, <3>2
      <4> QED BY <3>2, <4>1
    <3>4. j = i
      BY <1>9, <3>1, <3>3
    <3>5. k \in 1..Len(f.out) /\ q = Hash[Recs[k].key]
      <4>1. Len(f.out) = i - 1 /\ k < i /\ Recs[k].key = Recs[i].key /\ i \in ByHash
        BY <1>4, <3>4
      <4>2. k \in Nat /\ i \in Nat
        BY <1>3, <3>4
      <4> QED BY <1>5, <4>1, <4>2
    <3>6. PICK o \in Nat : f.out[k].offset = o
      <4>1. f.out[k] \in Results
        BY <1>2, <3>5
      <4> QED BY <4>1 DEF Results
    <3>7. f.out[k].partition = q /\ o < Len(logs[b][q]) /\ logs[b][q][o + 1] = k
      BY <1>4, <3>5, <3>6 DEF Told
    <3>8. o < n
      BY <3>7 DEF n
    <3>9. o + 1 \in 1..n /\ o + 1 \in 1..(p - 1)
      BY <1>7, <3>3, <3>8
    <3>10. logs'[b][q][o + 1] = k
      BY <1>9, <3>7, <3>9
    <3> QED BY <3>1, <3>9, <3>10
  <2> QED BY <2>2, <2>3
<1>17. Ordered(logs)'
  BY <1>11, <1>16 DEF Ordered
<1>18. (logs \in Logs)'
  BY <1>8, <1>11 DEF Logs
<1> QED BY <1>5, <1>14, <1>15, <1>17, <1>18 DEF AppendRecord, IndInv, Typed
\* A call times out; what it had started goes on as thread u.
LEMMA TimeoutInv ==
  ASSUME IndInv, NEW t \in Threads, NEW u \in Threads, NEW d \in 1..MaxHops,
         NEW arrived \in BOOLEAN, Timeout(t, d, u, arrived)
  PROVE  IndInv'
<1> DEFINE s == threads[t]
           f == s[d]
           h == [f EXCEPT !.attempt = Attempts]
           unheard == <<h>> \o SubSeq(s, d + 1, Len(s))
           cut == SubSeq(s, 1, d - 1) \o <<[f EXCEPT !.at = Nowhere]>>
<1>1. StackOK(logs, s) /\ s \in Seq(Calls) /\ DOMAIN threads = Threads
      /\ request \in Requests
  BY DEF IndInv, Typed, StackOK
<1>2. d \in 1..Len(s)
  <2>1. Len(s) \in Nat /\ d <= Len(s) /\ d \in Nat /\ 1 <= d
    BY <1>1, RoutingAssumption DEF Timeout
  <2> QED BY <2>1
<1>3. CallOK(logs, f) /\ f \in Calls
  BY <1>1, <1>2 DEF StackOK, CallOK
<1>4. CallOK(logs, h) /\ h.at = f.at /\ h.leader = f.leader
  <2>1. Attempts \in 1..Attempts
    BY RoutingAssumption
  <2> HIDE DEF f
  <2>2. h \in Calls /\ h.at = f.at /\ h.leader = f.leader /\ h.out = f.out /\ h.next = f.next
    BY <1>3, <2>1 DEF Calls
  <2> HIDE DEF h
  <2> QED BY <1>3, <2>2 DEF CallOK
<1>5. StackOK(logs, unheard)
  <2> HIDE DEF h
  <2> QED BY <1>1, <1>2, <1>4, TailOK
<1>6. StackOK(logs, cut)
  BY <1>1, <1>2, <1>3, ErrOK, CutOK
<1>7. StackOK(logs, <<>>)
  BY DEF StackOK
<1>8. threads' = [threads EXCEPT ![t] = cut, ![u] = IF arrived THEN unheard ELSE <<>>]
  BY DEF Timeout
<1>9. UNCHANGED <<request, view, known, rr, logs, reply, moves>>
  BY DEF Timeout
<1> HIDE DEF cut, unheard
<1>10. \A v \in Threads : StackOK(logs', threads'[v])
  BY <1>1, <1>5, <1>6, <1>7, <1>8, <1>9 DEF IndInv
<1>11. \A v \in Threads : StackOK(logs, threads[v])'
  BY <1>9, <1>10, StackPrime
<1>12. DOMAIN threads' = Threads
  BY <1>1, <1>8
<1> QED BY <1>9, <1>11, <1>12, RestKept DEF IndInv, Typed

\* What other brokers learn changes no call.
LEMMA ElsewhereInv ==
  ASSUME IndInv, UNCHANGED <<request, rr, logs, threads, reply>>,
         view' \in [Brokers -> [Partitions -> Brokers]], known' \subseteq Brokers
  PROVE  IndInv'
<1>1. \A v \in Threads : StackOK(logs', threads'[v])
  BY DEF IndInv
<1>2. \A v \in Threads : StackOK(logs, threads[v])'
  BY <1>1, StackPrime
<1> QED BY <1>2, RestKept DEF IndInv, Typed

LEMMA InitInv ==
  ASSUME Init
  PROVE  IndInv
<1>1. request \in Requests /\ Len(Recs) \in Nat /\ Brokers # {} /\ Brokers \subseteq Nat \ {0}
      /\ N \in Nat \ {0}
  BY RecsType, RoutingAssumption DEF Init
<1>2. view \in [Brokers -> [Partitions -> Brokers]] /\ known \subseteq Brokers
  BY DEF Init
<1>3. rr \in [Brokers -> Partitions]
  <2>1. 0 \in Partitions
    BY <1>1 DEF Partitions
  <2> QED BY <2>1 DEF Init
<1>4. logs = [b \in Brokers |-> [q \in Partitions |-> <<>>]]
  BY DEF Init
<1>5. logs \in Logs
  BY <1>4 DEF Logs
<1>6. Min(Brokers) \in Brokers
  BY <1>1, LeastOf
<1>7. CallOK(logs, Call(Min(Brokers)))
  <2>1. 1 \in 1..Attempts
    BY RoutingAssumption
  <2> QED BY <1>1, <1>6, <2>1, FreshOK
<1>8. StackOK(logs, <<>>) /\ StackOK(logs, <<Call(Min(Brokers))>>)
  <2>1. Call(Min(Brokers)) \in Calls
    BY <1>7 DEF CallOK
  <2> QED BY <1>7, <2>1 DEF StackOK
<1>9. \A t \in Threads : StackOK(logs, threads[t])
  BY <1>8 DEF Init
<1>10. ReplyOK
  BY DEF Init, ReplyOK, NoReply
<1>11. Ordered(logs)
  BY <1>4 DEF Ordered
<1>12. DOMAIN threads = Threads
  BY DEF Init
<1> QED BY <1>1, <1>2, <1>3, <1>5, <1>9, <1>10, <1>11, <1>12 DEF IndInv, Typed

-----------------------------------------------------------------------------
(* Copies *)

\* A set with at most one element more; a set with one element less.
LEMMA OneMore ==
  ASSUME NEW S, IsFiniteSet(S), NEW x, NEW T \in SUBSET (S \cup {x})
  PROVE  /\ IsFiniteSet(T) /\ Cardinality(T) \in Nat /\ Cardinality(S) \in Nat
         /\ Cardinality(T) <= Cardinality(S) + 1
         /\ x \in S => Cardinality(T) <= Cardinality(S)
<1>1. IsFiniteSet(S \cup {x}) /\ Cardinality(S) \in Nat
      /\ Cardinality(S \cup {x}) = IF x \in S THEN Cardinality(S) ELSE Cardinality(S) + 1
  BY FS_AddElement, FS_CardinalityType
<1>2. IsFiniteSet(T) /\ Cardinality(T) <= Cardinality(S \cup {x}) /\ Cardinality(T) \in Nat
  BY <1>1, FS_Subset, FS_CardinalityType
<1> QED BY <1>1, <1>2

LEMMA OneLess ==
  ASSUME NEW S, IsFiniteSet(S), NEW x \in S, NEW T \in SUBSET (S \ {x})
  PROVE  Cardinality(T) + 1 <= Cardinality(S)
<1>1. IsFiniteSet(S \ {x}) /\ Cardinality(S) \in Nat
      /\ Cardinality(S \ {x}) = Cardinality(S) - 1
  BY FS_RemoveElement, FS_CardinalityType
<1>2. Cardinality(T) <= Cardinality(S \ {x}) /\ Cardinality(T) \in Nat
  BY <1>1, FS_Subset, FS_CardinalityType
<1> QED BY <1>1, <1>2

\* There are finitely many threads.
LEMMA ThreadsFinite ==
  ASSUME NEW S \in SUBSET Threads
  PROVE  IsFiniteSet(S) /\ Cardinality(S) \in Nat
<1>1. IsFiniteSet(Threads)
  BY RoutingAssumption, FS_Interval DEF Threads
<1> QED BY <1>1, FS_Subset, FS_CardinalityType

\* A step that gives at most a copies and makes at most c threads more (or at
\* least -c threads less) owe record i, and accounts for them.
LEMMA Account ==
  ASSUME NEW i, Counted(i), NEW a \in Int, NEW c \in Int,
         IsFiniteSet(Places(i)'), Cardinality(Places(i)') <= Cardinality(Places(i)) + a,
         Cardinality(Owing(i)') <= Cardinality(Owing(i)) + c,
         Budget \in Int, Budget' \in Int, Budget + a + c <= Budget'
  PROVE  Counted(i)'
<1>1. Owing(i) \in SUBSET Threads /\ Owing(i)' \in SUBSET Threads
  BY DEF Owing, Live, Threads
<1>2. /\ Cardinality(Owing(i)) \in Nat /\ Cardinality(Owing(i)') \in Nat
      /\ Cardinality(Places(i)) \in Nat /\ Cardinality(Places(i)') \in Nat
  BY <1>1, ThreadsFinite, FS_CardinalityType DEF Counted
<1>3. Cardinality(Places(i)) + Cardinality(Owing(i)) <= Budget
  BY DEF Counted
<1>4. Cardinality(Places(i)') + Cardinality(Owing(i)') <= Budget'
  BY <1>2, <1>3
<1> QED BY <1>4 DEF Counted

\* What the budget gains.
LEMMA BudgetType ==
  ASSUME IndInv, CountInv
  PROVE  Budget \in Nat /\ Len(Recs) \in Nat
<1>1. faults \in Nat /\ moves \in Nat
  BY DEF CountInv
<1>2. moves * (faults + 1) \in Nat
  BY <1>1
<1>3. PICK k \in Nat : k = moves * (faults + 1)
  BY <1>2
<1>4. PICK e \in Nat : e = IF reply.status = "error" THEN 0 ELSE 1
  OBVIOUS
<1>5. Budget = faults + (IF Len(Recs) > 1 THEN k ELSE 0) + e
  BY <1>3, <1>4 DEF Budget
<1>6. Len(Recs) \in Nat
  BY RecsType DEF IndInv, Typed
<1> QED BY <1>1, <1>5, <1>6

LEMMA BudgetGains ==
  ASSUME IndInv, CountInv, request' = request
  PROVE  /\ UNCHANGED <<faults, moves, reply>> => Budget' = Budget
         /\ faults' = faults + 1 /\ UNCHANGED <<moves, reply>> =>
              Budget' \in Nat /\ Budget + 1 <= Budget'
         /\ moves' = moves + 1 /\ UNCHANGED <<faults, reply>> =>
              Budget' \in Nat /\ Budget <= Budget'
              /\ (Len(Recs) > 1 => Budget' = Budget + faults + 1)
<1>1. faults \in Nat /\ moves \in Nat /\ Recs' = Recs /\ Len(Recs) \in Nat
  BY RequestKept, BudgetType DEF CountInv
<1>2. PICK k \in Nat : k = moves * (faults + 1)
  BY <1>1
<1>3. moves * (faults + 1 + 1) = k + moves /\ (moves + 1) * (faults + 1) = k + faults + 1
  BY <1>1, <1>2
<1>4. PICK e \in Nat : e = IF reply.status = "error" THEN 0 ELSE 1
  OBVIOUS
<1>5. Budget = faults + (IF Len(Recs) > 1 THEN k ELSE 0) + e
  BY <1>2, <1>4 DEF Budget
<1>6. ASSUME faults' = faults + 1, UNCHANGED <<moves, reply>>
      PROVE  Budget' = faults + 1 + (IF Len(Recs) > 1 THEN k + moves ELSE 0) + e
  BY <1>1, <1>3, <1>4, <1>6 DEF Budget
<1>7. ASSUME moves' = moves + 1, UNCHANGED <<faults, reply>>
      PROVE  Budget' = faults + (IF Len(Recs) > 1 THEN k + faults + 1 ELSE 0) + e
  BY <1>1, <1>3, <1>4, <1>7 DEF Budget
<1>8. ASSUME UNCHANGED <<faults, moves, reply>>
      PROVE  Budget' = Budget
  BY <1>1, <1>8 DEF Budget
<1> QED BY <1>1, <1>5, <1>6, <1>7, <1>8

\* Who goes on and who owes record i after a step.
LEMMA OwingAfter ==
  ASSUME request' = request, NEW i
  PROVE  /\ Target' = Target
         /\ Live' = {u \in Threads : threads'[u] # <<>>}
         /\ Owing(i)' = {u \in Threads : threads'[u] # <<>>
                                         /\ ~Settled(view', Last(threads'[u]), i)}
<1>1. Recs' = Recs /\ (ByPartitioner(Recs[1])' <=> ByPartitioner(Recs[1]))
      /\ Explicit(Recs[1])' = Explicit(Recs[1])
  BY RequestKept DEF ByPartitioner, Explicit
<1>2. Target' = Target
  BY <1>1 DEF Target
<1>3. \A u \in Threads : Settled(view, Top(u), i)' <=> Settled(view', Last(threads'[u]), i)
  BY <1>1, <1>2 DEF Settled, Top
<1> QED BY <1>2, <1>3 DEF Live, Owing, Threads

\* All records of a longer request have the same route everywhere.
LEMMA OneRoute ==
  ASSUME IndInv, OneTarget, NEW b \in Brokers, NEW j \in 1..Len(Recs), Len(Recs) > 1
  PROVE  RouteOf(b, Recs[j]) = Target
<1>1. Recs \in Seq(Records) /\ Len(Recs) \in Nat
  BY RecsType DEF IndInv, Typed
<1>2. 1 \in DOMAIN Recs /\ 2 \in DOMAIN Recs /\ j \in DOMAIN Recs
  BY <1>1
<1>3. Recs[j] = Recs[1] /\ Recs[1].key # NoKey
  BY <1>2 DEF OneTarget
<1> QED BY <1>3 DEF RouteOf, Partition, Target

\* A thread's top call, and the one it has after a step that puts f there.
LEMMA TopFacts ==
  ASSUME IndInv, NEW t \in Threads, threads[t] # <<>>
  PROVE  /\ Top(t) \in Calls /\ Top(t).next \in Nat
         /\ Top(t).at # Nowhere => Top(t).at \in Brokers /\ Top(t).next \in 1..(Len(Recs) + 1)
         /\ \A f \in Calls : WithTop(t, f) # <<>> /\ Last(WithTop(t, f)) = f
<1>1. StackOK(logs, threads[t]) /\ threads[t] \in Seq(Calls)
  BY DEF IndInv, StackOK
<1>2. CallOK(logs, Top(t)) /\ Len(threads[t]) \in Nat \ {0}
      /\ \A f : WithTop(t, f) = SubSeq(threads[t], 1, Len(threads[t]) - 1) \o <<f>>
  BY <1>1, TopOK
<1>3. ASSUME NEW f \in Calls
      PROVE  WithTop(t, f) # <<>> /\ Last(WithTop(t, f)) = f
  <2>1. SubSeq(threads[t], 1, Len(threads[t]) - 1) \in Seq(Calls)
    BY <1>1, <1>2
  <2>2. PICK r \in Seq(Calls) : r = SubSeq(threads[t], 1, Len(threads[t]) - 1)
    BY <2>1
  <2>3. Len(r \o <<f>>) = Len(r) + 1 /\ (r \o <<f>>)[Len(r) + 1] = f /\ Len(r) \in Nat
    BY <2>2
  <2>4. Last(r \o <<f>>) = f /\ r \o <<f>> # <<>>
    BY <2>3 DEF Last
  <2> QED BY <1>2, <2>2, <2>4
<1> QED BY <1>2, <1>3 DEF CallOK, Calls

LEMMA PlacesKept ==
  ASSUME logs' = logs, NEW i
  PROVE  Places(i)' = Places(i)
BY DEF Places, Copies, Partitions

\* A step of thread t leaves what the others owe alone.
LEMMA OwingStep ==
  ASSUME IndInv, NEW t \in Threads, threads[t] # <<>>, NEW s, Stack(t, s),
         UNCHANGED <<request, view>>, NEW i
  PROVE  /\ Live' \in SUBSET Live
         /\ Cardinality(Owing(i)') <= Cardinality(Owing(i)) + 1
         /\ ~Settled(view, Top(t), i) \/ s = <<>> \/ Settled(view, Last(s), i) =>
              Cardinality(Owing(i)') <= Cardinality(Owing(i)) + 0
         /\ ~Settled(view, Top(t), i) /\ (s = <<>> \/ Settled(view, Last(s), i)) =>
              Cardinality(Owing(i)') <= Cardinality(Owing(i)) + (-1)
<1>1. DOMAIN threads = Threads /\ threads' = [threads EXCEPT ![t] = s]
  BY DEF IndInv, Typed, Stack
<1>2. threads'[t] = s /\ \A u \in Threads \ {t} : threads'[u] = threads[u]
  BY <1>1
<1>3. Live' \in SUBSET Live
  BY <1>2, OwingAfter DEF Live
<1>4. Owing(i) = {u \in Threads : threads[u] # <<>> /\ ~Settled(view, Last(threads[u]), i)}
  BY DEF Owing, Live, Top
<1>5. Owing(i)' = {u \in Threads : threads'[u] # <<>> /\ ~Settled(view, Last(threads'[u]), i)}
  BY OwingAfter
<1>6. Owing(i)' \in SUBSET (Owing(i) \cup {t})
  BY <1>2, <1>4, <1>5
<1>7. s = <<>> \/ Settled(view, Last(s), i) => Owing(i)' \in SUBSET (Owing(i) \ {t})
  BY <1>2, <1>4, <1>5
<1>8. t \in Owing(i) <=> ~Settled(view, Top(t), i)
  BY <1>4 DEF Top
<1>9. IsFiniteSet(Owing(i)) /\ Cardinality(Owing(i)) \in Nat
      /\ IsFiniteSet(Owing(i)') /\ Cardinality(Owing(i)') \in Nat
  BY <1>4, <1>5, ThreadsFinite
<1>10. Cardinality(Owing(i)') <= Cardinality(Owing(i)) + 1
       /\ (t \in Owing(i) => Cardinality(Owing(i)') <= Cardinality(Owing(i)))
  BY <1>6, <1>9, OneMore
<1>11. ASSUME s = <<>> \/ Settled(view, Last(s), i)
       PROVE  /\ Cardinality(Owing(i)') <= Cardinality(Owing(i))
              /\ t \in Owing(i) => Cardinality(Owing(i)') + 1 <= Cardinality(Owing(i))
  BY <1>7, <1>9, <1>11, FS_Subset, OneLess
<1> HIDE DEF Stack
<1> QED BY <1>3, <1>8, <1>9, <1>10, <1>11

\* What else such a step has to keep.
LEMMA ThreadStep ==
  ASSUME IndInv, CountInv, NEW t \in Threads, threads[t] # <<>>, NEW s, Stack(t, s),
         UNCHANGED <<request, view, known, moves>>, faults' \in {faults, faults + 1},
         s # <<>> /\ Last(s).at # Nowhere /\ Last(s).next > 1 => Last(s).at \in known,
         OneTarget => \A i \in 1..Len(Recs) : Counted(i)'
  PROVE  CountInv'
<1>1. DOMAIN threads = Threads /\ threads' = [threads EXCEPT ![t] = s]
  BY DEF IndInv, Typed, Stack
<1>2. threads'[t] = s /\ \A u \in Threads \ {t} : threads'[u] = threads[u]
  BY <1>1
<1>3. faults \in Nat /\ moves \in Nat /\ Cardinality(Live) <= faults + 1
  BY DEF CountInv
<1>4. faults' \in Nat /\ faults <= faults'
  BY <1>3
<1>5. Live' \in SUBSET Live /\ Live' = {u \in Threads : threads'[u] # <<>>}
  BY OwingStep, OwingAfter
<1>6. Cardinality(Live') <= Cardinality(Live) /\ Cardinality(Live) \in Nat
      /\ Cardinality(Live') \in Nat
  <2>1. Live \in SUBSET Threads
    BY DEF Live
  <2> QED BY <1>5, <2>1, ThreadsFinite, FS_Subset, FS_CardinalityType
<1>7. Cardinality(Live') <= faults' + 1
  BY <1>3, <1>4, <1>6
<1>8. \A u \in Live' : Last(threads'[u]).at # Nowhere /\ Last(threads'[u]).next > 1
                         => Last(threads'[u]).at \in known
  BY <1>2, <1>5 DEF CountInv, Live, Top
<1>9. Recs' = Recs /\ (OneTarget' <=> OneTarget)
  BY RequestKept DEF OneTarget
<1> QED BY <1>3, <1>4, <1>7, <1>8, <1>9 DEF CountInv, Top

\* An error leaves a thread that owes every record.
LEMMA ErrTop ==
  ASSUME IndInv, NEW t \in Threads, threads[t] # <<>>
  PROVE  /\ WithTop(t, [Top(t) EXCEPT !.at = Nowhere]) # <<>>
         /\ Last(WithTop(t, [Top(t) EXCEPT !.at = Nowhere])).at = Nowhere
<1>1. Top(t) \in Calls
  BY TopFacts
<1>2. [Top(t) EXCEPT !.at = Nowhere] \in Calls /\ [Top(t) EXCEPT !.at = Nowhere].at = Nowhere
  BY <1>1 DEF Calls
<1> QED BY <1>2, TopFacts

\* A step that appends nothing, makes nobody owe more and keeps the budget.
LEMMA QuietCount ==
  ASSUME IndInv, CountInv, OneTarget, NEW i \in 1..Len(Recs), logs' = logs,
         Cardinality(Owing(i)') <= Cardinality(Owing(i)) + 0,
         Budget' \in Nat, Budget <= Budget'
  PROVE  Counted(i)'
<1>1. Counted(i) /\ Budget \in Nat
  BY BudgetType DEF CountInv
<1>2. Places(i)' = Places(i) /\ IsFiniteSet(Places(i)) /\ Cardinality(Places(i)) \in Nat
  BY <1>1, PlacesKept, FS_CardinalityType DEF Counted
<1>3. Cardinality(Places(i)') <= Cardinality(Places(i)) + 0 /\ Budget + 0 + 0 <= Budget'
  BY <1>1, <1>2
<1> QED BY <1>1, <1>2, <1>3, Account

LEMMA UnknownTopicCount ==
  ASSUME IndInv, CountInv, NEW t \in Threads, UnknownTopic(t)
  PROVE  CountInv'
<1> DEFINE s == WithTop(t, [Top(t) EXCEPT !.at = Nowhere])
<1>1. threads[t] # <<>> /\ Stack(t, s) /\ Top(t).at # Nowhere /\ Top(t).at \notin known
      /\ UNCHANGED <<request, view, known, logs, reply, faults, moves>>
  BY DEF UnknownTopic, Serving, Errs
<1>2. Last(s).at = Nowhere
  BY <1>1, ErrTop
<1>3. ~(Top(t).next > 1) /\ Top(t).next \in Nat
  BY <1>1, TopFacts DEF CountInv, Live
<1> HIDE DEF s
<1>4. ASSUME OneTarget, NEW i \in 1..Len(Recs)
      PROVE  Counted(i)'
  <2>1. ~Settled(view, Top(t), i)
    BY <1>3, BudgetType DEF Settled
  <2>2. Cardinality(Owing(i)') <= Cardinality(Owing(i)) + 0
    BY <1>1, <2>1, OwingStep
  <2> QED BY <1>1, <1>4, <2>2, BudgetType, BudgetGains, QuietCount
<1> QED BY <1>1, <1>2, <1>4, ThreadStep

LEMMA ProxyCount ==
  ASSUME IndInv, CountInv, NEW t \in Threads, Proxy(t)
  PROVE  CountInv'
<1> DEFINE f == Top(t)
           b == f.at
           q == RouteOf(b, Recs[Current(f)])
           h == [f EXCEPT !.leader = view[b][q]]
           above == IF Len(threads[t]) < MaxHops THEN Call(view[b][q])
                    ELSE [Call(view[b][q]) EXCEPT !.at = Nowhere]
           s == WithTop(t, h) \o <<above>>
<1>1. threads[t] # <<>> /\ Stack(t, s) /\ b # Nowhere /\ f.next <= Len(Recs) /\ view[b][q] # b
      /\ UNCHANGED <<request, view, known, logs, reply, faults, moves>>
  BY DEF Proxy, Serving
<1>2. f \in Calls /\ b \in Brokers /\ f.next \in 1..(Len(Recs) + 1) /\ Len(Recs) \in Nat
  BY <1>1, TopFacts, BudgetType
<1>3. s # <<>> /\ Last(s).next = 1
  <2>1. request \in Requests /\ rr \in [Brokers -> Partitions]
        /\ view \in [Brokers -> [Partitions -> Brokers]]
    BY DEF IndInv, Typed
  <2>2. f.next \in 1..Len(Recs)
    BY <1>1, <1>2
  <2>3. q \in Partitions
    BY <1>2, <2>1, <2>2, RouteType DEF Current
  <2>4. view[b][q] \in Brokers
    BY <1>2, <2>1, <2>3
  <2>5. h \in Calls /\ above \in Calls /\ above.next = 1
    <3>1. 1 \in 1..Attempts
      BY RoutingAssumption
    <3>2. PICK l \in Brokers : l = view[b][q]
      BY <2>4
    <3>3. /\ Call(l) \in Calls /\ Call(l).next = 1
          /\ [Call(l) EXCEPT !.at = Nowhere]
               = [at |-> Nowhere, attempt |-> 1, next |-> 1, out |-> <<>>, leader |-> 0]
      BY <3>1 DEF Calls, Call
    <3>4. [at |-> Nowhere, attempt |-> 1, next |-> 1, out |-> <<>>, leader |-> 0] \in Calls
      BY <3>1 DEF Calls
    <3>5. above \in Calls /\ above.next = 1
      BY <3>2, <3>3, <3>4
    <3> HIDE DEF f
    <3>6. [f EXCEPT !.leader = l] \in Calls
      BY <1>2 DEF Calls
    <3> QED BY <3>2, <3>5, <3>6
  <2> HIDE DEF h, above
  <2>6. threads[t] \in Seq(Calls) /\ Len(threads[t]) \in Nat \ {0}
        /\ WithTop(t, h) = SubSeq(threads[t], 1, Len(threads[t]) - 1) \o <<h>>
    <3>1. StackOK(logs, threads[t])
      BY DEF IndInv
    <3> QED BY <1>1, <3>1, TopOK DEF StackOK
  <2>7. WithTop(t, h) \in Seq(Calls)
    BY <2>5, <2>6
  <2>8. PICK r \in Seq(Calls) : r = WithTop(t, h)
    BY <2>7
  <2>9. s = r \o <<above>> /\ Len(r \o <<above>>) = Len(r) + 1 /\ Len(r) \in Nat
        /\ (r \o <<above>>)[Len(r) + 1] = above
    BY <2>5, <2>8
  <2> HIDE DEF s
  <2>10. s # <<>> /\ Last(s) = above
    BY <2>9 DEF Last
  <2> QED BY <2>5, <2>10
<1> HIDE DEF s, q
<1>4. ASSUME OneTarget, NEW i \in 1..Len(Recs)
      PROVE  Counted(i)'
  <2>1. ~Settled(view, Top(t), i)
    <3> SUFFICES ASSUME Settled(view, Top(t), i)
                 PROVE  FALSE
      OBVIOUS
    <3>1. i < f.next /\ view[b][Target] = b
      BY <1>1, <1>2 DEF Settled
    <3>2. f.next \in 1..Len(Recs) /\ Len(Recs) > 1
      BY <1>1, <1>2, <3>1
    <3>3. q = Target
      BY <1>2, <1>4, <3>2, OneRoute DEF q, Current
    <3> QED BY <1>1, <3>1, <3>3
  <2>2. Cardinality(Owing(i)') <= Cardinality(Owing(i)) + 0
    BY <1>1, <2>1, OwingStep
  <2> QED BY <1>1, <1>4, <2>2, BudgetType, BudgetGains, QuietCount
<1> QED BY <1>1, <1>3, <1>4, ThreadStep

LEMMA SuccessCount ==
  ASSUME IndInv, CountInv, NEW t \in Threads, Success(t)
  PROVE  CountInv'
<1>1. threads[t] # <<>> /\ Stack(t, <<>>)
      /\ UNCHANGED <<request, view, known, logs, faults, moves>>
  BY DEF Success, Serving
<1>2. Budget' \in Nat /\ Budget <= Budget'
  <2>1. faults \in Nat /\ moves \in Nat /\ Recs' = Recs /\ Len(Recs) \in Nat
    BY <1>1, RequestKept, BudgetType DEF CountInv
  <2>2. PICK k \in Nat : k = moves * (faults + 1)
    BY <2>1
  <2>3. PICK e \in 0..1, g \in 0..1 : /\ e = IF reply.status = "error" THEN 0 ELSE 1
                                      /\ g = IF reply'.status = "error" THEN 0 ELSE 1
    OBVIOUS
  <2>4. e <= g
    BY <2>3 DEF Success
  <2>5. /\ Budget = faults + (IF Len(Recs) > 1 THEN k ELSE 0) + e
        /\ Budget' = faults + (IF Len(Recs) > 1 THEN k ELSE 0) + g
    BY <1>1, <2>1, <2>2, <2>3 DEF Budget
  <2> QED BY <2>1, <2>2, <2>3, <2>4, <2>5
<1>3. ASSUME OneTarget, NEW i \in 1..Len(Recs)
      PROVE  Counted(i)'
  <2>1. Cardinality(Owing(i)') <= Cardinality(Owing(i)) + 0
    BY <1>1, OwingStep
  <2> QED BY <1>1, <1>2, <1>3, <2>1, QuietCount
<1> QED BY <1>1, <1>3, ThreadStep

\* The client gives up and owes nothing any more, which pays for the copy that
\* a failure does not account for.
LEMMA UnwindCount ==
  ASSUME IndInv, CountInv, NEW t \in Threads, Unwind(t)
  PROVE  CountInv'
<1> DEFINE below == Front(threads[t])
<1>1. threads[t] # <<>> /\ Top(t).at = Nowhere
      /\ UNCHANGED <<request, view, known, logs, faults, moves>>
  BY DEF Unwind
<1>2. \A i : ~Settled(view, Top(t), i)
  BY <1>1 DEF Settled
<1>3. CASE below = <<>>
  <2>1. Stack(t, <<>>) /\ reply' = IF t = 1 THEN Failed ELSE reply
    BY <1>3 DEF Unwind
  <2>2. Budget' \in Nat /\ Budget - 1 <= Budget' /\ Budget \in Nat
    <3>1. faults \in Nat /\ moves \in Nat /\ Recs' = Recs /\ Len(Recs) \in Nat
      BY <1>1, RequestKept, BudgetType DEF CountInv
    <3>2. PICK k \in Nat : k = moves * (faults + 1)
      BY <3>1
    <3>3. PICK e \in 0..1, g \in 0..1 : /\ e = IF reply.status = "error" THEN 0 ELSE 1
                                        /\ g = IF reply'.status = "error" THEN 0 ELSE 1
      OBVIOUS
    <3>4. /\ Budget = faults + (IF Len(Recs) > 1 THEN k ELSE 0) + e
          /\ Budget' = faults + (IF Len(Recs) > 1 THEN k ELSE 0) + g
      BY <1>1, <3>1, <3>2, <3>3 DEF Budget
    <3> QED BY <3>1, <3>2, <3>3, <3>4
  <2>3. ASSUME OneTarget, NEW i \in 1..Len(Recs)
        PROVE  Counted(i)'
    <3>1. Cardinality(Owing(i)') <= Cardinality(Owing(i)) + (-1)
      BY <1>1, <1>2, <2>1, OwingStep
    <3>2. Counted(i)
      BY <2>3 DEF CountInv
    <3>3. Places(i)' = Places(i) /\ IsFiniteSet(Places(i)) /\ Cardinality(Places(i)) \in Nat
      BY <1>1, <3>2, PlacesKept, FS_CardinalityType DEF Counted
    <3>4. Cardinality(Places(i)') <= Cardinality(Places(i)) + 0 /\ Budget + 0 + (-1) <= Budget'
      BY <2>2, <3>3
    <3>5. -1 \in Int /\ 0 \in Int /\ Budget \in Int /\ Budget' \in Int
      BY <2>2
    <3> QED BY <3>1, <3>2, <3>3, <3>4, <3>5, Account
  <2> QED BY <1>1, <2>1, <2>3, ThreadStep
<1>4. CASE below # <<>>
  <2> DEFINE s == Front(below) \o <<Retry(Last(below))>>
  <2>1. Stack(t, s) /\ reply' = reply
    BY <1>4 DEF Unwind
  <2>2. s # <<>> /\ (Last(s).at # Nowhere => Last(s).next = 1)
    <3>1. threads[t] \in Seq(Calls) /\ StackOK(logs, threads[t])
      BY DEF IndInv, StackOK
    <3>2. below \in Seq(Calls) /\ Len(threads[t]) \in Nat /\ Len(threads[t]) > 1
          /\ Last(below) = threads[t][Len(threads[t]) - 1]
      BY <1>1, <1>4, <3>1 DEF Front, Last
    <3>3. Front(below) \in Seq(Calls)
      BY <1>4, <3>2 DEF Front
    <3>4. Last(below) \in Calls /\ Last(below).leader \in Brokers
      BY <3>1, <3>2 DEF StackOK
    <3>5. Retry(Last(below)) \in Calls
      BY <3>4, RetryOK DEF IndInv, Typed, CallOK
    <3>6. Retry(Last(below)).at # Nowhere => Retry(Last(below)).next = 1
      <4>1. PICK g \in Calls : g = Last(below)
        BY <3>4
      <4>2. [g EXCEPT !.at = Nowhere].at = Nowhere
        BY DEF Calls
      <4> QED BY <4>1, <4>2 DEF Retry, Call
    <3>7. PICK r \in Seq(Calls), g \in Calls : r = Front(below) /\ g = Retry(Last(below))
      BY <3>3, <3>5
    <3>8. s = r \o <<g>> /\ Len(r \o <<g>>) = Len(r) + 1 /\ Len(r) \in Nat
          /\ (r \o <<g>>)[Len(r) + 1] = g
      BY <3>7
    <3> HIDE DEF s
    <3>9. s # <<>> /\ Last(s) = g
      BY <3>8 DEF Last
    <3> QED BY <3>6, <3>7, <3>9
  <2> HIDE DEF s
  <2>3. ASSUME OneTarget, NEW i \in 1..Len(Recs)
        PROVE  Counted(i)'
    <3>1. Cardinality(Owing(i)') <= Cardinality(Owing(i)) + 0
      BY <1>1, <1>2, <2>1, OwingStep
    <3> QED BY <1>1, <2>1, <2>3, <3>1, BudgetType, BudgetGains, QuietCount
  <2> QED BY <1>1, <2>1, <2>2, <2>3, ThreadStep
<1> QED BY <1>3, <1>4

\* A handler appends record j: there is one copy more of it, and none of others.
LEMMA AppendPlaces ==
  ASSUME IndInv, NEW b \in Brokers, NEW q \in Partitions, NEW j \in 1..Len(Recs),
         logs' = [logs EXCEPT ![b][q] = Append(@, j)], NEW i
  PROVE  Places(i)' \in SUBSET (IF i = j THEN Places(i) \cup {<<b, q, Len(logs[b][q]) + 1>>}
                                         ELSE Places(i))
<1>1. logs \in Logs
  BY DEF IndInv, Typed
<1>2. logs[b][q] \in Seq(0..Len(Recs)) /\ logs'[b][q] = Append(logs[b][q], j)
  BY <1>1 DEF Logs
<1>3. PICK r \in Seq(0..Len(Recs)), n \in Nat : r = logs[b][q] /\ n = Len(r)
  BY <1>2
<1>4. /\ DOMAIN Append(r, j) = 1..(n + 1) /\ Append(r, j)[n + 1] = j
      /\ DOMAIN r = 1..n /\ \A p \in 1..n : Append(r, j)[p] = r[p]
  BY <1>3
<1>5. ASSUME NEW c \in Brokers, NEW k \in Partitions, NEW p \in DOMAIN logs'[c][k],
             logs'[c][k][p] = i
      PROVE  \/ p \in DOMAIN logs[c][k] /\ logs[c][k][p] = i
             \/ i = j /\ c = b /\ k = q /\ p = Len(logs[b][q]) + 1
  <2>1. CASE c = b /\ k = q
    <3>1. p \in 1..(n + 1) /\ Append(r, j)[p] = i
      BY <1>2, <1>3, <1>4, <1>5, <2>1
    <3>2. p \in 1..n \/ p = n + 1
      BY <3>1
    <3> QED BY <1>3, <1>4, <2>1, <3>1, <3>2
  <2>2. CASE ~(c = b /\ k = q)
    <3>1. logs'[c][k] = logs[c][k]
      BY <1>1, <2>2 DEF Logs
    <3> QED BY <1>5, <3>1
  <2> QED BY <2>1, <2>2
<1>6. ASSUME NEW e \in Places(i)'
      PROVE  e \in Places(i) \/ (i = j /\ e = <<b, q, Len(logs[b][q]) + 1>>)
  <2>1. PICK c \in Brokers, k \in Partitions : e \in Copies(c, k, i)'
    BY <1>6 DEF Places, Partitions
  <2>2. PICK p \in DOMAIN logs'[c][k] : logs'[c][k][p] = i /\ e = <<c, k, p>>
    BY <2>1 DEF Copies
  <2>3. ASSUME p \in DOMAIN logs[c][k], logs[c][k][p] = i
        PROVE  e \in Places(i)
    <3>1. e \in Copies(c, k, i)
      BY <2>2, <2>3 DEF Copies
    <3>2. Copies(c, k, i) \in {Copies(x, y, i) : x \in Brokers, y \in Partitions}
      OBVIOUS
    <3> QED BY <3>1, <3>2 DEF Places
  <2> QED BY <1>5, <2>2, <2>3
<1> QED BY <1>6

LEMMA AppendCount ==
  ASSUME IndInv, CountInv, NEW t \in Threads, NEW waited \in BOOLEAN, AppendRecord(t, waited)
  PROVE  CountInv'
<1> DEFINE f == Top(t)
           b == f.at
           j == Current(f)
           q == RouteOf(b, Recs[j])
           h == [f EXCEPT !.next = @ + 1, !.out = Append(@, Result(b, q))]
<1>1. threads[t] # <<>> /\ b # Nowhere /\ b \in known /\ f.next <= Len(Recs) /\ view[b][q] = b
      /\ logs' = [logs EXCEPT ![b][q] = Append(@, j)]
      /\ UNCHANGED <<request, view, known, reply, moves>>
  BY DEF AppendRecord, Serving
<1>2. f \in Calls /\ b \in Brokers /\ f.next \in 1..(Len(Recs) + 1) /\ Len(Recs) \in Nat
      /\ Budget \in Nat
  BY <1>1, TopFacts, BudgetType
<1>3. j \in 1..Len(Recs) /\ j = f.next
  BY <1>1, <1>2 DEF Current
<1>4. q \in Partitions
  BY <1>2, <1>3, RouteType DEF IndInv, Typed
<1>5. OneTarget /\ Len(Recs) > 1 => view[b][Target] = b
  BY <1>1, <1>2, <1>3, OneRoute
<1> HIDE DEF j, q, b
<1>6. ASSUME NEW i, Counted(i)
      PROVE  /\ IsFiniteSet(Places(i)')
             /\ Cardinality(Places(i)') <= Cardinality(Places(i)) + (IF i = j THEN 1 ELSE 0)
  <2>1. IsFiniteSet(Places(i)) /\ Cardinality(Places(i)) \in Nat
    BY <1>6, FS_CardinalityType DEF Counted
  <2>2. CASE i = j
    <3>1. Places(i)' \in SUBSET (Places(i) \cup {<<b, q, Len(logs[b][q]) + 1>>})
      BY <1>1, <1>2, <1>3, <1>4, <2>2, AppendPlaces
    <3> QED BY <2>1, <2>2, <3>1, OneMore
  <2>3. CASE i # j
    <3>1. Places(i)' \in SUBSET Places(i)
      BY <1>1, <1>2, <1>3, <1>4, <2>3, AppendPlaces
    <3>2. IsFiniteSet(Places(i)') /\ Cardinality(Places(i)') <= Cardinality(Places(i))
      BY <2>1, <3>1, FS_Subset
    <3>3. Cardinality(Places(i)') \in Nat
      BY <3>2, FS_CardinalityType
    <3> QED BY <2>1, <2>3, <3>2, <3>3
  <2> QED BY <2>2, <2>3
<1>7. CASE waited
  <2>1. Stack(t, WithTop(t, h)) /\ faults' = faults
    BY <1>7 DEF AppendRecord, j, q, b
  <2>2. h \in Calls /\ h.at = b /\ h.next = j + 1
    <3>1. Result(b, q) \in Results
      <4>1. logs[b][q] \in Seq(0..Len(Recs))
        BY <1>2, <1>4 DEF IndInv, Typed, Logs
      <4> QED BY <1>4, <4>1 DEF Result, Results
    <3> HIDE DEF f
    <3>2. PICK o \in Seq(Results), m \in Nat :
            o = Append(f.out, Result(b, q)) /\ m = f.next + 1
      <4>1. Append(f.out, Result(b, q)) \in Seq(Results) /\ f.next + 1 \in Nat
        BY <1>2, <3>1 DEF Calls
      <4> QED BY <4>1
    <3>3. h = [f EXCEPT !.next = m, !.out = o]
      BY <3>2
    <3> HIDE DEF h
    <3> QED BY <1>2, <1>3, <3>2, <3>3 DEF Calls, b
  <2>3. WithTop(t, h) # <<>> /\ Last(WithTop(t, h)) = h
    BY <1>1, <2>2, TopFacts
  <2> HIDE DEF h
  <2>4. ASSUME OneTarget, NEW i \in 1..Len(Recs)
        PROVE  Counted(i)'
    <3>1. Counted(i) /\ Budget' = Budget
      BY <1>1, <2>1, <2>4, BudgetGains DEF CountInv
    <3>2. i \in Nat /\ j \in Nat
      BY <1>2, <1>3
    <3>3. i <= j => Settled(view, h, i)
      <4>1. ASSUME ~(j + 1 > Len(Recs))
            PROVE  view[b][Target] = b
        BY <1>2, <1>3, <1>5, <2>4, <4>1
      <4> QED BY <1>1, <2>2, <3>2, <4>1 DEF Settled
    <3>4. i >= j => ~Settled(view, f, i)
      BY <1>3, <3>2 DEF Settled
    <3>5. CASE i = j
      <4>1. Cardinality(Owing(i)') <= Cardinality(Owing(i)) + (-1)
        BY <1>1, <2>1, <2>3, <3>2, <3>3, <3>4, <3>5, OwingStep
      <4>2. /\ IsFiniteSet(Places(i)')
            /\ Cardinality(Places(i)') <= Cardinality(Places(i)) + 1
        BY <1>6, <3>1, <3>5
      <4>3. Budget + 1 + (-1) <= Budget' /\ 1 \in Int /\ -1 \in Int /\ Budget \in Int /\ Budget' \in Int
        BY <1>2, <3>1
      <4> QED BY <3>1, <4>1, <4>2, <4>3, Account
    <3>6. CASE i # j
      <4>1. ~Settled(view, f, i) \/ Settled(view, h, i)
        BY <3>2, <3>3, <3>4, <3>6
      <4>2. Cardinality(Owing(i)') <= Cardinality(Owing(i)) + 0
        BY <1>1, <2>1, <2>3, <4>1, OwingStep
      <4>3. /\ IsFiniteSet(Places(i)')
            /\ Cardinality(Places(i)') <= Cardinality(Places(i)) + 0
        BY <1>6, <3>1, <3>6
      <4>4. Budget + 0 + 0 <= Budget' /\ 0 \in Int /\ Budget \in Int /\ Budget' \in Int
        BY <1>2, <3>1
      <4> QED BY <3>1, <4>2, <4>3, <4>4, Account
    <3> QED BY <3>5, <3>6
  <2>5. Last(WithTop(t, h)).at \in known
    BY <1>1, <2>2, <2>3
  <2> QED BY <1>1, <2>1, <2>4, <2>5, ThreadStep
<1>8. CASE ~waited
  <2> DEFINE s == WithTop(t, [f EXCEPT !.at = Nowhere])
  <2>1. Stack(t, s) /\ faults' = faults + 1
    BY <1>8 DEF AppendRecord, Errs, Fault
  <2>2. Last(s).at = Nowhere
    BY <1>1, ErrTop
  <2> HIDE DEF s
  <2>3. ASSUME OneTarget, NEW i \in 1..Len(Recs)
        PROVE  Counted(i)'
    <3>1. Counted(i) /\ Budget' \in Nat /\ Budget + 1 <= Budget'
      BY <1>1, <2>1, <2>3, BudgetGains DEF CountInv
    <3>2. CASE i = j
      <4>1. ~Settled(view, f, i)
        BY <1>2, <1>3, <3>2 DEF Settled
      <4>2. Cardinality(Owing(i)') <= Cardinality(Owing(i)) + 0
        BY <1>1, <2>1, <4>1, OwingStep
      <4>3. /\ IsFiniteSet(Places(i)')
            /\ Cardinality(Places(i)') <= Cardinality(Places(i)) + 1
        BY <1>6, <3>1, <3>2
      <4>4. Budget + 1 + 0 <= Budget' /\ 0 \in Int /\ 1 \in Int /\ Budget \in Int /\ Budget' \in Int
        BY <1>2, <3>1
      <4> QED BY <3>1, <4>2, <4>3, <4>4, Account
    <3>3. CASE i # j
      <4>2. Cardinality(Owing(i)') <= Cardinality(Owing(i)) + 1
        BY <1>1, <2>1, OwingStep
      <4>3. /\ IsFiniteSet(Places(i)')
            /\ Cardinality(Places(i)') <= Cardinality(Places(i)) + 0
        BY <1>6, <3>1, <3>3
      <4>4. Budget + 0 + 1 <= Budget' /\ 0 \in Int /\ 1 \in Int /\ Budget \in Int /\ Budget' \in Int
        BY <1>2, <3>1
      <4> QED BY <3>1, <4>2, <4>3, <4>4, Account
    <3> QED BY <3>2, <3>3
  <2> QED BY <1>1, <2>1, <2>2, <2>3, ThreadStep
<1> QED BY <1>7, <1>8

\* A call is given up: it makes a thread more, and nobody owes more copies than
\* before but the one who called or, if he owed one already, the new thread.
LEMMA TimeoutCount ==
  ASSUME IndInv, CountInv, NEW t \in Threads, NEW u \in Threads, NEW d \in 1..MaxHops,
         NEW arrived \in BOOLEAN, Timeout(t, d, u, arrived)
  PROVE  CountInv'
<1> DEFINE s == threads[t]
           f == s[d]
           h == [f EXCEPT !.attempt = Attempts]
           unheard == <<h>> \o SubSeq(s, d + 1, Len(s))
           none == [f EXCEPT !.at = Nowhere]
           cut == SubSeq(s, 1, d - 1) \o <<none>>
           new == IF arrived THEN unheard ELSE <<>>
<1>1. s \in Seq(Calls) /\ DOMAIN threads = Threads
  BY DEF IndInv, Typed, StackOK
<1>2. PICK l \in Nat : l = Len(s)
  BY <1>1
<1>3. d \in 1..l
  <2>1. d <= l /\ d \in Nat /\ 1 <= d
    BY <1>2, RoutingAssumption DEF Timeout
  <2> QED BY <2>1
<1>4. f \in Calls
  BY <1>1, <1>2, <1>3
<1>5. h \in Calls /\ h.at = f.at /\ h.next = f.next /\ none \in Calls /\ none.at = Nowhere
  <2>1. Attempts \in 1..Attempts
    BY RoutingAssumption
  <2> HIDE DEF f
  <2> QED BY <1>4, <2>1 DEF Calls
<1> HIDE DEF h, none, f
<1>6. cut # <<>> /\ Last(cut) = none
  <2>1. SubSeq(s, 1, d - 1) \in Seq(Calls)
    BY <1>1, <1>2, <1>3
  <2>2. PICK r \in Seq(Calls) : r = SubSeq(s, 1, d - 1)
    BY <2>1
  <2>3. Len(r \o <<none>>) = Len(r) + 1 /\ (r \o <<none>>)[Len(r) + 1] = none /\ Len(r) \in Nat
    BY <1>5, <2>2
  <2> QED BY <2>2, <2>3 DEF Last
<1>7. Last(unheard).at = Last(s).at /\ Last(unheard).next = Last(s).next
  <2>1. SubSeq(s, d + 1, Len(s)) \in Seq(Calls) /\ Len(SubSeq(s, d + 1, Len(s))) = l - d
        /\ \A e \in 1..(l - d) : SubSeq(s, d + 1, Len(s))[e] = s[d + e]
    BY <1>1, <1>2, <1>3
  <2>2. PICK r \in Seq(Calls) : r = SubSeq(s, d + 1, Len(s))
    BY <2>1
  <2>3. <<h>> \in Seq(Calls) /\ Len(<<h>>) = 1 /\ <<h>>[1] = h
    BY <1>5
  <2>4. Len(<<h>> \o r) = 1 + Len(r) /\ (<<h>> \o r)[1] = h
        /\ \A e \in 1..Len(r) : (<<h>> \o r)[1 + e] = r[e]
    BY <1>5, <2>2
  <2>5. Len(unheard) = l - d + 1 /\ Last(unheard) = unheard[l - d + 1]
    <3>1. unheard = <<h>> \o r /\ Len(r) = l - d /\ l \in Nat /\ d \in Nat
      BY <1>3, <2>1, <2>2
    <3>2. Len(unheard) = 1 + (l - d)
      BY <2>4, <3>1
    <3>3. 1 + (l - d) = l - d + 1
      BY <3>1
    <3> QED BY <3>2, <3>3 DEF Last
  <2>6. CASE d = l
    <3>1. Last(unheard) = h
      BY <1>2, <1>3, <2>2, <2>4, <2>5, <2>6
    <3>2. Last(s) = f
      BY <1>2, <2>6 DEF Last, f
    <3> QED BY <1>5, <3>1, <3>2
  <2>7. CASE d # l
    <3>1. l - d \in 1..(l - d)
      BY <1>3, <2>7
    <3>2. unheard[1 + (l - d)] = s[d + (l - d)]
      BY <2>1, <2>2, <2>4, <3>1
    <3>3. Last(unheard) = s[l]
      BY <1>3, <2>5, <3>2
    <3> QED BY <1>2, <3>3 DEF Last
  <2> QED BY <2>6, <2>7
<1>8. /\ threads' = [threads EXCEPT ![t] = cut, ![u] = new] /\ threads[u] = <<>>
      /\ UNCHANGED <<request, view, known, rr, logs, reply, moves>> /\ faults' = faults + 1
  BY DEF Timeout, Fault, none, f, h
<1>9. s # <<>> /\ t # u
  BY <1>2, <1>3, <1>8
<1> HIDE DEF cut, unheard
<1>10. threads'[t] = cut /\ threads'[u] = new /\ \A v \in Threads \ {t, u} : threads'[v] = threads[v]
  BY <1>1, <1>8, <1>9
<1>11. faults \in Nat /\ moves \in Nat /\ Cardinality(Live) <= faults + 1
  BY DEF CountInv
<1>12. Live' = {v \in Threads : threads'[v] # <<>>} /\ Recs' = Recs
       /\ (OneTarget' <=> OneTarget)
  BY <1>8, OwingAfter, RequestKept DEF OneTarget
<1>13. Cardinality(Live') <= faults' + 1
  <2>1. Live \in SUBSET Threads
    BY DEF Live
  <2>2. IsFiniteSet(Live) /\ Cardinality(Live) \in Nat
    BY <2>1, ThreadsFinite
  <2>3. Live' \in SUBSET (Live \cup {u})
    BY <1>9, <1>10, <1>12 DEF Live
  <2>4. Cardinality(Live') <= Cardinality(Live) + 1 /\ Cardinality(Live') \in Nat
    BY <2>2, <2>3, OneMore
  <2> QED BY <1>8, <1>11, <2>2, <2>4
<1>14. \A v \in Live' : Last(threads'[v]).at # Nowhere /\ Last(threads'[v]).next > 1
                          => Last(threads'[v]).at \in known
  <2> TAKE v \in Live'
  <2>1. CASE v = t
    BY <1>5, <1>6, <1>10, <2>1
  <2>2. CASE v = u
    <3>1. Last(threads'[v]).at = Last(s).at /\ Last(threads'[v]).next = Last(s).next
      BY <1>7, <1>10, <1>12, <2>2
    <3> QED BY <1>9, <3>1 DEF CountInv, Live, Top
  <2>3. CASE v # t /\ v # u
    BY <1>10, <1>12, <2>3 DEF CountInv, Live, Top
  <2> QED BY <2>1, <2>2, <2>3
<1>15. ASSUME OneTarget, NEW i \in 1..Len(Recs)
       PROVE  Counted(i)'
  <2>1. Counted(i) /\ Budget \in Nat /\ Budget' \in Nat /\ Budget + 1 <= Budget'
    BY <1>8, <1>15, BudgetType, BudgetGains DEF CountInv
  <2>2. Owing(i) = {v \in Threads : threads[v] # <<>> /\ ~Settled(view, Last(threads[v]), i)}
    BY DEF Owing, Live, Top
  <2>3. Owing(i)' = {v \in Threads : threads'[v] # <<>> /\ ~Settled(view, Last(threads'[v]), i)}
    BY <1>8, OwingAfter
  <2>4. Settled(view, Last(unheard), i) <=> Settled(view, Last(s), i)
    BY <1>7 DEF Settled
  <2>5. u \in Owing(i)' => t \in Owing(i)
    BY <1>9, <1>10, <2>2, <2>3, <2>4
  <2>6. \E x : Owing(i)' \in SUBSET (Owing(i) \cup {x})
    <3>1. \A v \in Owing(i)' : v \in Owing(i) \/ v = t \/ v = u
      BY <1>10, <2>2, <2>3
    <3>2. CASE t \in Owing(i)
      <4>1. Owing(i)' \in SUBSET (Owing(i) \cup {u})
        BY <3>1, <3>2
      <4> QED BY <4>1
    <3>3. CASE t \notin Owing(i)
      <4>1. Owing(i)' \in SUBSET (Owing(i) \cup {t})
        BY <2>5, <3>1, <3>3
      <4> QED BY <4>1
    <3> QED BY <3>2, <3>3
  <2>7. IsFiniteSet(Owing(i))
    BY <2>2, ThreadsFinite
  <2>8. Cardinality(Owing(i)') <= Cardinality(Owing(i)) + 1
    BY <2>6, <2>7, OneMore
  <2>9. Places(i)' = Places(i) /\ IsFiniteSet(Places(i)) /\ Cardinality(Places(i)) \in Nat
    BY <1>8, <2>1, PlacesKept, FS_CardinalityType DEF Counted
  <2>10. Cardinality(Places(i)') <= Cardinality(Places(i)) + 0 /\ Budget + 0 + 1 <= Budget'
         /\ 0 \in Int /\ 1 \in Int /\ Budget \in Int /\ Budget' \in Int
    BY <2>1, <2>9
  <2> QED BY <2>1, <2>8, <2>9, <2>10, Account
<1>16. faults' \in Nat /\ moves' \in Nat
  BY <1>8, <1>11
<1>17. OneTarget' => \A i \in 1..Len(Recs') : Counted(i)'
  BY <1>12, <1>15
<1>18. (\A v \in Live : Top(v).at # Nowhere /\ Top(v).next > 1 => Top(v).at \in known)'
  BY <1>8, <1>14 DEF Top
<1> QED BY <1>13, <1>16, <1>17, <1>18 DEF CountInv

\* What brokers learn elsewhere: a change of metadata may cut off every call that
\* goes on, and accounts for as many copies.
LEMMA ElsewhereCount ==
  ASSUME IndInv, CountInv, UNCHANGED <<request, logs, threads, reply, faults>>,
         \/ moves' = moves /\ view' = view
         \/ moves' = moves + 1,
         known \subseteq known'
  PROVE  CountInv'
<1>1. faults \in Nat /\ moves \in Nat /\ Cardinality(Live) <= faults + 1
  BY DEF CountInv
<1>2. Live' = Live /\ Recs' = Recs /\ (OneTarget' <=> OneTarget) /\ moves' \in Nat
  BY <1>1, OwingAfter, RequestKept DEF OneTarget, Live
<1>3. \A v \in Live' : Last(threads'[v]).at # Nowhere /\ Last(threads'[v]).next > 1
                         => Last(threads'[v]).at \in known'
  BY <1>2 DEF CountInv, Top
<1>4. ASSUME OneTarget, NEW i \in 1..Len(Recs)
      PROVE  Counted(i)'
  <2>1. Counted(i) /\ Budget \in Nat /\ Budget' \in Nat /\ Budget <= Budget' /\ Len(Recs) \in Nat
    BY <1>4, BudgetType, BudgetGains DEF CountInv
  <2>2. Owing(i) = {v \in Threads : threads[v] # <<>> /\ ~Settled(view, Last(threads[v]), i)}
    BY DEF Owing, Live, Top
  <2>3. Owing(i)' = {v \in Threads : threads[v] # <<>> /\ ~Settled(view', Last(threads[v]), i)}
    BY OwingAfter
  <2>4. Live \in SUBSET Threads /\ Owing(i) \in SUBSET Live /\ Owing(i)' \in SUBSET Live
    BY <2>2, <2>3 DEF Live
  <2>5. /\ Cardinality(Live) \in Nat /\ Cardinality(Owing(i)) \in Nat
        /\ Cardinality(Owing(i)') \in Nat /\ Cardinality(Owing(i)') <= Cardinality(Live)
    BY <2>4, ThreadsFinite, FS_Subset
  <2>6. CASE view' = view \/ ~(Len(Recs) > 1)
    <3>1. ASSUME NEW v \in Threads, threads[v] # <<>>, Settled(view, Last(threads[v]), i)
          PROVE  Settled(view', Last(threads[v]), i)
      <4>1. CASE view' = view
        BY <3>1, <4>1
      <4>2. CASE ~(Len(Recs) > 1)
        <5>1. Last(threads[v]).next \in Nat /\ i \in Nat /\ 1 <= i
          BY <2>1, <3>1, TopFacts DEF Top
        <5>2. Last(threads[v]).at # Nowhere /\ i < Last(threads[v]).next
          BY <3>1 DEF Settled
        <5>3. Last(threads[v]).next > Len(Recs)
          BY <2>1, <4>2, <5>1, <5>2
        <5> QED BY <5>2, <5>3 DEF Settled
      <4> QED BY <2>6, <4>1, <4>2
    <3>2. Owing(i)' \in SUBSET Owing(i)
      BY <2>2, <2>3, <3>1
    <3>3. IsFiniteSet(Owing(i))
      BY <2>2, ThreadsFinite
    <3>4. Cardinality(Owing(i)') <= Cardinality(Owing(i)) + 0
      BY <2>5, <3>2, <3>3, FS_Subset
    <3> QED BY <1>4, <2>1, <3>4, QuietCount
  <2>7. CASE Len(Recs) > 1 /\ moves' = moves + 1
    <3>1. Budget' = Budget + faults + 1
      BY <2>7, BudgetGains
    <3>2. Cardinality(Owing(i)') <= Cardinality(Owing(i)) + (faults + 1)
      BY <1>1, <2>5
    <3>3. Places(i)' = Places(i) /\ IsFiniteSet(Places(i)) /\ Cardinality(Places(i)) \in Nat
      BY <2>1, PlacesKept, FS_CardinalityType DEF Counted
    <3>4. Cardinality(Places(i)') <= Cardinality(Places(i)) + 0
          /\ Budget + 0 + (faults + 1) <= Budget'
          /\ 0 \in Int /\ faults + 1 \in Int /\ Budget \in Int /\ Budget' \in Int
      BY <1>1, <2>1, <3>1, <3>3
    <3> QED BY <2>1, <3>2, <3>3, <3>4, Account
  <2> QED BY <2>6, <2>7
<1>5. faults' \in Nat /\ Cardinality(Live') <= faults' + 1
  BY <1>1, <1>2
<1>6. OneTarget' => \A i \in 1..Len(Recs') : Counted(i)'
  BY <1>2, <1>4
<1>7. (\A v \in Live : Top(v).at # Nowhere /\ Top(v).next > 1 => Top(v).at \in known)'
  BY <1>3 DEF Top
<1> QED BY <1>2, <1>5, <1>6, <1>7 DEF CountInv

LEMMA InitCount ==
  ASSUME Init, IndInv
  PROVE  CountInv
<1>1. faults = 0 /\ moves = 0 /\ reply.status = "none"
      /\ logs = [b \in Brokers |-> [q \in Partitions |-> <<>>]]
  BY DEF Init, NoReply
<1>2. threads = [t \in Threads |-> IF t = 1 THEN <<Call(Min(Brokers))>> ELSE <<>>]
  BY DEF Init
<1>3. 1 \in Threads
  BY RoutingAssumption DEF Threads
<1>4. Live = {1} /\ Top(1) = Call(Min(Brokers))
  BY <1>2, <1>3 DEF Live, Top, Last
<1>5. Cardinality(Live) = 1
  BY <1>4, FS_Singleton
<1>6. ASSUME NEW i \in 1..Len(Recs)
      PROVE  Counted(i)
  <2>1. Places(i) = {}
    BY <1>1 DEF Places, Copies
  <2>2. Owing(i) \in SUBSET Live /\ IsFiniteSet(Live)
    BY <1>4, FS_Singleton DEF Owing
  <2>3. Cardinality(Owing(i)) <= 1 /\ Cardinality(Owing(i)) \in Nat
    BY <1>5, <2>2, FS_Subset, FS_CardinalityType
  <2>4. Budget = 1
    BY <1>1 DEF Budget
  <2>5. IsFiniteSet(Places(i)) /\ Cardinality(Places(i)) = 0
    BY <2>1, FS_EmptySet
  <2> QED BY <2>3, <2>4, <2>5 DEF Counted
<1>7. Top(1).next = 1
  BY <1>4 DEF Call
<1> QED BY <1>1, <1>4, <1>5, <1>6, <1>7 DEF CountInv

-----------------------------------------------------------------------------
(* Theorems *)

LEMMA Inductive == Spec => []IndInv
<1>1. Init => IndInv
  BY InitInv
<1>2. IndInv /\ [Next]_vars => IndInv'
  <2> SUFFICES ASSUME IndInv, [Next]_vars
               PROVE  IndInv'
    OBVIOUS
  <2>1. ASSUME NEW t \in Threads, Step(t)
        PROVE  IndInv'
    BY <2>1, UnknownTopicInv, ProxyInv, SuccessInv, UnwindInv, AppendInv DEF Step
  <2>2. ASSUME NEW t \in Threads, NEW u \in Threads, NEW d \in 1..MaxHops,
               NEW arrived \in BOOLEAN, Timeout(t, d, u, arrived)
        PROVE  IndInv'
    BY <2>2, TimeoutInv
  <2>3. ASSUME NEW b \in Brokers, NEW l \in Brokers, NEW q \in Partitions, Move(b, q, l)
        PROVE  IndInv'
    <3>1. view' \in [Brokers -> [Partitions -> Brokers]] /\ known' \subseteq Brokers
      BY <2>3 DEF Move, IndInv, Typed
    <3> QED BY <2>3, <3>1, ElsewhereInv DEF Move
  <2>4. ASSUME NEW b \in Brokers, Learn(b)
        PROVE  IndInv'
    <3>1. view' \in [Brokers -> [Partitions -> Brokers]] /\ known' \subseteq Brokers
      BY <2>4 DEF Learn, IndInv, Typed
    <3> QED BY <2>4, <3>1, ElsewhereInv DEF Learn
  <2>5. CASE UNCHANGED vars
    <3>1. view' \in [Brokers -> [Partitions -> Brokers]] /\ known' \subseteq Brokers
      BY <2>5 DEF vars, IndInv, Typed
    <3> QED BY <2>5, <3>1, ElsewhereInv DEF vars
  <2> QED BY <2>1, <2>2, <2>3, <2>4, <2>5 DEF Next
<1> QED BY <1>1, <1>2, PTL DEF Spec

\* Every variable keeps its type, and a handler has a result for every record
\* before its next one, whatever is proxied, tried again or given up.
THEOREM RoutingTypes == Spec => []TypeOK
<1>1. ASSUME IndInv
      PROVE  TypeOK
  <2>1. ASSUME NEW t \in Threads, NEW d \in 1..Len(threads[t])
        PROVE  LET f == threads[t][d]
               IN  /\ f.at \in Brokers \cup {Nowhere} /\ f.attempt \in 1..Attempts
                   /\ f.at # Nowhere => Len(f.out) = f.next - 1
                   /\ d < Len(threads[t]) => f.leader \in Brokers \ {f.at}
    BY <1>1 DEF IndInv, StackOK, CallOK, Calls
  <2> QED BY <1>1, <2>1 DEF TypeOK, IndInv, Typed, Logs, ReplyOK
<1>2. IndInv => TypeOK
  BY <1>1
<1> QED BY <1>2, Inductive, PTL

\* A success tells the truth: every record is where the response says, although
\* calls that were given up go on and other brokers may take the lead.
THEOREM ResponsesTruthful == Spec => []ResponseTruthful
<1>1. IndInv => ResponseTruthful
  BY DEF IndInv, ReplyOK, Told, ResponseTruthful
<1> QED BY <1>1, Inductive, PTL

\* Two records with one key keep their order in every log of every broker,
\* however often a batch is cut off, proxied and sent again.
THEOREM KeysOrdered == Spec => []KeyOrder
<1>1. ASSUME IndInv
      PROVE  KeyOrder
  BY <1>1 DEF IndInv, Ordered, ByHash, KeyOrder
<1>2. IndInv => KeyOrder
  BY <1>1
<1> QED BY <1>2, Inductive, PTL

\* Copies have causes: a request to one target leaves at most one copy of each of
\* its records, none if it failed, and one for every call that timed out or wait
\* that failed; one that is longer leaves, for every change of metadata, one more
\* for every call that was under way.
THEOREM CopiesBounded == Spec => []CopiesAccounted
<1>1. Init => IndInv /\ CountInv
  BY InitInv, InitCount
<1>2. IndInv /\ CountInv /\ [Next]_vars => CountInv'
  <2> SUFFICES ASSUME IndInv, CountInv, [Next]_vars
               PROVE  CountInv'
    OBVIOUS
  <2>1. ASSUME NEW t \in Threads, Step(t)
        PROVE  CountInv'
    BY <2>1, UnknownTopicCount, ProxyCount, SuccessCount, UnwindCount, AppendCount DEF Step
  <2>2. ASSUME NEW t \in Threads, NEW u \in Threads, NEW d \in 1..MaxHops,
               NEW arrived \in BOOLEAN, Timeout(t, d, u, arrived)
        PROVE  CountInv'
    BY <2>2, TimeoutCount
  <2>3. ASSUME NEW b \in Brokers, NEW l \in Brokers, NEW q \in Partitions, Move(b, q, l)
        PROVE  CountInv'
    BY <2>3, ElsewhereCount DEF Move
  <2>4. ASSUME NEW b \in Brokers, Learn(b)
        PROVE  CountInv'
    BY <2>4, ElsewhereCount DEF Learn
  <2>5. CASE UNCHANGED vars
    BY <2>5, ElsewhereCount DEF vars
  <2> QED BY <2>1, <2>2, <2>3, <2>4, <2>5 DEF Next
<1>3. IndInv /\ CountInv => CopiesAccounted
  <2> SUFFICES ASSUME IndInv, CountInv, OneTarget, NEW i \in DOMAIN Recs
               PROVE  Cardinality(Places(i)) <= Budget
    BY DEF CopiesAccounted, Budget
  <2>1. i \in 1..Len(Recs)
    BY RecsType DEF IndInv, Typed
  <2>2. Counted(i) /\ Budget \in Nat
    BY <2>1, BudgetType DEF CountInv
  <2>3. Owing(i) \in SUBSET Threads
    BY DEF Owing, Live
  <2>4. Cardinality(Owing(i)) \in Nat /\ Cardinality(Places(i)) \in Nat
    BY <2>2, <2>3, ThreadsFinite, FS_CardinalityType DEF Counted
  <2> QED BY <2>2, <2>4 DEF Counted
<1> QED BY <1>1, <1>2, <1>3, Inductive, PTL DEF Spec
=============================================================================

----------------------------- MODULE MCProduce -----------------------------
(***************************************************************************)
(* Keys and requests for the instances of ProduceRouting that TLC checks.  *)
(***************************************************************************)
EXTENDS ProduceRouting

HashTwo == [k \in Keys |-> IF k = "k" THEN 0 ELSE 1]

Single(k, p) == [key |-> k, partition |-> p, records |-> <<>>]
Batch(ks) == [key |-> NoKey, partition |-> 0,
              records |-> [i \in DOMAIN ks |-> [key |-> ks[i], partition |-> 0]]]

\* A request for partition p whose record has another key than the request.
OtherKey(p) == [key |-> "k", partition |-> p,
                records |-> <<[key |-> "j", partition |-> 0]>>]

AllRequests ==
  {Single("k", 0), Single(NoKey, 0), Single("k", 1), Single("k", 7), OtherKey(1),
   Batch(<<"k", "k">>), Batch(<<"k", "j">>)}
=============================================================================

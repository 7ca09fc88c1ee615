----------------------------- MODULE MCConsumer -----------------------------
(***************************************************************************)
(* Topics for the instances of Consumer that TLC checks.                   *)
(***************************************************************************)
EXTENDS Consumer

OnePartition == [t \in Topics |-> 1]
TwoPartitions == [t \in Topics |-> 2]
=============================================================================

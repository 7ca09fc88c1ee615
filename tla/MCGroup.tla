------------------------------ MODULE MCGroup ------------------------------
(***************************************************************************)
(* Topics for the instances of GroupCoordinator that TLC checks.           *)
(***************************************************************************)
EXTENDS GroupCoordinator

ThreePartitions == [t \in Topics |-> 3]
=============================================================================

--------------------------- MODULE MCReplication ---------------------------
(***************************************************************************)
(* Replica lists for the instances of Replication that TLC checks.         *)
(***************************************************************************)
EXTENDS Replication

Two == AssignReplicas(0, 2, <<1, 2>>)
TwoOfThree == AssignReplicas(1, 2, <<1, 2, 3>>)
Three == AssignReplicas(0, 3, <<1, 2, 3>>)
=============================================================================

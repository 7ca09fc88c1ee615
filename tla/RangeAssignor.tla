--------------------------- MODULE RangeAssignor ---------------------------
(***************************************************************************)
(* The range assignor (internal/assignor): member i of n, in sorted order  *)
(* and counted from 0, gets a contiguous slice of the p partitions of a    *)
(* topic, and the first p % n members get one more.  Share is the slice in *)
(* closed form; RangeLoop shows that the loop of the code computes it.     *)
(***************************************************************************)
EXTENDS Integers

\* Mutant: one member too many gets an extra partition.
CountLE(i, n, p) == (p \div n) + (IF i <= p % n THEN 1 ELSE 0)

\* The count of assignRange.
Count(i, n, p) == (p \div n) + (IF i < p % n THEN 1 ELSE 0)

\* Where the slice of member i begins.
Start(i, n, p) == i * (p \div n) + (IF i < p % n THEN i ELSE p % n)

Share(i, n, p) == Start(i, n, p)..(Start(i, n, p) + Count(i, n, p) - 1)
=============================================================================

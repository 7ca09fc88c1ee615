---------------------------- MODULE AbstractLog ----------------------------
(***************************************************************************)
(* What a partition log promises: an append-only sequence of records whose *)
(* durable prefix survives a power loss, and of which a power loss may cut *)
(* an undurable tail, but nothing else.                                    *)
(***************************************************************************)
EXTENDS Naturals, Sequences

CONSTANT Items

VARIABLES content,   \* the records, offset o at position o + 1
          durable    \* the number of records that a power loss cannot take

Init == content = <<>> /\ durable = 0

\* An append may also make any part of the log durable.
Add(x) ==
  /\ content' = Append(content, x)
  /\ durable' \in durable..Len(content')

\* The whole log becomes durable.
Sync == durable' = Len(content) /\ UNCHANGED content

\* A power loss keeps a prefix that covers the durable records.
Lose(k) ==
  /\ k >= durable
  /\ content' = SubSeq(content, 1, k)
  /\ UNCHANGED durable

Next ==
  \/ \E x \in Items : Add(x)
  \/ Sync
  \/ \E k \in 0..Len(content) : Lose(k)

Spec == Init /\ [][Next]_<<content, durable>>
=============================================================================

------------------------------- MODULE Arena -------------------------------
(***************************************************************************)
(* What prysma::memory_resource promises to those who allocate from it: a  *)
(* block lies in the arena, on its alignment, and apart from every block   *)
(* handed out before.                                                      *)
(***************************************************************************)
EXTENDS Naturals

CONSTANTS
  Capacity,     \* bytes in the arena
  Sizes,        \* sizes that are asked for
  Alignments    \* alignments that are asked for

VARIABLE blocks   \* the blocks handed out

Block == [start : Nat, bytes : Sizes, alignment : Alignments]

Fits(b) == b.start % b.alignment = 0 /\ b.start + b.bytes <= Capacity

Apart(b, c) == b.start + b.bytes <= c.start \/ c.start + c.bytes <= b.start

Init == blocks = {}

Allocate ==
  \E start \in 0 .. Capacity, bytes \in Sizes, alignment \in Alignments :
    LET b == [start |-> start, bytes |-> bytes, alignment |-> alignment]
    IN /\ Fits(b)
       /\ \A c \in blocks : Apart(b, c)
       /\ blocks' = blocks \cup {b}

Spec == Init /\ [][Allocate]_blocks

=============================================================================

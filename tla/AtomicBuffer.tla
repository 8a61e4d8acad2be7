---------------------------- MODULE AtomicBuffer ----------------------------
(***************************************************************************)
(* monotonic_atomic_buffer: threads carve blocks from one buffer by moving *)
(* an atomic offset with compare_exchange_weak.  All accesses are relaxed, *)
(* so the first load of a call may return any value the offset has had     *)
(* that is no older than what the thread has seen; a failed exchange, also *)
(* a spurious one, gives the present value.                                *)
(***************************************************************************)
EXTENDS Naturals

CONSTANTS
  Threads,      \* the threads that allocate
  Capacity,     \* capacity_
  Sizes,        \* the sizes they ask for
  Alignments    \* the alignments they ask for

ASSUME BufferAssumption ==
  /\ Capacity \in Nat
  /\ Sizes \subseteq Nat \ {0}
  /\ Alignments \subseteq Nat \ {0}

VARIABLES
  offset,    \* offset_
  past,      \* every value the offset has had
  stage,     \* thread -> "out" of do_allocate, or in its loop, about to "try"
  asked,     \* thread -> the size and the alignment it asks for
  current,   \* thread -> its copy of the offset, the newest it has seen
  blocks     \* what do_allocate has returned

bufferVars == <<offset, past, stage, asked, current, blocks>>

BufferInit ==
  /\ offset = 0
  /\ past = {0}
  /\ stage = [t \in Threads |-> "out"]
  /\ asked \in [Threads -> [bytes : Sizes, alignment : Alignments]]
  /\ current = [t \in Threads |-> 0]
  /\ blocks = {}

\* (c + (a - 1)) & ~(a - 1) for a power of two a.
AlignUp(c, a) == ((c + (a - 1)) \div a) * a

Aligned(t) == AlignUp(current[t], asked[t].alignment)
After(t) == Aligned(t) + asked[t].bytes
BlockOf(t) == [start |-> Aligned(t), bytes |-> asked[t].bytes,
               alignment |-> asked[t].alignment]

Load(t, bytes, alignment) ==
  /\ stage[t] = "out"
  /\ stage' = [stage EXCEPT ![t] = "try"]
  /\ asked' = [asked EXCEPT ![t] = [bytes |-> bytes, alignment |-> alignment]]
  /\ \E seen \in past : seen >= current[t] /\ current' = [current EXCEPT ![t] = seen]
  /\ UNCHANGED <<offset, past, blocks>>

\* Mutant: a block that would end at the capacity is refused.
RefuseExactFit(t) ==
  /\ stage[t] = "try"
  /\ After(t) >= Capacity
  /\ stage' = [stage EXCEPT ![t] = "out"]
  /\ UNCHANGED <<offset, past, asked, current, blocks>>

\* do_allocate returns nullptr.
Refuse(t) ==
  /\ stage[t] = "try"
  /\ After(t) > Capacity
  /\ stage' = [stage EXCEPT ![t] = "out"]
  /\ UNCHANGED <<offset, past, asked, current, blocks>>

Retry(t) ==
  /\ stage[t] = "try"
  /\ After(t) <= Capacity
  /\ current' = [current EXCEPT ![t] = offset]
  /\ UNCHANGED <<offset, past, stage, asked, blocks>>

\* Mutant: the offset is stored without the comparison.
Overwrite(t) ==
  /\ stage[t] = "try"
  /\ After(t) <= Capacity
  /\ offset' = After(t)
  /\ past' = past \cup {After(t)}
  /\ current' = [current EXCEPT ![t] = After(t)]
  /\ blocks' = blocks \cup {BlockOf(t)}
  /\ stage' = [stage EXCEPT ![t] = "out"]
  /\ UNCHANGED asked

\* Mutant: the loop does not test the capacity.
SwapUnchecked(t) ==
  /\ stage[t] = "try"
  /\ offset = current[t]
  /\ offset' = After(t)
  /\ past' = past \cup {After(t)}
  /\ current' = [current EXCEPT ![t] = After(t)]
  /\ blocks' = blocks \cup {BlockOf(t)}
  /\ stage' = [stage EXCEPT ![t] = "out"]
  /\ UNCHANGED asked

\* The exchange succeeds; do_allocate returns the block.
Swap(t) ==
  /\ stage[t] = "try"
  /\ After(t) <= Capacity
  /\ offset = current[t]
  /\ offset' = After(t)
  /\ past' = past \cup {After(t)}
  /\ current' = [current EXCEPT ![t] = After(t)]
  /\ blocks' = blocks \cup {BlockOf(t)}
  /\ stage' = [stage EXCEPT ![t] = "out"]
  /\ UNCHANGED asked

BufferStep(t) ==
  \/ \E bytes \in Sizes, alignment \in Alignments : Load(t, bytes, alignment)
  \/ Refuse(t)
  \/ Retry(t)
  \/ Swap(t)

BufferNext == \E t \in Threads : BufferStep(t)

BufferSpec == BufferInit /\ [][BufferNext]_bufferVars

---------------------------------------------------------------------------
BufferTypeOK ==
  /\ offset \in 0 .. Capacity
  /\ past \in SUBSET Nat
  /\ stage \in [Threads -> {"out", "try"}]
  /\ asked \in [Threads -> [bytes : Sizes, alignment : Alignments]]
  /\ current \in [Threads -> Nat]
  /\ blocks \in SUBSET [start : Nat, bytes : Sizes, alignment : Alignments]

\* The buffer is an arena: whatever loads are stale and whatever exchanges
\* fail, blocks are inside it, aligned and disjoint.
Contract == INSTANCE Arena
ImplementsArena == Contract!Spec

\* do_allocate returns nullptr only when the request does not fit behind the
\* present offset, however old the copy is that the thread has loaded.
Refused(t) == stage[t] = "try" /\ stage'[t] = "out" /\ blocks' = blocks
RefusalJustified ==
  [][\A t \in Threads : Refused(t) =>
       AlignUp(offset, asked[t].alignment) + asked[t].bytes > Capacity]_bufferVars

=============================================================================

-------------------------- MODULE InterningProofs --------------------------
(***************************************************************************)
(* Interning for any number of threads, shards and calls, any texts and    *)
(* any buffer, exhausted or not: equal texts get one address, and no two   *)
(* texts share a byte.  Rests on the invariant of the buffer; what it adds *)
(* is who owns a chunk, from the buffer to the free list of a shard, to    *)
(* its active chunk, to the texts in it.                                   *)
(***************************************************************************)
EXTENDS StringInterning, SequenceTheorems, TLAPS

(***************************************************************************)
(* Disjointness of allocations for any number of threads, any capacity and *)
(* any requests: AtomicBuffer implements Arena.                            *)
(***************************************************************************)

\* No copy of the offset is ahead of it.
OffsetNewest ==
  /\ \A v \in past : v <= offset
  /\ \A t \in Threads : current[t] <= offset

\* The blocks lie below the offset, on their alignment, and apart.
BlocksBelow ==
  /\ \A b \in blocks : /\ b.start % b.alignment = 0
                       /\ b.start + b.bytes <= offset
  /\ \A b, c \in blocks : b # c => Contract!Apart(b, c)

IInv == BufferTypeOK /\ OffsetNewest /\ BlocksBelow

---------------------------------------------------------------------------
\* Aligning a position moves it forward, to a multiple of the alignment.
LEMMA AlignUpBounds ==
  ASSUME NEW c \in Nat, NEW a \in Nat \ {0}
  PROVE  /\ AlignUp(c, a) \in Nat
         /\ c <= AlignUp(c, a)
         /\ AlignUp(c, a) % a = 0
  <1> DEFINE d == c + (a - 1)
  <1>1. d \in Nat /\ d \div a \in Nat
    OBVIOUS
  <1>2. d < a * (d \div a) + a
    BY <1>1
  <1>3. \A q \in Nat : (q * a) % a = 0
    OBVIOUS
  <1>4. (d \div a) * a \in Nat /\ c <= (d \div a) * a
    BY <1>1, <1>2
  <1> QED
    BY <1>1, <1>3, <1>4 DEF AlignUp

\* Aligning preserves order.
LEMMA AlignUpMonotone ==
  ASSUME NEW c \in Nat, NEW d \in Nat, c <= d, NEW a \in Nat \ {0}
  PROVE  AlignUp(c, a) <= AlignUp(d, a)
  <1>1. c + (a - 1) \in Nat /\ d + (a - 1) \in Nat /\ c + (a - 1) <= d + (a - 1)
    OBVIOUS
  <1>2. (c + (a - 1)) \div a <= (d + (a - 1)) \div a
    BY <1>1
  <1>3. (c + (a - 1)) \div a \in Nat /\ (d + (a - 1)) \div a \in Nat
    BY <1>1
  <1>4. \A p, q \in Nat : p <= q => p * a <= q * a
    OBVIOUS
  <1> QED
    BY <1>2, <1>3, <1>4 DEF AlignUp

---------------------------------------------------------------------------
LEMMA InitIInv == BufferInit => IInv
  BY BufferAssumption DEF BufferInit, IInv, BufferTypeOK, OffsetNewest, BlocksBelow

\* The block a thread is about to take lies past its copy of the offset.
LEMMA BlockFacts ==
  ASSUME IInv, NEW t \in Threads, stage[t] = "try"
  PROVE  /\ BlockOf(t) \in [start : Nat, bytes : Sizes, alignment : Alignments]
         /\ current[t] <= Aligned(t)
         /\ Aligned(t) % asked[t].alignment = 0
         /\ After(t) \in Nat
         /\ current[t] <= After(t)
  <1>1. current[t] \in Nat /\ asked[t].alignment \in Alignments /\ asked[t].bytes \in Sizes
    BY DEF IInv, BufferTypeOK
  <1>2. asked[t].alignment \in Nat \ {0} /\ asked[t].bytes \in Nat
    BY <1>1, BufferAssumption
  <1>3. /\ Aligned(t) \in Nat
        /\ current[t] <= Aligned(t)
        /\ Aligned(t) % asked[t].alignment = 0
    BY <1>1, <1>2, AlignUpBounds DEF Aligned
  <1> QED
    BY <1>1, <1>2, <1>3 DEF BlockOf, After

LEMMA LoadIInv ==
  ASSUME IInv, NEW t \in Threads, NEW bytes \in Sizes, NEW alignment \in Alignments,
         Load(t, bytes, alignment)
  PROVE  IInv'
  <1> USE DEF IInv, Load
  <1>1. BufferTypeOK'
    BY DEF BufferTypeOK
  <1>2. OffsetNewest'
    BY DEF BufferTypeOK, OffsetNewest
  <1>3. BlocksBelow'
    BY DEF BlocksBelow, Contract!Apart
  <1> QED
    BY <1>1, <1>2, <1>3

\* A block that is handed out is a new one.
LEMMA SwapIsNew ==
  ASSUME IInv, NEW t \in Threads, Swap(t)
  PROVE  BlockOf(t) \notin blocks /\ blocks' # blocks
  <1>1. /\ BlockOf(t).start \in Nat /\ BlockOf(t).bytes \in Nat \ {0}
        /\ offset \in Nat /\ offset <= BlockOf(t).start
    <2>1. BlockOf(t) \in [start : Nat, bytes : Sizes, alignment : Alignments]
      BY BlockFacts DEF Swap
    <2>2. offset \in Nat /\ offset = current[t] /\ current[t] <= Aligned(t)
      BY BlockFacts, BufferAssumption DEF Swap, IInv, BufferTypeOK
    <2> QED
      BY <2>1, <2>2, BufferAssumption DEF BlockOf
  <1>2. \A b \in blocks : b.start + b.bytes <= offset
    BY DEF IInv, BlocksBelow
  <1>3. BlockOf(t) \notin blocks
    BY <1>1, <1>2
  <1> QED
    BY <1>3 DEF Swap

LEMMA SwapIInv ==
  ASSUME IInv, NEW t \in Threads, Swap(t)
  PROVE  IInv'
  <1> DEFINE b == BlockOf(t)
  <1>1. /\ b \in [start : Nat, bytes : Sizes, alignment : Alignments]
        /\ offset <= b.start
        /\ b.start % b.alignment = 0
        /\ b.start + b.bytes = After(t)
        /\ After(t) \in Nat
        /\ offset <= After(t)
    BY BlockFacts DEF Swap, BlockOf, After
  <1>2. BufferTypeOK'
    <2>1. After(t) \in 0 .. Capacity
      BY <1>1, BufferAssumption DEF Swap
    <2> QED
      BY <1>1, <2>1 DEF Swap, IInv, BufferTypeOK
  <1>3. OffsetNewest'
    BY <1>1, BufferAssumption DEF Swap, IInv, BufferTypeOK, OffsetNewest
  <1>4. \A c \in blocks : c.start \in Nat /\ c.start + c.bytes <= offset /\ c.start + c.bytes \in Nat
    <2> TAKE c \in blocks
    <2>1. c \in [start : Nat, bytes : Sizes, alignment : Alignments]
      BY DEF IInv, BufferTypeOK
    <2>2. c.start \in Nat /\ c.bytes \in Nat
      BY <2>1, BufferAssumption
    <2>3. c.start + c.bytes <= offset
      BY DEF IInv, BlocksBelow
    <2> QED
      BY <2>2, <2>3
  <1>5. \A c \in blocks : Contract!Apart(c, b) /\ Contract!Apart(b, c)
    BY <1>1, <1>4 DEF Contract!Apart, IInv, BufferTypeOK
  <1>6. blocks' = blocks \cup {b} /\ offset' = After(t)
    BY DEF Swap
  <1>7. \A c \in blocks' : c.start % c.alignment = 0 /\ c.start + c.bytes <= offset'
    <2> TAKE c \in blocks'
    <2>1. CASE c = b
      BY <2>1, <1>1, <1>6
    <2>2. CASE c \in blocks
      BY <2>2, <1>1, <1>4, <1>6 DEF IInv, BufferTypeOK, BlocksBelow
    <2> QED
      BY <2>1, <2>2, <1>6
  <1>8. \A c, d \in blocks' : c # d => Contract!Apart(c, d)
    BY <1>5, <1>6 DEF IInv, BlocksBelow
  <1>9. BlocksBelow'
    BY <1>7, <1>8 DEF BlocksBelow, Contract!Apart
  <1> QED
    BY <1>2, <1>3, <1>9 DEF IInv

LEMMA NextIInv == IInv /\ [BufferNext]_bufferVars => IInv'
  <1> SUFFICES ASSUME IInv, [BufferNext]_bufferVars PROVE IInv'
    OBVIOUS
  <1>1. CASE UNCHANGED bufferVars
    BY <1>1 DEF bufferVars, IInv, BufferTypeOK, OffsetNewest, BlocksBelow, Contract!Apart
  <1>2. ASSUME NEW t \in Threads, BufferStep(t) PROVE IInv'
    <2>1. CASE \E bytes \in Sizes, alignment \in Alignments : Load(t, bytes, alignment)
      BY <2>1, LoadIInv
    <2>2. CASE Refuse(t)
      <3>1. BufferTypeOK'
        BY <2>2 DEF Refuse, IInv, BufferTypeOK
      <3> QED
        BY <2>2, <3>1 DEF Refuse, IInv, OffsetNewest, BlocksBelow, Contract!Apart
    <2>3. CASE Retry(t)
      <3>1. BufferTypeOK'
        BY <2>3 DEF Retry, IInv, BufferTypeOK
      <3>2. OffsetNewest'
        BY <2>3 DEF Retry, IInv, BufferTypeOK, OffsetNewest
      <3> QED
        BY <2>3, <3>1, <3>2 DEF Retry, IInv, BlocksBelow, Contract!Apart
    <2>4. CASE Swap(t)
      BY <2>4, SwapIInv
    <2> QED
      BY <1>2, <2>1, <2>2, <2>3, <2>4 DEF BufferStep
  <1> QED
    BY <1>1, <1>2 DEF BufferNext

LEMMA Invariance == BufferSpec => []IInv
  BY InitIInv, NextIInv, PTL DEF BufferSpec

---------------------------------------------------------------------------
\* The variables of the buffer keep their types.
THEOREM BufferTypes == BufferSpec => []BufferTypeOK
  <1>1. IInv => BufferTypeOK
    BY DEF IInv
  <1> QED
    BY Invariance, <1>1, PTL

\* do_allocate returns nullptr only when what it is asked for does not fit,
\* however old the offset it has loaded.
THEOREM RefusalsJustified == BufferSpec => RefusalJustified
  <1> DEFINE NoRoom(t) == AlignUp(offset, asked[t].alignment) + asked[t].bytes > Capacity
  <1>1. ASSUME IInv, [BufferNext]_bufferVars, NEW t \in Threads, Refused(t)
        PROVE  NoRoom(t)
    <2>1. PICK u \in Threads : BufferStep(u)
      BY <1>1 DEF BufferNext, Refused, bufferVars
    <2>2. ~Swap(u)
      BY <1>1, SwapIsNew DEF Refused
    <2>3. Refuse(u) /\ u = t
      <3>1. stage \in [Threads -> {"out", "try"}]
        BY <1>1 DEF IInv, BufferTypeOK
      <3> QED
        BY <1>1, <2>1, <2>2, <3>1 DEF BufferStep, Refused, Load, Refuse, Retry
    <2>4. current[t] \in Nat /\ offset \in Nat /\ current[t] <= offset
      BY <1>1, BufferAssumption DEF IInv, BufferTypeOK, OffsetNewest
    <2>5. asked[t].alignment \in Nat \ {0} /\ asked[t].bytes \in Nat
      <3>1. asked[t] \in [bytes : Sizes, alignment : Alignments]
        BY <1>1 DEF IInv, BufferTypeOK
      <3> QED
        BY <3>1, BufferAssumption
    <2>6. AlignUp(current[t], asked[t].alignment) <= AlignUp(offset, asked[t].alignment)
      BY <2>4, <2>5, AlignUpMonotone
    <2>7. /\ AlignUp(current[t], asked[t].alignment) \in Nat
          /\ AlignUp(offset, asked[t].alignment) \in Nat
      BY <2>4, <2>5, AlignUpBounds
    <2>8. After(t) > Capacity
      BY <2>3 DEF Refuse
    <2> QED
      BY <2>5, <2>6, <2>7, <2>8, BufferAssumption DEF After, Aligned
  <1>2. IInv /\ [BufferNext]_bufferVars =>
          [\A t \in Threads : Refused(t) => NoRoom(t)]_bufferVars
    BY <1>1
  <1> QED
    BY Invariance, <1>2, PTL DEF BufferSpec, RefusalJustified

\* Every step of the buffer allocates a block apart from the others or
\* leaves the blocks as they are.
THEOREM BufferIsArena == BufferSpec => ImplementsArena
  <1>1. BufferInit => Contract!Init
    BY DEF BufferInit, Contract!Init
  <1>2. IInv /\ IInv' /\ [BufferNext]_bufferVars => [Contract!Allocate]_blocks
    <2> SUFFICES ASSUME IInv, IInv', [BufferNext]_bufferVars, blocks' # blocks
                 PROVE  Contract!Allocate
      OBVIOUS
    <2>1. PICK t \in Threads : Swap(t)
      BY DEF BufferNext, BufferStep, Load, Refuse, Retry, bufferVars
    <2> DEFINE b == BlockOf(t)
    <2>2. blocks' = blocks \cup {b} /\ b \notin blocks
      BY <2>1 DEF Swap
    <2>3. b \in [start : Nat, bytes : Sizes, alignment : Alignments]
      BY <2>1, BlockFacts DEF Swap
    <2>4. b.start % b.alignment = 0 /\ b.start + b.bytes <= Capacity
      BY <2>1, BlockFacts DEF Swap, BlockOf, After
    <2>5. \A c \in blocks : Contract!Apart(b, c)
      BY <2>2 DEF IInv, BlocksBelow, Contract!Apart
    <2>6. b.start \in 0 .. Capacity /\ b.bytes \in Sizes /\ b.alignment \in Alignments
      <3>1. b.start \in Nat /\ b.bytes \in Sizes /\ b.alignment \in Alignments
        BY <2>3
      <3> HIDE DEF b
      <3>2. b.bytes \in Nat /\ Capacity \in Nat
        BY <3>1, BufferAssumption
      <3> QED
        BY <2>4, <3>1, <3>2
    <2>7. b = [start |-> b.start, bytes |-> b.bytes, alignment |-> b.alignment]
      BY <2>3
    <2> HIDE DEF b
    <2> QED
      BY <2>2, <2>4, <2>5, <2>6, <2>7 DEF Contract!Allocate, Contract!Fits
  <1> QED
    BY Invariance, <1>1, <1>2, PTL DEF BufferSpec, ImplementsArena, Contract!Spec

---------------------------------------------------------------------------

Piece == [base : Nat \cup {NoMemory}, offset : 0 .. ChunkCapacity]
Entry == [key : Texts, base : Nat, at : Nat]

InterningTypeOK ==
  /\ free \in [Shards -> Seq(Piece)]
  /\ active \in [Shards -> Piece]
  /\ table \in [Shards -> SUBSET Entry]
  /\ writer \in [Shards -> Interners \cup {Nobody}]
  /\ pc \in [Interners -> {"idle", "find", "lock", "allocate"}]
  /\ text \in [Interners -> Texts]
  /\ left \in [Interners -> Nat]
  /\ results \in SUBSET [text : Texts, base : Nat, at : Nat]

Starts == {b.start : b \in blocks}

\* All that is asked of the buffer is chunks of full capacity.
WholeBlocks ==
  /\ \A b \in blocks : b.bytes = ChunkCapacity
  /\ \A t \in Threads : stage[t] = "try" => asked[t].bytes = ChunkCapacity

\* A free chunk is in one place and nothing has been written to it.
FreeUnused(f, a, tb, starts) ==
  \A s \in Shards : \A k \in DOMAIN f[s] :
    /\ f[s][k].offset = 0
    /\ f[s][k].base # NoMemory =>
         /\ f[s][k].base \in starts
         /\ \A r \in Shards :
              /\ a[r].base # f[s][k].base
              /\ \A e \in tb[r] : e.base # f[s][k].base
              /\ \A j \in DOMAIN f[r] : f[r][j].base = f[s][k].base => r = s /\ j = k

\* The texts in an active chunk lie below its offset.
ActiveOwned(a, tb, starts) ==
  \A s \in Shards : a[s].base # NoMemory =>
    /\ a[s].base \in starts
    /\ \A r \in Shards :
         /\ a[r].base = a[s].base => r = s
         /\ \A e \in tb[r] : e.base = a[s].base =>
              r = s /\ e.at + TextLen[e.key] < a[s].offset

EntriesInside(tb, starts) ==
  \A s \in Shards : \A e \in tb[s] :
    e.base \in starts /\ e.at + TextLen[e.key] < ChunkCapacity

EntriesApart(tb) ==
  \A r, s \in Shards : \A d \in tb[r], e \in tb[s] :
    d.base = e.base /\ d # e => \/ d.at + TextLen[d.key] < e.at
                               \/ e.at + TextLen[e.key] < d.at

\* Who owns which chunk, of free chunks, active chunks and tables.
Owned(f, a, tb, starts) ==
  /\ FreeUnused(f, a, tb, starts)
  /\ ActiveOwned(a, tb, starts)
  /\ EntriesInside(tb, starts)
  /\ EntriesApart(tb)

Chunks == Owned(free, active, table, Starts)

\* A thread that allocates holds its shard's lock, its text is still unknown
\* there, and two chunks are free or about to be.
WriterAlone ==
  \A t \in Interners :
    /\ pc[t] # "idle" => built = NShards * Reserve
    /\ pc[t] = "allocate" =>
         /\ writer[S(t)] = t
         /\ Known(t) = {}
         /\ Len(free[S(t)]) + left[t] >= 2

KeysUnique == \A s \in Shards : \A d, e \in table[s] : d.key = e.key => d = e

\* What a call has returned for a text without a NUL is in the table.
ResultsEntered ==
  \A r \in results : KeyOf[r.text] = r.text =>
    [key |-> r.text, base |-> r.base, at |-> r.at] \in table[ShardOf[r.text]]

NInv ==
  /\ IInv
  /\ InterningTypeOK
  /\ WholeBlocks
  /\ Chunks
  /\ WriterAlone
  /\ KeysUnique
  /\ ResultsEntered

LEMMA InitNInv == Init => NInv
  <1> SUFFICES ASSUME Init PROVE NInv
    OBVIOUS
  <1> USE InterningAssumption, TextAssumption, BufferAssumption DEF Init
  <1>1. IInv
    BY InitIInv
  <1>2. InterningTypeOK
    <2>1. (CHOOSE x \in Texts : TRUE) \in Texts
      OBVIOUS
    <2>2. Chunk(NoMemory) \in Piece /\ << >> \in Seq(Piece)
      BY DEF Chunk, Piece
    <2> QED
      BY <2>1, <2>2 DEF InterningTypeOK
  <1>3. WholeBlocks
    BY DEF WholeBlocks, BufferInit
  <1>4. Chunks
    BY DEF Chunks, Owned, FreeUnused, ActiveOwned, EntriesInside, EntriesApart, Chunk
  <1>5. WriterAlone /\ KeysUnique /\ ResultsEntered
    BY DEF WriterAlone, KeysUnique, ResultsEntered
  <1> QED
    BY <1>1, <1>2, <1>3, <1>4, <1>5 DEF NInv

---------------------------------------------------------------------------
(* Chunks from the buffer *)

LEMMA CapacityFacts ==
  /\ ChunkCapacity \in Nat \ {0} /\ ChunkCapacity \in Sizes /\ 1 \in Alignments
  /\ Interners \subseteq Threads /\ Main \in Threads
  BY InterningAssumption, BufferAssumption DEF Interners

LEMMA AskChunkStep ==
  ASSUME IInv, WholeBlocks, NEW t \in Threads, AskChunk(t)
  PROVE  IInv' /\ WholeBlocks' /\ UNCHANGED blocks
  <1>1. [BufferNext]_bufferVars
    BY CapacityFacts DEF AskChunk, BufferNext, BufferStep
  <1>2. IInv'
    BY <1>1, NextIInv
  <1>3. WholeBlocks' /\ UNCHANGED blocks
    BY DEF AskChunk, Load, Retry, WholeBlocks, IInv, BufferTypeOK
  <1> QED
    BY <1>2, <1>3

\* The base of a new chunk is new.
LEMMA ReceiveChunkStep ==
  ASSUME IInv, WholeBlocks, NEW t \in Threads, NEW base \in Bases, ReceiveChunk(t, base)
  PROVE  /\ IInv' /\ WholeBlocks'
         /\ base \in Nat \cup {NoMemory}
         /\ Starts \subseteq Starts'
         /\ base # NoMemory => base \in Starts' \ Starts
  <1>1. [BufferNext]_bufferVars
    BY DEF ReceiveChunk, BufferNext, BufferStep
  <1>2. IInv'
    BY <1>1, NextIInv
  <1>3. base \in Nat \cup {NoMemory}
    BY BufferAssumption DEF Bases
  <1>4. CASE Refuse(t) /\ base = NoMemory
    <2>1. WholeBlocks' /\ UNCHANGED blocks
      BY <1>4 DEF Refuse, WholeBlocks, IInv, BufferTypeOK
    <2> QED
      BY <1>2, <1>3, <1>4, <2>1 DEF Starts
  <1>5. CASE Swap(t) /\ base = Aligned(t)
    <2>1. /\ stage[t] = "try" /\ blocks' = blocks \cup {BlockOf(t)} /\ UNCHANGED asked
          /\ stage' = [stage EXCEPT ![t] = "out"]
      BY <1>5 DEF Swap
    <2>2. BlockOf(t).bytes = ChunkCapacity /\ BlockOf(t).start = base
      BY <1>5, <2>1 DEF WholeBlocks, BlockOf
    <2>3. WholeBlocks'
      BY <2>1, <2>2 DEF WholeBlocks, IInv, BufferTypeOK
    <2>4. Starts' = Starts \cup {base}
      BY <2>1, <2>2 DEF Starts
    <2>5. base \notin Starts
      <3> SUFFICES ASSUME NEW b \in blocks, b.start = base PROVE FALSE
        BY DEF Starts
      <3>1. offset = current[t] /\ current[t] <= base /\ offset \in Nat
        BY <1>5, <2>1, BlockFacts, BufferAssumption DEF Swap, IInv, BufferTypeOK
      <3>2. b.start + b.bytes <= offset /\ b.bytes = ChunkCapacity /\ b.start \in Nat
        BY DEF IInv, BlocksBelow, WholeBlocks, BufferTypeOK
      <3> QED
        BY <3>1, <3>2, CapacityFacts
    <2> QED
      BY <1>2, <1>3, <2>3, <2>4, <2>5
  <1> QED
    BY <1>4, <1>5 DEF ReceiveChunk

---------------------------------------------------------------------------
(* Ownership, whatever the buffer does *)

LEMMA StartsGrow ==
  ASSUME NEW f, NEW a, NEW tb, NEW starts, NEW more,
         Owned(f, a, tb, starts), starts \subseteq more
  PROVE  Owned(f, a, tb, more)
  BY DEF Owned, FreeUnused, ActiveOwned, EntriesInside

\* A new chunk becomes a free one.
LEMMA AppendOwned ==
  ASSUME NEW f \in [Shards -> Seq(Piece)], NEW a, NEW tb, NEW starts, NEW more,
         Owned(f, a, tb, starts), starts \subseteq more,
         NEW s \in Shards,
         NEW base \in Nat \cup {NoMemory}, base # NoMemory => base \in more \ starts,
         NEW longer, longer = Append(f[s], Chunk(base)),
         NEW g, g = [f EXCEPT ![s] = longer]
  PROVE  g \in [Shards -> Seq(Piece)] /\ Owned(g, a, tb, more)
  <1>1. Chunk(base) \in Piece /\ Chunk(base).base = base /\ Chunk(base).offset = 0
    BY CapacityFacts DEF Chunk, Piece
  <1>2. g \in [Shards -> Seq(Piece)]
    BY <1>1
  <1>3. Owned(f, a, tb, more)
    BY StartsGrow
  <1> DEFINE n == Len(f[s]) + 1
  <1>4. /\ DOMAIN g[s] = 1 .. n /\ g[s][n] = Chunk(base) /\ n \notin DOMAIN f[s]
        /\ DOMAIN f[s] = 1 .. Len(f[s]) /\ Len(f[s]) \in Nat
        /\ \A k \in DOMAIN f[s] : k \in DOMAIN g[s] /\ g[s][k] = f[s][k]
    BY <1>1, AppendProperties
  <1>5. \A k \in DOMAIN g[s] : k \in DOMAIN f[s] \/ k = n
    BY <1>4
  <1>6. \A r \in Shards : r # s => g[r] = f[r]
    OBVIOUS
  <1> HIDE DEF n
  <1>7. \A r \in Shards : \A k \in DOMAIN g[r] :
          \/ k \in DOMAIN f[r] /\ g[r][k] = f[r][k]
          \/ r = s /\ k = n /\ g[r][k] = Chunk(base)
    BY <1>4, <1>5, <1>6
  <1>8. base # NoMemory =>
          \A r \in Shards : /\ a[r].base # base
                            /\ \A e \in tb[r] : e.base # base
                            /\ \A k \in DOMAIN f[r] : f[r][k].base # base
    BY DEF Owned, FreeUnused, ActiveOwned, EntriesInside
  <1>9. FreeUnused(g, a, tb, more)
    <2> SUFFICES ASSUME NEW q \in Shards, NEW k \in DOMAIN g[q]
                 PROVE /\ g[q][k].offset = 0
                       /\ g[q][k].base # NoMemory =>
                           /\ g[q][k].base \in more
                           /\ \A r \in Shards :
                               /\ a[r].base # g[q][k].base
                               /\ \A e \in tb[r] : e.base # g[q][k].base
                               /\ \A j \in DOMAIN g[r] :
                                    g[r][j].base = g[q][k].base => r = q /\ j = k
      BY DEF FreeUnused
    <2>1. CASE k \in DOMAIN f[q] /\ g[q][k] = f[q][k]
      <3>1. /\ f[q][k].offset = 0
            /\ f[q][k].base # NoMemory =>
                 /\ f[q][k].base \in more
                 /\ \A r \in Shards :
                      /\ a[r].base # f[q][k].base
                      /\ \A e \in tb[r] : e.base # f[q][k].base
                      /\ \A j \in DOMAIN f[r] : f[r][j].base = f[q][k].base => r = q /\ j = k
        BY <2>1, <1>3 DEF Owned, FreeUnused
      <3>2. f[q][k].base # NoMemory => f[q][k].base # base
        BY <2>1, <1>8
      <3>3. ASSUME NEW r \in Shards, NEW j \in DOMAIN g[r],
                   g[r][j].base = g[q][k].base, g[q][k].base # NoMemory
            PROVE  r = q /\ j = k
        BY <2>1, <3>1, <3>2, <3>3, <1>1, <1>7
      <3> QED
        BY <2>1, <3>1, <3>3
    <2>2. CASE q = s /\ k = n /\ g[q][k] = Chunk(base)
      BY <2>2, <1>1, <1>7, <1>8
    <2> QED
      BY <2>1, <2>2, <1>7
  <1>10. Owned(g, a, tb, more)
    BY <1>3, <1>9 DEF Owned
  <1> QED
    BY <1>2, <1>10

\* The same, of the variables.
LEMMA AppendNewChunk ==
  ASSUME free \in [Shards -> Seq(Piece)], Owned(free, active, table, Starts),
         Starts \subseteq Starts',
         NEW base \in Nat \cup {NoMemory}, base # NoMemory => base \in Starts' \ Starts,
         NEW s \in Shards,
         free' = [free EXCEPT ![s] = Append(free[s], Chunk(base))]
  PROVE  free' \in [Shards -> Seq(Piece)] /\ Owned(free', active, table, Starts')
  <1>1. ASSUME NEW more, more = Starts', NEW q, q = Append(free[s], Chunk(base)),
               NEW g, g = [free EXCEPT ![s] = q]
        PROVE  g \in [Shards -> Seq(Piece)] /\ Owned(g, active, table, more)
    BY <1>1, AppendOwned
  <1> QED
    BY <1>1

\* A new chunk becomes the active one.
LEMMA ActivateOwned ==
  ASSUME NEW f \in [Shards -> Seq(Piece)], NEW a \in [Shards -> Piece], NEW tb,
         NEW starts, NEW more, Owned(f, a, tb, starts), starts \subseteq more,
         NEW base \in Nat \cup {NoMemory}, base # NoMemory => base \in more \ starts,
         NEW s \in Shards,
         NEW b, b = [a EXCEPT ![s] = Chunk(base)]
  PROVE  b \in [Shards -> Piece] /\ Owned(f, b, tb, more)
  <1>1. Chunk(base) \in Piece /\ Chunk(base).base = base /\ Chunk(base).offset = 0
    BY CapacityFacts DEF Chunk, Piece
  <1>2. b \in [Shards -> Piece]
    BY <1>1
  <1>3. Owned(f, a, tb, more)
    BY StartsGrow
  <1>4. b[s] = Chunk(base) /\ \A r \in Shards : r # s => b[r] = a[r]
    OBVIOUS
  <1>5. base # NoMemory =>
          \A r \in Shards : /\ a[r].base # base
                            /\ \A e \in tb[r] : e.base # base
                            /\ \A k \in DOMAIN f[r] : f[r][k].base # base
    BY DEF Owned, FreeUnused, ActiveOwned, EntriesInside
  <1>6. FreeUnused(f, b, tb, more)
    <2> SUFFICES ASSUME NEW q \in Shards, NEW k \in DOMAIN f[q]
                 PROVE /\ f[q][k].offset = 0
                       /\ f[q][k].base # NoMemory =>
                           /\ f[q][k].base \in more
                           /\ \A r \in Shards :
                               /\ b[r].base # f[q][k].base
                               /\ \A e \in tb[r] : e.base # f[q][k].base
                               /\ \A j \in DOMAIN f[r] :
                                    f[r][j].base = f[q][k].base => r = q /\ j = k
      BY DEF FreeUnused
    <2>1. f[q][k].base # NoMemory => \A r \in Shards : b[r].base # f[q][k].base
      <3>1. f[q][k].base # NoMemory => f[q][k].base # base
        BY <1>5
      <3>2. f[q][k].base # NoMemory => \A r \in Shards : a[r].base # f[q][k].base
        BY <1>3 DEF Owned, FreeUnused
      <3> QED
        BY <3>1, <3>2, <1>1, <1>4
    <2> QED
      BY <2>1, <1>3 DEF Owned, FreeUnused
  <1>7. ActiveOwned(b, tb, more)
    BY <1>1, <1>3, <1>4, <1>5 DEF Owned, ActiveOwned
  <1>8. Owned(f, b, tb, more)
    BY <1>3, <1>6, <1>7 DEF Owned
  <1> QED
    BY <1>2, <1>8

\* The free chunks of a shard, and its active one, after a free one was taken.
Dropped(f, s, m) == [f EXCEPT ![s] = SubSeq(f[s], 1, m)]
Opened(a, f, s, m) == [a EXCEPT ![s] = f[s][m + 1]]

\* A free chunk, m + 1, becomes the active one and those behind it are dropped.
LEMMA TakeOwned ==
  ASSUME NEW f \in [Shards -> Seq(Piece)], NEW a \in [Shards -> Piece], NEW tb,
         NEW starts, Owned(f, a, tb, starts),
         NEW s \in Shards, NEW m \in Nat, m < Len(f[s])
  PROVE  /\ Dropped(f, s, m) \in [Shards -> Seq(Piece)]
         /\ Opened(a, f, s, m) \in [Shards -> Piece]
         /\ Owned(Dropped(f, s, m), Opened(a, f, s, m), tb, starts)
  <1> DEFINE g == Dropped(f, s, m)
             b == Opened(a, f, s, m)
             c == f[s][m + 1]
  <1> USE DEF Dropped, Opened
  <1>1. f[s] \in Seq(Piece) /\ Len(f[s]) \in Nat /\ m + 1 \in DOMAIN f[s] /\ c \in Piece
    BY ElementOfSeq, LenProperties
  <1>2. /\ SubSeq(f[s], 1, m) \in Seq(Piece)
        /\ DOMAIN SubSeq(f[s], 1, m) = 1 .. m
        /\ \A k \in 1 .. m : SubSeq(f[s], 1, m)[k] = f[s][k] /\ k \in DOMAIN f[s] /\ k # m + 1
    BY <1>1
  <1>3. g \in [Shards -> Seq(Piece)] /\ b \in [Shards -> Piece]
    BY <1>1, <1>2
  <1>4. \A r \in Shards : \A k \in DOMAIN g[r] :
          /\ k \in DOMAIN f[r] /\ g[r][k] = f[r][k]
          /\ r = s => k # m + 1
    BY <1>2
  <1>5. b[s] = c /\ \A r \in Shards : r # s => b[r] = a[r]
    OBVIOUS
  <1>6. c.base # NoMemory =>
          /\ c.base \in starts
          /\ \A r \in Shards :
               /\ a[r].base # c.base
               /\ \A e \in tb[r] : e.base # c.base
               /\ \A j \in DOMAIN f[r] : f[r][j].base = c.base => r = s /\ j = m + 1
    BY <1>1 DEF Owned, FreeUnused
  <1> HIDE DEF b, c, g, Dropped, Opened
  <1>7. FreeUnused(g, b, tb, starts)
    <2> SUFFICES ASSUME NEW q \in Shards, NEW k \in DOMAIN g[q]
                 PROVE /\ g[q][k].offset = 0
                       /\ g[q][k].base # NoMemory =>
                           /\ g[q][k].base \in starts
                           /\ \A r \in Shards :
                               /\ b[r].base # g[q][k].base
                               /\ \A e \in tb[r] : e.base # g[q][k].base
                               /\ \A j \in DOMAIN g[r] :
                                    g[r][j].base = g[q][k].base => r = q /\ j = k
      BY DEF FreeUnused
    <2>1. k \in DOMAIN f[q] /\ g[q][k] = f[q][k]
      BY <1>4
    <2>2. /\ f[q][k].offset = 0
          /\ f[q][k].base # NoMemory =>
               /\ f[q][k].base \in starts
               /\ \A r \in Shards :
                    /\ a[r].base # f[q][k].base
                    /\ \A e \in tb[r] : e.base # f[q][k].base
                    /\ \A j \in DOMAIN f[r] : f[r][j].base = f[q][k].base => r = q /\ j = k
      BY <2>1 DEF Owned, FreeUnused
    <2>3. f[q][k].base # NoMemory => f[q][k].base # c.base
      BY <2>1, <1>4, <1>6
    <2> QED
      BY <2>1, <2>2, <2>3, <1>4, <1>5
  <1>8. ActiveOwned(b, tb, starts)
    <2> SUFFICES ASSUME NEW q \in Shards, b[q].base # NoMemory
                 PROVE  /\ b[q].base \in starts
                        /\ \A r \in Shards :
                             /\ b[r].base = b[q].base => r = q
                             /\ \A e \in tb[r] : e.base = b[q].base =>
                                  r = q /\ e.at + TextLen[e.key] < b[q].offset
      BY DEF ActiveOwned
    <2>1. CASE q = s
      BY <2>1, <1>5, <1>6
    <2>2. CASE q # s
      <3>1. /\ a[q].base \in starts
            /\ \A r \in Shards :
                 /\ a[r].base = a[q].base => r = q
                 /\ \A e \in tb[r] : e.base = a[q].base =>
                      r = q /\ e.at + TextLen[e.key] < a[q].offset
        BY <2>2, <1>5 DEF Owned, ActiveOwned
      <3>2. c.base # a[q].base
        BY <2>2, <1>5, <1>6
      <3> QED
        BY <2>2, <3>1, <3>2, <1>5
    <2> QED
      BY <2>1, <2>2
  <1>9. Owned(g, b, tb, starts)
    BY <1>7, <1>8 DEF Owned
  <1> QED
    BY <1>3, <1>9 DEF b, g

\* The active chunk and the table of a shard after a text was written.
Lengthened(a, s, x) == [a EXCEPT ![s] = [a[s] EXCEPT !.offset = @ + SpaceFor(x)]]
EntryFor(a, s, x) == [key |-> KeyOf[x], base |-> a[s].base, at |-> a[s].offset]
Entered(tb, s, e) ==
  [tb EXCEPT ![s] = IF \E d \in tb[s] : d.key = e.key THEN tb[s] ELSE tb[s] \cup {e}]

\* A text is written into the active chunk, and entered or not.
LEMMA WriteOwned ==
  ASSUME NEW f \in [Shards -> Seq(Piece)], NEW a \in [Shards -> Piece],
         NEW tb \in [Shards -> SUBSET Entry], NEW starts, Owned(f, a, tb, starts),
         NEW s \in Shards, a[s].base # NoMemory, NEW x \in Texts,
         a[s].offset + SpaceFor(x) <= ChunkCapacity
  PROVE  /\ Lengthened(a, s, x) \in [Shards -> Piece]
         /\ Entered(tb, s, EntryFor(a, s, x)) \in [Shards -> SUBSET Entry]
         /\ Owned(f, Lengthened(a, s, x), Entered(tb, s, EntryFor(a, s, x)), starts)
  <1> DEFINE b == Lengthened(a, s, x)
             e == EntryFor(a, s, x)
             u == Entered(tb, s, e)
  <1>1. /\ a[s] \in Piece /\ a[s].offset \in Nat /\ a[s].base \in Nat
        /\ TextLen[x] \in Nat /\ KeyOf[x] \in Texts /\ TextLen[KeyOf[x]] \in Nat
        /\ TextLen[KeyOf[x]] <= TextLen[x] /\ ChunkCapacity \in Nat
    BY TextAssumption, CapacityFacts DEF Piece
  <1>2. e \in Entry /\ e.base = a[s].base /\ e.at = a[s].offset /\ e.key = KeyOf[x]
    BY <1>1 DEF Entry, EntryFor
  <1>3. /\ b \in [Shards -> Piece] /\ b[s].base = a[s].base
        /\ b[s].offset = a[s].offset + TextLen[x] + 1
        /\ \A r \in Shards : r # s => b[r] = a[r]
    <2> DEFINE c == [a[s] EXCEPT !.offset = @ + SpaceFor(x)]
    <2>1. /\ c \in Piece /\ c.base = a[s].base
          /\ c.offset = a[s].offset + TextLen[x] + 1
      <3>1. SpaceFor(x) = TextLen[x] + 1
        BY DEF SpaceFor
      <3>2. a[s].offset + SpaceFor(x) \in 0 .. ChunkCapacity
        BY <1>1, <3>1
      <3>3. c.base = a[s].base /\ c.offset = a[s].offset + SpaceFor(x)
        BY <1>1 DEF Piece
      <3>4. c = [base |-> a[s].base, offset |-> a[s].offset + SpaceFor(x)]
        BY <1>1 DEF Piece
      <3>5. c \in Piece
        BY <1>1, <3>2, <3>4 DEF Piece
      <3> HIDE DEF c
      <3>6. \A m, n \in Nat : m + (n + 1) = m + n + 1
        OBVIOUS
      <3>7. a[s].offset + SpaceFor(x) = a[s].offset + TextLen[x] + 1
        BY <1>1, <3>1, <3>6
      <3> QED
        BY <3>3, <3>5, <3>7
    <2>2. b = [a EXCEPT ![s] = c]
      BY DEF Lengthened
    <2> HIDE DEF b, c
    <2> QED
      BY <2>1, <2>2
  <1> HIDE DEF e
  <1>4. /\ u \in [Shards -> SUBSET Entry]
        /\ \A r \in Shards : \A d \in u[r] : d \in tb[r] \/ (r = s /\ d = e)
    BY <1>2 DEF Entered
  <1> HIDE DEF b, u
  <1>5. \A r \in Shards : b[r].base = a[r].base
    BY <1>3
  <1>6. a[s].base \in starts
    BY DEF Owned, ActiveOwned
  <1>7. \A r \in Shards : \A d \in tb[r] : d.base = e.base => r = s /\ d.at + TextLen[d.key] < e.at
    BY <1>2 DEF Owned, ActiveOwned
  <1>8. e.at + TextLen[e.key] < b[s].offset /\ e.at + TextLen[e.key] < ChunkCapacity
    BY <1>1, <1>2, <1>3 DEF SpaceFor
  <1>9. FreeUnused(f, b, u, starts)
    <2> SUFFICES ASSUME NEW q \in Shards, NEW k \in DOMAIN f[q], f[q][k].base # NoMemory,
                        NEW r \in Shards, NEW d \in u[r]
                 PROVE d.base # f[q][k].base
      BY <1>5 DEF Owned, FreeUnused
    <2>1. a[s].base # f[q][k].base /\ (d \in tb[r] => d.base # f[q][k].base)
      BY DEF Owned, FreeUnused
    <2> QED
      BY <2>1, <1>2, <1>4
  <1>10. ActiveOwned(b, u, starts)
    <2> SUFFICES ASSUME NEW q \in Shards, b[q].base # NoMemory,
                        NEW r \in Shards, NEW d \in u[r], d.base = b[q].base
                 PROVE r = q /\ d.at + TextLen[d.key] < b[q].offset
      BY <1>5 DEF Owned, ActiveOwned
    <2>1. CASE d \in tb[r]
      <3>1. r = q /\ d.at + TextLen[d.key] < a[q].offset
        BY <2>1, <1>5 DEF Owned, ActiveOwned
      <3>2. d \in Entry /\ TextLen[d.key] \in Nat /\ d.at \in Nat
        BY <2>1, TextAssumption DEF Entry
      <3>3. CASE q = s
        BY <3>1, <3>2, <3>3, <1>1, <1>3
      <3>4. CASE q # s
        BY <3>1, <3>4, <1>3
      <3> QED
        BY <3>3, <3>4
    <2>2. CASE r = s /\ d = e
      <3>1. q = s
        BY <2>2, <1>2, <1>5 DEF Owned, ActiveOwned
      <3> QED
        BY <2>2, <3>1, <1>8
    <2> QED
      BY <2>1, <2>2, <1>4
  <1>11. EntriesInside(u, starts)
    BY <1>2, <1>4, <1>6, <1>8 DEF Owned, EntriesInside
  <1>12. EntriesApart(u)
    <2> SUFFICES ASSUME NEW r \in Shards, NEW q \in Shards, NEW d \in u[r], NEW h \in u[q],
                        d.base = h.base, d # h
                 PROVE d.at + TextLen[d.key] < h.at \/ h.at + TextLen[h.key] < d.at
      BY DEF EntriesApart
    <2>1. CASE d \in tb[r] /\ h \in tb[q]
      BY <2>1 DEF Owned, EntriesApart
    <2>2. CASE d \in tb[r] /\ h = e
      BY <2>2, <1>7
    <2>3. CASE d = e /\ h \in tb[q]
      BY <2>3, <1>7
    <2> QED
      BY <2>1, <2>2, <2>3, <1>4
  <1>13. Owned(f, b, u, starts)
    BY <1>9, <1>10, <1>11, <1>12 DEF Owned
  <1> QED
    BY <1>3, <1>4, <1>13 DEF b, e, u

---------------------------------------------------------------------------
(* The chunk chosen for a text *)

\* The active chunk with room for the text, or one of the last two free ones.
LEMMA ChosenFacts ==
  ASSUME NInv, NEW t \in Interners, Allocating(t)
  PROVE  \/ /\ Chosen(t) = [active |-> active[S(t)], free |-> free[S(t)]]
            /\ active[S(t)].base # NoMemory
         \/ \E m \in Nat : /\ m < Len(free[S(t)])
                           /\ Chosen(t) = [active |-> free[S(t)][m + 1],
                                           free |-> SubSeq(free[S(t)], 1, m)]
  <1> DEFINE f == free[S(t)]
             n == Len(f)
             kept == [active |-> active[S(t)], free |-> f]
  <1>1. S(t) \in Shards
    BY TextAssumption DEF NInv, InterningTypeOK, S, Shards
  <1>2. f \in Seq(Piece) /\ n \in Nat /\ n >= 2
    <2>1. f \in Seq(Piece)
      BY <1>1 DEF NInv, InterningTypeOK
    <2>2. n \in Nat
      BY <2>1
    <2> QED
      BY <2>1, <2>2 DEF NInv, WriterAlone, Allocating
  <1>3. SubSeq(f, 1, n - 1) \in Seq(Piece) /\ Len(SubSeq(f, 1, n - 1)) = n - 1
    BY <1>2
  <1>4. Advance(kept) = [active |-> f[n], free |-> SubSeq(f, 1, n - 1)]
    BY DEF Advance, Last, Front
  <1>5. Advance(Advance(kept)) = [active |-> f[n - 1], free |-> SubSeq(f, 1, n - 2)]
    <2>1. SubSeq(f, 1, n - 1)[n - 1] = f[n - 1]
      BY <1>2
    <2>2. SubSeq(SubSeq(f, 1, n - 1), 1, n - 2) = SubSeq(f, 1, n - 2)
      BY <1>2, <1>3, SubSeqOfSubSeq
    <2>3. Last(SubSeq(f, 1, n - 1)) = f[n - 1]
      BY <1>3, <2>1 DEF Last
    <2>4. Front(SubSeq(f, 1, n - 1)) = SubSeq(f, 1, n - 2)
      <3>1. n - 1 - 1 = n - 2
        BY <1>2
      <3> QED
        BY <1>3, <2>2, <3>1 DEF Front
    <2> QED
      BY <1>4, <2>3, <2>4 DEF Advance
  <1> HIDE DEF f, n
  <1>6. \/ Chosen(t) = kept /\ active[S(t)].base # NoMemory
        \/ Chosen(t) = Advance(kept)
        \/ Chosen(t) = Advance(Advance(kept))
    BY DEF Chosen, f
  <1>7. n - 1 \in Nat /\ n - 1 < n /\ n - 2 \in Nat /\ n - 2 < n /\ n - 1 + 1 = n /\ n - 2 + 1 = n - 1
    BY <1>2
  <1> QED
    BY <1>4, <1>5, <1>6, <1>7 DEF f, n

---------------------------------------------------------------------------
(* One lemma per action *)

\* A step that asks for a chunk and gets no answer yet.
LEMMA AskingNInv ==
  ASSUME NInv, NEW t \in Threads, AskChunk(t),
         UNCHANGED <<built, shardVars, callVars>>
  PROVE  NInv'
  <1>1. IInv' /\ WholeBlocks' /\ UNCHANGED blocks
    BY AskChunkStep DEF NInv
  <1>2. InterningTypeOK'
    BY DEF NInv, InterningTypeOK, shardVars, callVars
  <1>3. Chunks'
    BY <1>1 DEF NInv, Chunks, Starts, shardVars
  <1>4. WriterAlone' /\ KeysUnique' /\ ResultsEntered'
    BY DEF NInv, WriterAlone, KeysUnique, ResultsEntered, Known, S, shardVars, callVars
  <1> QED
    BY <1>1, <1>2, <1>3, <1>4 DEF NInv

\* A step that leaves the buffer alone.
LEMMA SameBuffer ==
  ASSUME NInv, UNCHANGED bufferVars
  PROVE  IInv' /\ WholeBlocks' /\ Starts' = Starts
  <1>1. [BufferNext]_bufferVars
    OBVIOUS
  <1>2. IInv'
    BY <1>1, NextIInv DEF NInv
  <1> QED
    BY <1>2 DEF NInv, WholeBlocks, Starts, bufferVars

LEMMA StutterNInv ==
  ASSUME NInv, UNCHANGED <<bufferVars, built, shardVars, callVars>>
  PROVE  NInv'
  <1>1. IInv' /\ WholeBlocks' /\ Starts' = Starts
    BY SameBuffer
  <1>2. InterningTypeOK'
    BY DEF NInv, InterningTypeOK, shardVars, callVars
  <1>3. Chunks'
    BY <1>1 DEF NInv, Chunks, shardVars
  <1>4. WriterAlone' /\ KeysUnique' /\ ResultsEntered'
    BY DEF NInv, WriterAlone, KeysUnique, ResultsEntered, Known, S, shardVars, callVars
  <1> QED
    BY <1>1, <1>2, <1>3, <1>4 DEF NInv

LEMMA ConstructNInv ==
  ASSUME NInv, Construct
  PROVE  NInv'
  <1>1. CASE AskChunk(Main) /\ UNCHANGED <<built, free, active>>
    BY <1>1, AskingNInv, CapacityFacts DEF Construct, shardVars
  <1>2. ASSUME NEW base \in Bases, ReceiveChunk(Main, base), built' = built + 1,
               IF (built + 1) % Reserve = 0
               THEN /\ active' = [active EXCEPT ![BuiltShard] = Chunk(base)]
                    /\ UNCHANGED free
               ELSE /\ free' = [free EXCEPT ![BuiltShard] = Append(@, Chunk(base))]
                    /\ UNCHANGED active
        PROVE  NInv'
    <2>1. /\ IInv' /\ WholeBlocks' /\ base \in Nat \cup {NoMemory} /\ Starts \subseteq Starts'
          /\ base # NoMemory => base \in Starts' \ Starts
      BY <1>2, ReceiveChunkStep, CapacityFacts DEF NInv
    <2>2. /\ free \in [Shards -> Seq(Piece)] /\ active \in [Shards -> Piece]
          /\ Owned(free, active, table, Starts)
      BY DEF NInv, InterningTypeOK, Chunks
    <2>3. /\ free' \in [Shards -> Seq(Piece)] /\ active' \in [Shards -> Piece]
          /\ Owned(free', active', table, Starts')
      <3>1. CASE BuiltShard \notin Shards
        <4>1. free' = free /\ active' = active
          BY <1>2, <2>2, <3>1
        <4> QED
          BY <2>1, <2>2, <4>1, StartsGrow
      <3>2. CASE BuiltShard \in Shards /\ (built + 1) % Reserve = 0
        <4>1. /\ free' = free /\ BuiltShard \in Shards
              /\ active' = [active EXCEPT ![BuiltShard] = Chunk(base)]
          BY <1>2, <3>2
        <4>2. active' \in [Shards -> Piece] /\ Owned(free, active', table, Starts')
          BY <2>1, <2>2, <4>1, ActivateOwned
        <4> QED
          BY <2>2, <4>1, <4>2
      <3>3. CASE BuiltShard \in Shards /\ (built + 1) % Reserve # 0
        <4>1. /\ active' = active /\ BuiltShard \in Shards
              /\ free' = [free EXCEPT ![BuiltShard] = Append(free[BuiltShard], Chunk(base))]
          BY <1>2, <3>3
        <4>2. free' \in [Shards -> Seq(Piece)] /\ Owned(free', active, table, Starts')
          BY <2>1, <2>2, <4>1, AppendNewChunk
        <4> QED
          BY <2>2, <4>1, <4>2
      <3> QED
        BY <3>1, <3>2, <3>3
    <2>4. UNCHANGED <<table, callVars, writer>>
      BY DEF Construct
    <2>5. InterningTypeOK'
      BY <2>3, <2>4 DEF NInv, InterningTypeOK, callVars
    <2>6. Chunks'
      BY <2>3, <2>4 DEF Chunks
    <2>7. \A t \in Interners : pc'[t] = "idle"
      <3>1. built < NShards * Reserve
        BY DEF Construct
      <3>2. NShards * Reserve \in Nat
        BY InterningAssumption
      <3>3. built # NShards * Reserve
        BY <3>1, <3>2
      <3> QED
        BY <2>4, <3>3 DEF NInv, WriterAlone, callVars
    <2>8. WriterAlone' /\ KeysUnique' /\ ResultsEntered'
      BY <2>4, <2>7 DEF NInv, WriterAlone, KeysUnique, ResultsEntered, callVars
    <2> QED
      BY <2>1, <2>5, <2>6, <2>8 DEF NInv
  <1> QED
    BY <1>1, <1>2 DEF Construct

\* The facts of a shard that a call works on.
LEMMA ShardFacts ==
  ASSUME NInv, NEW t \in Interners
  PROVE  /\ S(t) \in Shards /\ text[t] \in Texts /\ t \in Threads
         /\ free[S(t)] \in Seq(Piece) /\ active[S(t)] \in Piece
         /\ table[S(t)] \subseteq Entry
  BY TextAssumption DEF NInv, InterningTypeOK, S, Shards, Interners

\* Another thread in allocate_bytes works on another shard.
LEMMA OtherShard ==
  ASSUME NInv, NEW t \in Interners, NEW r \in Interners, r # t,
         pc[r] = "allocate",
         \/ pc[t] = "allocate"
         \/ writer[S(t)] = Nobody
  PROVE  S(r) # S(t)
  BY InterningAssumption DEF NInv, WriterAlone, Interners

LEMMA CallNInv ==
  ASSUME NInv, NEW t \in Interners, NEW x \in Texts, Call(t, x)
  PROVE  NInv'
  <1>1. IInv' /\ WholeBlocks' /\ Starts' = Starts
    BY SameBuffer DEF Call
  <1>2. UNCHANGED <<built, free, active, table, writer, left, results>>
    BY DEF Call, shardVars
  <1>3. InterningTypeOK'
    BY <1>2 DEF NInv, InterningTypeOK, Call
  <1>4. Chunks' /\ KeysUnique' /\ ResultsEntered'
    BY <1>1, <1>2 DEF NInv, Chunks, KeysUnique, ResultsEntered
  <1>5. WriterAlone'
    <2>1. \A r \in Interners : r # t => pc'[r] = pc[r] /\ text'[r] = text[r]
      BY DEF NInv, InterningTypeOK, Call
    <2>2. pc'[t] = "find" /\ built = NShards * Reserve
      BY DEF NInv, InterningTypeOK, Call
    <2> QED
      BY <1>2, <2>1, <2>2 DEF NInv, WriterAlone, Known, S
  <1> QED
    BY <1>1, <1>3, <1>4, <1>5 DEF NInv

\* A call that finds its text returns what the table holds.
LEMMA ReturnKnown ==
  ASSUME NInv, NEW t \in Interners, NEW entry \in Known(t),
         Return(t, entry.base, entry.at), UNCHANGED <<table, text>>
  PROVE  /\ results' \in SUBSET [text : Texts, base : Nat, at : Nat]
         /\ ResultsEntered'
  <1>1. /\ S(t) \in Shards /\ text[t] \in Texts /\ entry \in table[S(t)]
        /\ entry \in Entry /\ entry.key = text[t]
    BY ShardFacts DEF Known
  <1>2. entry = [key |-> text[t], base |-> entry.base, at |-> entry.at]
    BY <1>1 DEF Entry
  <1>3. [text |-> text[t], base |-> entry.base, at |-> entry.at]
          \in [text : Texts, base : Nat, at : Nat]
    BY <1>1 DEF Entry
  <1>4. results' \in SUBSET [text : Texts, base : Nat, at : Nat]
    BY <1>3 DEF Return, NInv, InterningTypeOK
  <1>5. ResultsEntered'
    BY <1>1, <1>2 DEF Return, NInv, ResultsEntered, S
  <1> QED
    BY <1>4, <1>5

LEMMA FindNInv ==
  ASSUME NInv, NEW t \in Interners, Find(t)
  PROVE  NInv'
  <1>1. IInv' /\ WholeBlocks' /\ Starts' = Starts
    BY SameBuffer DEF Find
  <1>2. UNCHANGED <<built, free, active, table, writer, left, text>>
    BY DEF Find, shardVars
  <1>3. Chunks' /\ KeysUnique'
    BY <1>1, <1>2 DEF NInv, Chunks, KeysUnique
  <1>4. /\ results' \in SUBSET [text : Texts, base : Nat, at : Nat]
        /\ ResultsEntered'
    <2>1. CASE UNCHANGED results
      BY <2>1, <1>2 DEF NInv, InterningTypeOK, ResultsEntered
    <2>2. CASE \E entry \in Known(t) : Return(t, entry.base, entry.at)
      BY <2>2, <1>2, ReturnKnown
    <2> QED
      BY <2>1, <2>2 DEF Find
  <1>5. pc' = [pc EXCEPT ![t] = "idle"] \/ pc' = [pc EXCEPT ![t] = "lock"]
    BY DEF Find, Return
  <1>6. InterningTypeOK'
    BY <1>2, <1>4, <1>5 DEF NInv, InterningTypeOK
  <1>7. WriterAlone'
    <2>1. \A r \in Interners : /\ pc'[r] # "idle" => pc[r] # "idle"
                               /\ pc'[r] = "allocate" => pc[r] = "allocate"
      BY <1>5 DEF NInv, InterningTypeOK, Find
    <2> QED
      BY <1>2, <2>1 DEF NInv, WriterAlone, Known, S
  <1> QED
    BY <1>1, <1>3, <1>4, <1>6, <1>7 DEF NInv

\* The refill that starts with the allocation makes up for an empty free list.
LEMMA LockNInv ==
  ASSUME NInv, NEW t \in Interners, Lock(t)
  PROVE  NInv'
  <1>1. IInv' /\ WholeBlocks' /\ Starts' = Starts
    BY SameBuffer DEF Lock
  <1>2. UNCHANGED <<built, free, active, table, text>>
    BY DEF Lock
  <1>3. Chunks' /\ KeysUnique'
    BY <1>1, <1>2 DEF NInv, Chunks, KeysUnique
  <1>4. CASE (\E entry \in Known(t) : Return(t, entry.base, entry.at)) /\ UNCHANGED <<writer, left>>
    <2>1. /\ results' \in SUBSET [text : Texts, base : Nat, at : Nat]
          /\ ResultsEntered'
      BY <1>2, <1>4, ReturnKnown
    <2>2. pc' = [pc EXCEPT ![t] = "idle"]
      BY <1>4 DEF Return
    <2>3. InterningTypeOK'
      BY <1>2, <1>4, <2>1, <2>2 DEF NInv, InterningTypeOK
    <2>4. \A r \in Interners : /\ pc'[r] # "idle" => pc[r] # "idle"
                               /\ pc'[r] = "allocate" => pc[r] = "allocate"
      BY <2>2 DEF NInv, InterningTypeOK
    <2>5. WriterAlone'
      BY <1>2, <1>4, <2>4 DEF NInv, WriterAlone, Known, S
    <2> QED
      BY <1>1, <1>3, <2>1, <2>3, <2>5 DEF NInv
  <1>5. CASE Known(t) = {} /\ StartAllocation(t) /\ UNCHANGED results
    <2> DEFINE n == Len(free[S(t)])
    <2>1. /\ S(t) \in Shards /\ n \in Nat
          /\ RefillCount \in Nat /\ RefillCount >= 2
          /\ RefillThreshold \in Nat /\ RefillThreshold >= 1
      BY ShardFacts, InterningAssumption
    <2>2. writer[S(t)] = Nobody /\ pc[t] = "lock"
      BY DEF Lock
    <2>3. /\ writer' = [writer EXCEPT ![S(t)] = t]
          /\ pc' = [pc EXCEPT ![t] = "allocate"]
      BY <1>5 DEF StartAllocation
    <2>4. /\ left' \in [Interners -> Nat]
          /\ left'[t] = IF n <= RefillThreshold THEN RefillCount ELSE 0
          /\ \A r \in Interners : r # t => left'[r] = left[r]
      BY <1>5, <2>1 DEF StartAllocation, NInv, InterningTypeOK
    <2>5. n + left'[t] >= 2
      <3>1. CASE n <= RefillThreshold
        <4>1. left'[t] = RefillCount
          BY <2>4, <3>1
        <4> HIDE DEF n
        <4> QED
          BY <2>1, <4>1
      <3>2. CASE ~(n <= RefillThreshold)
        <4>1. left'[t] = 0
          BY <2>4, <3>2
        <4> HIDE DEF n
        <4> QED
          BY <2>1, <3>2, <4>1
      <3> QED
        BY <3>1, <3>2
    <2>6. InterningTypeOK'
      BY <1>2, <1>5, <2>1, <2>3, <2>4 DEF NInv, InterningTypeOK
    <2>7. WriterAlone'
      <3>1. ASSUME NEW r \in Interners, r # t
            PROVE  /\ pc'[r] # "idle" => built' = NShards * Reserve
                   /\ pc'[r] = "allocate" =>
                        /\ writer'[S(r)] = r
                        /\ Known(r) = {}
                        /\ Len(free[S(r)]) + left'[r] >= 2
        <4>1. pc'[r] = pc[r]
          BY <2>3, <3>1 DEF NInv, InterningTypeOK
        <4>2. pc[r] = "allocate" => S(r) # S(t) /\ S(r) \in Shards
          BY <2>2, <3>1, OtherShard, ShardFacts
        <4> QED
          BY <1>2, <2>3, <2>4, <3>1, <4>1, <4>2 DEF NInv, InterningTypeOK, WriterAlone
      <3>2. /\ built' = NShards * Reserve
            /\ writer'[S(t)] = t
        BY <1>2, <2>1, <2>2, <2>3 DEF NInv, InterningTypeOK, WriterAlone
      <3> QED
        BY <1>2, <1>5, <2>5, <3>1, <3>2 DEF WriterAlone, Known, S
    <2>8. ResultsEntered'
      BY <1>2, <1>5 DEF NInv, ResultsEntered
    <2> QED
      BY <1>1, <1>3, <2>6, <2>7, <2>8 DEF NInv
  <1> QED
    BY <1>4, <1>5 DEF Lock

LEMMA RefillNInv ==
  ASSUME NInv, NEW t \in Interners, Refill(t)
  PROVE  NInv'
  <1>1. CASE AskChunk(t) /\ UNCHANGED <<free, left>>
    BY <1>1, AskingNInv, ShardFacts DEF Refill, shardVars, callVars
  <1>2. ASSUME NEW base \in Bases, ReceiveChunk(t, base),
               free' = [free EXCEPT ![S(t)] = Append(@, Chunk(base))],
               left' = [left EXCEPT ![t] = @ - 1]
        PROVE  NInv'
    <2>1. /\ IInv' /\ WholeBlocks' /\ base \in Nat \cup {NoMemory} /\ Starts \subseteq Starts'
          /\ base # NoMemory => base \in Starts' \ Starts
      BY <1>2, ReceiveChunkStep, CapacityFacts DEF NInv
    <2>2. UNCHANGED <<built, active, table, writer, pc, text, results>>
      BY DEF Refill
    <2>3. /\ S(t) \in Shards
          /\ free' = [free EXCEPT ![S(t)] = Append(free[S(t)], Chunk(base))]
      BY <1>2, ShardFacts
    <2>4. free' \in [Shards -> Seq(Piece)] /\ Owned(free', active, table, Starts')
      BY <2>1, <2>3, AppendNewChunk DEF NInv, InterningTypeOK, Chunks
    <2>5. /\ left[t] \in Nat /\ left[t] > 0 /\ left'[t] = left[t] - 1
          /\ \A r \in Interners : r # t => left'[r] = left[r]
      BY <1>2 DEF NInv, InterningTypeOK, Refill
    <2>6. InterningTypeOK'
      BY <1>2, <2>2, <2>4, <2>5 DEF NInv, InterningTypeOK
    <2>7. Chunks'
      BY <2>2, <2>4 DEF Chunks
    <2>8. WriterAlone'
      <3>1. Len(free'[S(t)]) = Len(free[S(t)]) + 1 /\ Len(free[S(t)]) \in Nat
        BY <2>3, ShardFacts, AppendProperties DEF NInv, InterningTypeOK
      <3>2. Len(free'[S(t)]) + left'[t] = Len(free[S(t)]) + left[t]
        BY <2>5, <3>1
      <3>3. \A r \in Interners : r # t /\ pc[r] = "allocate" =>
              free'[S(r)] = free[S(r)] /\ left'[r] = left[r]
        BY <2>3, <2>5, OtherShard, ShardFacts DEF Refill, NInv, InterningTypeOK
      <3> QED
        BY <2>2, <3>2, <3>3 DEF NInv, WriterAlone, Known, S
    <2>9. KeysUnique' /\ ResultsEntered'
      BY <2>2 DEF NInv, KeysUnique, ResultsEntered
    <2> QED
      BY <2>1, <2>6, <2>7, <2>8, <2>9 DEF NInv
  <1> QED
    BY <1>1, <1>2 DEF Refill

\* The chosen chunk is the active one from here on.
LEMMA ChosenOwned ==
  ASSUME NInv, NEW t \in Interners, Allocating(t),
         NEW f, f = [free EXCEPT ![S(t)] = Chosen(t).free],
         NEW a, a = [active EXCEPT ![S(t)] = Chosen(t).active]
  PROVE  /\ f \in [Shards -> Seq(Piece)] /\ a \in [Shards -> Piece]
         /\ Owned(f, a, table, Starts)
  <1>1. /\ S(t) \in Shards /\ free \in [Shards -> Seq(Piece)] /\ active \in [Shards -> Piece]
        /\ Owned(free, active, table, Starts)
    BY ShardFacts DEF NInv, InterningTypeOK, Chunks
  <1>2. CASE Chosen(t) = [active |-> active[S(t)], free |-> free[S(t)]]
    <2>1. f = free /\ a = active
      BY <1>1, <1>2
    <2> QED
      BY <1>1, <2>1
  <1>3. ASSUME NEW m \in Nat, m < Len(free[S(t)]),
               Chosen(t) = [active |-> free[S(t)][m + 1], free |-> SubSeq(free[S(t)], 1, m)]
        PROVE  /\ f \in [Shards -> Seq(Piece)] /\ a \in [Shards -> Piece]
               /\ Owned(f, a, table, Starts)
    <2>1. PICK s \in Shards : s = S(t)
      BY <1>1
    <2>2. f = Dropped(free, s, m) /\ a = Opened(active, free, s, m)
      BY <1>3, <2>1 DEF Dropped, Opened
    <2>3. m < Len(free[s])
      BY <1>3, <2>1
    <2>4. /\ free \in [Shards -> Seq(Piece)] /\ active \in [Shards -> Piece]
          /\ Owned(free, active, table, Starts)
      BY <1>1
    <2>5. /\ Dropped(free, s, m) \in [Shards -> Seq(Piece)]
          /\ Opened(active, free, s, m) \in [Shards -> Piece]
          /\ Owned(Dropped(free, s, m), Opened(active, free, s, m), table, Starts)
      BY <2>3, <2>4, TakeOwned
    <2> QED
      BY <2>2, <2>5
  <1> QED
    BY <1>2, <1>3, ChosenFacts

\* What the end of an allocation leaves to be shown.
LEMMA ReleaseNInv ==
  ASSUME NInv, NEW t \in Interners, pc[t] = "allocate", UNCHANGED bufferVars,
         UNCHANGED <<built, text, left>>, Unlock(t), pc' = [pc EXCEPT ![t] = "idle"],
         NEW g, free' = [free EXCEPT ![S(t)] = g],
         \A r \in Shards : r # S(t) => table'[r] = table[r]
  PROVE  IInv' /\ WholeBlocks' /\ Starts' = Starts /\ WriterAlone'
  <1>1. IInv' /\ WholeBlocks' /\ Starts' = Starts
    BY SameBuffer
  <1>2. WriterAlone'
    <2> SUFFICES ASSUME NEW r \in Interners, pc'[r] # "idle"
                 PROVE  /\ built' = NShards * Reserve
                        /\ pc'[r] = "allocate" =>
                             /\ writer'[S(r)'] = r
                             /\ Known(r)' = {}
                             /\ Len(free'[S(r)']) + left'[r] >= 2
      BY DEF WriterAlone
    <2>1. r # t /\ pc'[r] = pc[r]
      BY DEF NInv, InterningTypeOK
    <2>2. S(r)' = S(r) /\ S(r) \in Shards /\ S(t) \in Shards
      BY ShardFacts DEF S
    <2>3. pc[r] = "allocate" => S(r) # S(t)
      BY <2>1, OtherShard
    <2>4. pc[r] = "allocate" => /\ free'[S(r)] = free[S(r)] /\ writer'[S(r)] = writer[S(r)]
                                /\ table'[S(r)] = table[S(r)]
      BY <2>2, <2>3 DEF NInv, InterningTypeOK, Unlock
    <2> QED
      BY <2>1, <2>2, <2>4 DEF NInv, WriterAlone, Known
  <1> QED
    BY <1>1, <1>2

LEMMA ThrowNInv ==
  ASSUME NInv, NEW t \in Interners, ThrowBadAlloc(t)
  PROVE  NInv'
  <1>1. UNCHANGED <<bufferVars, built, table, text, left, results>> /\ Allocating(t)
    BY DEF ThrowBadAlloc
  <1>2. IInv' /\ WholeBlocks' /\ Starts' = Starts /\ WriterAlone'
    BY <1>1, ReleaseNInv DEF ThrowBadAlloc, Allocating
  <1>3. free' \in [Shards -> Seq(Piece)] /\ active' \in [Shards -> Piece]
        /\ Owned(free', active', table, Starts)
    BY <1>1, ChosenOwned DEF ThrowBadAlloc
  <1>4. Chunks'
    BY <1>1, <1>2, <1>3 DEF Chunks
  <1>5. InterningTypeOK'
    BY <1>1, <1>3 DEF NInv, InterningTypeOK, ThrowBadAlloc, Unlock
  <1>6. KeysUnique' /\ ResultsEntered'
    BY <1>1 DEF NInv, KeysUnique, ResultsEntered
  <1> QED
    BY <1>2, <1>4, <1>5, <1>6 DEF NInv

\* The text is new to the table: the exclusive lock was held since the lookup.
LEMMA InsertNInv ==
  ASSUME NInv, NEW t \in Interners, Insert(t)
  PROVE  NInv'
  <1> DEFINE chunk == Chosen(t).active
             entry == [key |-> KeyOf[text[t]], base |-> chunk.base, at |-> chunk.offset]
             s == S(t)
             f == [free EXCEPT ![s] = Chosen(t).free]
             a == [active EXCEPT ![s] = chunk]
  <1>1. /\ Allocating(t) /\ ~TooLong(t) /\ chunk.base # NoMemory
        /\ UNCHANGED <<bufferVars, built, text, left>>
        /\ active' = [active EXCEPT ![s] = [chunk EXCEPT !.offset = @ + SpaceFor(text[t])]]
        /\ free' = f
        /\ table' = [table EXCEPT ![s] =
                       IF \E e \in @ : e.key = entry.key THEN @ ELSE @ \cup {entry}]
        /\ Return(t, entry.base, entry.at) /\ Unlock(t)
    BY DEF Insert
  <1>2. s \in Shards /\ text[t] \in Texts /\ TextLen[text[t]] \in Nat /\ KeyOf[text[t]] \in Texts
    BY ShardFacts, TextAssumption
  <1>3. f \in [Shards -> Seq(Piece)] /\ a \in [Shards -> Piece] /\ Owned(f, a, table, Starts)
    BY <1>1, ChosenOwned
  <1>4. a[s] = chunk /\ chunk \in Piece
    BY <1>2, <1>3 DEF NInv, InterningTypeOK
  <1>5. chunk.offset + SpaceFor(text[t]) <= ChunkCapacity
    BY <1>1, <1>2, <1>4, CapacityFacts DEF TooLong, SpaceFor, Piece
  <1>6. active' = [a EXCEPT ![s] = [a[s] EXCEPT !.offset = @ + SpaceFor(text[t])]]
    BY <1>1, <1>2, <1>4 DEF NInv, InterningTypeOK
  <1>7. IInv' /\ WholeBlocks' /\ Starts' = Starts /\ WriterAlone'
    <2>1. \A r \in Shards : r # S(t) => table'[r] = table[r]
      BY <1>1, <1>2 DEF NInv, InterningTypeOK
    <2> QED
      BY <1>1, <2>1, ReleaseNInv DEF Return, Allocating
  <1> HIDE DEF chunk, f, a
  <1>8. active' \in [Shards -> Piece] /\ table' \in [Shards -> SUBSET Entry]
        /\ Owned(f, active', table', Starts)
    <2>1. table \in [Shards -> SUBSET Entry]
      BY DEF NInv, InterningTypeOK
    <2>2. PICK x \in Texts : x = text[t]
      BY <1>2
    <2>3. PICK r \in Shards : r = s
      BY <1>2
    <2>4. a[r].base # NoMemory /\ a[r].offset + SpaceFor(x) <= ChunkCapacity
      BY <1>1, <1>4, <1>5, <2>2, <2>3
    <2>5. entry = EntryFor(a, r, x)
      BY <1>4, <2>2, <2>3 DEF EntryFor
    <2>6. active' = Lengthened(a, r, x) /\ table' = Entered(table, r, EntryFor(a, r, x))
      BY <1>1, <1>6, <2>2, <2>3, <2>5 DEF Lengthened, Entered
    <2> QED
      BY <1>3, <2>1, <2>4, <2>6, WriteOwned
  <1>9. Chunks'
    BY <1>1, <1>7, <1>8 DEF Chunks
  <1>10. /\ results' = results \cup {[text |-> text[t], base |-> entry.base, at |-> entry.at]}
         /\ pc' = [pc EXCEPT ![t] = "idle"]
    BY <1>1 DEF Return
  <1>11. entry.base \in Nat /\ entry.at \in Nat
    BY <1>1, <1>4 DEF Piece
  <1>12. InterningTypeOK'
    <2>1. results' \in SUBSET [text : Texts, base : Nat, at : Nat]
      BY <1>2, <1>10, <1>11 DEF NInv, InterningTypeOK
    <2> QED
      BY <1>1, <1>3, <1>8, <1>10, <2>1 DEF NInv, InterningTypeOK, Unlock
  <1>13. /\ table'[s] = IF \E e \in table[s] : e.key = entry.key THEN table[s]
                                                                ELSE table[s] \cup {entry}
         /\ \A r \in Shards : r # s => table'[r] = table[r]
    BY <1>1, <1>2 DEF NInv, InterningTypeOK
  <1>14. KeysUnique'
    BY <1>13 DEF NInv, KeysUnique
  <1>15. ResultsEntered'
    <2>1. ASSUME KeyOf[text[t]] = text[t]
          PROVE  [key |-> text[t], base |-> entry.base, at |-> entry.at] \in table'[s]
      <3>1. \A e \in table[s] : e.key # text[t]
        BY <1>1 DEF NInv, WriterAlone, Known, Allocating
      <3>2. entry \in table'[s]
        BY <1>2, <1>13, <2>1, <3>1
      <3> QED
        BY <2>1, <3>2
    <2>2. \A r \in Shards : table[r] \subseteq table'[r]
      BY <1>13
    <2>3. \A r \in results : r.text \in Texts /\ ShardOf[r.text] \in Shards
      BY TextAssumption DEF NInv, InterningTypeOK, Shards
    <2> SUFFICES ASSUME NEW r \in results', KeyOf[r.text] = r.text
                 PROVE  [key |-> r.text, base |-> r.base, at |-> r.at] \in table'[ShardOf[r.text]]
      BY DEF ResultsEntered
    <2>4. CASE r \in results
      BY <2>2, <2>3, <2>4 DEF NInv, ResultsEntered
    <2>5. CASE r = [text |-> text[t], base |-> entry.base, at |-> entry.at]
      BY <2>1, <2>5 DEF S
    <2> QED
      BY <1>10, <2>4, <2>5
  <1> QED
    BY <1>7, <1>9, <1>12, <1>14, <1>15 DEF NInv

---------------------------------------------------------------------------
LEMMA NextNInv ==
  ASSUME NInv, [Next]_vars
  PROVE  NInv'
  <1>1. CASE Construct
    BY <1>1, ConstructNInv
  <1>2. ASSUME NEW t \in Interners, Step(t)
        PROVE  NInv'
    <2>1. ASSUME NEW x \in Texts, Call(t, x)
          PROVE  NInv'
      BY <2>1, CallNInv
    <2>2. CASE Find(t)
      BY <2>2, FindNInv
    <2>3. CASE Lock(t)
      BY <2>3, LockNInv
    <2>4. CASE Refill(t)
      BY <2>4, RefillNInv
    <2>5. CASE ThrowBadAlloc(t)
      BY <2>5, ThrowNInv
    <2>6. CASE Insert(t)
      BY <2>6, InsertNInv
    <2>7. CASE WriteToNull(t)
      <3>1. UNCHANGED <<bufferVars, built, shardVars, callVars>>
        BY <2>7 DEF WriteToNull
      <3> QED
        BY <3>1, StutterNInv
    <2> QED
      BY <1>2, <2>1, <2>2, <2>3, <2>4, <2>5, <2>6, <2>7 DEF Step, Allocate
  <1>3. CASE UNCHANGED vars
    BY <1>3, StutterNInv DEF vars
  <1> QED
    BY <1>1, <1>2, <1>3 DEF Next, Finished

LEMMA NInvAlways == Spec => []NInv
  BY InitNInv, NextNInv, PTL DEF Spec

\* Whatever threads intern, at once or one after the other, equal texts get
\* the same address and different ones different addresses, unless they
\* contain a NUL: intern of both interners.
THEOREM OneAddress == Spec => []OneAddressPerText
  <1>1. NInv => OneAddressPerText
    <2> SUFFICES ASSUME NInv, NEW p \in results, NEW q \in results,
                        KeyOf[p.text] = p.text, KeyOf[q.text] = q.text
                 PROVE  p.text = q.text <=> p.base = q.base /\ p.at = q.at
      BY DEF OneAddressPerText
    <2> DEFINE d == [key |-> p.text, base |-> p.base, at |-> p.at]
               e == [key |-> q.text, base |-> q.base, at |-> q.at]
    <2>1. /\ p.text \in Texts /\ q.text \in Texts
          /\ ShardOf[p.text] \in Shards /\ ShardOf[q.text] \in Shards
      BY TextAssumption DEF NInv, InterningTypeOK, Shards
    <2>2. d \in table[ShardOf[p.text]] /\ e \in table[ShardOf[q.text]]
      BY DEF NInv, ResultsEntered
    <2>3. ASSUME p.text = q.text
          PROVE  p.base = q.base /\ p.at = q.at
      <3>1. d = e
        BY <2>1, <2>2, <2>3 DEF NInv, KeysUnique
      <3> QED
        BY <3>1
    <2>4. ASSUME p.base = q.base, p.at = q.at, p.text # q.text
          PROVE  FALSE
      <3>1. d # e /\ d.base = e.base /\ d.at = e.at
        BY <2>4
      <3>2. d.at + TextLen[d.key] < e.at \/ e.at + TextLen[e.key] < d.at
        BY <2>1, <2>2, <3>1 DEF NInv, Chunks, Owned, EntriesApart
      <3>3. p.at \in Nat /\ TextLen[p.text] \in Nat /\ TextLen[q.text] \in Nat
        BY <2>1, TextAssumption DEF NInv, InterningTypeOK
      <3> QED
        BY <2>4, <3>2, <3>3
    <2> QED
      BY <2>3, <2>4
  <1> QED
    BY <1>1, NInvAlways, PTL

\* No text, its final NUL included, overlaps another one, in any shard, or
\* leaves the block it was allocated in: StringInterner::allocate over
\* allocate_bytes and do_allocate.
THEOREM Apart == Spec => []TextsApart
  <1>1. NInv => TextsApart
    <2> SUFFICES ASSUME NInv, NEW r \in Shards, NEW s \in Shards,
                        NEW d \in table[r], NEW e \in table[s]
                 PROVE  /\ d # e => Bytes(d) \cap Bytes(e) = {}
                        /\ \E b \in blocks : Bytes(d) \subseteq b.start .. b.start + b.bytes - 1
      BY DEF TextsApart
    <2>1. /\ d.base \in Nat /\ d.at \in Nat /\ d.key \in Texts /\ TextLen[d.key] \in Nat
          /\ e.base \in Nat /\ e.at \in Nat /\ e.key \in Texts /\ TextLen[e.key] \in Nat
      BY TextAssumption DEF NInv, InterningTypeOK, Entry
    <2>2. PICK b \in blocks : b.start = d.base
      BY DEF NInv, Chunks, Owned, EntriesInside, Starts
    <2>3. PICK c \in blocks : c.start = e.base
      BY DEF NInv, Chunks, Owned, EntriesInside, Starts
    <2>4. /\ d.at + TextLen[d.key] < ChunkCapacity /\ e.at + TextLen[e.key] < ChunkCapacity
          /\ b.bytes = ChunkCapacity /\ c.bytes = ChunkCapacity /\ ChunkCapacity \in Nat
      BY CapacityFacts DEF NInv, Chunks, Owned, EntriesInside, WholeBlocks
    <2>5. Bytes(d) \subseteq b.start .. b.start + b.bytes - 1
      BY <2>1, <2>2, <2>4 DEF Bytes
    <2>6. Bytes(e) \subseteq c.start .. c.start + c.bytes - 1
      BY <2>1, <2>3, <2>4 DEF Bytes
    <2>7. ASSUME d # e
          PROVE  Bytes(d) \cap Bytes(e) = {}
      <3>1. CASE b = c
        <4>1. d.base = e.base
          BY <2>2, <2>3, <3>1
        <4>2. d.at + TextLen[d.key] < e.at \/ e.at + TextLen[e.key] < d.at
          BY <2>7, <4>1 DEF NInv, Chunks, Owned, EntriesApart
        <4> QED
          BY <2>1, <4>1, <4>2 DEF Bytes
      <3>2. CASE b # c
        <4>1. b.start + b.bytes <= c.start \/ c.start + c.bytes <= b.start
          BY <3>2 DEF NInv, IInv, BlocksBelow, Contract!Apart
        <4> QED
          BY <2>1, <2>2, <2>3, <2>4, <2>5, <2>6, <4>1
      <3> QED
        BY <3>1, <3>2
    <2> QED
      BY <2>5, <2>7
  <1> QED
    BY <1>1, NInvAlways, PTL

===========================================================================

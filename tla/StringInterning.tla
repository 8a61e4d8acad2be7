-------------------------- MODULE StringInterning --------------------------
(***************************************************************************)
(* ShardedStringInterner over a monotonic_atomic_buffer: each shard is a   *)
(* StringInterner with its own table, shared_mutex and                     *)
(* unsynchronized_chunk_allocator<char>, whose chunks all come from the    *)
(* one buffer.  The constants default_* of the allocator are parameters.   *)
(* info() only prints, without a lock, and is left out.                    *)
(***************************************************************************)
EXTENDS AtomicBuffer, Sequences, SequencesExt

CONSTANTS
  Main,              \* the thread that constructs the interner
  Nobody,            \* holder of a free lock
  NoMemory,          \* the nullptr the buffer returns when it is exhausted
  Texts,             \* what is interned
  TextLen,           \* text -> its characters
  KeyOf,             \* text -> the text up to its first NUL
  NShards,           \* N of ShardedStringInterner
  ShardOf,           \* text -> its hash modulo N, plus 1
  ChunkCapacity,     \* default_chunk_capacity
  Reserve,           \* default_initial_reserve
  RefillCount,       \* default_chunk_refill
  RefillThreshold,   \* default_chunk_refill_treshold
  MaxCalls           \* bound: the calls of intern a thread makes

ASSUME InterningAssumption ==
  /\ Main \in Threads /\ Nobody \notin Threads
  /\ ChunkCapacity \in Sizes /\ 1 \in Alignments /\ NoMemory \notin Nat
  /\ NShards \in Nat /\ Reserve \in Nat \ {0}
  /\ RefillCount \in Nat \ {0, 1} /\ RefillThreshold \in Nat \ {0}

ASSUME TextAssumption ==
  /\ Texts # {}
  /\ TextLen \in [Texts -> Nat]
  /\ KeyOf \in [Texts -> Texts]
  /\ \A x \in Texts : TextLen[KeyOf[x]] <= TextLen[x]
  /\ ShardOf \in [Texts -> 1 .. NShards]

Interners == Threads \ {Main}
Shards == 1 .. NShards

VARIABLES
  built,     \* chunks the constructors of the shards have asked for
  free,      \* shard -> free_chunks_
  active,    \* shard -> active_chunk_
  table,     \* shard -> table_, each key with the address of its text
  writer,    \* shard -> holder of the exclusive lock of shared_mutex_
  pc,        \* thread -> the step of intern it is about to take
  text,      \* thread -> the text it interns
  left,      \* thread -> the chunks its refill has still to ask for
  calls,     \* thread -> the calls it has made
  results,   \* what calls have returned
  alive      \* the process has not written through a null pointer

shardVars == <<free, active, table, writer>>
callVars == <<pc, text, left, calls, results>>
vars == <<bufferVars, built, shardVars, callVars, alive>>

Chunk(base) == [base |-> base, offset |-> 0]
S(t) == ShardOf[text[t]]

Init ==
  /\ BufferInit
  /\ built = 0
  /\ free = [s \in Shards |-> <<>>]
  /\ active = [s \in Shards |-> Chunk(NoMemory)]
  /\ table = [s \in Shards |-> {}]
  /\ writer = [s \in Shards |-> Nobody]
  /\ pc = [t \in Interners |-> "idle"]
  /\ text \in [Interners -> {CHOOSE x \in Texts : TRUE}]
  /\ left = [t \in Interners |-> 0]
  /\ calls = [t \in Interners |-> 0]
  /\ results = {}
  /\ alive = TRUE

---------------------------------------------------------------------------
\* Chunks from the buffer.

\* Asking the buffer for a chunk, up to the answer.
AskChunk(t) == Load(t, ChunkCapacity, 1) \/ Retry(t)

\* The answer, which is used as a chunk of full capacity whatever it is.
ReceiveChunk(t, base) ==
  \/ Swap(t) /\ base = Aligned(t)
  \/ Refuse(t) /\ base = NoMemory

Bases == 0 .. Capacity \cup {NoMemory}
BuiltShard == built \div Reserve + 1

\* The constructors, one shard after the other: Reserve - 1 free chunks and an
\* active one.
Construct ==
  /\ built < NShards * Reserve
  /\ \/ AskChunk(Main) /\ UNCHANGED <<built, free, active>>
     \/ \E base \in Bases :
          /\ ReceiveChunk(Main, base)
          /\ built' = built + 1
          /\ IF (built + 1) % Reserve = 0
             THEN /\ active' = [active EXCEPT ![BuiltShard] = Chunk(base)]
                  /\ UNCHANGED free
             ELSE /\ free' = [free EXCEPT ![BuiltShard] = Append(@, Chunk(base))]
                  /\ UNCHANGED active
  /\ UNCHANGED <<table, writer, callVars, alive>>

---------------------------------------------------------------------------
\* intern.

Call(t, x) ==
  /\ built = NShards * Reserve
  /\ pc[t] = "idle"
  /\ calls[t] < MaxCalls
  /\ calls' = [calls EXCEPT ![t] = @ + 1]
  /\ text' = [text EXCEPT ![t] = x]
  /\ pc' = [pc EXCEPT ![t] = "find"]
  /\ UNCHANGED <<bufferVars, built, shardVars, left, results, alive>>

Known(t) == {entry \in table[S(t)] : entry.key = text[t]}

Return(t, base, at) ==
  /\ results' = results \cup {[text |-> text[t], base |-> base, at |-> at]}
  /\ pc' = [pc EXCEPT ![t] = "idle"]

\* The lookup under the shared lock.
Find(t) ==
  /\ pc[t] = "find"
  /\ writer[S(t)] = Nobody
  /\ \/ \E entry \in Known(t) : Return(t, entry.base, entry.at)
     \/ /\ Known(t) = {}
        /\ pc' = [pc EXCEPT ![t] = "lock"]
        /\ UNCHANGED results
  /\ UNCHANGED <<bufferVars, built, shardVars, text, left, calls, alive>>

\* allocate_bytes starts with a refill when few chunks are free.
StartAllocation(t) ==
  /\ writer' = [writer EXCEPT ![S(t)] = t]
  /\ left' = [left EXCEPT ![t] =
                IF Len(free[S(t)]) <= RefillThreshold THEN RefillCount ELSE 0]
  /\ pc' = [pc EXCEPT ![t] = "allocate"]

\* Mutant: the lookup is not repeated under the exclusive lock.
LockBlindly(t) ==
  /\ pc[t] = "lock"
  /\ writer[S(t)] = Nobody
  /\ StartAllocation(t)
  /\ UNCHANGED <<bufferVars, built, free, active, table, text, calls, results, alive>>

\* The exclusive lock and the second lookup.
Lock(t) ==
  /\ pc[t] = "lock"
  /\ writer[S(t)] = Nobody
  /\ \/ /\ \E entry \in Known(t) : Return(t, entry.base, entry.at)
        /\ UNCHANGED <<writer, left>>
     \/ /\ Known(t) = {}
        /\ StartAllocation(t)
        /\ UNCHANGED results
  /\ UNCHANGED <<bufferVars, built, free, active, table, text, calls, alive>>

Refill(t) ==
  /\ pc[t] = "allocate"
  /\ left[t] > 0
  /\ \/ AskChunk(t) /\ UNCHANGED <<free, left>>
     \/ \E base \in Bases :
          /\ ReceiveChunk(t, base)
          /\ free' = [free EXCEPT ![S(t)] = Append(@, Chunk(base))]
          /\ left' = [left EXCEPT ![t] = @ - 1]
  /\ UNCHANGED <<built, active, table, writer, pc, text, calls, results, alive>>

\* The chunks after the newest free one has become the active one.  free is
\* never empty here: a refill leaves RefillCount chunks and at most two are taken.
Advance(chunks) == [active |-> Last(chunks.free), free |-> Front(chunks.free)]

\* Mutant: no room for the final NUL.
SpaceWithoutNul(x) == TextLen[x]

SpaceFor(x) == TextLen[x] + 1

\* The chunks with the one chosen for the text as the active one: an active
\* chunk must be left with a byte to spare, a fresh one need not.
Chosen(t) ==
  LET kept == [active |-> active[S(t)], free |-> free[S(t)]]
      opened == IF kept.active.base = NoMemory THEN Advance(kept) ELSE kept
      next == opened.active.offset + SpaceFor(text[t])
  IN IF next >= ChunkCapacity THEN Advance(opened) ELSE opened

Allocating(t) == pc[t] = "allocate" /\ left[t] = 0
TooLong(t) == Chosen(t).active.offset + SpaceFor(text[t]) > ChunkCapacity
Unlock(t) == writer' = [writer EXCEPT ![S(t)] = Nobody]

\* Mutant: the lock is not released when allocate_bytes throws.
ThrowLocked(t) ==
  /\ Allocating(t)
  /\ TooLong(t)
  /\ active' = [active EXCEPT ![S(t)] = Chosen(t).active]
  /\ free' = [free EXCEPT ![S(t)] = Chosen(t).free]
  /\ pc' = [pc EXCEPT ![t] = "idle"]
  /\ UNCHANGED <<bufferVars, built, table, writer, text, left, calls, results, alive>>

\* std::bad_alloc leaves intern; the fresh chunk stays the active one.
ThrowBadAlloc(t) ==
  /\ Allocating(t)
  /\ TooLong(t)
  /\ active' = [active EXCEPT ![S(t)] = Chosen(t).active]
  /\ free' = [free EXCEPT ![S(t)] = Chosen(t).free]
  /\ pc' = [pc EXCEPT ![t] = "idle"]
  /\ Unlock(t)
  /\ UNCHANGED <<bufferVars, built, table, text, left, calls, results, alive>>

\* The text is copied and entered; emplace keeps an entry of the same key.
Insert(t) ==
  LET chunk == Chosen(t).active
      entry == [key |-> KeyOf[text[t]], base |-> chunk.base, at |-> chunk.offset]
  IN /\ Allocating(t)
     /\ ~TooLong(t)
     /\ chunk.base # NoMemory
     /\ active' = [active EXCEPT ![S(t)] =
                     [chunk EXCEPT !.offset = @ + SpaceFor(text[t])]]
     /\ free' = [free EXCEPT ![S(t)] = Chosen(t).free]
     /\ table' = [table EXCEPT ![S(t)] =
                    IF \E e \in @ : e.key = entry.key THEN @ ELSE @ \cup {entry}]
     /\ Return(t, entry.base, entry.at)
     /\ Unlock(t)
     /\ UNCHANGED <<bufferVars, built, text, left, calls, alive>>

\* memcpy to the start of a chunk that is a null pointer.
WriteToNull(t) ==
  /\ Allocating(t)
  /\ ~TooLong(t)
  /\ Chosen(t).active.base = NoMemory
  /\ alive' = FALSE
  /\ UNCHANGED <<bufferVars, built, shardVars, callVars>>

---------------------------------------------------------------------------
Allocate(t) == Refill(t) \/ ThrowBadAlloc(t) \/ Insert(t) \/ WriteToNull(t)

Step(t) ==
  /\ alive
  /\ \/ \E x \in Texts : Call(t, x)
     \/ Find(t)
     \/ Lock(t)
     \/ Allocate(t)

\* The calls are over or the process is.
Finished ==
  /\ \/ ~alive
     \/ \A t \in Interners : pc[t] = "idle" /\ calls[t] = MaxCalls
  /\ UNCHANGED vars

Next == Construct \/ Finished \/ \E t \in Interners : Step(t)

Exchange(t) == Swap(t) /\ (IF t = Main THEN Construct ELSE Step(t))

\* Threads are scheduled, and an exchange does not fail spuriously for ever.
Fairness ==
  /\ WF_vars(Construct)
  /\ \A t \in Interners : WF_vars(Step(t))
  /\ \A t \in Threads : SF_vars(Exchange(t))

Spec == Init /\ [][Next]_vars /\ Fairness

---------------------------------------------------------------------------
\* The point of interning: whatever threads intern, at once or one after the
\* other, equal texts get the same address and different texts different ones,
\* unless they contain a NUL.
OneAddressPerText ==
  LET proper == {r \in results : KeyOf[r.text] = r.text}
  IN \A p, q \in proper :
       p.text = q.text <=> p.base = q.base /\ p.at = q.at

Bytes(entry) == {entry.base + entry.at + k : k \in 0 .. TextLen[entry.key]}

\* No text, its final NUL included, overlaps another one, in any shard, or
\* leaves the blocks that the buffer has handed out.
TextsApart ==
  \A s1, s2 \in Shards : \A e1 \in table[s1], e2 \in table[s2] :
    /\ e1 # e2 => Bytes(e1) \cap Bytes(e2) = {}
    /\ \E b \in blocks : Bytes(e1) \subseteq b.start .. b.start + b.bytes - 1

\* Every call of intern ends, with a result or an exception, unless the
\* process does: no thread waits for ever for a shard's lock.
CallsEnd == \A t \in Interners : pc[t] # "idle" ~> (pc[t] = "idle" \/ ~alive)

=============================================================================

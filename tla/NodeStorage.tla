---------------------------- MODULE NodeStorage ----------------------------
(***************************************************************************)
(* The data of a unit's syntax tree: one table per kind of node, of fixed  *)
(* size, indexed by a number that the nodes of all kinds share.  A shared  *)
(* mutex guards the tables, but get returns a reference that is used after *)
(* the mutex is released, by the parser while it constructs the next node  *)
(* and by threads that generate other units.                               *)
(***************************************************************************)
EXTENDS Integers

CONSTANTS
  Threads,
  Nobody,      \* who holds a free mutex
  Kinds,       \* the entries of NodeDataRegistryTable
  Capacity,    \* kind -> BytesPerStorage / sizeof
  Payloads,    \* the data of a node
  Raw,         \* what is in a slot nobody constructed
  MaxNodes     \* bound: nodes that are numbered

ASSUME StorageAssumption ==
  /\ Nobody \notin Threads
  /\ Capacity \in [Kinds -> Nat]
  /\ Raw \notin Payloads
  /\ MaxNodes \in Nat

Slot == [kind : Kinds, id : Nat]
NoSlot == [kind |-> Nobody, id |-> -1]

VARIABLES
  current,      \* IdGenerator::current_
  writer,       \* the thread that holds mutex_ alone
  readers,      \* the threads that share it
  slot,         \* kind -> index -> the object in the buffer
  constructed,  \* the slots whose is_constructed_ is set
  pc,           \* thread -> where it is in a call
  target,       \* thread -> the slot it constructs
  ref,          \* thread -> the slot it holds a reference to
  arg,          \* thread -> the data it constructs with, or that its reference should show
  nodes         \* constructed nodes, as slot -> the data their construction was given

storageVars == <<current, writer, readers, slot, constructed, pc, target, ref, arg, nodes>>

Indexes == 0 .. MaxNodes

StorageInit ==
  /\ current = 0
  /\ writer = Nobody
  /\ readers = {}
  /\ slot = [k \in Kinds |-> [i \in Indexes |-> Raw]]
  /\ constructed = {}
  /\ pc = [t \in Threads |-> "idle"]
  /\ target = [t \in Threads |-> NoSlot]
  /\ ref = [t \in Threads |-> NoSlot]
  /\ arg = [t \in Threads |-> Raw]
  /\ nodes = {}

Node(s, d) == [slot |-> s, data |-> d]

\* Mutant: two threads may be given one number.
NumberTwice(t, kind) ==
  /\ current < MaxNodes
  /\ current' \in {current, current + 1}
  /\ target' = [target EXCEPT ![t] = [kind |-> kind, id |-> current]]
  /\ pc' = [pc EXCEPT ![t] = "numbered"]
  /\ UNCHANGED <<writer, readers, slot, constructed, ref, nodes>>

\* IdGenerator::next, an atomic addition, for a node about to be constructed.
Number(t, kind) ==
  /\ current < MaxNodes
  /\ current' = current + 1
  /\ target' = [target EXCEPT ![t] = [kind |-> kind, id |-> current]]
  /\ pc' = [pc EXCEPT ![t] = "numbered"]
  /\ UNCHANGED <<writer, readers, slot, constructed, ref, nodes>>

NewNode(t, kind, data) ==
  /\ pc[t] = "idle"
  /\ Number(t, kind)
  /\ arg' = [arg EXCEPT ![t] = data]

\* A member of a class is constructed anew from the data of the node the
\* declaration's parser made, through a reference into the same table.
CopyMember(t) ==
  /\ pc[t] = "holding"
  /\ Number(t, ref[t].kind)
  /\ UNCHANGED arg

Idle(t) ==
  /\ pc' = [pc EXCEPT ![t] = "idle"]
  /\ target' = [target EXCEPT ![t] = NoSlot]
  /\ ref' = [ref EXCEPT ![t] = NoSlot]
  /\ arg' = [arg EXCEPT ![t] = Raw]

LockAlone(t) ==
  /\ pc[t] = "numbered"
  /\ writer = Nobody /\ readers = {}
  /\ writer' = t
  /\ pc' = [pc EXCEPT ![t] = "locked"]
  /\ UNCHANGED <<current, readers, slot, constructed, target, ref, arg, nodes>>

\* throw_if_out_of_range, throw_if_existing: the guard of the mutex is destroyed.
Refused(t) ==
  /\ pc[t] = "locked"
  /\ target[t].id >= Capacity[target[t].kind] \/ target[t] \in constructed
  /\ writer' = Nobody
  /\ pc' = [pc EXCEPT ![t] = "thrown"]
  /\ UNCHANGED <<current, readers, slot, constructed, target, ref, arg, nodes>>

\* What construct's arguments refer to when the object is made.
Given(t) == IF ref[t] = NoSlot THEN arg[t] ELSE slot[ref[t].kind][ref[t].id]

Emplace(t) ==
  /\ pc[t] = "locked"
  /\ target[t].id < Capacity[target[t].kind]
  /\ target[t] \notin constructed
  /\ slot' = [slot EXCEPT ![target[t].kind][target[t].id] = Given(t)]
  /\ pc' = [pc EXCEPT ![t] = "placed"]
  /\ UNCHANGED <<current, writer, readers, constructed, target, ref, arg, nodes>>

\* is_constructed_ is set, and the mutex is released.
EndConstruct(t) ==
  /\ pc[t] = "placed"
  /\ constructed' = constructed \cup {target[t]}
  /\ nodes' = nodes \cup {Node(target[t], arg[t])}
  /\ writer' = Nobody
  /\ Idle(t)
  /\ UNCHANGED <<current, readers, slot>>

\* Mutant: get does not take the mutex.
GetUnlocked(t, n) ==
  /\ pc[t] = "idle"
  /\ pc' = [pc EXCEPT ![t] = "reading"]
  /\ readers' = readers \cup {t}
  /\ ref' = [ref EXCEPT ![t] = n.slot]
  /\ arg' = [arg EXCEPT ![t] = n.data]
  /\ UNCHANGED <<current, writer, slot, constructed, target, nodes>>

\* get of a node that is reachable, so constructed.
Get(t, n) ==
  /\ pc[t] = "idle"
  /\ writer = Nobody
  /\ readers' = readers \cup {t}
  /\ pc' = [pc EXCEPT ![t] = "reading"]
  /\ ref' = [ref EXCEPT ![t] = n.slot]
  /\ arg' = [arg EXCEPT ![t] = n.data]
  /\ UNCHANGED <<current, writer, slot, constructed, target, nodes>>

\* The reference is returned and the mutex released.
ReturnReference(t) ==
  /\ pc[t] = "reading"
  /\ readers' = readers \ {t}
  /\ pc' = [pc EXCEPT ![t] = IF ref[t] \in constructed THEN "holding" ELSE "thrown"]
  /\ UNCHANGED <<current, writer, slot, constructed, target, ref, arg, nodes>>

DropReference(t) ==
  /\ pc[t] = "holding"
  /\ Idle(t)
  /\ UNCHANGED <<current, writer, readers, slot, constructed, nodes>>

\* Mutant: a table is reset while references into it are held.
ResetEarly ==
  /\ writer = Nobody /\ readers = {}
  /\ slot' = [k \in Kinds |-> [i \in Indexes |-> Raw]]
  /\ constructed' = {}
  /\ nodes' = {}
  /\ UNCHANGED <<current, writer, readers, pc, target, ref, arg>>

\* ~MultiStorageRegistry, when the threads have left the unit.
Reset ==
  /\ writer = Nobody /\ readers = {}
  /\ \A t \in Threads : pc[t] \in {"idle", "thrown"}
  /\ slot' = [k \in Kinds |-> [i \in Indexes |-> Raw]]
  /\ constructed' = {}
  /\ nodes' = {}
  /\ UNCHANGED <<current, writer, readers, pc, target, ref, arg>>

StorageStep(t) ==
  \/ \E kind \in Kinds, data \in Payloads : NewNode(t, kind, data)
  \/ CopyMember(t)
  \/ LockAlone(t) \/ Refused(t) \/ Emplace(t) \/ EndConstruct(t)
  \/ \E n \in nodes : Get(t, n)
  \/ ReturnReference(t) \/ DropReference(t)

StorageNext == (\E t \in Threads : StorageStep(t)) \/ Reset

StorageSpec == StorageInit /\ [][StorageNext]_storageVars

---------------------------------------------------------------------------
Writing(t) == pc[t] \in {"locked", "placed"}
Holding(t) == ref[t] # NoSlot /\ pc[t] \notin {"reading", "thrown"}

\* While a thread checks or writes a table no other one does, and none reads it.
TablesGuarded ==
  \A t, u \in Threads : Writing(t) /\ t # u => ~Writing(u) /\ pc[u] # "reading"

\* A reference outlives the mutex: whatever is constructed meanwhile, it shows
\* the data its node was constructed with, and no thread is writing there.
ReferencesValid ==
  \A t \in Threads : Holding(t) =>
    /\ ref[t] \in constructed
    /\ slot[ref[t].kind][ref[t].id] = arg[t]
    /\ \A u \in Threads : Writing(u) => target[u] # ref[t]

\* Numbers are shared by all kinds, yet every node has a slot of its own and
\* keeps its data in it, a copied member that of the node it was made from.
NodesKeepData ==
  \A n \in nodes :
    /\ n.slot \in constructed
    /\ slot[n.slot.kind][n.slot.id] = n.data
    /\ \A m \in nodes : m.slot.id = n.slot.id => m = n

=============================================================================

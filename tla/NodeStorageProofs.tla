------------------------- MODULE NodeStorageProofs -------------------------
(***************************************************************************)
(* The tables are guarded, references stay valid and nodes keep their data *)
(* for any threads, any kinds of nodes and any capacities.  The shared     *)
(* number is what makes it work: a slot about to be written has a number   *)
(* that no constructed slot, and no other thread's slot, of any kind has.  *)
(***************************************************************************)
EXTENDS NodeStorage, TLAPS

Data == Payloads \cup {Raw}
Places == {"idle", "numbered", "locked", "placed", "reading", "holding", "thrown"}

StorageTypeOK ==
  /\ current \in 0 .. MaxNodes
  /\ writer \in Threads \cup {Nobody}
  /\ readers \subseteq Threads
  /\ slot \in [Kinds -> [Indexes -> Data]]
  /\ constructed \subseteq Slot
  /\ pc \in [Threads -> Places]
  /\ target \in [Threads -> Slot \cup {NoSlot}]
  /\ ref \in [Threads -> Slot \cup {NoSlot}]
  /\ arg \in [Threads -> Data]
  /\ nodes \subseteq [slot : Slot, data : Data]

Pending(t) == pc[t] \in {"numbered", "locked", "placed"}

\* The mutex is held as the program counters say.
MutexControl ==
  /\ \A t \in Threads : Writing(t) <=> writer = t
  /\ \A t \in Threads : t \in readers <=> pc[t] = "reading"
  /\ writer # Nobody => readers = {}

\* Numbers given out are below the counter and never given out again.
NumbersApart ==
  /\ \A t \in Threads : Pending(t) => target[t] \in Slot /\ target[t].id < current
  /\ \A t, u \in Threads : Pending(t) /\ Pending(u) /\ t # u => target[t].id # target[u].id
  /\ \A s \in constructed : s.id < current /\ \A t \in Threads : Pending(t) => target[t].id # s.id

\* A reference is to a node whose data is the one its holder expects.
ReferencesToNodes ==
  \A t \in Threads :
    /\ pc[t] = "idle" => ref[t] = NoSlot
    /\ pc[t] = "holding" => ref[t] \in Slot
    /\ ref[t] # NoSlot /\ pc[t] # "thrown" => Node(ref[t], arg[t]) \in nodes

\* What was placed is what was given.
PlacedData ==
  \A t \in Threads : pc[t] = "placed" => slot[target[t].kind][target[t].id] = arg[t]

SInv ==
  /\ StorageTypeOK /\ MutexControl /\ NumbersApart
  /\ ReferencesToNodes /\ PlacedData /\ NodesKeepData

LEMMA NoSlotIsNone == NoSlot \notin Slot
BY DEF NoSlot, Slot

LEMMA StorageStarts == StorageInit => SInv
<1> SUFFICES ASSUME StorageInit PROVE SInv
  OBVIOUS
<1>1. StorageTypeOK
  BY StorageAssumption DEF StorageInit, StorageTypeOK, Data, Places, Indexes
<1>2. MutexControl
  BY StorageAssumption DEF StorageInit, MutexControl, Writing
<1>3. NumbersApart /\ ReferencesToNodes /\ PlacedData /\ NodesKeepData
  BY DEF StorageInit, NumbersApart, Pending, ReferencesToNodes, PlacedData, NodesKeepData
<1> QED
  BY <1>1, <1>2, <1>3 DEF SInv

\* A number is new to every table and every thread.
LEMMA NumberKeeps ==
  ASSUME SInv, NEW t \in Threads, NEW kind \in Kinds, Number(t, kind), pc[t] \in {"idle", "holding"},
         arg' \in [Threads -> Data],
         \A u \in Threads : u # t \/ pc[t] = "holding" => arg'[u] = arg[u]
  PROVE  SInv'
<1>1. /\ current \in Nat /\ current < MaxNodes /\ current' = current + 1
      /\ pc' = [pc EXCEPT ![t] = "numbered"]
      /\ target' = [target EXCEPT ![t] = [kind |-> kind, id |-> current]]
      /\ UNCHANGED <<writer, readers, slot, constructed, ref, nodes>>
  BY StorageAssumption DEF Number, SInv, StorageTypeOK
<1>2. [kind |-> kind, id |-> current] \in Slot
  BY <1>1 DEF Slot
<1>3. StorageTypeOK'
  BY <1>1, <1>2, StorageAssumption DEF SInv, StorageTypeOK, Places
<1>4. MutexControl'
  BY <1>1 DEF SInv, StorageTypeOK, MutexControl, Writing
<1>5. NumbersApart'
  BY <1>1, <1>2 DEF SInv, StorageTypeOK, NumbersApart, Pending, Slot
<1>6. ReferencesToNodes' /\ PlacedData' /\ NodesKeepData'
  BY <1>1 DEF SInv, StorageTypeOK, ReferencesToNodes, PlacedData, NodesKeepData, Node
<1> QED
  BY <1>3, <1>4, <1>5, <1>6 DEF SInv

\* Taking the mutex, or giving it back, changes no table.
LEMMA MutexKeeps ==
  ASSUME SInv, NEW t \in Threads, LockAlone(t) \/ Refused(t)
  PROVE  SInv'
<1>1. StorageTypeOK'
  BY DEF SInv, StorageTypeOK, LockAlone, Refused, Places
<1>2. MutexControl'
  BY StorageAssumption DEF SInv, StorageTypeOK, MutexControl, Writing, LockAlone, Refused
<1>3. NumbersApart'
  BY DEF SInv, StorageTypeOK, NumbersApart, Pending, LockAlone, Refused
<1>4. ReferencesToNodes' /\ PlacedData' /\ NodesKeepData'
  BY DEF SInv, StorageTypeOK, ReferencesToNodes, PlacedData, NodesKeepData, Node, LockAlone, Refused
<1> QED
  BY <1>1, <1>2, <1>3, <1>4 DEF SInv

LEMMA EmplaceKeeps ==
  ASSUME SInv, NEW t \in Threads, Emplace(t)
  PROVE  SInv'
<1> DEFINE k == target[t].kind
           i == target[t].id
<1>1. /\ pc[t] = "locked" /\ target[t] \in Slot /\ k \in Kinds /\ i \in Indexes
      /\ slot' = [slot EXCEPT ![k][i] = Given(t)] /\ pc' = [pc EXCEPT ![t] = "placed"]
      /\ UNCHANGED <<current, writer, readers, constructed, target, ref, arg, nodes>>
  BY StorageAssumption DEF SInv, StorageTypeOK, NumbersApart, Pending, Slot, Emplace, Indexes
<1>2. Given(t) = arg[t] /\ arg[t] \in Data
  BY <1>1 DEF SInv, StorageTypeOK, Given, ReferencesToNodes, NodesKeepData, Node
<1>3. \A s \in Slot : s.id \in Indexes /\ s.id # i => slot'[s.kind][s.id] = slot[s.kind][s.id]
  BY <1>1 DEF SInv, StorageTypeOK, Slot
<1>4. slot'[k][i] = arg[t]
  BY <1>1, <1>2 DEF SInv, StorageTypeOK
<1>5. StorageTypeOK'
  BY <1>1, <1>2 DEF SInv, StorageTypeOK, Places
<1>6. MutexControl' /\ NumbersApart' /\ ReferencesToNodes'
  BY <1>1 DEF SInv, StorageTypeOK, MutexControl, Writing, NumbersApart, Pending, ReferencesToNodes, Node
<1>7. PlacedData'
  BY <1>1, <1>4 DEF SInv, StorageTypeOK, PlacedData, MutexControl, Writing
<1>8. NodesKeepData'
  <2> SUFFICES ASSUME NEW n \in nodes PROVE slot'[n.slot.kind][n.slot.id] = n.data
    BY <1>1 DEF SInv, NodesKeepData
  <2>1. n.slot \in constructed /\ n.slot \in Slot /\ slot[n.slot.kind][n.slot.id] = n.data
    BY DEF SInv, StorageTypeOK, NodesKeepData
  <2>2. n.slot.id \in Indexes /\ n.slot.id # i
    BY <1>1, <2>1, StorageAssumption DEF SInv, StorageTypeOK, NumbersApart, Pending, Slot, Indexes
  <2> QED
    BY <1>3, <2>1, <2>2
<1> QED
  BY <1>5, <1>6, <1>7, <1>8 DEF SInv

LEMMA EndConstructKeeps ==
  ASSUME SInv, NEW t \in Threads, EndConstruct(t)
  PROVE  SInv'
<1> DEFINE new == Node(target[t], arg[t])
<1>1. /\ pc[t] = "placed" /\ target[t] \in Slot /\ target[t].id < current
      /\ constructed' = constructed \cup {target[t]} /\ nodes' = nodes \cup {new}
      /\ writer' = Nobody /\ pc' = [pc EXCEPT ![t] = "idle"]
      /\ target' = [target EXCEPT ![t] = NoSlot] /\ ref' = [ref EXCEPT ![t] = NoSlot]
      /\ arg' = [arg EXCEPT ![t] = Raw]
      /\ UNCHANGED <<current, readers, slot>>
  BY DEF SInv, StorageTypeOK, NumbersApart, Pending, EndConstruct, Idle
<1>2. new \in [slot : Slot, data : Data] /\ new.slot = target[t] /\ new.data = arg[t]
  BY <1>1 DEF SInv, StorageTypeOK, Node
<1>3. StorageTypeOK'
  BY <1>1, <1>2 DEF SInv, StorageTypeOK, Places, Data
<1>4. MutexControl'
  BY <1>1, StorageAssumption DEF SInv, StorageTypeOK, MutexControl, Writing
<1>5. NumbersApart'
  BY <1>1 DEF SInv, StorageTypeOK, NumbersApart, Pending
<1>6. ReferencesToNodes' /\ PlacedData'
  BY <1>1 DEF SInv, StorageTypeOK, ReferencesToNodes, PlacedData
<1>7. NodesKeepData'
  <2>1. slot[target[t].kind][target[t].id] = arg[t]
    BY <1>1 DEF SInv, PlacedData
  <2>2. \A n \in nodes : n.slot.id # target[t].id
    BY <1>1 DEF SInv, NodesKeepData, NumbersApart, Pending
  <2> QED
    BY <1>1, <1>2, <2>1, <2>2 DEF SInv, NodesKeepData
<1> QED
  BY <1>3, <1>4, <1>5, <1>6, <1>7 DEF SInv

\* Taking, returning and dropping a reference writes nothing.
LEMMA ReadKeeps ==
  ASSUME SInv, NEW t \in Threads,
         (\E n \in nodes : Get(t, n)) \/ ReturnReference(t) \/ DropReference(t)
  PROVE  SInv'
<1>1. CASE \E n \in nodes : Get(t, n)
  <2>1. PICK n \in nodes : Get(t, n)
    BY <1>1
  <2>2. n \in [slot : Slot, data : Data] /\ Node(n.slot, n.data) = n
    BY DEF SInv, StorageTypeOK, Node
  <2>3. StorageTypeOK'
    BY <2>1, <2>2 DEF SInv, StorageTypeOK, Get, Places
  <2>4. MutexControl'
    BY <2>1 DEF SInv, StorageTypeOK, MutexControl, Writing, Get
  <2>5. NumbersApart' /\ PlacedData' /\ NodesKeepData'
    BY <2>1 DEF SInv, StorageTypeOK, NumbersApart, Pending, PlacedData, NodesKeepData, Get
  <2>6. ReferencesToNodes'
    BY <2>1, <2>2 DEF SInv, StorageTypeOK, ReferencesToNodes, Get
  <2> QED
    BY <2>3, <2>4, <2>5, <2>6 DEF SInv
<1>2. CASE ReturnReference(t)
  <2>1. StorageTypeOK' /\ MutexControl'
    BY <1>2 DEF SInv, StorageTypeOK, MutexControl, Writing, ReturnReference, Places
  <2>2. NumbersApart' /\ PlacedData' /\ NodesKeepData'
    BY <1>2 DEF SInv, StorageTypeOK, NumbersApart, Pending, PlacedData, NodesKeepData, ReturnReference
  <2>3. ReferencesToNodes'
    BY <1>2 DEF SInv, StorageTypeOK, ReferencesToNodes, Node, ReturnReference
  <2> QED
    BY <2>1, <2>2, <2>3 DEF SInv
<1>3. CASE DropReference(t)
  <2>1. StorageTypeOK' /\ MutexControl'
    BY <1>3 DEF SInv, StorageTypeOK, MutexControl, Writing, DropReference, Idle, Places, Data
  <2>2. NumbersApart' /\ PlacedData' /\ NodesKeepData'
    BY <1>3 DEF SInv, StorageTypeOK, NumbersApart, Pending, PlacedData, NodesKeepData, DropReference, Idle
  <2>3. ReferencesToNodes'
    BY <1>3 DEF SInv, StorageTypeOK, ReferencesToNodes, Node, DropReference, Idle
  <2> QED
    BY <2>1, <2>2, <2>3 DEF SInv
<1> QED
  BY <1>1, <1>2, <1>3

LEMMA ResetKeeps ==
  ASSUME SInv, Reset
  PROVE  SInv'
<1>1. StorageTypeOK'
  BY DEF SInv, StorageTypeOK, Reset, Data
<1>2. MutexControl' /\ NumbersApart' /\ PlacedData' /\ NodesKeepData'
  BY DEF SInv, StorageTypeOK, MutexControl, Writing, NumbersApart, Pending, PlacedData, NodesKeepData,
         Reset
<1>3. ReferencesToNodes'
  BY DEF SInv, StorageTypeOK, ReferencesToNodes, Reset
<1> QED
  BY <1>1, <1>2, <1>3 DEF SInv

LEMMA StorageSteps == SInv /\ [StorageNext]_storageVars => SInv'
<1> SUFFICES ASSUME SInv, [StorageNext]_storageVars PROVE SInv'
  OBVIOUS
<1>1. CASE \E t \in Threads : StorageStep(t)
  <2>1. PICK t \in Threads : StorageStep(t)
    BY <1>1
  <2>2. CASE \E kind \in Kinds, data \in Payloads : NewNode(t, kind, data)
    <3>1. PICK kind \in Kinds, data \in Payloads : NewNode(t, kind, data)
      BY <2>2
    <3>2. /\ Number(t, kind) /\ pc[t] = "idle" /\ arg' \in [Threads -> Data]
          /\ \A u \in Threads : u # t => arg'[u] = arg[u]
      BY <3>1 DEF NewNode, SInv, StorageTypeOK, Data
    <3> QED
      BY <3>2, NumberKeeps
  <2>3. CASE CopyMember(t)
    <3>1. Number(t, ref[t].kind) /\ pc[t] = "holding" /\ arg' = arg /\ arg' \in [Threads -> Data]
      BY <2>3 DEF CopyMember, SInv, StorageTypeOK
    <3>2. ref[t] \in Slot /\ ref[t].kind \in Kinds
      BY <3>1 DEF SInv, ReferencesToNodes, Slot
    <3> QED
      BY <3>1, <3>2, NumberKeeps
  <2>4. CASE LockAlone(t) \/ Refused(t)
    BY <2>4, MutexKeeps
  <2>5. CASE Emplace(t)
    BY <2>5, EmplaceKeeps
  <2>6. CASE EndConstruct(t)
    BY <2>6, EndConstructKeeps
  <2>7. CASE (\E n \in nodes : Get(t, n)) \/ ReturnReference(t) \/ DropReference(t)
    BY <2>7, ReadKeeps
  <2> QED
    BY <2>1, <2>2, <2>3, <2>4, <2>5, <2>6, <2>7 DEF StorageStep
<1>2. CASE Reset
  BY <1>2, ResetKeeps
<1>3. CASE UNCHANGED storageVars
  BY <1>3 DEF storageVars, SInv, StorageTypeOK, MutexControl, Writing, NumbersApart, Pending,
              ReferencesToNodes, PlacedData, NodesKeepData
<1> QED
  BY <1>1, <1>2, <1>3 DEF StorageNext

THEOREM StorageInvariance == StorageSpec => []SInv
BY StorageStarts, StorageSteps, PTL DEF StorageSpec

\* The shared mutex keeps writers of the tables of a unit apart from each
\* other and from readers of the flags.
THEOREM Guarded == StorageSpec => []TablesGuarded
<1>1. SInv => TablesGuarded
  BY StorageAssumption DEF SInv, MutexControl, TablesGuarded, Writing
<1> QED
  BY <1>1, StorageInvariance, PTL

\* References that get returned, used after the mutex is released, are to
\* constructed slots that nobody writes.
THEOREM ReferencesOutlive == StorageSpec => []ReferencesValid
<1>1. SInv => ReferencesValid
  <2> SUFFICES ASSUME SInv, NEW t \in Threads, Holding(t)
               PROVE  /\ ref[t] \in constructed
                      /\ slot[ref[t].kind][ref[t].id] = arg[t]
                      /\ \A u \in Threads : Writing(u) => target[u] # ref[t]
    BY DEF ReferencesValid
  <2>1. Node(ref[t], arg[t]) \in nodes
    BY DEF SInv, ReferencesToNodes, Holding
  <2>2. ref[t] \in constructed /\ slot[ref[t].kind][ref[t].id] = arg[t]
    BY <2>1 DEF SInv, NodesKeepData, Node
  <2> QED
    BY <2>2 DEF SInv, NumbersApart, Pending, Writing
<1> QED
  BY <1>1, StorageInvariance, PTL

\* Nodes of all kinds that share one counter keep their data in slots of their own.
THEOREM DataKept == StorageSpec => []NodesKeepData
BY StorageInvariance, PTL DEF SInv

=============================================================================

------------------------- MODULE ClassLayoutProofs -------------------------
(***************************************************************************)
(* Classes of any unit: a body goes into the function of what declares it, *)
(* and a call on an object that `new` made finds the method of its class.  *)
(* A unit goes through three phases, which the agenda tells apart.  While  *)
(* it is declared and while it is filled nothing is generated; once it is  *)
(* generated no method is without its function and no vtable changes.      *)
(***************************************************************************)
EXTENDS ClassLayout, SequenceFacts, TLAPS

Inner == Uses \cup {"initialise", "construct", "end function"}

\* What a task holds.
TaskTyped(task) ==
  /\ task[1] = "fill" =>
       task[2] \in Seq(ToSet(task[2])) /\ \A k \in DOMAIN task[2] : IsClass(task[2][k]) \/ IsFunction(task[2][k])
  /\ task[1] = "declare" => IsClass(task[2]) \/ IsFunction(task[2]) \/ task[2].kind = "attribute"
  /\ task[1] = "generate" => IsClass(task[2]) \/ IsFunction(task[2])
AgendaTyped == IsSequence(agenda) /\ \A i \in DOMAIN agenda : TaskTyped(agenda[i])

\* The phases.
Quiet == emitted = {} /\ bodies = {} /\ vars = << >> /\ temporary = Value(None, None, None)
Declaring ==
  /\ pass = 1 /\ Quiet
  /\ agenda # << >> /\ agenda[Len(agenda)][1] = "fill"
  /\ \A i \in 1 .. Len(agenda) - 1 : agenda[i][1] \in {"declare", "layout", "leave"}
FillingUntil(k) ==
  /\ pass = 2 /\ Quiet
  /\ \A i \in 1 .. k : agenda[i][1] = "method"
  /\ \A i \in k + 1 .. Len(agenda) : agenda[i][1] = "generate"
Filling == \E k \in 0 .. Len(agenda) : FillingUntil(k)
Generating == pass = 2 /\ \A i \in DOMAIN agenda : agenda[i][1] \in {"generate", "leave"} \cup Inner
Phases == Declaring \/ Filling \/ Generating

\* The classes: records whose names the registry can sort.
Fields == {"methods", "attributes", "initial", "fields", "indexes", "slots", "table", "renamed"}
ClassesTyped ==
  /\ DOMAIN classes \subseteq ToSet(Order)
  /\ \A c \in DOMAIN classes :
       DOMAIN classes[c] = Fields /\ DOMAIN classes[c].methods \subseteq ToSet(Order)

\* A method has no function until it has its own, and then a slot that holds it,
\* unless it is the builder.
Unfilled(c, m) ==
  classes[c].methods[m] = None /\ (pass = 2 => \E i \in DOMAIN agenda : agenda[i] = <<"method", c, m>>)
Slotted(class, c, m) ==
  m \in DOMAIN class.slots /\ class.slots[m] \in DOMAIN class.table /\ class.table[class.slots[m]] = <<c, m>>
Filled(c, m) ==
  pass = 2 /\ classes[c].methods[m] = <<c, m>> /\ (m # c => Slotted(classes[c], c, m))
MethodsFilled ==
  \A c \in DOMAIN classes : \A m \in DOMAIN classes[c].methods : Unfilled(c, m) \/ Filled(c, m)

\* What is known of an object is what `new` made of it.
Equipped(c) == c \in DOMAIN classes /\ (classes[c].table = None \/ [op |-> "set vptr", class |-> c] \in emitted)
Known(v) == v.object # None /\ v.pointed # None => v.pointed = v.object /\ Equipped(v.object)
ObjectsKnown ==
  /\ Known(temporary)
  /\ \A name \in DOMAIN vars : Known(vars[name])
  /\ \A i \in DOMAIN agenda : agenda[i][1] = "construct" => Equipped(agenda[i][2])

SoundDispatch(i) ==
  i.op = "dispatch" /\ i.on.object # None /\ i.on.type \in {None, i.on.object} =>
    /\ i.on.object \in DOMAIN classes
    /\ [op |-> "set vptr", class |-> i.on.object] \in emitted
    /\ i.slot \in DOMAIN classes[i.on.object].table
    /\ classes[i.on.object].table[i.slot] = <<i.on.object, i.method>>
DispatchesSound == \A i \in emitted : SoundDispatch(i)

\* Where the current class comes from, while nothing was reported: the unit
\* itself, or the class that is left at the k-th task.
Top(task) == task[1] # "leave" /\ (task[1] = "generate" => task[3] = None)
Member(task, class) ==
  /\ task[1] \notin {"leave", "fill"}
  /\ task[1] = "generate" => task[3] = class
  /\ task[1] \in {"declare", "generate"} => task[2].kind # "class"
InUnit == cur = None /\ \A i \in DOMAIN agenda : Top(agenda[i])
InClassUntil(k) ==
  /\ agenda[k] = <<"leave", None>>
  /\ \A i \in 1 .. k - 1 : Member(agenda[i], cur)
  /\ \A i \in k + 1 .. Len(agenda) : Top(agenda[i])
Placed == reported \/ InUnit \/ \E k \in DOMAIN agenda : InClassUntil(k)

IInv ==
  /\ AgendaTyped /\ Phases /\ ClassesTyped
  /\ MethodsFilled /\ ObjectsKnown /\ DispatchesSound
  /\ Placed /\ BodiesInPlace

---------------------------------------------------------------------------
(* The operators of the model *)

LEMMA EachFacts ==
  ASSUME NEW kind, NEW things, IsSequence(things)
  PROVE  /\ IsSequence(Each(kind, things)) /\ Len(Each(kind, things)) = Len(things)
         /\ \A k \in 1 .. Len(things) : Each(kind, things)[k] = <<kind, things[k]>>
  <1> DEFINE s == Each(kind, things)
  <1>1. Len(things) \in Nat /\ DOMAIN things = 1 .. Len(things)
    BY IsSequenceFacts
  <1>2. s = [k \in 1 .. Len(things) |-> <<kind, things[k]>>]
    BY <1>1 DEF Each
  <1> HIDE DEF s
  <1>3. s = [k \in 1 .. Len(things) |-> s[k]]
    BY <1>2
  <1>4. IsSequence(s) /\ Len(s) = Len(things)
    BY <1>1, <1>3, IsSequenceFunction
  <1> QED
    BY <1>2, <1>4 DEF s

LEMMA GenerateFacts ==
  ASSUME NEW things, NEW class, IsSequence(things)
  PROVE  /\ IsSequence(Generate(things, class)) /\ Len(Generate(things, class)) = Len(things)
         /\ \A k \in 1 .. Len(things) : Generate(things, class)[k] = <<"generate", things[k], class>>
  <1> DEFINE s == Generate(things, class)
  <1>1. Len(things) \in Nat /\ DOMAIN things = 1 .. Len(things)
    BY IsSequenceFacts
  <1>2. s = [k \in 1 .. Len(things) |-> <<"generate", things[k], class>>]
    BY <1>1 DEF Generate
  <1> HIDE DEF s
  <1>3. s = [k \in 1 .. Len(things) |-> s[k]]
    BY <1>2
  <1>4. IsSequence(s) /\ Len(s) = Len(things)
    BY <1>1, <1>3, IsSequenceFunction
  <1> QED
    BY <1>2, <1>4 DEF s

LEMMA EmptyFacts == IsSequence(<<>>) /\ Len(<<>>) = 0 /\ ToSet(<<>>) = {} /\ DOMAIN <<>> = {}
  <1> DEFINE none == <<>>
             nothing == {}
  <1>1. none \in Seq(nothing)
    OBVIOUS
  <1>2. DOMAIN none = {} /\ Len(none) = 0
    OBVIOUS
  <1> HIDE DEF none, nothing
  <1>3. IsSequence(none)
    BY <1>1, IsSequenceOf
  <1>4. ToSet(none) = {}
    BY <1>2 DEF ToSet
  <1> QED
    BY <1>2, <1>3, <1>4 DEF none

LEMMA SingleFacts ==
  ASSUME NEW e
  PROVE  IsSequence(<<e>>) /\ Len(<<e>>) = 1 /\ DOMAIN <<e>> = {1} /\ <<e>>[1] = e /\ ToSet(<<e>>) = {e}
  <1>1. <<e>> \in Seq({e}) /\ Len(<<e>>) = 1 /\ DOMAIN <<e>> = {1} /\ <<e>>[1] = e
    OBVIOUS
  <1>2. ToSet(<<e>>) = {e}
    <2> DEFINE s == <<e>>
    <2>1. DOMAIN s = {1} /\ s[1] = e
      BY <1>1
    <2> HIDE DEF s
    <2>2. ToSet(s) = {e}
      BY <2>1 DEF ToSet
    <2> QED
      BY <2>2 DEF s
  <1> QED
    BY <1>1, <1>2, IsSequenceOf

\* What is chosen is there, and nothing else.
LEMMA OnlyFacts ==
  ASSUME NEW things, NEW chosen, IsSequence(things)
  PROVE  IsSequence(Only(things, chosen)) /\ ToSet(Only(things, chosen)) = ToSet(things) \cap chosen
  <1> DEFINE ss == [k \in DOMAIN things |-> IF things[k] \in chosen THEN <<things[k]>> ELSE << >>]
  <1>1. Len(things) \in Nat /\ DOMAIN things = 1 .. Len(things)
    BY IsSequenceFacts
  <1>2. DOMAIN ss = DOMAIN things
        /\ \A k \in DOMAIN things : ss[k] = IF things[k] \in chosen THEN <<things[k]>> ELSE << >>
    OBVIOUS
  <1>3. Only(things, chosen) = FlattenSeq(ss)
    BY DEF Only
  <1> HIDE DEF ss
  <1>4. ss = [k \in 1 .. Len(things) |-> ss[k]]
    <2>1. ss = [k \in DOMAIN ss |-> ss[k]]
      BY <1>2 DEF ss
    <2> QED
      BY <1>1, <1>2, <2>1
  <1>5. IsSequence(ss)
    BY <1>1, <1>4, IsSequenceFunction
  <1>6. ASSUME NEW k \in DOMAIN ss
        PROVE  IsSequence(ss[k]) /\ ToSet(ss[k]) = IF things[k] \in chosen THEN {things[k]} ELSE {}
    <2>1. CASE things[k] \in chosen
      <3>1. ss[k] = <<things[k]>>
        BY <2>1, <1>2
      <3> QED
        BY <2>1, <3>1, SingleFacts
    <2>2. CASE things[k] \notin chosen
      <3>1. ss[k] = << >>
        BY <2>2, <1>2
      <3> QED
        BY <2>2, <3>1, EmptyFacts
    <2> QED
      BY <2>1, <2>2
  <1>7. /\ IsSequence(FlattenSeq(ss))
        /\ \A e : e \in ToSet(FlattenSeq(ss)) <=> \E k \in DOMAIN ss : e \in ToSet(ss[k])
    BY <1>5, <1>6, FlattenFacts
  <1>8. ToSet(things) = {things[k] : k \in DOMAIN things}
    BY DEF ToSet
  <1>9. \A e : e \in ToSet(FlattenSeq(ss)) <=> e \in ToSet(things) /\ e \in chosen
    BY <1>2, <1>6, <1>7, <1>8
  <1> QED
    BY <1>3, <1>7, <1>9

\* The names of a map, once each, if the registry can sort them.
LEMMA SortedFacts ==
  ASSUME NEW names, names \subseteq ToSet(Order)
  PROVE  IsSequence(Sorted(names)) /\ ToSet(Sorted(names)) = names
  <1>1. IsSequence(Order)
    BY NameAssumption DEF IsSequence
  <1>2. IsSequence(Only(Order, names)) /\ ToSet(Only(Order, names)) = ToSet(Order) \cap names
    BY <1>1, OnlyFacts
  <1> QED
    BY <1>2 DEF Sorted

LEMMA OfKindFacts ==
  ASSUME NEW kind, NEW things, IsSequence(things)
  PROVE  /\ IsSequence(OfKind(kind, things))
         /\ \A k \in DOMAIN OfKind(kind, things) :
              OfKind(kind, things)[k].kind = kind /\ \E j \in DOMAIN things : OfKind(kind, things)[k] = things[j]
  <1> DEFINE s == OfKind(kind, things)
             S == {i \in ToSet(things) : i.kind = kind}
  <1>1. IsSequence(s) /\ ToSet(s) = ToSet(things) \cap S
    BY OnlyFacts DEF OfKind
  <1> HIDE DEF s
  <1>2. \A k \in DOMAIN s : s[k] \in ToSet(things) \cap S
    BY <1>1 DEF ToSet
  <1>3. \A k \in DOMAIN s : s[k].kind = kind /\ \E j \in DOMAIN things : s[k] = things[j]
    BY <1>2 DEF ToSet
  <1> QED
    BY <1>1, <1>3 DEF s

---------------------------------------------------------------------------
(* The agenda after a step *)

LEMMA HeadFacts ==
  ASSUME AgendaTyped, agenda # <<>>
  PROVE  /\ IsSequence(agenda) /\ Len(agenda) \in Nat \ {0} /\ DOMAIN agenda = 1 .. Len(agenda)
         /\ Task = agenda[1] /\ 1 \in DOMAIN agenda /\ TaskTyped(agenda[1])
  <1>1. IsSequence(agenda) /\ Len(agenda) \in Nat \ {0} /\ Head(agenda) = agenda[1]
    BY TailFacts DEF AgendaTyped
  <1>2. DOMAIN agenda = 1 .. Len(agenda)
    BY <1>1, IsSequenceFacts
  <1> QED
    BY <1>1, <1>2 DEF Task, AgendaTyped

\* The tasks that replace the present one come first, then those behind it.
LEMMA AgendaContinues ==
  ASSUME AgendaTyped, agenda # <<>>, NEW tasks, IsSequence(tasks), agenda' = tasks \o Tail(agenda)
  PROVE  /\ IsSequence(agenda') /\ Len(agenda') = Len(tasks) + Len(agenda) - 1
         /\ Len(tasks) \in Nat /\ DOMAIN tasks = 1 .. Len(tasks)
         /\ DOMAIN agenda' = 1 .. Len(tasks) + Len(agenda) - 1
         /\ \A i \in 1 .. Len(tasks) : agenda'[i] = tasks[i]
         /\ \A i \in 2 .. Len(agenda) : agenda'[Len(tasks) + i - 1] = agenda[i]
         /\ \A i \in Len(tasks) + 1 .. Len(agenda') :
              i - Len(tasks) + 1 \in 2 .. Len(agenda) /\ agenda'[i] = agenda[i - Len(tasks) + 1]
  <1>1. /\ IsSequence(Tail(agenda)) /\ Len(Tail(agenda)) = Len(agenda) - 1
        /\ Len(agenda) \in Nat \ {0}
        /\ \A i \in 1 .. Len(agenda) - 1 : Tail(agenda)[i] = agenda[i + 1]
    BY TailFacts DEF AgendaTyped
  <1>2. Len(tasks) \in Nat /\ DOMAIN tasks = 1 .. Len(tasks)
    BY IsSequenceFacts
  <1> DEFINE rest == Tail(agenda)
             new == tasks \o rest
  <1>3. /\ IsSequence(new) /\ Len(new) = Len(tasks) + Len(rest)
        /\ \A i \in 1 .. Len(tasks) : new[i] = tasks[i]
        /\ \A i \in 1 .. Len(rest) : new[Len(tasks) + i] = rest[i]
    BY <1>1, ConcatFacts
  <1> HIDE DEF rest, new
  <1>4. ASSUME NEW i \in 2 .. Len(agenda) PROVE new[Len(tasks) + i - 1] = agenda[i]
    <2>1. i - 1 \in 1 .. Len(rest) /\ Len(tasks) + i - 1 = Len(tasks) + (i - 1) /\ (i - 1) + 1 = i
      BY <1>1, <1>2 DEF rest
    <2>2. new[Len(tasks) + (i - 1)] = rest[i - 1]
      BY <2>1, <1>3
    <2>3. rest[i - 1] = agenda[(i - 1) + 1]
      BY <2>1, <1>1 DEF rest
    <2> QED
      BY <2>1, <2>2, <2>3
  <1>5. Len(new) = Len(tasks) + Len(agenda) - 1 /\ DOMAIN new = 1 .. Len(tasks) + Len(agenda) - 1
    BY <1>1, <1>2, <1>3, IsSequenceFacts DEF rest
  <1>6. ASSUME NEW i \in Len(tasks) + 1 .. Len(new)
        PROVE  i - Len(tasks) + 1 \in 2 .. Len(agenda) /\ new[i] = agenda[i - Len(tasks) + 1]
    <2>1. i - Len(tasks) + 1 \in 2 .. Len(agenda) /\ Len(tasks) + (i - Len(tasks) + 1) - 1 = i
      BY <1>1, <1>2, <1>5
    <2>2. new[Len(tasks) + (i - Len(tasks) + 1) - 1] = agenda[i - Len(tasks) + 1]
      BY <2>1, <1>4
    <2> QED
      BY <2>1, <2>2
  <1>7. agenda' = new
    BY DEF new, rest
  <1> QED
    BY <1>2, <1>3, <1>4, <1>5, <1>6, <1>7

LEMMA TypedContinues ==
  ASSUME AgendaTyped, agenda # <<>>, NEW tasks, IsSequence(tasks), agenda' = tasks \o Tail(agenda),
         \A k \in DOMAIN tasks : TaskTyped(tasks[k])
  PROVE  AgendaTyped'
  <1>1. /\ IsSequence(agenda')
        /\ Len(tasks) \in Nat /\ DOMAIN tasks = 1 .. Len(tasks)
        /\ Len(agenda') = Len(tasks) + Len(agenda) - 1
        /\ DOMAIN agenda' = 1 .. Len(tasks) + Len(agenda) - 1
        /\ \A i \in 1 .. Len(tasks) : agenda'[i] = tasks[i]
        /\ \A i \in Len(tasks) + 1 .. Len(agenda') :
             i - Len(tasks) + 1 \in 2 .. Len(agenda) /\ agenda'[i] = agenda[i - Len(tasks) + 1]
    BY AgendaContinues
  <1>2. Len(agenda) \in Nat \ {0} /\ DOMAIN agenda = 1 .. Len(agenda)
    BY HeadFacts
  <1>3. ASSUME NEW i \in DOMAIN agenda' PROVE TaskTyped(agenda'[i])
    <2>1. CASE i \in 1 .. Len(tasks)
      BY <2>1, <1>1
    <2>2. CASE i \in Len(tasks) + 1 .. Len(agenda')
      <3>1. PICK j \in 2 .. Len(agenda) : agenda'[i] = agenda[j]
        BY <2>2, <1>1
      <3>2. j \in DOMAIN agenda
        BY <1>2
      <3> QED
        BY <3>1, <3>2 DEF AgendaTyped
    <2> QED
      BY <2>1, <2>2, <1>1, <1>2
  <1>4. \A i \in DOMAIN agenda' : TaskTyped(agenda'[i])
    BY <1>3
  <1> QED
    BY <1>1, <1>4 DEF AgendaTyped, TaskTyped

\* A step that leaves the current class alone and neither leaves a class nor
\* brings a new function or class.
LEMMA PlacedStays ==
  ASSUME AgendaTyped, agenda # <<>>, Placed, agenda[1][1] # "leave",
         NEW tasks, IsSequence(tasks), agenda' = tasks \o Tail(agenda),
         \A k \in DOMAIN tasks : tasks[k][1] \notin {"leave", "fill", "generate", "declare"},
         cur' = cur, reported' = reported
  PROVE  Placed'
  <1>1. /\ Len(tasks) \in Nat /\ DOMAIN tasks = 1 .. Len(tasks)
        /\ Len(agenda') = Len(tasks) + Len(agenda) - 1
        /\ DOMAIN agenda' = 1 .. Len(tasks) + Len(agenda) - 1
        /\ \A i \in 1 .. Len(tasks) : agenda'[i] = tasks[i]
        /\ \A i \in 2 .. Len(agenda) : agenda'[Len(tasks) + i - 1] = agenda[i]
        /\ \A i \in Len(tasks) + 1 .. Len(agenda') :
             i - Len(tasks) + 1 \in 2 .. Len(agenda) /\ agenda'[i] = agenda[i - Len(tasks) + 1]
    BY AgendaContinues
  <1>2. Len(agenda) \in Nat \ {0} /\ DOMAIN agenda = 1 .. Len(agenda)
    BY HeadFacts
  <1>3. \A k \in 1 .. Len(tasks) : Top(agenda'[k]) /\ Member(agenda'[k], cur)
    BY <1>1 DEF Top, Member
  <1>4. CASE InUnit
    <2>1. ASSUME NEW i \in DOMAIN agenda' PROVE Top(agenda'[i])
      <3>1. CASE i \in 1 .. Len(tasks)
        BY <3>1, <1>3
      <3>2. CASE i \in Len(tasks) + 1 .. Len(agenda')
        BY <3>2, <1>1, <1>2, <1>4 DEF InUnit
      <3> QED
        BY <3>1, <3>2, <1>1, <1>2
    <2> QED
      BY <2>1, <1>4 DEF InUnit, Placed, Top
  <1>5. CASE \E k \in DOMAIN agenda : InClassUntil(k)
    <2>1. PICK k \in DOMAIN agenda : InClassUntil(k)
      BY <1>5
    <2>2. k \in 2 .. Len(agenda)
      <3>1. agenda[k] = <<"leave", None>>
        BY <2>1 DEF InClassUntil
      <3>2. k # 1
        BY <3>1
      <3> QED
        BY <3>2, <1>2
    <2>3. PICK l : l = Len(tasks) + k - 1
      OBVIOUS
    <2>4. l \in DOMAIN agenda' /\ agenda'[l] = <<"leave", None>>
      <3>1. agenda[k] = <<"leave", None>>
        BY <2>1 DEF InClassUntil
      <3>2. agenda'[l] = agenda[k]
        BY <2>2, <2>3, <1>1
      <3>3. l \in DOMAIN agenda'
        BY <2>2, <2>3, <1>1, <1>2
      <3> QED
        BY <3>1, <3>2, <3>3
    <2>5. ASSUME NEW i \in 1 .. l - 1 PROVE Member(agenda'[i], cur)
      <3>1. CASE i \in 1 .. Len(tasks)
        BY <3>1, <1>3
      <3>2. CASE i \notin 1 .. Len(tasks)
        <4>1. i \in Len(tasks) + 1 .. Len(agenda') /\ i - Len(tasks) + 1 \in 1 .. k - 1
          BY <3>2, <2>2, <2>3, <1>1, <1>2
        <4>2. agenda'[i] = agenda[i - Len(tasks) + 1] /\ Member(agenda[i - Len(tasks) + 1], cur)
          BY <4>1, <1>1, <2>1 DEF InClassUntil
        <4> QED
          BY <4>2
      <3> QED
        BY <3>1, <3>2
    <2>6. ASSUME NEW i \in l + 1 .. Len(agenda') PROVE Top(agenda'[i])
      <3>1. i \in Len(tasks) + 1 .. Len(agenda') /\ i - Len(tasks) + 1 \in k + 1 .. Len(agenda)
        BY <2>2, <2>3, <1>1, <1>2
      <3> QED
        BY <3>1, <1>1, <2>1 DEF InClassUntil
    <2>7. InClassUntil(l)'
      <3>1. cur' = cur
        OBVIOUS
      <3> QED
        BY <3>1, <2>4, <2>5, <2>6 DEF InClassUntil, Top
    <2> QED
      BY <2>4, <2>7 DEF Placed
  <1> QED
    BY <1>4, <1>5 DEF Placed

LEMMA LastOrBefore == \A n \in Nat : \A i \in 1 .. n : i = n \/ i \in 1 .. n - 1
  OBVIOUS

LEMMA PhaseOf ==
  ASSUME IInv, agenda # <<>>
  PROVE  /\ agenda[1][1] \in {"declare", "layout"} => Declaring /\ Len(agenda) > 1
         /\ agenda[1][1] = "fill" => Declaring /\ Len(agenda) = 1
         /\ agenda[1][1] = "leave" => Generating \/ (Declaring /\ Len(agenda) > 1)
         /\ agenda[1][1] = "method" => \E k \in 1 .. Len(agenda) : FillingUntil(k)
         /\ agenda[1][1] \in {"generate"} \cup Inner => Generating
  <1>1. Len(agenda) \in Nat \ {0} /\ DOMAIN agenda = 1 .. Len(agenda)
    BY HeadFacts DEF IInv
  <1>2. CASE Declaring
    <2>1. agenda[1][1] \in {"declare", "layout", "leave"} => Len(agenda) > 1
      BY <1>1, <1>2 DEF Declaring
    <2>2. agenda[1][1] = "fill" => Len(agenda) = 1
      BY <1>1, <1>2 DEF Declaring
    <2>3. agenda[1][1] \in {"declare", "layout", "leave", "fill"}
      BY <1>1, <1>2 DEF Declaring
    <2> QED
      BY <1>2, <2>1, <2>2, <2>3 DEF Inner, Uses
  <1>3. CASE Filling
    <2>1. PICK k \in 0 .. Len(agenda) : FillingUntil(k)
      BY <1>3 DEF Filling
    <2>2. CASE k = 0
      <3>1. Generating
        BY <2>1, <2>2, <1>1 DEF FillingUntil, Generating
      <3>2. agenda[1][1] = "generate"
        BY <2>1, <2>2, <1>1 DEF FillingUntil
      <3> QED
        BY <3>1, <3>2
    <2>3. CASE k # 0
      <3>1. agenda[1][1] = "method" /\ k \in 1 .. Len(agenda)
        BY <2>1, <2>3, <1>1 DEF FillingUntil
      <3> QED
        BY <2>1, <3>1 DEF Inner, Uses
    <2> QED
      BY <2>2, <2>3
  <1>4. CASE Generating
    <2>1. agenda[1][1] \in {"generate", "leave"} \cup Inner
      BY <1>1, <1>4 DEF Generating
    <2> QED
      BY <1>4, <2>1 DEF Inner, Uses
  <1> QED
    BY <1>2, <1>3, <1>4 DEF IInv, Phases

\* A step of pass 1, which neither gives a method its function nor makes code.
LEMMA DeclaringStep ==
  ASSUME IInv, agenda # <<>>, Declaring, Len(agenda) > 1,
         NEW tasks, IsSequence(tasks), agenda' = tasks \o Tail(agenda),
         \A k \in DOMAIN tasks : TaskTyped(tasks[k]) /\ tasks[k][1] \in {"declare", "layout", "leave"},
         UNCHANGED <<pass, genVars>>, ClassesTyped',
         \A c \in DOMAIN classes' : \A m \in DOMAIN classes'[c].methods : classes'[c].methods[m] = None,
         Placed'
  PROVE  IInv'
  <1>0. AgendaTyped /\ Len(agenda) \in Nat \ {0}
    BY HeadFacts DEF IInv
  <1>1. AgendaTyped'
    BY <1>0, TypedContinues
  <1>2. /\ IsSequence(agenda')
        /\ Len(tasks) \in Nat /\ DOMAIN tasks = 1 .. Len(tasks)
        /\ Len(agenda') = Len(tasks) + Len(agenda) - 1
        /\ DOMAIN agenda' = 1 .. Len(tasks) + Len(agenda) - 1
        /\ \A i \in 1 .. Len(tasks) : agenda'[i] = tasks[i]
        /\ \A i \in 2 .. Len(agenda) : agenda'[Len(tasks) + i - 1] = agenda[i]
        /\ \A i \in Len(tasks) + 1 .. Len(agenda') :
             i - Len(tasks) + 1 \in 2 .. Len(agenda) /\ agenda'[i] = agenda[i - Len(tasks) + 1]
    BY <1>0, AgendaContinues
  <1>3. Quiet'
    BY DEF Declaring, Quiet, genVars
  <1>4. agenda'[Len(agenda')][1] = "fill"
    <2>1. Len(agenda) \in 2 .. Len(agenda)
      BY <1>0
    <2>2. agenda'[Len(agenda')] = agenda[Len(agenda)]
      BY <2>1, <1>2
    <2> QED
      BY <2>2 DEF Declaring
  <1>5. ASSUME NEW i \in 1 .. Len(agenda') - 1 PROVE agenda'[i][1] \in {"declare", "layout", "leave"}
    <2>1. CASE i \in 1 .. Len(tasks)
      BY <2>1, <1>2
    <2>2. CASE i \notin 1 .. Len(tasks)
      <3>1. i \in Len(tasks) + 1 .. Len(agenda') /\ i - Len(tasks) + 1 \in 1 .. Len(agenda) - 1
        BY <2>2, <1>0, <1>2
      <3> QED
        BY <3>1, <1>2 DEF Declaring
    <2> QED
      BY <2>1, <2>2
  <1>6. pass' = 1 /\ agenda' # <<>>
    <2>1. pass' = 1
      BY DEF Declaring
    <2>2. Len(agenda') # 0
      BY <1>0, <1>2
    <2> QED
      BY <2>1, <2>2
  <1>7. Declaring'
    BY <1>3, <1>4, <1>5, <1>6 DEF Declaring
  <1>8. MethodsFilled'
    BY <1>6 DEF MethodsFilled, Unfilled
  <1>9. ObjectsKnown'
    <2>1. Known(temporary)' /\ DOMAIN vars' = {}
      BY <1>3, EmptyFacts DEF Quiet, Known, Value
    <2>2. ASSUME NEW i \in DOMAIN agenda' PROVE agenda'[i][1] # "construct"
      <3>1. DOMAIN agenda' = 1 .. Len(agenda') /\ Len(agenda') \in Nat
        BY <1>2, IsSequenceFacts
      <3>2. PICK n \in Nat : n = Len(agenda') /\ i \in 1 .. n
        BY <3>1
      <3>3. i = n \/ i \in 1 .. n - 1
        BY <3>2, LastOrBefore
      <3> QED
        BY <3>2, <3>3, <1>4, <1>5
    <2> QED
      BY <2>1, <2>2 DEF ObjectsKnown
  <1>10. DispatchesSound' /\ BodiesInPlace'
    BY <1>3 DEF Quiet, DispatchesSound, BodiesInPlace
  <1> QED
    BY <1>1, <1>7, <1>8, <1>9, <1>10 DEF IInv, Phases

\* What code generation may do to the classes: record an index.
Kept ==
  /\ DOMAIN classes' = DOMAIN classes
  /\ \A c \in DOMAIN classes :
       /\ DOMAIN classes'[c] = DOMAIN classes[c]
       /\ classes'[c].methods = classes[c].methods
       /\ classes'[c].slots = classes[c].slots
       /\ classes'[c].table = classes[c].table

LEMMA KeptFacts ==
  ASSUME IInv, Generating, Kept, pass' = pass, emitted \subseteq emitted'
  PROVE  /\ ClassesTyped' /\ MethodsFilled'
         /\ \A c \in DOMAIN classes : \A m \in DOMAIN classes[c].methods : Filled(c, m)
         /\ \A c : Equipped(c) => Equipped(c)'
         /\ \A v : Known(v) => Known(v)'
         /\ \A i : SoundDispatch(i) => SoundDispatch(i)'
  <1>1. pass = 2
    BY DEF Generating
  <1>2. ASSUME NEW c \in DOMAIN classes, NEW m \in DOMAIN classes[c].methods PROVE Filled(c, m)
    <2>1. CASE Unfilled(c, m)
      <3>1. PICK i \in DOMAIN agenda : agenda[i] = <<"method", c, m>>
        BY <2>1, <1>1 DEF Unfilled
      <3>2. agenda[i][1] = "method" /\ agenda[i][1] \in {"generate", "leave"} \cup Inner
        BY <3>1 DEF Generating
      <3> QED
        BY <3>2 DEF Inner, Uses
    <2> QED
      BY <2>1 DEF IInv, MethodsFilled
  <1>3. ClassesTyped'
    BY DEF IInv, ClassesTyped, Kept
  <1>4. MethodsFilled'
    <2>1. ASSUME NEW c \in DOMAIN classes', NEW m \in DOMAIN classes'[c].methods PROVE Filled(c, m)'
      <3>1. c \in DOMAIN classes /\ m \in DOMAIN classes[c].methods
        BY DEF Kept
      <3>2. Filled(c, m)
        BY <3>1, <1>2
      <3> QED
        BY <3>1, <3>2, <1>1 DEF Filled, Kept, Slotted
    <2> QED
      BY <2>1 DEF MethodsFilled
  <1>5. ASSUME NEW c, Equipped(c) PROVE Equipped(c)'
    BY <1>5 DEF Equipped, Kept
  <1>6. ASSUME NEW v, Known(v) PROVE Known(v)'
    BY <1>5, <1>6 DEF Known
  <1>7. ASSUME NEW i, SoundDispatch(i) PROVE SoundDispatch(i)'
    BY <1>7 DEF SoundDispatch, Kept
  <1> QED
    BY <1>2, <1>3, <1>4, <1>5, <1>6, <1>7

\* A step of code generation, apart from where the current class comes from.
LEMMA GeneratesOn ==
  ASSUME IInv, agenda # <<>>, Generating,
         NEW tasks, IsSequence(tasks), agenda' = tasks \o Tail(agenda),
         \A k \in DOMAIN tasks :
           /\ TaskTyped(tasks[k]) /\ tasks[k][1] \in {"generate", "leave"} \cup Inner
           /\ tasks[k][1] = "construct" => Equipped(tasks[k][2])',
         pass' = pass, Placed',
         Kept, emitted \subseteq emitted',
         Known(temporary)', \A name \in DOMAIN vars' : Known(vars[name])',
         \A i \in emitted' : i \in emitted \/ SoundDispatch(i)',
         BodiesInPlace'
  PROVE  IInv'
  <1>0. AgendaTyped /\ Placed /\ Len(agenda) \in Nat \ {0} /\ DOMAIN agenda = 1 .. Len(agenda)
    BY HeadFacts DEF IInv
  <1>1. AgendaTyped'
    BY <1>0, TypedContinues
  <1>3. /\ Len(tasks) \in Nat /\ DOMAIN tasks = 1 .. Len(tasks)
        /\ Len(agenda') = Len(tasks) + Len(agenda) - 1
        /\ DOMAIN agenda' = 1 .. Len(tasks) + Len(agenda) - 1
        /\ \A i \in 1 .. Len(tasks) : agenda'[i] = tasks[i]
        /\ \A i \in Len(tasks) + 1 .. Len(agenda') :
             i - Len(tasks) + 1 \in 2 .. Len(agenda) /\ agenda'[i] = agenda[i - Len(tasks) + 1]
    BY <1>0, AgendaContinues
  <1>4. /\ ClassesTyped' /\ MethodsFilled'
        /\ \A c : Equipped(c) => Equipped(c)'
        /\ \A i : SoundDispatch(i) => SoundDispatch(i)'
    BY KeptFacts
  <1>5. ASSUME NEW i \in DOMAIN agenda'
        PROVE  /\ agenda'[i][1] \in {"generate", "leave"} \cup Inner
               /\ agenda'[i][1] = "construct" => Equipped(agenda[i][2])'
    <2>1. CASE i \in 1 .. Len(tasks)
      <3>1. PICK k \in DOMAIN tasks : agenda'[i] = tasks[k]
        BY <2>1, <1>3
      <3>2. tasks[k][1] \in {"generate", "leave"} \cup Inner /\ (tasks[k][1] = "construct" => Equipped(tasks[k][2])')
        OBVIOUS
      <3> QED
        BY <3>1, <3>2 DEF Equipped
    <2>2. CASE i \notin 1 .. Len(tasks)
      <3>1. i \in Len(tasks) + 1 .. Len(agenda')
        BY <2>2, <1>0, <1>3
      <3>2. PICK j \in 1 .. Len(agenda) : agenda'[i] = agenda[j]
        BY <3>1, <1>0, <1>3
      <3>3. agenda[j][1] \in {"generate", "leave"} \cup Inner
        BY <1>0 DEF Generating
      <3>4. agenda[j][1] = "construct" => Equipped(agenda[j][2])
        BY <1>0 DEF IInv, ObjectsKnown
      <3>5. PICK task : task = agenda[j]
        OBVIOUS
      <3>6. task[1] = "construct" => Equipped(task[2])'
        BY <3>4, <3>5, <1>4
      <3> QED
        BY <3>2, <3>3, <3>5, <3>6 DEF Equipped
    <2> QED
      BY <2>1, <2>2
  <1>6. Generating'
    BY <1>5 DEF Generating
  <1>7. ObjectsKnown'
    BY <1>5 DEF ObjectsKnown
  <1>8. DispatchesSound'
    BY <1>4 DEF DispatchesSound, IInv
  <1> QED
    BY <1>1, <1>4, <1>6, <1>7, <1>8 DEF IInv, Phases

\* A step of code generation inside a function.
LEMMA GeneratingStep ==
  ASSUME IInv, agenda # <<>>, Generating, agenda[1][1] # "leave",
         NEW tasks, IsSequence(tasks), agenda' = tasks \o Tail(agenda),
         \A k \in DOMAIN tasks :
           tasks[k][1] \in Inner /\ (tasks[k][1] = "construct" => Equipped(tasks[k][2])'),
         pass' = pass, cur' = cur, reported' = reported,
         Kept, emitted \subseteq emitted',
         Known(temporary)', \A name \in DOMAIN vars' : Known(vars[name])',
         \A i \in emitted' : i \in emitted \/ SoundDispatch(i)',
         BodiesInPlace'
  PROVE  IInv'
  <1>0. AgendaTyped /\ Placed
    BY DEF IInv
  <1>1. \A k \in DOMAIN tasks : TaskTyped(tasks[k]) /\ tasks[k][1] \in {"generate", "leave"} \cup Inner
    BY DEF TaskTyped, Inner, Uses
  <1>2. Placed'
    <2>1. \A k \in DOMAIN tasks : tasks[k][1] \notin {"leave", "fill", "generate", "declare"}
      BY DEF Inner, Uses
    <2> QED
      BY <2>1, <1>0, PlacedStays
  <1> QED
    BY <1>1, <1>2, GeneratesOn

\* An exception that nothing catches changes nothing else.
LEMMA GivesUp ==
  ASSUME IInv, NEW how, GiveUp(how), UNCHANGED <<registryVars, cur, genVars>>
  PROVE  IInv'
  <1>1. UNCHANGED <<agenda, reported, pass, classes, cur, vars, temporary, bodies, emitted>>
    BY DEF GiveUp, registryVars, genVars
  <1> QED
    BY <1>1 DEF IInv, AgendaTyped, Phases, Declaring, Filling, FillingUntil, Generating, Quiet, ClassesTyped,
                MethodsFilled, Unfilled, Filled, ObjectsKnown, Known, Equipped, DispatchesSound, SoundDispatch,
                Placed, InUnit, InClassUntil, BodiesInPlace

\* A CompilationError ends code generation.
LEMMA ReportStep ==
  ASSUME IInv, Generating, Report, UNCHANGED <<registryVars, cur, genVars>>
  PROVE  IInv'
  <1>1. /\ agenda' = <<>> /\ reported' = TRUE /\ pass' = 2
        /\ UNCHANGED <<classes, cur, vars, temporary, bodies, emitted>>
    BY DEF Report, Generating, registryVars, genVars
  <1>2. DOMAIN agenda' = {} /\ IsSequence(agenda')
    BY <1>1, EmptyFacts
  <1>3. AgendaTyped' /\ Generating' /\ Placed' /\ BodiesInPlace'
    BY <1>1, <1>2 DEF AgendaTyped, Generating, Placed, BodiesInPlace
  <1>4. /\ ClassesTyped' /\ MethodsFilled'
        /\ \A v : Known(v) => Known(v)'
        /\ \A i : SoundDispatch(i) => SoundDispatch(i)'
    <2>1. Kept /\ pass' = pass /\ emitted \subseteq emitted'
      BY <1>1 DEF Kept, Generating
    <2> QED
      BY <2>1, KeptFacts
  <1>5. ObjectsKnown'
    <2>1. PICK v : v = temporary
      OBVIOUS
    <2>2. Known(temporary)'
      BY <2>1, <1>1, <1>4 DEF IInv, ObjectsKnown
    <2>3. \A name \in DOMAIN vars' : Known(vars[name])'
      BY <1>1 DEF IInv, ObjectsKnown, Known, Equipped
    <2> QED
      BY <2>2, <2>3, <1>2 DEF ObjectsKnown
  <1>6. DispatchesSound'
    BY <1>1, <1>4 DEF IInv, DispatchesSound
  <1> QED
    BY <1>3, <1>4, <1>5, <1>6 DEF IInv, Phases

---------------------------------------------------------------------------
(* Entering and leaving a class *)

LEMMA WithLast ==
  ASSUME NEW s, NEW e, IsSequence(s)
  PROVE  /\ IsSequence(s \o <<e>>) /\ Len(s \o <<e>>) = Len(s) + 1 /\ Len(s) \in Nat
         /\ \A k \in 1 .. Len(s) : (s \o <<e>>)[k] = s[k]
         /\ (s \o <<e>>)[Len(s) + 1] = e
  <1> DEFINE t == <<e>>
  <1>1. IsSequence(t) /\ Len(t) = 1 /\ t[1] = e
    BY SingleFacts
  <1> HIDE DEF t
  <1>0. Len(s) \in Nat
    BY IsSequenceFacts
  <1>2. /\ IsSequence(s \o t) /\ Len(s \o t) = Len(s) + Len(t)
        /\ \A k \in 1 .. Len(s) : (s \o t)[k] = s[k]
        /\ \A k \in 1 .. Len(t) : (s \o t)[Len(s) + k] = t[k]
    BY <1>1, ConcatFacts
  <1>3. (s \o t)[Len(s) + 1] = e
    BY <1>1, <1>2
  <1> QED
    BY <1>0, <1>1, <1>2, <1>3 DEF t

\* A class is entered from the unit, and is the current one until it is left.
LEMMA Enters ==
  ASSUME AgendaTyped, agenda # <<>>, Placed, agenda[1][1] # "leave", ~ Member(agenda[1], cur),
         NEW s, IsSequence(s), NEW class, \A k \in DOMAIN s : Member(s[k], class),
         agenda' = (s \o <<<<"leave", cur>>>>) \o Tail(agenda), cur' = class, reported' = reported
  PROVE  Placed'
  <1>0. Len(agenda) \in Nat \ {0} /\ DOMAIN agenda = 1 .. Len(agenda)
    BY HeadFacts
  <1>1. CASE \E k \in DOMAIN agenda : InClassUntil(k)
    <2>1. PICK k \in DOMAIN agenda : InClassUntil(k)
      BY <1>1
    <2>2. agenda[k] = <<"leave", None>>
      BY <2>1 DEF InClassUntil
    <2>3. k # 1
      BY <2>2
    <2>4. 1 \in 1 .. k - 1
      BY <2>3, <1>0
    <2> QED
      BY <2>1, <2>4 DEF InClassUntil
  <1>2. CASE InUnit
    <2>1. cur = None
      BY <1>2 DEF InUnit
    <2>2. PICK tasks : tasks = s \o <<<<"leave", cur>>>>
      OBVIOUS
    <2>3. PICK last : last = <<"leave", cur>>
      OBVIOUS
    <2>4. /\ IsSequence(tasks) /\ Len(tasks) = Len(s) + 1 /\ Len(s) \in Nat
          /\ \A k \in 1 .. Len(s) : tasks[k] = s[k]
          /\ tasks[Len(s) + 1] = last
      BY <2>2, <2>3, WithLast
    <2>5. /\ Len(agenda') = Len(tasks) + Len(agenda) - 1
          /\ DOMAIN agenda' = 1 .. Len(tasks) + Len(agenda) - 1
          /\ \A i \in 1 .. Len(tasks) : agenda'[i] = tasks[i]
          /\ \A i \in Len(tasks) + 1 .. Len(agenda') :
               i - Len(tasks) + 1 \in 2 .. Len(agenda) /\ agenda'[i] = agenda[i - Len(tasks) + 1]
      <3>1. agenda' = tasks \o Tail(agenda)
        BY <2>2
      <3> QED
        BY <3>1, <2>4, AgendaContinues
    <2>6. PICK k : k = Len(s) + 1
      OBVIOUS
    <2>7. k \in DOMAIN agenda' /\ agenda'[k] = <<"leave", None>>
      <3>1. k \in 1 .. Len(tasks) /\ k \in DOMAIN agenda'
        BY <2>4, <2>5, <2>6, <1>0
      <3> QED
        BY <3>1, <2>1, <2>3, <2>4, <2>5, <2>6
    <2>8. ASSUME NEW i \in 1 .. k - 1 PROVE Member(agenda'[i], class)
      <3>1. i \in 1 .. Len(s) /\ i \in 1 .. Len(tasks)
        BY <2>4, <2>6
      <3>2. agenda'[i] = s[i] /\ i \in DOMAIN s
        BY <3>1, <2>4, <2>5, IsSequenceFacts
      <3> QED
        BY <3>2
    <2>9. ASSUME NEW i \in k + 1 .. Len(agenda') PROVE Top(agenda'[i])
      <3>1. i \in Len(tasks) + 1 .. Len(agenda')
        BY <2>4, <2>5, <2>6, <1>0
      <3>2. i - Len(tasks) + 1 \in DOMAIN agenda /\ agenda'[i] = agenda[i - Len(tasks) + 1]
        BY <3>1, <2>4, <2>5, <1>0
      <3> QED
        BY <3>2, <1>2 DEF InUnit
    <2>10. InClassUntil(k)'
      <3>1. cur' = class
        OBVIOUS
      <3> QED
        BY <3>1, <2>7, <2>8, <2>9 DEF InClassUntil, Top
    <2> QED
      BY <2>7, <2>10 DEF Placed
  <1> QED
    BY <1>1, <1>2 DEF Placed

LEMMA Leaves ==
  ASSUME AgendaTyped, agenda # <<>>, Placed, agenda[1][1] = "leave",
         agenda' = << >> \o Tail(agenda), cur' = agenda[1][2], reported' = reported
  PROVE  Placed'
  <1>0. Len(agenda) \in Nat \ {0} /\ DOMAIN agenda = 1 .. Len(agenda)
    BY HeadFacts
  <1>1. CASE InUnit
    BY <1>0, <1>1 DEF InUnit, Top
  <1>2. CASE \E k \in DOMAIN agenda : InClassUntil(k)
    <2>1. PICK k \in DOMAIN agenda : InClassUntil(k)
      BY <1>2
    <2>2. k = 1
      <3> SUFFICES ASSUME k # 1 PROVE FALSE
        OBVIOUS
      <3>1. 1 \in 1 .. k - 1
        BY <1>0
      <3>2. Member(agenda[1], cur)
        BY <2>1, <3>1 DEF InClassUntil
      <3> QED
        BY <3>2 DEF Member
    <2>3. agenda[1] = <<"leave", None>> /\ \A i \in 2 .. Len(agenda) : Top(agenda[i])
      BY <2>1, <2>2, <1>0 DEF InClassUntil
    <2> DEFINE none == << >>
    <2>4. IsSequence(none) /\ Len(none) = 0
      BY EmptyFacts
    <2>5. agenda' = none \o Tail(agenda)
      OBVIOUS
    <2> HIDE DEF none
    <2>6. /\ DOMAIN agenda' = 1 .. Len(none) + Len(agenda) - 1
          /\ Len(agenda') = Len(none) + Len(agenda) - 1
          /\ \A i \in Len(none) + 1 .. Len(agenda') :
               i - Len(none) + 1 \in 2 .. Len(agenda) /\ agenda'[i] = agenda[i - Len(none) + 1]
      BY <2>4, <2>5, AgendaContinues
    <2>7. ASSUME NEW i \in DOMAIN agenda' PROVE Top(agenda'[i])
      <3>1. i \in Len(none) + 1 .. Len(agenda')
        BY <2>4, <2>6, <1>0
      <3> QED
        BY <3>1, <2>3, <2>6
    <2>8. cur' = None
      BY <2>3
    <2> QED
      BY <2>7, <2>8 DEF Placed, InUnit, Top
  <1> QED
    BY <1>1, <1>2 DEF Placed

---------------------------------------------------------------------------
(* Pass 1 *)

LEMMA NoneFilled ==
  ASSUME IInv, Declaring
  PROVE  \A c \in DOMAIN classes : \A m \in DOMAIN classes[c].methods : classes[c].methods[m] = None
  BY DEF IInv, Declaring, MethodsFilled, Unfilled, Filled

\* A step of pass 1 that is over with its task, and keeps the current class.
LEMMA DeclaredStep ==
  ASSUME IInv, agenda # <<>>, agenda[1][1] \in {"declare", "layout"}, Continue(<< >>),
         UNCHANGED <<cur, genVars>>, ClassesTyped',
         \A c \in DOMAIN classes' : \A m \in DOMAIN classes'[c].methods : classes'[c].methods[m] = None
  PROVE  IInv'
  <1>1. Declaring /\ Len(agenda) > 1 /\ AgendaTyped /\ Placed
    BY PhaseOf DEF IInv
  <1> DEFINE none == << >>
  <1>2. agenda' = none \o Tail(agenda) /\ pass' = pass /\ reported' = reported
    BY DEF Continue
  <1>3. IsSequence(none) /\ DOMAIN none = {}
    BY EmptyFacts
  <1> HIDE DEF none
  <1>4. Placed'
    <2>1. agenda[1][1] # "leave" /\ cur' = cur
      OBVIOUS
    <2> QED
      BY <2>1, <1>1, <1>2, <1>3, PlacedStays
  <1>5. UNCHANGED <<pass, genVars>>
    BY <1>2
  <1> QED
    BY <1>1, <1>2, <1>3, <1>4, <1>5, DeclaringStep

LEMMA ReportEarly ==
  ASSUME IInv, Declaring, Report, UNCHANGED <<registryVars, cur, genVars>>
  PROVE  IInv'
  <1>1. /\ agenda' = <<Last(agenda)>> /\ reported' = TRUE /\ pass' = 1
        /\ UNCHANGED <<classes, cur, vars, temporary, bodies, emitted>>
    BY DEF Report, Declaring, registryVars, genVars
  <1>2. AgendaTyped /\ agenda # <<>> /\ Len(agenda) \in DOMAIN agenda
    <2>1. AgendaTyped /\ agenda # <<>>
      BY DEF Declaring, IInv
    <2>2. Len(agenda) \in Nat \ {0} /\ DOMAIN agenda = 1 .. Len(agenda)
      BY <2>1, HeadFacts
    <2> QED
      BY <2>1, <2>2
  <1>3. PICK last : last = agenda[Len(agenda)]
    OBVIOUS
  <1>4. last[1] = "fill" /\ TaskTyped(last)
    BY <1>2, <1>3 DEF Declaring, AgendaTyped
  <1>5. IsSequence(agenda') /\ Len(agenda') = 1 /\ DOMAIN agenda' = {1} /\ agenda'[1] = last
    BY <1>1, <1>3, SingleFacts DEF Last
  <1>6. AgendaTyped'
    BY <1>4, <1>5 DEF AgendaTyped, TaskTyped
  <1>7. Quiet'
    BY <1>1 DEF Declaring, Quiet
  <1>8. Declaring'
    <2>1. agenda' # <<>>
      BY <1>5
    <2>2. \A i \in 1 .. Len(agenda') - 1 : FALSE
      BY <1>5
    <2> QED
      BY <2>1, <2>2, <1>1, <1>4, <1>5, <1>7 DEF Declaring
  <1>9. ClassesTyped' /\ MethodsFilled'
    BY <1>1, NoneFilled DEF IInv, ClassesTyped, MethodsFilled, Unfilled
  <1>10. ObjectsKnown'
    BY <1>4, <1>5, <1>7, EmptyFacts DEF Quiet, ObjectsKnown, Known, Value
  <1>11. DispatchesSound' /\ BodiesInPlace' /\ Placed'
    BY <1>1, <1>7 DEF Quiet, DispatchesSound, BodiesInPlace, Placed
  <1> QED
    BY <1>6, <1>8, <1>9, <1>10, <1>11 DEF IInv, Phases

LEMMA RegisterClassStep == IInv /\ RegisterClass => IInv'
  <1> SUFFICES ASSUME IInv, RegisterClass PROVE IInv'
    OBVIOUS
  <1>1. AgendaTyped /\ Placed /\ agenda # <<>>
    BY DEF RegisterClass, Doing, IInv
  <1>2. agenda[1][1] = "declare" /\ agenda[1][2].kind = "class" /\ IsClass(agenda[1][2])
    BY <1>1, HeadFacts DEF RegisterClass, Doing, TaskTyped, IsFunction
  <1>3. Declaring /\ Len(agenda) > 1
    BY <1>1, <1>2, PhaseOf
  <1>4. PICK item : item = agenda[1][2]
    OBVIOUS
  <1>5. PICK members : members = Each("declare", item.members)
    OBVIOUS
  <1>6. PICK builders : builders = Each("declare", item.builders)
    OBVIOUS
  <1>7. IsSequence(item.members) /\ IsSequence(item.builders)
    BY <1>2, <1>4 DEF IsClass, IsSequence
  <1>8. /\ IsSequence(members)
        /\ \A k \in DOMAIN members : members[k][1] = "declare"
             /\ (members[k][2].kind = "attribute" \/ IsFunction(members[k][2]))
    <2>1. /\ IsSequence(members) /\ Len(members) = Len(item.members)
          /\ \A k \in 1 .. Len(item.members) : members[k] = <<"declare", item.members[k]>>
      BY <1>5, <1>7, EachFacts
    <2>2. DOMAIN members = 1 .. Len(item.members) /\ DOMAIN item.members = 1 .. Len(item.members)
      BY <2>1, <1>7, IsSequenceFacts
    <2> QED
      BY <2>1, <2>2, <1>2, <1>4 DEF IsClass
  <1>9. /\ IsSequence(builders)
        /\ \A k \in DOMAIN builders : builders[k][1] = "declare" /\ IsFunction(builders[k][2])
    <2>1. /\ IsSequence(builders) /\ Len(builders) = Len(item.builders)
          /\ \A k \in 1 .. Len(item.builders) : builders[k] = <<"declare", item.builders[k]>>
      BY <1>6, <1>7, EachFacts
    <2>2. DOMAIN builders = 1 .. Len(item.builders) /\ DOMAIN item.builders = 1 .. Len(item.builders)
      BY <2>1, <1>7, IsSequenceFacts
    <2> QED
      BY <2>1, <2>2, <1>2, <1>4 DEF IsClass
  <1>10. PICK inside : inside = members \o builders
    OBVIOUS
  <1>11. /\ IsSequence(inside)
         /\ \A k \in DOMAIN inside : inside[k][1] = "declare"
              /\ (inside[k][2].kind = "attribute" \/ IsFunction(inside[k][2]))
    <2>1. IsSequence(inside) /\ ToSet(inside) = ToSet(members) \cup ToSet(builders)
      BY <1>8, <1>9, <1>10, ConcatenatedSet
    <2>2. ASSUME NEW k \in DOMAIN inside
          PROVE  (\E j \in DOMAIN members : inside[k] = members[j]) \/ \E j \in DOMAIN builders : inside[k] = builders[j]
      BY <2>1 DEF ToSet
    <2> QED
      BY <2>1, <2>2, <1>8, <1>9
  <1>12. PICK tasks : tasks = inside \o <<<<"leave", cur>>>>
    OBVIOUS
  <1>13. agenda' = tasks \o Tail(agenda) /\ cur' = item.name /\ reported' = reported /\ pass' = pass
         /\ UNCHANGED genVars
         /\ classes' = With(classes, item.name, NewClass(item.name \in DOMAIN classes))
    BY <1>1, <1>4, <1>5, <1>6, <1>10, <1>12, HeadFacts DEF RegisterClass, Continue
  <1>14. Placed'
    <2>1. ~ Member(agenda[1], cur) /\ agenda[1][1] # "leave"
      BY <1>2 DEF Member
    <2>2. \A k \in DOMAIN inside : Member(inside[k], item.name)
      BY <1>11 DEF Member, IsFunction
    <2>3. agenda' = (inside \o <<<<"leave", cur>>>>) \o Tail(agenda)
      BY <1>12, <1>13
    <2> QED
      BY <2>1, <2>2, <2>3, <1>1, <1>11, <1>13, Enters
  <1>15. /\ IsSequence(tasks)
         /\ \A k \in DOMAIN tasks : TaskTyped(tasks[k]) /\ tasks[k][1] \in {"declare", "layout", "leave"}
    <2>1. PICK last : last = <<"leave", cur>>
      OBVIOUS
    <2>2. /\ IsSequence(tasks) /\ Len(tasks) = Len(inside) + 1 /\ Len(inside) \in Nat
          /\ \A k \in 1 .. Len(inside) : tasks[k] = inside[k]
          /\ tasks[Len(inside) + 1] = last
      BY <2>1, <1>11, <1>12, WithLast
    <2>3. ASSUME NEW k \in DOMAIN tasks PROVE TaskTyped(tasks[k]) /\ tasks[k][1] \in {"declare", "layout", "leave"}
      <3>1. CASE k \in 1 .. Len(inside)
        <4>1. tasks[k] = inside[k] /\ k \in DOMAIN inside
          BY <3>1, <2>2, <1>11, IsSequenceFacts
        <4> QED
          BY <4>1, <1>11 DEF TaskTyped
      <3>2. CASE k = Len(inside) + 1
        <4>1. tasks[k][1] = "leave"
          BY <3>2, <2>1, <2>2
        <4> QED
          BY <4>1 DEF TaskTyped
      <3>3. k \in 1 .. Len(inside) + 1
        BY <2>2, IsSequenceFacts
      <3> QED
        BY <3>1, <3>2, <3>3, <2>2
    <2> QED
      BY <2>2, <2>3
  <1>16. DOMAIN classes' = DOMAIN classes \cup {item.name}
         /\ \A c \in DOMAIN classes' :
              IF c = item.name THEN classes'[c] = NewClass(item.name \in DOMAIN classes)
              ELSE c \in DOMAIN classes /\ classes'[c] = classes[c]
    BY <1>13 DEF With
  <1>17. /\ ClassesTyped'
         /\ \A c \in DOMAIN classes' : \A m \in DOMAIN classes'[c].methods : classes'[c].methods[m] = None
    <2>1. item.name \in ToSet(Order)
      BY <1>2, <1>4 DEF IsClass
    <2>2. DOMAIN classes' \subseteq ToSet(Order)
      BY <2>1, <1>16 DEF IInv, ClassesTyped
    <2>3. ASSUME NEW c \in DOMAIN classes'
          PROVE  /\ DOMAIN classes'[c] = Fields /\ DOMAIN classes'[c].methods \subseteq ToSet(Order)
                 /\ \A m \in DOMAIN classes'[c].methods : classes'[c].methods[m] = None
      <3>1. CASE c = item.name
        <4>1. classes'[c] = NewClass(item.name \in DOMAIN classes)
          BY <3>1, <1>16
        <4>2. DOMAIN classes'[c] = Fields /\ classes'[c].methods = << >>
          BY <4>1 DEF NewClass, Fields
        <4>3. DOMAIN classes'[c].methods = {}
          BY <4>2, EmptyFacts
        <4> QED
          BY <4>2, <4>3
      <3>2. CASE c # item.name
        <4>1. c \in DOMAIN classes /\ classes'[c] = classes[c]
          BY <3>2, <1>16
        <4> QED
          BY <4>1, <1>3, NoneFilled DEF IInv, ClassesTyped
      <3> QED
        BY <3>1, <3>2
    <2> QED
      BY <2>2, <2>3 DEF ClassesTyped
  <1>18. UNCHANGED <<pass, genVars>>
    BY <1>13
  <1> QED
    BY <1>1, <1>3, <1>13, <1>14, <1>15, <1>17, <1>18, DeclaringStep

LEMMA DeclaredItem ==
  ASSUME IInv, Doing("declare")
  PROVE  /\ agenda # <<>> /\ Task = agenda[1] /\ agenda[1][1] = "declare" /\ Declaring
         /\ IsClass(Task[2]) \/ IsFunction(Task[2]) \/ Task[2].kind = "attribute"
  <1>1. AgendaTyped /\ agenda # <<>>
    BY DEF IInv, Doing
  <1>2. Task = agenda[1] /\ agenda[1][1] = "declare" /\ TaskTyped(agenda[1])
    BY <1>1, HeadFacts DEF Doing
  <1> QED
    BY <1>1, <1>2, PhaseOf DEF TaskTyped

LEMMA RegisterAttributeStep == IInv /\ RegisterAttribute => IInv'
  <1> SUFFICES ASSUME IInv, RegisterAttribute PROVE IInv'
    OBVIOUS
  <1>1. agenda # <<>> /\ agenda[1][1] = "declare" /\ Declaring
    BY DeclaredItem DEF RegisterAttribute
  <1>2. CASE Report /\ UNCHANGED classes
    <2>1. UNCHANGED <<registryVars, cur, genVars>>
      BY <1>2 DEF RegisterAttribute, registryVars
    <2> QED
      BY <1>1, <1>2, <2>1, ReportEarly
  <1>3. CASE /\ classes' = [classes EXCEPT ![cur].attributes = With(@, Task[2].name, Task[2].type),
                                           ![cur].initial = With(@, Task[2].name, Task[2].initial)]
             /\ Continue(<< >>)
    <2>1. DOMAIN classes' = DOMAIN classes
          /\ \A c \in DOMAIN classes : DOMAIN classes'[c] = DOMAIN classes[c] /\ classes'[c].methods = classes[c].methods
      BY <1>3
    <2>2. /\ ClassesTyped'
          /\ \A c \in DOMAIN classes' : \A m \in DOMAIN classes'[c].methods : classes'[c].methods[m] = None
      BY <2>1, <1>1, NoneFilled DEF IInv, ClassesTyped
    <2>3. UNCHANGED <<cur, genVars>>
      BY DEF RegisterAttribute
    <2> QED
      BY <1>1, <1>3, <2>2, <2>3, DeclaredStep
  <1> QED
    BY <1>2, <1>3 DEF RegisterAttribute

LEMMA RegisterMethodStep == IInv /\ RegisterMethod => IInv'
  <1> SUFFICES ASSUME IInv, RegisterMethod PROVE IInv'
    OBVIOUS
  <1>1. agenda # <<>> /\ agenda[1][1] = "declare" /\ Declaring
    BY DeclaredItem DEF RegisterMethod
  <1>2. Task[2].name \in ToSet(Order)
    BY DeclaredItem DEF RegisterMethod, IsClass, IsFunction
  <1>3. DOMAIN classes' = DOMAIN classes
        /\ \A c \in DOMAIN classes :
             /\ DOMAIN classes'[c] = DOMAIN classes[c]
             /\ \/ classes'[c].methods = classes[c].methods
                \/ classes'[c].methods = With(classes[c].methods, Task[2].name, None)
    <2>1. DOMAIN classes' = DOMAIN classes
      BY DEF RegisterMethod
    <2>2. ASSUME NEW c \in DOMAIN classes
          PROVE  /\ DOMAIN classes'[c] = DOMAIN classes[c]
                 /\ \/ classes'[c].methods = classes[c].methods
                    \/ classes'[c].methods = With(classes[c].methods, Task[2].name, None)
      <3>1. "methods" \in DOMAIN classes[c]
        BY DEF IInv, ClassesTyped, Fields
      <3>2. CASE c = cur
        BY <3>1, <3>2 DEF RegisterMethod
      <3>3. CASE c # cur
        BY <3>3 DEF RegisterMethod
      <3> QED
        BY <3>2, <3>3
    <2> QED
      BY <2>1, <2>2
  <1>4. /\ ClassesTyped'
        /\ \A c \in DOMAIN classes' : \A m \in DOMAIN classes'[c].methods : classes'[c].methods[m] = None
    <2>1. ASSUME NEW c \in DOMAIN classes'
          PROVE  /\ DOMAIN classes'[c] = Fields /\ DOMAIN classes'[c].methods \subseteq ToSet(Order)
                 /\ \A m \in DOMAIN classes'[c].methods : classes'[c].methods[m] = None
      <3>1. c \in DOMAIN classes /\ DOMAIN classes'[c] = Fields
        BY <1>3 DEF IInv, ClassesTyped
      <3>2. DOMAIN classes[c].methods \subseteq ToSet(Order) /\ \A m \in DOMAIN classes[c].methods : classes[c].methods[m] = None
        BY <3>1, <1>1, NoneFilled DEF IInv, ClassesTyped
      <3>3. CASE classes'[c].methods = classes[c].methods
        BY <3>1, <3>2, <3>3
      <3>4. CASE classes'[c].methods = With(classes[c].methods, Task[2].name, None)
        <4>1. PICK name, methods : name = Task[2].name /\ methods = classes[c].methods
          OBVIOUS
        <4>2. /\ DOMAIN With(methods, name, None) = DOMAIN methods \cup {name}
              /\ \A m \in DOMAIN methods \cup {name} :
                   With(methods, name, None)[m] = IF m = name THEN None ELSE methods[m]
          BY DEF With
        <4> QED
          BY <1>2, <3>1, <3>2, <3>4, <4>1, <4>2
      <3> QED
        BY <1>3, <3>1, <3>3, <3>4
    <2> QED
      BY <1>3, <2>1 DEF IInv, ClassesTyped
  <1>5. Continue(<< >>) /\ UNCHANGED <<cur, genVars>>
    BY DEF RegisterMethod
  <1> QED
    BY <1>1, <1>4, <1>5, DeclaredStep

LEMMA RegisterGlobalStep == IInv /\ RegisterGlobal => IInv'
  <1> SUFFICES ASSUME IInv, RegisterGlobal PROVE IInv'
    OBVIOUS
  <1>1. agenda # <<>> /\ agenda[1][1] = "declare" /\ Declaring
    BY DeclaredItem DEF RegisterGlobal
  <1>2. /\ ClassesTyped'
        /\ \A c \in DOMAIN classes' : \A m \in DOMAIN classes'[c].methods : classes'[c].methods[m] = None
    BY <1>1, NoneFilled DEF RegisterGlobal, IInv, ClassesTyped
  <1>3. Continue(<< >>) /\ UNCHANGED <<cur, genVars>>
    BY DEF RegisterGlobal
  <1> QED
    BY <1>1, <1>2, <1>3, DeclaredStep

LEMMA LayoutStep == IInv /\ Layout => IInv'
  <1> SUFFICES ASSUME IInv, Layout PROVE IInv'
    OBVIOUS
  <1>1. agenda # <<>> /\ agenda[1][1] = "layout" /\ Declaring
    <2>1. AgendaTyped /\ agenda # <<>> /\ Task[1] = "layout"
      BY DEF Layout, Doing, IInv
    <2> QED
      BY <2>1, HeadFacts, PhaseOf
  <1>2. PICK fields, indexes :
          classes' = [classes EXCEPT ![Task[2].name].fields = fields, ![Task[2].name].indexes = indexes]
    BY DEF Layout
  <1>3. DOMAIN classes' = DOMAIN classes
        /\ \A c \in DOMAIN classes : DOMAIN classes'[c] = DOMAIN classes[c] /\ classes'[c].methods = classes[c].methods
    BY <1>2
  <1>4. /\ ClassesTyped'
        /\ \A c \in DOMAIN classes' : \A m \in DOMAIN classes'[c].methods : classes'[c].methods[m] = None
    BY <1>3, <1>1, NoneFilled DEF IInv, ClassesTyped
  <1>5. Continue(<< >>) /\ UNCHANGED <<cur, genVars>>
    BY DEF Layout
  <1> QED
    BY <1>1, <1>4, <1>5, DeclaredStep

\* A class is left, in either pass.
LEMMA LeaveStep == IInv /\ Leave => IInv'
  <1> SUFFICES ASSUME IInv, Leave PROVE IInv'
    OBVIOUS
  <1>1. AgendaTyped /\ Placed /\ agenda # <<>>
    BY DEF Leave, Doing, IInv
  <1>2. agenda[1][1] = "leave" /\ Task = agenda[1]
    BY <1>1, HeadFacts DEF Leave, Doing
  <1> DEFINE none == << >>
  <1>3. /\ agenda' = none \o Tail(agenda) /\ pass' = pass /\ reported' = reported
        /\ cur' = agenda[1][2] /\ UNCHANGED <<classes, vars, temporary, bodies, emitted>>
    BY <1>2 DEF Leave, Continue, registryVars, genVars
  <1>4. Placed'
    BY <1>1, <1>2, <1>3, Leaves
  <1>5. IsSequence(none) /\ DOMAIN none = {}
    BY EmptyFacts
  <1> HIDE DEF none
  <1>6. CASE Declaring /\ Len(agenda) > 1
    <2>1. UNCHANGED <<pass, genVars>>
      BY <1>3 DEF genVars
    <2>2. ClassesTyped'
      BY <1>3 DEF IInv, ClassesTyped
    <2>3. \A c \in DOMAIN classes' : \A m \in DOMAIN classes'[c].methods : classes'[c].methods[m] = None
      BY <1>3, <1>6, NoneFilled
    <2> QED
      BY <1>1, <1>3, <1>4, <1>5, <1>6, <2>1, <2>2, <2>3, DeclaringStep
  <1>7. CASE Generating
    <2>1. Kept /\ emitted \subseteq emitted'
      BY <1>3 DEF Kept
    <2>2. Known(temporary)' /\ \A name \in DOMAIN vars' : Known(vars[name])'
      BY <1>3 DEF IInv, ObjectsKnown, Known, Equipped
    <2>3. BodiesInPlace'
      BY <1>3 DEF IInv, BodiesInPlace
    <2>4. \A i \in emitted' : i \in emitted
      BY <1>3
    <2> QED
      BY <1>1, <1>3, <1>4, <1>5, <1>7, <2>1, <2>2, <2>3, <2>4, GeneratesOn
  <1> QED
    BY <1>1, <1>2, <1>6, <1>7, PhaseOf

---------------------------------------------------------------------------
(* The methods get their functions *)

\* fill() has a task for each method of each class, and then one for each thing
\* of the unit.
LEMMA BeginFillStep == IInv /\ BeginFill => IInv'
  <1> SUFFICES ASSUME IInv, BeginFill PROVE IInv'
    OBVIOUS
  <1>1. AgendaTyped /\ Placed /\ agenda # <<>>
    BY DEF BeginFill, Doing, IInv
  <1>2. Task = agenda[1] /\ agenda[1][1] = "fill" /\ TaskTyped(agenda[1])
    BY <1>1, HeadFacts DEF BeginFill, Doing
  <1>3. Declaring /\ Len(agenda) = 1
    BY <1>1, <1>2, PhaseOf
  <1>4. pass' = 2 /\ UNCHANGED <<reported, classes, cur, vars, temporary, bodies, emitted>>
    BY DEF BeginFill, registryVars, genVars
  <1> DEFINE names(c) == Sorted(DOMAIN classes[c].methods)
             list(c) == [j \in DOMAIN names(c) |-> <<"method", c, names(c)[j]>>]
  <1>5. PICK cs : cs = Sorted(DOMAIN classes)
    OBVIOUS
  <1>6. IsSequence(cs) /\ ToSet(cs) = DOMAIN classes /\ Len(cs) \in Nat /\ DOMAIN cs = 1 .. Len(cs)
    <2>1. IsSequence(cs) /\ ToSet(cs) = DOMAIN classes
      BY <1>5, SortedFacts DEF IInv, ClassesTyped
    <2> QED
      BY <2>1, IsSequenceFacts
  <1>7. PICK ss : ss = [k \in 1 .. Len(cs) |-> list(cs[k])]
    OBVIOUS
  <1>8. PICK unit : unit = agenda[1][2]
    OBVIOUS
  <1>9. PICK front, back : front = FlattenSeq(ss) /\ back = Generate(unit, None)
    OBVIOUS
  <1>10. agenda' = front \o back
    BY <1>2, <1>5, <1>7, <1>8, <1>9 DEF BeginFill
  <1>11. IsSequence(unit) /\ \A k \in DOMAIN unit : IsClass(unit[k]) \/ IsFunction(unit[k])
    BY <1>2, <1>8 DEF TaskTyped, IsSequence
  <1>12. ASSUME NEW c \in DOMAIN classes
         PROVE  /\ IsSequence(list(c))
                /\ \A e \in ToSet(list(c)) : e[1] = "method"
                /\ \A m \in DOMAIN classes[c].methods : <<"method", c, m>> \in ToSet(list(c))
    <2>1. PICK ms : ms = names(c)
      OBVIOUS
    <2>2. IsSequence(ms) /\ ToSet(ms) = DOMAIN classes[c].methods
      BY <2>1, SortedFacts DEF IInv, ClassesTyped
    <2>3. Len(ms) \in Nat /\ DOMAIN ms = 1 .. Len(ms)
      BY <2>2, IsSequenceFacts
    <2>4. PICK l : l = list(c)
      OBVIOUS
    <2>5. l = [j \in 1 .. Len(ms) |-> <<"method", c, ms[j]>>]
      BY <2>1, <2>3, <2>4
    <2>6. IsSequence(l)
      <3>1. l = [j \in 1 .. Len(ms) |-> l[j]]
        BY <2>5
      <3> QED
        BY <2>3, <3>1, IsSequenceFunction
    <2>7. \A e \in ToSet(l) : e[1] = "method"
      BY <2>5 DEF ToSet
    <2>8. ASSUME NEW m \in DOMAIN classes[c].methods PROVE <<"method", c, m>> \in ToSet(l)
      <3>1. PICK j \in DOMAIN ms : ms[j] = m
        BY <2>2 DEF ToSet
      <3>2. j \in DOMAIN l /\ l[j] = <<"method", c, m>>
        BY <2>3, <2>5, <3>1
      <3> QED
        BY <3>2 DEF ToSet
    <2> QED
      BY <2>4, <2>6, <2>7, <2>8
  <1> HIDE DEF list
  <1>13. /\ IsSequence(front)
         /\ \A i \in DOMAIN front : front[i][1] = "method"
         /\ \A c \in DOMAIN classes : \A m \in DOMAIN classes[c].methods :
              \E i \in DOMAIN front : front[i] = <<"method", c, m>>
    <2>1. DOMAIN ss = 1 .. Len(cs) /\ \A k \in 1 .. Len(cs) : ss[k] = list(cs[k]) /\ cs[k] \in DOMAIN classes
      BY <1>6, <1>7 DEF ToSet
    <2>2. IsSequence(ss)
      <3>1. ss = [k \in 1 .. Len(cs) |-> ss[k]]
        BY <1>7
      <3> QED
        BY <1>6, <3>1, IsSequenceFunction
    <2>3. \A k \in DOMAIN ss : IsSequence(ss[k])
      BY <2>1, <1>12
    <2>4. /\ IsSequence(front)
          /\ \A e : e \in ToSet(front) <=> \E k \in DOMAIN ss : e \in ToSet(ss[k])
      BY <2>2, <2>3, <1>9, FlattenFacts
    <2>5. ASSUME NEW i \in DOMAIN front PROVE front[i][1] = "method"
      <3>1. front[i] \in ToSet(front)
        BY DEF ToSet
      <3> QED
        BY <3>1, <2>1, <2>4, <1>12
    <2>6. ASSUME NEW c \in DOMAIN classes, NEW m \in DOMAIN classes[c].methods
          PROVE  \E i \in DOMAIN front : front[i] = <<"method", c, m>>
      <3>1. PICK k \in DOMAIN cs : cs[k] = c
        BY <1>6 DEF ToSet
      <3>2. k \in DOMAIN ss /\ ss[k] = list(c)
        BY <3>1, <2>1, <1>6
      <3>3. <<"method", c, m>> \in ToSet(front)
        BY <3>2, <2>4, <1>12
      <3> QED
        BY <3>3 DEF ToSet
    <2> QED
      BY <2>4, <2>5, <2>6
  <1>14. /\ IsSequence(back)
         /\ \A i \in DOMAIN back :
              back[i][1] = "generate" /\ back[i][3] = None /\ (IsClass(back[i][2]) \/ IsFunction(back[i][2]))
    <2>1. /\ IsSequence(back) /\ Len(back) = Len(unit)
          /\ \A k \in 1 .. Len(unit) : back[k] = <<"generate", unit[k], None>>
      BY <1>9, <1>11, GenerateFacts
    <2>2. DOMAIN back = 1 .. Len(unit) /\ DOMAIN unit = 1 .. Len(unit)
      BY <2>1, <1>11, IsSequenceFacts
    <2> QED
      BY <2>1, <2>2, <1>11
  <1>15. /\ IsSequence(agenda') /\ Len(agenda') = Len(front) + Len(back)
         /\ Len(front) \in Nat /\ Len(back) \in Nat
         /\ DOMAIN front = 1 .. Len(front) /\ DOMAIN back = 1 .. Len(back)
         /\ DOMAIN agenda' = 1 .. Len(front) + Len(back)
         /\ \A i \in 1 .. Len(front) : agenda'[i] = front[i]
         /\ \A i \in 1 .. Len(back) : agenda'[Len(front) + i] = back[i]
    <2>1. /\ IsSequence(agenda') /\ Len(agenda') = Len(front) + Len(back)
          /\ \A i \in 1 .. Len(front) : agenda'[i] = front[i]
          /\ \A i \in 1 .. Len(back) : agenda'[Len(front) + i] = back[i]
      BY <1>10, <1>13, <1>14, ConcatFacts
    <2> QED
      BY <2>1, <1>13, <1>14, IsSequenceFacts
  <1>16. ASSUME NEW i \in DOMAIN agenda'
         PROVE  \/ i \in 1 .. Len(front) /\ agenda'[i][1] = "method"
                \/ /\ i \in Len(front) + 1 .. Len(agenda')
                   /\ agenda'[i][1] = "generate" /\ agenda'[i][3] = None
                   /\ IsClass(agenda'[i][2]) \/ IsFunction(agenda'[i][2])
    <2>1. CASE i \in 1 .. Len(front)
      BY <2>1, <1>13, <1>15
    <2>2. CASE i \notin 1 .. Len(front)
      <3>1. i - Len(front) \in 1 .. Len(back) /\ i = Len(front) + (i - Len(front)) /\ i \in Len(front) + 1 .. Len(agenda')
        BY <2>2, <1>15
      <3>2. agenda'[i] = back[i - Len(front)]
        BY <3>1, <1>15
      <3> QED
        BY <3>1, <3>2, <1>14, <1>15
    <2> QED
      BY <2>1, <2>2
  <1>17. AgendaTyped'
    <2>1. \A i \in DOMAIN agenda' : TaskTyped(agenda'[i])
      BY <1>16 DEF TaskTyped
    <2> QED
      BY <2>1, <1>15 DEF AgendaTyped, TaskTyped
  <1>18. Quiet'
    BY <1>3, <1>4 DEF Declaring, Quiet
  <1>19. Filling'
    <2>1. PICK k : k = Len(front)
      OBVIOUS
    <2>2. k \in 0 .. Len(agenda')
      BY <2>1, <1>15
    <2>3. \A i \in 1 .. k : agenda'[i][1] = "method"
      BY <2>1, <1>13, <1>15
    <2>4. \A i \in k + 1 .. Len(agenda') : agenda'[i][1] = "generate"
      <3> SUFFICES ASSUME NEW i \in k + 1 .. Len(agenda') PROVE agenda'[i][1] = "generate"
        OBVIOUS
      <3>1. i \in DOMAIN agenda' /\ i \notin 1 .. Len(front)
        BY <2>1, <1>15
      <3> QED
        BY <3>1, <1>16
    <2> QED
      BY <2>2, <2>3, <2>4, <1>4, <1>18 DEF Filling, FillingUntil
  <1>20. ClassesTyped'
    BY <1>4 DEF IInv, ClassesTyped
  <1>21. MethodsFilled'
    <2>1. ASSUME NEW c \in DOMAIN classes, NEW m \in DOMAIN classes[c].methods
          PROVE  classes[c].methods[m] = None /\ \E i \in DOMAIN agenda' : agenda'[i] = <<"method", c, m>>
      <3>1. PICK i \in DOMAIN front : front[i] = <<"method", c, m>>
        BY <1>13
      <3>2. i \in DOMAIN agenda' /\ agenda'[i] = <<"method", c, m>>
        BY <3>1, <1>15
      <3> QED
        BY <3>2, <1>3, NoneFilled
    <2> QED
      BY <2>1, <1>4 DEF MethodsFilled, Unfilled
  <1>22. ObjectsKnown'
    <2>1. \A i \in DOMAIN agenda' : agenda'[i][1] # "construct"
      BY <1>16
    <2> QED
      BY <2>1, <1>18, EmptyFacts DEF Quiet, ObjectsKnown, Known, Value
  <1>23. DispatchesSound' /\ BodiesInPlace'
    BY <1>18 DEF Quiet, DispatchesSound, BodiesInPlace
  <1>24. Placed'
    <2>1. CASE reported
      BY <2>1, <1>4 DEF Placed
    <2>2. CASE InUnit
      <3>1. \A i \in DOMAIN agenda' : Top(agenda'[i])
        BY <1>16 DEF Top
      <3> QED
        BY <2>2, <3>1, <1>4 DEF Placed, InUnit, Top
    <2>3. CASE \E k \in DOMAIN agenda : InClassUntil(k)
      <3>1. PICK k \in DOMAIN agenda : InClassUntil(k)
        BY <2>3
      <3>2. k = 1
        BY <1>1, <1>3, HeadFacts
      <3>3. agenda[1] = <<"leave", None>>
        BY <3>1, <3>2 DEF InClassUntil
      <3> QED
        BY <3>3, <1>2
    <2> QED
      BY <2>1, <2>2, <2>3, <1>1 DEF Placed
  <1> QED
    BY <1>17, <1>19, <1>20, <1>21, <1>22, <1>23, <1>24 DEF IInv, Phases

\* The vtable holds each function that is made, at the slot its name has.
LEMMA VTableBuilt ==
  ASSUME NEW class, DOMAIN class = Fields, DOMAIN class.methods \subseteq ToSet(Order),
         NEW c, \A m \in DOMAIN class.methods : class.methods[m] \in {None, <<c, m>>}
  PROVE  /\ DOMAIN buildVTable(class) = Fields
         /\ buildVTable(class).methods = class.methods
         /\ \A m \in DOMAIN class.methods : class.methods[m] # None => Slotted(buildVTable(class), c, m)
  <1> DEFINE made == {m \in DOMAIN class.methods : class.methods[m] # None}
  <1>1. PICK names : names = Sorted(made)
    OBVIOUS
  <1>2. IsSequence(names) /\ ToSet(names) = made
    BY <1>1, SortedFacts
  <1>3. PICK table : table = [k \in DOMAIN names |-> class.methods[names[k]]]
    OBVIOUS
  <1>4. PICK slots : slots = [m \in ToSet(names) \cup DOMAIN class.slots |->
                                IF m \in ToSet(names) THEN CHOOSE k \in DOMAIN names : names[k] = m
                                ELSE class.slots[m]]
    OBVIOUS
  <1>5. buildVTable(class) = [class EXCEPT !.table = table, !.slots = slots]
    BY <1>1, <1>3, <1>4 DEF buildVTable
  <1>6. /\ DOMAIN buildVTable(class) = Fields
        /\ buildVTable(class).methods = class.methods
        /\ buildVTable(class).table = table
        /\ buildVTable(class).slots = slots
    BY <1>5 DEF Fields
  <1>7. ASSUME NEW m \in DOMAIN class.methods, class.methods[m] # None
        PROVE  m \in DOMAIN slots /\ slots[m] \in DOMAIN table /\ table[slots[m]] = <<c, m>>
    <2>1. m \in ToSet(names) /\ class.methods[m] = <<c, m>>
      BY <1>2, <1>7
    <2>2. slots[m] = CHOOSE k \in DOMAIN names : names[k] = m
      BY <1>4, <2>1
    <2>3. slots[m] \in DOMAIN names /\ names[slots[m]] = m
      BY <2>1, <2>2 DEF ToSet
    <2> QED
      BY <1>3, <1>4, <2>1, <2>3
  <1> QED
    BY <1>6, <1>7 DEF Slotted

LEMMA FillMethodStep == IInv /\ FillMethod => IInv'
  <1> SUFFICES ASSUME IInv, FillMethod PROVE IInv'
    OBVIOUS
  <1>1. AgendaTyped /\ Placed /\ agenda # <<>>
    BY DEF FillMethod, Doing, IInv
  <1>2. Task = agenda[1] /\ agenda[1][1] = "method" /\ Len(agenda) \in Nat \ {0} /\ DOMAIN agenda = 1 .. Len(agenda)
    BY <1>1, HeadFacts DEF FillMethod, Doing
  <1>3. PICK last \in 1 .. Len(agenda) : FillingUntil(last)
    BY <1>1, <1>2, PhaseOf
  <1>4. PICK c, m : c = agenda[1][2] /\ m = agenda[1][3]
    OBVIOUS
  <1>5. PICK made : made = [classes[c] EXCEPT !.methods[m] = <<c, m>>]
    OBVIOUS
  <1>6. PICK new : new = IF m = c THEN made ELSE buildVTable(made)
    OBVIOUS
  <1>7. /\ classes' = [classes EXCEPT ![c] = new]
        /\ pass' = 2 /\ UNCHANGED <<reported, cur, genVars>>
        /\ agenda' = << >> \o Tail(agenda) \/ agenda' = agenda
    BY <1>2, <1>3, <1>4, <1>5, <1>6 DEF FillMethod, Continue, GiveUp, FillingUntil
  <1>8. /\ IsSequence(agenda') /\ DOMAIN agenda' = 1 .. Len(agenda') /\ Len(agenda') \in Nat
        /\ AgendaTyped' /\ Placed'
        /\ \A i \in 2 .. Len(agenda) : \E j \in DOMAIN agenda' : agenda'[j] = agenda[i]
        /\ \A j \in DOMAIN agenda' : \E i \in DOMAIN agenda : agenda'[j] = agenda[i]
        /\ \E k \in 0 .. Len(agenda') :
             /\ \A i \in 1 .. k : agenda'[i][1] = "method"
             /\ \A i \in k + 1 .. Len(agenda') : agenda'[i][1] = "generate"
    <2>1. CASE agenda' = << >> \o Tail(agenda)
      <3> DEFINE none == << >>
      <3>1. agenda' = none \o Tail(agenda) /\ IsSequence(none) /\ DOMAIN none = {} /\ Len(none) = 0
        BY <2>1, EmptyFacts
      <3> HIDE DEF none
      <3>2. /\ IsSequence(agenda') /\ Len(agenda') = Len(none) + Len(agenda) - 1
            /\ DOMAIN agenda' = 1 .. Len(none) + Len(agenda) - 1
            /\ \A i \in 2 .. Len(agenda) : agenda'[Len(none) + i - 1] = agenda[i]
            /\ \A i \in Len(none) + 1 .. Len(agenda') :
                 i - Len(none) + 1 \in 2 .. Len(agenda) /\ agenda'[i] = agenda[i - Len(none) + 1]
        BY <1>1, <3>1, AgendaContinues
      <3>3. Len(agenda') = Len(agenda) - 1 /\ DOMAIN agenda' = 1 .. Len(agenda')
        BY <1>2, <3>1, <3>2
      <3>4. \A i \in 1 .. Len(agenda') : agenda'[i] = agenda[i + 1] /\ i + 1 \in 2 .. Len(agenda)
        <4> SUFFICES ASSUME NEW i \in 1 .. Len(agenda') PROVE agenda'[i] = agenda[i + 1] /\ i + 1 \in 2 .. Len(agenda)
          OBVIOUS
        <4>1. i \in Len(none) + 1 .. Len(agenda') /\ i - Len(none) + 1 = i + 1
          BY <1>2, <3>1, <3>3
        <4> QED
          BY <4>1, <3>2
      <3>5. AgendaTyped'
        BY <1>1, <3>1, TypedContinues
      <3>6. Placed'
        <4>1. agenda[1][1] # "leave" /\ cur' = cur /\ reported' = reported
          BY <1>2, <1>7
        <4> QED
          BY <4>1, <1>1, <3>1, PlacedStays
      <3>7. \A i \in 2 .. Len(agenda) : \E j \in DOMAIN agenda' : agenda'[j] = agenda[i]
        <4> SUFFICES ASSUME NEW i \in 2 .. Len(agenda) PROVE \E j \in DOMAIN agenda' : agenda'[j] = agenda[i]
          OBVIOUS
        <4>1. i - 1 \in 1 .. Len(agenda') /\ (i - 1) + 1 = i
          BY <1>2, <3>3
        <4>2. agenda'[i - 1] = agenda[(i - 1) + 1]
          BY <3>4, <4>1
        <4> QED
          BY <3>3, <4>1, <4>2
      <3>8. \A j \in DOMAIN agenda' : \E i \in DOMAIN agenda : agenda'[j] = agenda[i]
        <4> SUFFICES ASSUME NEW j \in DOMAIN agenda' PROVE \E i \in DOMAIN agenda : agenda'[j] = agenda[i]
          OBVIOUS
        <4>1. agenda'[j] = agenda[j + 1] /\ j + 1 \in DOMAIN agenda
          BY <1>2, <3>3, <3>4
        <4> QED
          BY <4>1
      <3>9. PICK k : k = last - 1
        OBVIOUS
      <3>10. /\ k \in 0 .. Len(agenda')
             /\ \A i \in 1 .. k : agenda'[i][1] = "method"
             /\ \A i \in k + 1 .. Len(agenda') : agenda'[i][1] = "generate"
        <4>1. k \in 0 .. Len(agenda')
          BY <1>2, <3>3, <3>9
        <4>2. ASSUME NEW i \in 1 .. k PROVE agenda'[i][1] = "method"
          <5>1. i \in 1 .. Len(agenda') /\ i + 1 \in 1 .. last
            BY <1>2, <3>3, <3>9
          <5> QED
            BY <5>1, <3>4, <1>3 DEF FillingUntil
        <4>3. ASSUME NEW i \in k + 1 .. Len(agenda') PROVE agenda'[i][1] = "generate"
          <5>1. i \in 1 .. Len(agenda') /\ i + 1 \in last + 1 .. Len(agenda)
            BY <1>2, <3>3, <3>9
          <5> QED
            BY <5>1, <3>4, <1>3 DEF FillingUntil
        <4> QED
          BY <4>1, <4>2, <4>3
      <3> QED
        <4>1. Len(agenda') \in Nat
          BY <1>2, <3>3
        <4>2. \E n \in 0 .. Len(agenda') :
                /\ \A i \in 1 .. n : agenda'[i][1] = "method"
                /\ \A i \in n + 1 .. Len(agenda') : agenda'[i][1] = "generate"
          BY <3>10
        <4> QED
          BY <3>2, <3>3, <3>5, <3>6, <3>7, <3>8, <4>1, <4>2
    <2>2. CASE agenda' = agenda
      <3>1. AgendaTyped'
        BY <2>2, <1>1 DEF AgendaTyped
      <3>2. Placed'
        BY <2>2, <1>1, <1>7 DEF Placed, InUnit, InClassUntil
      <3>3. \A i \in 2 .. Len(agenda) : i \in DOMAIN agenda
        BY <1>2
      <3>4. last \in 0 .. Len(agenda)
        BY <1>2
      <3> QED
        BY <2>2, <1>2, <1>3, <3>1, <3>2, <3>3, <3>4 DEF AgendaTyped, FillingUntil
    <2> QED
      BY <1>7, <2>1, <2>2
  <1>9. Quiet'
    BY <1>3, <1>7 DEF FillingUntil, Quiet, genVars
  <1>10. Filling'
    BY <1>7, <1>8, <1>9 DEF Filling, FillingUntil
  <1>11. ASSUME NEW d \in DOMAIN classes, NEW x \in DOMAIN classes[d].methods
         PROVE  \/ classes[d].methods[x] = None /\ \E i \in DOMAIN agenda : agenda[i] = <<"method", d, x>>
                \/ /\ classes[d].methods[x] = <<d, x>> /\ <<d, x>> # None
                   /\ x # d => Slotted(classes[d], d, x)
    <2>1. pass = 2
      BY <1>3 DEF FillingUntil
    <2>2. <<d, x>> # None
      <3>1. d \in ToSet(Order) /\ x \in ToSet(Order)
        BY DEF IInv, ClassesTyped
      <3> QED
        BY <3>1, NameAssumption
    <2> QED
      BY <2>1, <2>2 DEF IInv, MethodsFilled, Unfilled, Filled
  <1>12. DOMAIN classes' = DOMAIN classes
         /\ \A d \in DOMAIN classes : classes'[d] = IF d = c THEN new ELSE classes[d]
    BY <1>7
  <1>13. ASSUME c \in DOMAIN classes
         PROVE  /\ DOMAIN made = Fields /\ DOMAIN made.methods = DOMAIN classes[c].methods
                /\ \A x \in DOMAIN made.methods : made.methods[x] = IF x = m THEN <<c, m>> ELSE classes[c].methods[x]
                /\ made.slots = classes[c].slots /\ made.table = classes[c].table
                /\ DOMAIN made.methods \subseteq ToSet(Order)
    <2>1. DOMAIN classes[c] = Fields /\ DOMAIN classes[c].methods \subseteq ToSet(Order)
      BY <1>13 DEF IInv, ClassesTyped
    <2> QED
      BY <2>1, <1>5 DEF Fields
  <1>14. ASSUME c \in DOMAIN classes
         PROVE  /\ DOMAIN new = Fields /\ new.methods = made.methods
                /\ \/ m = c /\ new.slots = classes[c].slots /\ new.table = classes[c].table
                   \/ m # c /\ \A x \in DOMAIN made.methods : made.methods[x] # None => Slotted(new, c, x)
    <2>1. CASE m = c
      BY <1>6, <1>13, <1>14, <2>1
    <2>2. CASE m # c
      <3>1. \A x \in DOMAIN made.methods : made.methods[x] \in {None, <<c, x>>}
        BY <1>11, <1>13, <1>14
      <3> QED
        BY <1>6, <1>13, <1>14, <2>2, <3>1, VTableBuilt
    <2> QED
      BY <2>1, <2>2
  <1>15. ClassesTyped'
    BY <1>12, <1>13, <1>14 DEF IInv, ClassesTyped
  <1>16. MethodsFilled'
    <2> SUFFICES ASSUME NEW d \in DOMAIN classes', NEW x \in DOMAIN classes'[d].methods
                 PROVE  Unfilled(d, x)' \/ Filled(d, x)'
      BY DEF MethodsFilled
    <2>1. d \in DOMAIN classes /\ x \in DOMAIN classes[d].methods
      BY <1>12, <1>13, <1>14
    <2>2. CASE d = c /\ x = m
      <3>1. classes'[d] = new /\ new.methods[x] = <<d, x>>
        BY <2>1, <2>2, <1>12, <1>13, <1>14
      <3>2. <<d, x>> # None
        <4>1. d \in ToSet(Order) /\ x \in ToSet(Order)
          BY <2>1 DEF IInv, ClassesTyped
        <4> QED
          BY <4>1, NameAssumption
      <3>3. x # d => Slotted(new, d, x)
        BY <2>1, <2>2, <3>1, <3>2, <1>13, <1>14
      <3> QED
        BY <3>1, <3>3, <1>7 DEF Filled, Slotted
    <2>3. CASE ~ (d = c /\ x = m)
      <3>1. classes'[d].methods[x] = classes[d].methods[x]
        BY <2>1, <2>3, <1>12, <1>13, <1>14
      <3>2. CASE classes[d].methods[x] = None /\ \E i \in DOMAIN agenda : agenda[i] = <<"method", d, x>>
        <4>1. PICK i \in DOMAIN agenda : agenda[i] = <<"method", d, x>>
          BY <3>2
        <4>2. i # 1
          BY <4>1, <2>3, <1>4
        <4>3. \E j \in DOMAIN agenda' : agenda'[j] = <<"method", d, x>>
          <5>1. i \in 2 .. Len(agenda)
            BY <4>2, <1>2
          <5>2. PICK j \in DOMAIN agenda' : agenda'[j] = agenda[i]
            BY <5>1, <1>8
          <5> QED
            BY <4>1, <5>2
        <4> QED
          BY <3>1, <3>2, <4>3 DEF Unfilled
      <3>3. CASE /\ classes[d].methods[x] = <<d, x>> /\ <<d, x>> # None
                 /\ x # d => Slotted(classes[d], d, x)
        <4>1. x # d => Slotted(classes'[d], d, x)
          <5>1. CASE d # c
            BY <5>1, <2>1, <3>3, <1>12
          <5>2. CASE d = c
            <6>1. classes'[d] = new /\ made.methods[x] # None
              BY <5>2, <2>1, <2>3, <3>3, <1>12, <1>13
            <6> QED
              BY <5>2, <6>1, <2>1, <3>3, <1>13, <1>14 DEF Slotted
          <5> QED
            BY <5>1, <5>2
        <4> QED
          BY <3>1, <3>3, <4>1, <1>7 DEF Filled, Slotted
      <3> QED
        BY <2>1, <3>2, <3>3, <1>11
    <2> QED
      BY <2>2, <2>3
  <1>17. ObjectsKnown'
    <2>1. ASSUME NEW j \in DOMAIN agenda' PROVE agenda'[j][1] # "construct"
      <3>1. PICK i \in DOMAIN agenda : agenda'[j] = agenda[i]
        BY <1>8
      <3>2. i \in 1 .. last \/ i \in last + 1 .. Len(agenda)
        BY <1>2
      <3>3. agenda[i][1] \in {"method", "generate"}
        BY <3>2, <1>3 DEF FillingUntil
      <3> QED
        BY <3>1, <3>3
    <2> QED
      BY <2>1, <1>9, EmptyFacts DEF Quiet, ObjectsKnown, Known, Value
  <1>18. DispatchesSound' /\ BodiesInPlace'
    BY <1>9 DEF Quiet, DispatchesSound, BodiesInPlace
  <1> QED
    BY <1>8, <1>10, <1>15, <1>16, <1>17, <1>18 DEF IInv, Phases

---------------------------------------------------------------------------
(* Code generation *)

LEMMA GeneratingHead ==
  ASSUME IInv, NEW kind \in {"generate"} \cup Inner, Doing(kind)
  PROVE  /\ agenda # <<>> /\ Task = agenda[1] /\ agenda[1][1] = kind /\ TaskTyped(agenda[1])
         /\ Generating /\ agenda[1][1] # "leave"
  <1>1. AgendaTyped /\ agenda # <<>>
    BY DEF IInv, Doing
  <1>2. Task = agenda[1] /\ agenda[1][1] = kind /\ TaskTyped(agenda[1])
    BY <1>1, HeadFacts DEF Doing
  <1>3. kind # "leave"
    BY DEF Inner, Uses
  <1> QED
    BY <1>1, <1>2, <1>3, PhaseOf

LEMMA StillKnown ==
  ASSUME IInv, Generating, Kept, pass' = pass, emitted \subseteq emitted'
  PROVE  /\ temporary' = temporary => Known(temporary)'
         /\ vars' = vars => \A name \in DOMAIN vars' : Known(vars[name])'
  <1>1. \A v : Known(v) => Known(v)'
    BY KeptFacts
  <1>2. ASSUME temporary' = temporary PROVE Known(temporary)'
    <2>1. PICK v : v = temporary
      OBVIOUS
    <2>2. Known(v)'
      BY <1>1, <2>1 DEF IInv, ObjectsKnown
    <2> QED
      BY <1>2, <2>1, <2>2 DEF Known, Equipped
  <1>3. ASSUME vars' = vars, NEW name \in DOMAIN vars' PROVE Known(vars[name])'
    <2>1. PICK v : v = vars[name]
      OBVIOUS
    <2>2. Known(v)'
      BY <1>1, <1>3, <2>1 DEF IInv, ObjectsKnown
    <2> QED
      BY <1>3, <2>1, <2>2 DEF Known, Equipped
  <1> QED
    BY <1>2, <1>3

\* A step that is over with its task and makes no body.
LEMMA UsingStep ==
  ASSUME IInv, agenda # <<>>, Generating, agenda[1][1] # "leave",
         Continue(<< >>), UNCHANGED <<cur, bodies>>, Kept, emitted \subseteq emitted',
         Known(temporary)', \A name \in DOMAIN vars' : Known(vars[name])',
         \A i \in emitted' : i \in emitted \/ SoundDispatch(i)'
  PROVE  IInv'
  <1> DEFINE none == << >>
  <1>1. agenda' = none \o Tail(agenda) /\ pass' = pass /\ reported' = reported /\ cur' = cur
    BY DEF Continue
  <1>2. IsSequence(none) /\ DOMAIN none = {}
    BY EmptyFacts
  <1> HIDE DEF none
  <1>3. BodiesInPlace'
    BY <1>1 DEF IInv, BodiesInPlace
  <1> QED
    BY <1>1, <1>2, <1>3, GeneratingStep

\* A use that changes the temporary only, to a value of which nothing is known,
\* and emits what is no dispatch.
LEMMA PlainUse ==
  ASSUME IInv, agenda # <<>>, Generating, agenda[1][1] # "leave",
         Continue(<< >>), UNCHANGED <<registryVars, cur, vars, bodies>>,
         temporary' = temporary \/ temporary'.object = None \/ Known(temporary'),
         NEW instruction, instruction.op # "dispatch", emitted' \in {emitted, emitted \cup {instruction}}
  PROVE  IInv'
  <1>1. Kept /\ emitted \subseteq emitted' /\ pass' = pass /\ vars' = vars
    BY DEF Kept, registryVars, Continue
  <1>2. (temporary' = temporary => Known(temporary)') /\ \A name \in DOMAIN vars' : Known(vars[name])'
    BY <1>1, StillKnown
  <1>3. Known(temporary)'
    <2>1. CASE temporary'.object = None
      BY <2>1 DEF Known
    <2>2. CASE Known(temporary')
      <3>1. PICK v : v = temporary'
        OBVIOUS
      <3>2. Known(v)'
        BY <3>1, <2>2, <1>1, KeptFacts
      <3> QED
        BY <3>1, <3>2 DEF Known, Equipped
    <2> QED
      BY <1>2, <2>1, <2>2
  <1>4. \A i \in emitted' : i \in emitted \/ SoundDispatch(i)'
    BY DEF SoundDispatch
  <1>5. UNCHANGED <<cur, bodies>>
    OBVIOUS
  <1> QED
    BY <1>1, <1>2, <1>3, <1>4, <1>5, UsingStep

LEMMA GenerateClassStep == IInv /\ GenerateClass => IInv'
  <1> SUFFICES ASSUME IInv, GenerateClass PROVE IInv'
    OBVIOUS
  <1>1. /\ AgendaTyped /\ Placed /\ agenda # <<>> /\ Task = agenda[1] /\ agenda[1][1] = "generate"
        /\ TaskTyped(agenda[1]) /\ Generating
    BY GeneratingHead DEF GenerateClass, IInv
  <1>2. PICK item : item = agenda[1][2]
    OBVIOUS
  <1>3. item.kind = "class" /\ IsClass(item)
    BY <1>1, <1>2 DEF GenerateClass, TaskTyped, IsFunction
  <1>4. IsSequence(item.members) /\ IsSequence(item.builders)
    BY <1>3 DEF IsClass, IsSequence
  <1>5. PICK members, builders :
          members = OfKind("function", item.members) /\ builders = OfKind("function", item.builders)
    OBVIOUS
  <1>6. /\ IsSequence(members) /\ IsSequence(builders)
        /\ \A k \in DOMAIN members : IsFunction(members[k])
        /\ \A k \in DOMAIN builders : IsFunction(builders[k])
    <2>1. /\ IsSequence(members) /\ IsSequence(builders)
          /\ \A k \in DOMAIN members : members[k].kind = "function" /\ \E j \in DOMAIN item.members : members[k] = item.members[j]
          /\ \A k \in DOMAIN builders : builders[k].kind = "function" /\ \E j \in DOMAIN item.builders : builders[k] = item.builders[j]
      BY <1>4, <1>5, OfKindFacts
    <2> QED
      BY <2>1, <1>3 DEF IsClass
  <1>7. PICK fs : fs = members \o builders
    OBVIOUS
  <1>8. IsSequence(fs) /\ \A k \in DOMAIN fs : IsFunction(fs[k])
    <2>1. IsSequence(fs) /\ ToSet(fs) = ToSet(members) \cup ToSet(builders)
      BY <1>6, <1>7, ConcatenatedSet
    <2>2. ASSUME NEW k \in DOMAIN fs
          PROVE  (\E j \in DOMAIN members : fs[k] = members[j]) \/ \E j \in DOMAIN builders : fs[k] = builders[j]
      BY <2>1 DEF ToSet
    <2> QED
      BY <2>1, <2>2, <1>6
  <1>9. PICK inside : inside = Generate(fs, item.name)
    OBVIOUS
  <1>10. /\ IsSequence(inside)
         /\ \A k \in DOMAIN inside : inside[k][1] = "generate" /\ inside[k][3] = item.name /\ IsFunction(inside[k][2])
    <2>1. /\ IsSequence(inside) /\ Len(inside) = Len(fs)
          /\ \A k \in 1 .. Len(fs) : inside[k] = <<"generate", fs[k], item.name>>
      BY <1>8, <1>9, GenerateFacts
    <2>2. DOMAIN inside = 1 .. Len(fs) /\ DOMAIN fs = 1 .. Len(fs)
      BY <2>1, <1>8, IsSequenceFacts
    <2> QED
      BY <2>1, <2>2, <1>8
  <1>11. PICK tasks : tasks = inside \o <<<<"leave", cur>>>>
    OBVIOUS
  <1>12. /\ agenda' = tasks \o Tail(agenda) /\ cur' = item.name /\ reported' = reported /\ pass' = pass
         /\ UNCHANGED <<classes, vars, temporary, bodies, emitted>>
    BY <1>1, <1>2, <1>5, <1>7, <1>9, <1>11 DEF GenerateClass, Continue, registryVars, genVars
  <1>13. Placed'
    <2>1. ~ Member(agenda[1], cur) /\ agenda[1][1] # "leave"
      BY <1>1, <1>2, <1>3 DEF Member
    <2>2. \A k \in DOMAIN inside : Member(inside[k], item.name)
      BY <1>10 DEF Member, IsFunction
    <2>3. agenda' = (inside \o <<<<"leave", cur>>>>) \o Tail(agenda)
      BY <1>11, <1>12
    <2> QED
      BY <2>1, <2>2, <2>3, <1>1, <1>10, <1>12, Enters
  <1>14. /\ IsSequence(tasks)
         /\ \A k \in DOMAIN tasks : TaskTyped(tasks[k]) /\ tasks[k][1] \in {"generate", "leave"}
    <2>1. PICK last : last = <<"leave", cur>>
      OBVIOUS
    <2>2. /\ IsSequence(tasks) /\ Len(tasks) = Len(inside) + 1 /\ Len(inside) \in Nat
          /\ \A k \in 1 .. Len(inside) : tasks[k] = inside[k]
          /\ tasks[Len(inside) + 1] = last
      BY <2>1, <1>10, <1>11, WithLast
    <2>3. ASSUME NEW k \in DOMAIN tasks PROVE TaskTyped(tasks[k]) /\ tasks[k][1] \in {"generate", "leave"}
      <3>1. CASE k \in 1 .. Len(inside)
        <4>1. tasks[k] = inside[k] /\ k \in DOMAIN inside
          BY <3>1, <2>2, <1>10, IsSequenceFacts
        <4> QED
          BY <4>1, <1>10 DEF TaskTyped
      <3>2. CASE k = Len(inside) + 1
        <4>1. tasks[k][1] = "leave"
          BY <3>2, <2>1, <2>2
        <4> QED
          BY <4>1 DEF TaskTyped
      <3>3. k \in 1 .. Len(inside) + 1
        BY <2>2, IsSequenceFacts
      <3> QED
        BY <3>1, <3>2, <3>3, <2>2
    <2> QED
      BY <2>2, <2>3
  <1>15. Kept /\ emitted \subseteq emitted'
    BY <1>12 DEF Kept
  <1>16. Known(temporary)' /\ \A name \in DOMAIN vars' : Known(vars[name])'
    BY <1>1, <1>12, <1>15, StillKnown
  <1>17. BodiesInPlace' /\ \A i \in emitted' : i \in emitted
    BY <1>12 DEF IInv, BodiesInPlace
  <1>18. \A k \in DOMAIN tasks : tasks[k][1] \in {"generate", "leave"} \cup Inner /\ tasks[k][1] # "construct"
    BY <1>14
  <1> QED
    BY <1>1, <1>12, <1>13, <1>14, <1>15, <1>16, <1>17, <1>18, GeneratesOn

\* The current class is that of the task, or was left behind by an error.
LEMMA CurrentClass ==
  ASSUME IInv, ~ reported, agenda # <<>>, agenda[1][1] = "generate"
  PROVE  cur = agenda[1][3]
  <1>1. Len(agenda) \in Nat \ {0} /\ DOMAIN agenda = 1 .. Len(agenda)
    BY HeadFacts DEF IInv
  <1>2. CASE InUnit
    BY <1>1, <1>2 DEF InUnit, Top
  <1>3. CASE \E k \in DOMAIN agenda : InClassUntil(k)
    <2>1. PICK k \in DOMAIN agenda : InClassUntil(k)
      BY <1>3
    <2>2. agenda[k] = <<"leave", None>>
      BY <2>1 DEF InClassUntil
    <2>3. k # 1
      BY <2>2
    <2>4. 1 \in 1 .. k - 1
      BY <2>3, <1>1
    <2>5. Member(agenda[1], cur)
      BY <2>1, <2>4 DEF InClassUntil
    <2> QED
      BY <2>5 DEF Member
  <1> QED
    BY <1>2, <1>3 DEF IInv, Placed

LEMMA GenerateFunctionStep == IInv /\ GenerateFunction => IInv'
  <1> SUFFICES ASSUME IInv, GenerateFunction PROVE IInv'
    OBVIOUS
  <1>1. /\ agenda # <<>> /\ Task = agenda[1] /\ agenda[1][1] = "generate"
        /\ TaskTyped(agenda[1]) /\ Generating
    BY GeneratingHead DEF GenerateFunction
  <1>2. PICK item : item = agenda[1][2]
    OBVIOUS
  <1>3. item.kind = "function" /\ IsFunction(item)
    BY <1>1, <1>2 DEF GenerateFunction, TaskTyped, IsClass
  <1> DEFINE into == IF cur # None THEN Found(item.name) ELSE Global(item.name)
  <1>4. CASE GiveUp("terminated") /\ UNCHANGED genVars
    <2>1. UNCHANGED <<registryVars, cur, genVars>>
      BY <1>4 DEF GenerateFunction
    <2> QED
      BY <1>4, <2>1, GivesUp
  <1>5. CASE /\ into # {}
             /\ bodies' = bodies \cup {[class |-> Task[3], declared |-> Task[2], into |-> CHOOSE f \in into : TRUE]}
             /\ vars' = [name \in IF cur = None THEN {} ELSE {"this"} |-> Value(None, None, cur)]
             /\ Continue(Task[2].body \o <<<<"end function">>>>)
             /\ UNCHANGED <<temporary, emitted>>
    <2>1. PICK tasks : tasks = item.body \o <<<<"end function">>>>
      OBVIOUS
    <2>2. /\ agenda' = tasks \o Tail(agenda) /\ cur' = cur /\ reported' = reported /\ pass' = pass
          /\ UNCHANGED <<classes, temporary, emitted>>
      BY <1>1, <1>2, <1>5, <2>1 DEF GenerateFunction, Continue, registryVars
    <2>3. IsSequence(tasks) /\ \A k \in DOMAIN tasks : tasks[k][1] \in Inner \ {"construct"}
      <3>1. PICK last : last = <<"end function">>
        OBVIOUS
      <3>2. IsSequence(item.body) /\ \A k \in DOMAIN item.body : item.body[k][1] \in Uses
        BY <1>3 DEF IsFunction, IsSequence
      <3>3. /\ IsSequence(tasks) /\ Len(tasks) = Len(item.body) + 1 /\ Len(item.body) \in Nat
            /\ \A k \in 1 .. Len(item.body) : tasks[k] = item.body[k]
            /\ tasks[Len(item.body) + 1] = last
        BY <3>1, <3>2, <2>1, WithLast
      <3>4. ASSUME NEW k \in DOMAIN tasks PROVE tasks[k][1] \in Inner \ {"construct"}
        <4>1. CASE k \in 1 .. Len(item.body)
          <5>1. tasks[k] = item.body[k] /\ k \in DOMAIN item.body
            BY <4>1, <3>2, <3>3, IsSequenceFacts
          <5> QED
            BY <5>1, <3>2 DEF Inner, Uses
        <4>2. CASE k = Len(item.body) + 1
          <5>1. tasks[k] = last
            BY <4>2, <3>3
          <5>2. last[1] = "end function"
            BY <3>1
          <5> QED
            BY <5>1, <5>2 DEF Inner, Uses
        <4>3. k \in 1 .. Len(item.body) + 1
          BY <3>3, IsSequenceFacts
        <4> QED
          BY <4>1, <4>2, <4>3, <3>3
      <3> QED
        BY <3>3, <3>4
    <2>4. Kept /\ emitted \subseteq emitted'
      BY <2>2 DEF Kept
    <2>5. Known(temporary)'
      BY <1>1, <2>2, <2>4, StillKnown
    <2>6. \A name \in DOMAIN vars' : Known(vars[name])'
      <3>1. \A name \in DOMAIN vars' : vars'[name] = Value(None, None, cur)
        BY <1>5
      <3>2. \A name \in DOMAIN vars' : vars'[name].pointed = None
        BY <3>1 DEF Value
      <3> QED
        BY <3>2 DEF Known
    <2>7. BodiesInPlace'
      <3> SUFFICES ASSUME ~ reported, NEW b \in bodies' PROVE b.into = <<b.class, b.declared.name>>
        BY <2>2 DEF BodiesInPlace
      <3>1. CASE b \in bodies
        BY <3>1 DEF IInv, BodiesInPlace
      <3>2. CASE b \notin bodies
        <4>0. PICK found : found = CHOOSE f \in into : TRUE
          OBVIOUS
        <4>1. b.class = agenda[1][3] /\ b.declared = item /\ b.into = found
          <5>1. bodies' = bodies \cup {[class |-> Task[3], declared |-> Task[2], into |-> found]}
            BY <4>0, <1>5
          <5>2. b = [class |-> agenda[1][3], declared |-> item, into |-> found]
            BY <5>1, <3>2, <1>1, <1>2
          <5> QED
            BY <5>2
        <4>2. b.class = cur
          BY <4>1, <1>1, CurrentClass
        <4>3. CASE cur # None
          <5>1. into = Found(item.name)
            BY <4>3
          <5>2. cur \in DOMAIN classes /\ item.name \in DOMAIN classes[cur].methods
            BY <5>1, <1>5 DEF Found
          <5>3. into = {classes[cur].methods[item.name]}
            BY <5>1, <5>2 DEF Found
          <5>4. Filled(cur, item.name)
            <6>1. pass' = pass
              BY <2>2
            <6> QED
              BY <5>2, <6>1, <1>1, <2>4, KeptFacts
          <5>5. classes[cur].methods[item.name] = <<cur, item.name>>
            BY <5>4 DEF Filled
          <5>6. b.into = classes[cur].methods[item.name]
            BY <4>0, <4>1, <5>3
          <5> QED
            BY <4>1, <4>2, <5>5, <5>6
        <4>4. CASE cur = None
          <5>1. into = {<<None, item.name>>}
            BY <4>4, <1>5 DEF Global
          <5>2. b.into = <<None, item.name>>
            BY <4>0, <4>1, <5>1
          <5> QED
            BY <4>1, <4>2, <4>4, <5>2
        <4> QED
          BY <4>3, <4>4
      <3> QED
        BY <3>1, <3>2
    <2>8. \A k \in DOMAIN tasks : tasks[k][1] \in Inner /\ tasks[k][1] # "construct"
      BY <2>3
    <2>9. \A i \in emitted' : i \in emitted
      BY <2>2
    <2>10. agenda[1][1] # "leave"
      BY <1>1
    <2> QED
      BY <1>1, <2>2, <2>3, <2>4, <2>5, <2>6, <2>7, <2>8, <2>9, <2>10, GeneratingStep
  <1> QED
    BY <1>1, <1>2, <1>4, <1>5 DEF GenerateFunction


LEMMA EndFunctionStep == IInv /\ EndFunction => IInv'
  <1> SUFFICES ASSUME IInv, EndFunction PROVE IInv'
    OBVIOUS
  <1>1. agenda # <<>> /\ Generating /\ agenda[1][1] # "leave"
    <2>1. "end function" \in {"generate"} \cup Inner /\ Doing("end function")
      BY DEF Inner, EndFunction
    <2> QED
      BY <2>1, GeneratingHead
  <1>2. /\ Continue(<< >>) /\ UNCHANGED <<classes, cur, temporary, bodies, emitted>>
        /\ vars' = << >>
    BY DEF EndFunction, registryVars
  <1>3. Kept /\ emitted \subseteq emitted' /\ pass' = pass
    BY <1>2 DEF Kept, Continue
  <1>4. Known(temporary)' /\ DOMAIN vars' = {}
    BY <1>1, <1>2, <1>3, StillKnown, EmptyFacts
  <1>5. UNCHANGED <<cur, bodies>> /\ \A i \in emitted' : i \in emitted
    BY <1>2
  <1> QED
    BY <1>1, <1>2, <1>3, <1>4, <1>5, UsingStep

LEMMA PairFacts ==
  ASSUME NEW d, NEW e
  PROVE  IsSequence(<<d, e>>) /\ ToSet(<<d, e>>) = {d, e}
  <1> DEFINE s == <<d, e>>
  <1>1. s \in Seq({d, e}) /\ DOMAIN s = {1, 2} /\ s[1] = d /\ s[2] = e
    OBVIOUS
  <1> HIDE DEF s
  <1>2. IsSequence(s)
    BY <1>1, IsSequenceOf
  <1>3. ToSet(s) = {d, e}
    BY <1>1 DEF ToSet
  <1> QED
    BY <1>2, <1>3 DEF s

\* The initial values of the attributes given, each made and stored.
LEMMA InitialTasks ==
  ASSUME NEW given, IsSequence(given), NEW initial, NEW c, NEW ss,
         ss = [k \in DOMAIN given |-> <<<<"new", initial[given[k]]>>, <<"initialise", c>>>>]
  PROVE  /\ IsSequence(FlattenSeq(ss))
         /\ \A k \in DOMAIN FlattenSeq(ss) : FlattenSeq(ss)[k][1] \in {"new", "initialise"}
  <1>1. Len(given) \in Nat /\ DOMAIN given = 1 .. Len(given)
    BY IsSequenceFacts
  <1>2. DOMAIN ss = DOMAIN given
        /\ \A k \in DOMAIN given : ss[k] = <<<<"new", initial[given[k]]>>, <<"initialise", c>>>>
    OBVIOUS
  <1>3. IsSequence(ss)
    <2>1. ss = [k \in DOMAIN ss |-> ss[k]]
      BY <1>2
    <2>2. ss = [k \in 1 .. Len(given) |-> ss[k]]
      BY <1>1, <1>2, <2>1
    <2> QED
      BY <1>1, <2>2, IsSequenceFunction
  <1>4. ASSUME NEW k \in DOMAIN ss
        PROVE  IsSequence(ss[k]) /\ \A e \in ToSet(ss[k]) : e[1] \in {"new", "initialise"}
    <2>1. PICK d, e : d = <<"new", initial[given[k]]>> /\ e = <<"initialise", c>>
      OBVIOUS
    <2>2. ss[k] = <<d, e>>
      BY <1>2, <2>1
    <2>3. IsSequence(ss[k]) /\ ToSet(ss[k]) = {d, e}
      BY <2>2, PairFacts
    <2>4. d[1] = "new" /\ e[1] = "initialise"
      BY <2>1
    <2> QED
      BY <2>3, <2>4
  <1>5. /\ IsSequence(FlattenSeq(ss))
        /\ \A e : e \in ToSet(FlattenSeq(ss)) <=> \E k \in DOMAIN ss : e \in ToSet(ss[k])
    BY <1>3, <1>4, FlattenFacts
  <1>6. PICK flat : flat = FlattenSeq(ss)
    OBVIOUS
  <1>7. \A k \in DOMAIN flat : flat[k] \in ToSet(flat)
    BY DEF ToSet
  <1> QED
    BY <1>4, <1>5, <1>6, <1>7

LEMMA VisitNewStep == IInv /\ VisitNew => IInv'
  <1> SUFFICES ASSUME IInv, VisitNew PROVE IInv'
    OBVIOUS
  <1>1. agenda # <<>> /\ Generating /\ agenda[1][1] # "leave"
    <2>1. "new" \in {"generate"} \cup Inner /\ Doing("new")
      BY DEF Inner, Uses, VisitNew
    <2> QED
      BY <2>1, GeneratingHead
  <1>2. UNCHANGED <<registryVars, cur, vars, temporary, bodies>>
    BY DEF VisitNew
  <1>3. PICK c : c = Task[2]
    OBVIOUS
  <1>4. ASSUME NEW how, GiveUp(how), UNCHANGED emitted PROVE IInv'
    BY <1>2, <1>4, GivesUp DEF genVars
  <1> DEFINE given == Sorted({a \in DOMAIN classes[c].initial : classes[c].initial[a] # None})
             ss == [k \in DOMAIN given |-> <<<<"new", classes[c].initial[given[k]]>>, <<"initialise", c>>>>]
  <1>5. CASE /\ c \in DOMAIN classes
             /\ emitted' = IF classes[c].table = None THEN emitted
                           ELSE emitted \cup {[op |-> "set vptr", class |-> c]}
             /\ Continue(FlattenSeq(ss) \o <<<<"construct", c>>>>)
    <2>1. IsSequence(given)
      <3>1. IsSequence(Order)
        BY NameAssumption DEF IsSequence
      <3> QED
        BY <3>1, OnlyFacts DEF Sorted
    <2>2. PICK flat : flat = FlattenSeq(ss)
      OBVIOUS
    <2>3. IsSequence(flat) /\ \A k \in DOMAIN flat : flat[k][1] \in {"new", "initialise"}
      <3>1. PICK g, initial, tt : g = given /\ initial = classes[c].initial /\ tt = ss
        OBVIOUS
      <3>2. tt = [k \in DOMAIN g |-> <<<<"new", initial[g[k]]>>, <<"initialise", c>>>>]
        BY <3>1
      <3>3. IsSequence(g)
        BY <2>1, <3>1
      <3>4. IsSequence(FlattenSeq(tt)) /\ \A k \in DOMAIN FlattenSeq(tt) : FlattenSeq(tt)[k][1] \in {"new", "initialise"}
        BY <3>2, <3>3, InitialTasks
      <3> QED
        BY <2>2, <3>1, <3>4
    <2>4. PICK tasks, last : tasks = flat \o <<<<"construct", c>>>> /\ last = <<"construct", c>>
      OBVIOUS
    <2>5. /\ agenda' = tasks \o Tail(agenda) /\ reported' = reported /\ pass' = pass /\ cur' = cur
          /\ UNCHANGED <<classes, vars, temporary, bodies>>
      BY <1>2, <1>5, <2>2, <2>4 DEF Continue, registryVars
    <2> HIDE DEF given, ss
    <2>6. Kept /\ emitted \subseteq emitted'
      BY <1>5, <2>5 DEF Kept
    <2>7. Equipped(c)'
      BY <1>5, <2>5 DEF Equipped
    <2>8. /\ IsSequence(tasks)
          /\ \A k \in DOMAIN tasks : tasks[k][1] \in Inner /\ (tasks[k][1] = "construct" => tasks[k][2] = c)
      <3>1. /\ IsSequence(tasks) /\ Len(tasks) = Len(flat) + 1 /\ Len(flat) \in Nat
            /\ \A k \in 1 .. Len(flat) : tasks[k] = flat[k]
            /\ tasks[Len(flat) + 1] = last
        BY <2>3, <2>4, WithLast
      <3>2. ASSUME NEW k \in DOMAIN tasks
            PROVE  tasks[k][1] \in Inner /\ (tasks[k][1] = "construct" => tasks[k][2] = c)
        <4>1. k \in 1 .. Len(flat) + 1
          BY <3>1, IsSequenceFacts
        <4>2. CASE k \in 1 .. Len(flat)
          <5>1. tasks[k] = flat[k] /\ k \in DOMAIN flat
            BY <4>2, <2>3, <3>1, IsSequenceFacts
          <5>2. tasks[k][1] \in {"new", "initialise"}
            BY <5>1, <2>3
          <5> QED
            BY <5>2 DEF Inner, Uses
        <4>3. CASE k = Len(flat) + 1
          <5>1. tasks[k] = last
            BY <4>3, <3>1
          <5>2. last[1] = "construct" /\ last[2] = c
            BY <2>4
          <5> QED
            BY <5>1, <5>2 DEF Inner, Uses
        <4> QED
          BY <4>1, <4>2, <4>3, <3>1
      <3> QED
        BY <3>1, <3>2
    <2>9. \A k \in DOMAIN tasks : tasks[k][1] \in Inner /\ (tasks[k][1] = "construct" => Equipped(tasks[k][2])')
      BY <2>7, <2>8 DEF Equipped
    <2>10. Known(temporary)' /\ \A name \in DOMAIN vars' : Known(vars[name])'
      BY <1>1, <2>5, <2>6, StillKnown
    <2>11. ASSUME NEW i \in emitted', i \notin emitted PROVE SoundDispatch(i)'
      <3>1. i = [op |-> "set vptr", class |-> c]
        BY <1>5, <2>11
      <3>2. i.op # "dispatch"
        BY <3>1
      <3> QED
        BY <3>2 DEF SoundDispatch
    <2>12. BodiesInPlace'
      BY <2>5 DEF IInv, BodiesInPlace
    <2> QED
      BY <1>1, <2>5, <2>6, <2>8, <2>9, <2>10, <2>11, <2>12, GeneratingStep
  <1> QED
    BY <1>3, <1>4, <1>5 DEF VisitNew

LEMMA InitialiseStep == IInv /\ Initialise => IInv'
  <1> SUFFICES ASSUME IInv, Initialise PROVE IInv'
    OBVIOUS
  <1>1. agenda # <<>> /\ Generating /\ agenda[1][1] # "leave"
    <2>1. "initialise" \in {"generate"} \cup Inner /\ Doing("initialise")
      BY DEF Inner, Initialise
    <2> QED
      BY <2>1, GeneratingHead
  <1>2. Continue(<< >>) /\ UNCHANGED <<cur, vars, temporary, bodies>> /\ pass' = pass
    BY DEF Initialise, Continue
  <1>3. PICK indexes : classes' \in {classes, [classes EXCEPT ![Task[2]].indexes = indexes]}
    <2>1. CASE UNCHANGED <<classes, emitted>>
      BY <2>1
    <2>2. CASE \E index : classes' = [classes EXCEPT ![Task[2]].indexes = @ \cup {index}]
      <3>1. PICK index : classes' = [classes EXCEPT ![Task[2]].indexes = @ \cup {index}]
        BY <2>2
      <3>2. PICK indexes : indexes = classes[Task[2]].indexes \cup {index}
        OBVIOUS
      <3> QED
        BY <3>1, <3>2
    <2> QED
      BY <2>1, <2>2 DEF Initialise
  <1>4. PICK instruction : emitted' \in {emitted, emitted \cup {instruction}} /\ instruction.op # "dispatch"
    <2>1. PICK index : UNCHANGED emitted \/ Emit([op |-> "store", class |-> Task[2], index |-> index])
      BY DEF Initialise
    <2>2. PICK instruction : instruction = [op |-> "store", class |-> Task[2], index |-> index]
      OBVIOUS
    <2> QED
      BY <2>1, <2>2 DEF Emit
  <1>5. Kept /\ emitted \subseteq emitted'
    <2>1. DOMAIN classes' = DOMAIN classes
      BY <1>3
    <2>2. ASSUME NEW c \in DOMAIN classes
          PROVE  /\ DOMAIN classes'[c] = DOMAIN classes[c]
                 /\ classes'[c].methods = classes[c].methods
                 /\ classes'[c].slots = classes[c].slots
                 /\ classes'[c].table = classes[c].table
      <3>1. DOMAIN classes[c] = Fields
        BY DEF IInv, ClassesTyped
      <3> QED
        BY <3>1, <1>3 DEF Fields
    <2> QED
      BY <2>1, <2>2, <1>4 DEF Kept
  <1>6. Known(temporary)' /\ \A name \in DOMAIN vars' : Known(vars[name])'
    BY <1>1, <1>2, <1>5, StillKnown
  <1>7. \A i \in emitted' : i \in emitted \/ SoundDispatch(i)'
    BY <1>4 DEF SoundDispatch
  <1>8. UNCHANGED <<cur, bodies>>
    BY <1>2
  <1> QED
    BY <1>1, <1>2, <1>5, <1>6, <1>7, <1>8, UsingStep

LEMMA ConstructStep == IInv /\ Construct => IInv'
  <1> SUFFICES ASSUME IInv, Construct PROVE IInv'
    OBVIOUS
  <1>1. /\ agenda # <<>> /\ Generating /\ agenda[1][1] = "construct" /\ agenda[1][1] # "leave"
        /\ Task = agenda[1]
    <2>1. "construct" \in {"generate"} \cup Inner /\ Doing("construct")
      BY DEF Inner, Construct
    <2> QED
      BY <2>1, GeneratingHead
  <1>2. Continue(<< >>) /\ UNCHANGED <<registryVars, cur, vars, bodies>>
    BY DEF Construct
  <1>3. PICK instruction :
          instruction = [op |-> "call", function |-> classes[Task[2]].methods[Task[2]], this |-> TRUE]
    OBVIOUS
  <1>4. emitted' \in {emitted, emitted \cup {instruction}} /\ instruction.op # "dispatch"
    BY <1>3 DEF Construct
  <1>5. Known(temporary')
    <2>1. Equipped(Task[2])
      <3>1. 1 \in DOMAIN agenda
        BY <1>1, HeadFacts DEF IInv
      <3>2. agenda[1][1] = "construct" => Equipped(agenda[1][2])
        BY <3>1 DEF IInv, ObjectsKnown
      <3> QED
        BY <3>2, <1>1
    <2>2. temporary'.pointed = Task[2] /\ temporary'.object = Task[2]
      BY DEF Construct, Value
    <2> QED
      BY <2>1, <2>2 DEF Known
  <1> QED
    BY <1>1, <1>2, <1>4, <1>5, PlainUse

LEMMA DeclareStep == IInv /\ Declare => IInv'
  <1> SUFFICES ASSUME IInv, Declare PROVE IInv'
    OBVIOUS
  <1>1. agenda # <<>> /\ Generating /\ agenda[1][1] # "leave"
    <2>1. "dec" \in {"generate"} \cup Inner /\ Doing("dec")
      BY DEF Inner, Uses, Declare
    <2> QED
      BY <2>1, GeneratingHead
  <1>2. UNCHANGED <<registryVars, cur, temporary, bodies, emitted>>
    BY DEF Declare
  <1>3. CASE Report /\ UNCHANGED vars
    BY <1>1, <1>2, <1>3, ReportStep DEF genVars
  <1>4. CASE /\ vars' = With(vars, Task[2], Value(Task[3], temporary.pointed, temporary.object))
             /\ Continue(<< >>)
    <2>1. Kept /\ emitted \subseteq emitted' /\ pass' = pass /\ temporary' = temporary
      BY <1>2, <1>4 DEF Kept, registryVars, Continue
    <2>2. Known(temporary)' /\ \A v : Known(v) => Known(v)'
      BY <1>1, <2>1, StillKnown, KeptFacts
    <2>3. PICK new, key : new = Value(Task[3], temporary.pointed, temporary.object) /\ key = Task[2]
      OBVIOUS
    <2>4. Known(new)
      <3>1. Known(temporary)
        BY DEF IInv, ObjectsKnown
      <3>2. new.pointed = temporary.pointed /\ new.object = temporary.object
        BY <2>3 DEF Value
      <3> QED
        BY <3>1, <3>2 DEF Known
    <2>5. vars' = With(vars, key, new)
      BY <1>4, <2>3
    <2>6. ASSUME NEW name \in DOMAIN vars' PROVE Known(vars[name])'
      <3>1. PICK v : v = vars'[name]
        OBVIOUS
      <3>2. v = new \/ (name \in DOMAIN vars /\ v = vars[name])
        BY <2>5, <3>1 DEF With
      <3>3. Known(v)
        BY <2>4, <3>2 DEF IInv, ObjectsKnown
      <3>4. Known(v)'
        BY <2>2, <3>3
      <3> QED
        BY <3>1, <3>4 DEF Known, Equipped
    <2>7. UNCHANGED <<cur, bodies>> /\ \A i \in emitted' : i \in emitted
      BY <1>2
    <2> QED
      BY <1>1, <1>4, <2>1, <2>2, <2>6, <2>7, UsingStep
  <1> QED
    BY <1>3, <1>4 DEF Declare

\* What is found under a name is a variable, or nothing is known of it.
LEMMA AddressedKnown ==
  ASSUME IInv, NEW name, NEW v \in Addressed(name), v # None
  PROVE  v.object = None \/ Known(v)
  <1>1. CASE name \in DOMAIN vars
    BY <1>1 DEF Addressed, IInv, ObjectsKnown
  <1>2. CASE name \notin DOMAIN vars
    <2>1. PICK type : v = Value(type, None, None)
      BY <1>2 DEF Addressed
    <2> QED
      BY <2>1 DEF Value
  <1> QED
    BY <1>1, <1>2

LEMMA CallObjectStep == IInv /\ CallObject => IInv'
  <1> SUFFICES ASSUME IInv, CallObject PROVE IInv'
    OBVIOUS
  <1>1. agenda # <<>> /\ Generating /\ agenda[1][1] # "leave"
    <2>1. "call" \in {"generate"} \cup Inner /\ Doing("call")
      BY DEF Inner, Uses, CallObject
    <2> QED
      BY <2>1, GeneratingHead
  <1>2. UNCHANGED <<registryVars, cur, vars, bodies>>
    BY DEF CallObject
  <1>3. ASSUME NEW how, GiveUp(how), UNCHANGED <<temporary, emitted>> PROVE IInv'
    BY <1>2, <1>3, GivesUp DEF genVars
  <1>4. PICK v \in Addressed(Task[2]) :
          IF v = None THEN GiveUp("terminated") /\ UNCHANGED <<temporary, emitted>>
          ELSE LET name == getClassNameFromSymbol(v)
                   c == classes[name]
               IN IF v.type # None /\ v.pointed = None THEN GiveUp("crash") /\ UNCHANGED <<temporary, emitted>>
                  ELSE IF name = None \/ Task[3] \notin DOMAIN c.methods
                    THEN GiveUp("terminated") /\ UNCHANGED <<temporary, emitted>>
                  ELSE IF c.table = None THEN GiveUp("crash") /\ UNCHANGED <<temporary, emitted>>
                  ELSE /\ Continue(<< >>)
                       /\ IF Task[3] = name
                            THEN /\ Emit([op |-> "call", function |-> c.methods[Task[3]], this |-> TRUE])
                                 /\ UNCHANGED temporary
                            ELSE /\ Emit([op |-> "dispatch", on |-> v, method |-> Task[3],
                                          slot |-> IF Task[3] \in DOMAIN c.slots THEN c.slots[Task[3]] ELSE 0])
                                 /\ Called
    BY DEF CallObject
  <1> DEFINE method == Task[3]
             name == getClassNameFromSymbol(v)
  <1>5. CASE (GiveUp("terminated") \/ GiveUp("crash")) /\ UNCHANGED <<temporary, emitted>>
    BY <1>3, <1>5
  <1>6. CASE /\ Continue(<< >>)
             /\ Emit([op |-> "call", function |-> classes[name].methods[method], this |-> TRUE])
             /\ UNCHANGED temporary
    <2>1. PICK instruction : instruction = [op |-> "call", function |-> classes[name].methods[method], this |-> TRUE]
      OBVIOUS
    <2>2. emitted' \in {emitted, emitted \cup {instruction}} /\ instruction.op # "dispatch"
      BY <1>6, <2>1 DEF Emit
    <2>3. temporary' = temporary
      BY <1>6
    <2> QED
      BY <1>1, <1>2, <1>6, <2>2, <2>3, PlainUse
  <1>7. CASE /\ v # None /\ ~ (v.type # None /\ v.pointed = None)
             /\ name # None /\ method \in DOMAIN classes[name].methods /\ classes[name].table # None
             /\ Continue(<< >>)
             /\ method # name
             /\ Emit([op |-> "dispatch", on |-> v, method |-> method,
                      slot |-> IF method \in DOMAIN classes[name].slots THEN classes[name].slots[method] ELSE 0])
             /\ Called
    <2>1. PICK slot : slot = IF method \in DOMAIN classes[name].slots THEN classes[name].slots[method] ELSE 0
      OBVIOUS
    <2>2. PICK i : i = [op |-> "dispatch", on |-> v, method |-> method, slot |-> slot]
      OBVIOUS
    <2>3. emitted' = emitted \cup {i}
      BY <1>7, <2>1, <2>2 DEF Emit
    <2>4. Kept /\ emitted \subseteq emitted' /\ pass' = pass
      BY <1>2, <1>7, <2>3 DEF Kept, registryVars, Continue
    <2>5. name \in DOMAIN classes /\ (v.type # None => name = v.type) /\ (v.type = None => name = v.pointed)
      BY <1>4, <1>7 DEF getClassNameFromSymbol
    <2>6. SoundDispatch(i)
      <3> SUFFICES ASSUME v.object # None, v.type \in {None, v.object}
                   PROVE  /\ v.object \in DOMAIN classes
                          /\ [op |-> "set vptr", class |-> v.object] \in emitted
                          /\ slot \in DOMAIN classes[v.object].table
                          /\ classes[v.object].table[slot] = <<v.object, method>>
        BY <2>2 DEF SoundDispatch
      <3>1. v.pointed # None
        BY <1>7, <2>5
      <3>2. v.pointed = v.object /\ Equipped(v.object)
        BY <1>7, <3>1, AddressedKnown DEF Known
      <3>3. name = v.object
        BY <2>5, <3>2
      <3>4. [op |-> "set vptr", class |-> v.object] \in emitted
        BY <1>7, <3>2, <3>3 DEF Equipped
      <3>5. Filled(name, method)
        BY <1>1, <1>7, <2>4, <2>5, KeptFacts
      <3>6. Slotted(classes[name], name, method)
        BY <1>7, <3>5 DEF Filled
      <3> QED
        BY <2>1, <2>5, <3>3, <3>4, <3>6 DEF Slotted
    <2>7. \A j \in emitted' : j \in emitted \/ SoundDispatch(j)'
      BY <1>1, <2>3, <2>4, <2>6, KeptFacts
    <2>8. Known(temporary)'
      BY <1>7 DEF Called, Value, Known
    <2>9. \A n \in DOMAIN vars' : Known(vars[n])'
      BY <1>1, <1>2, <2>4, StillKnown
    <2>10. UNCHANGED <<cur, bodies>>
      BY <1>2
    <2> QED
      BY <1>1, <1>7, <2>4, <2>7, <2>8, <2>9, <2>10, UsingStep
  <1> QED
    BY <1>4, <1>5, <1>6, <1>7

LEMMA CallFunctionStep == IInv /\ CallFunction => IInv'
  <1> SUFFICES ASSUME IInv, CallFunction PROVE IInv'
    OBVIOUS
  <1>1. agenda # <<>> /\ Generating /\ agenda[1][1] # "leave"
    <2>1. "call function" \in {"generate"} \cup Inner /\ Doing("call function")
      BY DEF Inner, Uses, CallFunction
    <2> QED
      BY <2>1, GeneratingHead
  <1>2. UNCHANGED <<registryVars, cur, vars, bodies>>
    BY DEF CallFunction
  <1>3. CASE GiveUp("terminated") /\ UNCHANGED <<temporary, emitted>>
    BY <1>2, <1>3, GivesUp DEF genVars
  <1>4. CASE \E f : Emit([op |-> "call", function |-> f, this |-> FALSE]) /\ Called /\ Continue(<< >>)
    <2>1. PICK f : Emit([op |-> "call", function |-> f, this |-> FALSE]) /\ Called /\ Continue(<< >>)
      BY <1>4
    <2>2. PICK instruction : instruction = [op |-> "call", function |-> f, this |-> FALSE]
      OBVIOUS
    <2>3. emitted' \in {emitted, emitted \cup {instruction}} /\ instruction.op # "dispatch"
      BY <2>1, <2>2 DEF Emit
    <2>4. temporary'.object = None
      BY <2>1 DEF Called, Value
    <2> QED
      BY <1>1, <1>2, <2>1, <2>3, <2>4, PlainUse
  <1> QED
    BY <1>3, <1>4 DEF CallFunction

LEMMA AccessAttributeStep == IInv /\ AccessAttribute => IInv'
  <1> SUFFICES ASSUME IInv, AccessAttribute PROVE IInv'
    OBVIOUS
  <1>1. agenda # <<>> /\ Generating /\ agenda[1][1] # "leave"
    <2>1. "attribute" \in {"generate"} \cup Inner /\ Doing("attribute")
      BY DEF Inner, Uses, AccessAttribute
    <2> QED
      BY <2>1, GeneratingHead
  <1>2. UNCHANGED <<registryVars, cur, vars, bodies>>
    BY DEF AccessAttribute
  <1>3. CASE GiveUp("terminated") /\ UNCHANGED <<temporary, emitted>>
    BY <1>2, <1>3, GivesUp DEF genVars
  <1>4. CASE \E class, index, type :
               /\ Emit([op |-> "load", class |-> class, index |-> index])
               /\ temporary' = Value(type, None, None) /\ Continue(<< >>)
    <2>1. PICK class, index, type :
            /\ Emit([op |-> "load", class |-> class, index |-> index])
            /\ temporary' = Value(type, None, None) /\ Continue(<< >>)
      BY <1>4
    <2>2. PICK instruction : instruction = [op |-> "load", class |-> class, index |-> index]
      OBVIOUS
    <2>3. emitted' \in {emitted, emitted \cup {instruction}} /\ instruction.op # "dispatch"
      BY <2>1, <2>2 DEF Emit
    <2>4. temporary'.object = None
      BY <2>1 DEF Value
    <2> QED
      BY <1>1, <1>2, <2>1, <2>3, <2>4, PlainUse
  <1> QED
    BY <1>3, <1>4 DEF AccessAttribute

LEMMA LoadNameStep == IInv /\ LoadName => IInv'
  <1> SUFFICES ASSUME IInv, LoadName PROVE IInv'
    OBVIOUS
  <1>1. agenda # <<>> /\ Generating /\ agenda[1][1] # "leave"
    <2>1. "name" \in {"generate"} \cup Inner /\ Doing("name")
      BY DEF Inner, Uses, LoadName
    <2> QED
      BY <2>1, GeneratingHead
  <1>2. UNCHANGED <<registryVars, cur, vars, bodies>>
    BY DEF LoadName
  <1>3. PICK v \in Addressed(Task[2]) :
          \/ GiveUp("terminated") /\ UNCHANGED <<temporary, emitted>>
          \/ /\ v # None /\ temporary' = v /\ Continue(<< >>)
             /\ \/ UNCHANGED emitted
                \/ \E index : Emit([op |-> "load", class |-> cur, index |-> index])
    BY DEF LoadName
  <1>4. CASE GiveUp("terminated") /\ UNCHANGED <<temporary, emitted>>
    BY <1>2, <1>4, GivesUp DEF genVars
  <1>5. CASE /\ v # None /\ temporary' = v /\ Continue(<< >>)
             /\ \/ UNCHANGED emitted
                \/ \E index : Emit([op |-> "load", class |-> cur, index |-> index])
    <2>1. temporary'.object = None \/ Known(temporary')
      <3>1. v.object = None \/ Known(v)
        BY <1>5, AddressedKnown
      <3> QED
        BY <1>5, <3>1 DEF Known, Equipped
    <2>2. PICK instruction : emitted' \in {emitted, emitted \cup {instruction}} /\ instruction.op # "dispatch"
      <3>1. PICK index : UNCHANGED emitted \/ Emit([op |-> "load", class |-> cur, index |-> index])
        BY <1>5
      <3>2. PICK instruction : instruction = [op |-> "load", class |-> cur, index |-> index]
        OBVIOUS
      <3> QED
        BY <3>1, <3>2 DEF Emit
    <2> QED
      BY <1>1, <1>2, <1>5, <2>1, <2>2, PlainUse
  <1> QED
    BY <1>3, <1>4, <1>5

LEMMA DeleteStep == IInv /\ Delete => IInv'
  <1> SUFFICES ASSUME IInv, Delete PROVE IInv'
    OBVIOUS
  <1>1. agenda # <<>> /\ Generating /\ agenda[1][1] # "leave"
    <2>1. "delete" \in {"generate"} \cup Inner /\ Doing("delete")
      BY DEF Inner, Uses, Delete
    <2> QED
      BY <2>1, GeneratingHead
  <1>2. UNCHANGED <<registryVars, cur, genVars>>
    BY DEF Delete
  <1>3. CASE Report
    BY <1>1, <1>2, <1>3, ReportStep
  <1>4. CASE Continue(<< >>)
    <2>1. PICK instruction : instruction = [op |-> "delete"]
      OBVIOUS
    <2>2. emitted' \in {emitted, emitted \cup {instruction}} /\ instruction.op # "dispatch"
      BY <1>2, <2>1 DEF genVars
    <2>3. UNCHANGED <<registryVars, cur, vars, bodies>> /\ temporary' = temporary
      BY <1>2 DEF genVars
    <2> QED
      BY <1>1, <1>4, <2>2, <2>3, PlainUse
  <1> QED
    BY <1>3, <1>4 DEF Delete

LEMMA FinishStep == IInv /\ Finish => IInv'
  <1> SUFFICES ASSUME IInv, Finish PROVE IInv'
    OBVIOUS
  <1>1. GiveUp("done") /\ UNCHANGED <<registryVars, cur, genVars>>
    BY DEF Finish, GiveUp
  <1> QED
    BY <1>1, GivesUp

---------------------------------------------------------------------------
(* The whole *)

LEMMA InitIInv == Init => IInv
  <1> SUFFICES ASSUME Init PROVE IInv
    OBVIOUS
  <1>1. PICK unit \in Units :
          agenda = Each("declare", unit) \o Each("layout", OfKind("class", unit)) \o <<<<"fill", unit>>>>
    BY DEF Init
  <1>2. IsSequence(unit) /\ \A k \in DOMAIN unit : IsClass(unit[k]) \/ IsFunction(unit[k])
    BY UnitAssumption DEF IsSequence
  <1>3. PICK declares, layouts :
          declares = Each("declare", unit) /\ layouts = Each("layout", OfKind("class", unit))
    OBVIOUS
  <1>4. /\ IsSequence(declares)
        /\ \A k \in DOMAIN declares : declares[k][1] = "declare" /\ (IsClass(declares[k][2]) \/ IsFunction(declares[k][2]))
    <2>1. /\ IsSequence(declares) /\ Len(declares) = Len(unit)
          /\ \A k \in 1 .. Len(unit) : declares[k] = <<"declare", unit[k]>>
      BY <1>2, <1>3, EachFacts
    <2>2. DOMAIN declares = 1 .. Len(unit) /\ DOMAIN unit = 1 .. Len(unit)
      BY <2>1, <1>2, IsSequenceFacts
    <2> QED
      BY <2>1, <2>2, <1>2
  <1>5. IsSequence(layouts) /\ \A k \in DOMAIN layouts : layouts[k][1] = "layout"
    <2>1. PICK these : these = OfKind("class", unit)
      OBVIOUS
    <2>2. IsSequence(these)
      BY <2>1, <1>2, OfKindFacts
    <2>3. /\ IsSequence(layouts) /\ Len(layouts) = Len(these)
          /\ \A k \in 1 .. Len(these) : layouts[k] = <<"layout", these[k]>>
      BY <2>1, <2>2, <1>3, EachFacts
    <2>4. DOMAIN layouts = 1 .. Len(these)
      BY <2>3, IsSequenceFacts
    <2> QED
      BY <2>3, <2>4
  <1>6. PICK inside : inside = declares \o layouts
    OBVIOUS
  <1>7. /\ IsSequence(inside)
        /\ \A k \in DOMAIN inside : TaskTyped(inside[k]) /\ inside[k][1] \in {"declare", "layout"}
    <2>1. IsSequence(inside) /\ ToSet(inside) = ToSet(declares) \cup ToSet(layouts)
      BY <1>4, <1>5, <1>6, ConcatenatedSet
    <2>2. ASSUME NEW k \in DOMAIN inside
          PROVE  (\E j \in DOMAIN declares : inside[k] = declares[j]) \/ \E j \in DOMAIN layouts : inside[k] = layouts[j]
      BY <2>1 DEF ToSet
    <2> QED
      BY <2>1, <2>2, <1>4, <1>5 DEF TaskTyped
  <1>8. PICK last : last = <<"fill", unit>>
    OBVIOUS
  <1>9. last[1] = "fill" /\ TaskTyped(last)
    <2>1. last[1] = "fill" /\ last[2] = unit
      BY <1>8
    <2> QED
      BY <2>1, <1>2 DEF TaskTyped, IsSequence
  <1>10. /\ IsSequence(agenda) /\ Len(agenda) = Len(inside) + 1 /\ Len(inside) \in Nat
         /\ \A k \in 1 .. Len(inside) : agenda[k] = inside[k]
         /\ agenda[Len(inside) + 1] = last
         /\ DOMAIN agenda = 1 .. Len(inside) + 1 /\ DOMAIN inside = 1 .. Len(inside)
    <2>1. agenda = inside \o <<last>>
      BY <1>1, <1>3, <1>6, <1>8
    <2>2. /\ IsSequence(agenda) /\ Len(agenda) = Len(inside) + 1 /\ Len(inside) \in Nat
          /\ \A k \in 1 .. Len(inside) : agenda[k] = inside[k]
          /\ agenda[Len(inside) + 1] = last
      BY <2>1, <1>7, WithLast
    <2> QED
      BY <2>2, <1>7, IsSequenceFacts
  <1>11. ASSUME NEW i \in DOMAIN agenda
         PROVE  TaskTyped(agenda[i]) /\ (i = Len(agenda) \/ agenda[i][1] \in {"declare", "layout"})
                /\ agenda[i][1] \in {"declare", "layout", "fill"}
    <2>1. CASE i \in 1 .. Len(inside)
      BY <2>1, <1>7, <1>10
    <2>2. CASE i = Len(inside) + 1
      BY <2>2, <1>9, <1>10
    <2> QED
      BY <2>1, <2>2, <1>10
  <1>12. AgendaTyped
    BY <1>10, <1>11 DEF AgendaTyped
  <1>13. /\ pass = 1 /\ cur = None /\ Quiet /\ classes = << >>
    BY DEF Init, Quiet
  <1>14. Declaring
    <2>1. agenda # <<>>
      <3>1. Len(agenda) # 0
        BY <1>10
      <3> QED
        BY <3>1
    <2>2. agenda[Len(agenda)][1] = "fill"
      BY <1>9, <1>10
    <2>3. ASSUME NEW i \in 1 .. Len(agenda) - 1 PROVE agenda[i][1] \in {"declare", "layout", "leave"}
      <3>1. i \in DOMAIN agenda /\ i # Len(agenda)
        BY <1>10
      <3> QED
        BY <3>1, <1>11
    <2> QED
      BY <1>13, <2>1, <2>2, <2>3 DEF Declaring
  <1>15. DOMAIN classes = {} /\ DOMAIN vars = {}
    BY <1>13, EmptyFacts DEF Quiet
  <1>16. ClassesTyped /\ MethodsFilled
    BY <1>15 DEF ClassesTyped, MethodsFilled
  <1>17. ObjectsKnown
    <2>1. \A i \in DOMAIN agenda : agenda[i][1] # "construct"
      BY <1>11
    <2>2. Known(temporary)
      BY <1>13 DEF Quiet, Known, Value
    <2> QED
      BY <2>1, <2>2, <1>15 DEF ObjectsKnown
  <1>18. DispatchesSound /\ BodiesInPlace
    BY <1>13 DEF Quiet, DispatchesSound, BodiesInPlace
  <1>19. Placed
    <2>1. \A i \in DOMAIN agenda : agenda[i][1] \notin {"leave", "generate"}
      BY <1>11
    <2> QED
      BY <2>1, <1>13 DEF Placed, InUnit, Top
  <1> QED
    BY <1>12, <1>14, <1>16, <1>17, <1>18, <1>19 DEF IInv, Phases

LEMMA NextIInv == IInv /\ [Next]_layoutVars => IInv'
  <1> SUFFICES ASSUME IInv, [Next]_layoutVars PROVE IInv'
    OBVIOUS
  <1>1. CASE UNCHANGED layoutVars
    <2>1. GiveUp(status) /\ UNCHANGED <<registryVars, cur, genVars>>
      BY <1>1 DEF layoutVars, GiveUp
    <2> QED
      BY <2>1, GivesUp
  <1>2. CASE RegisterClass \/ RegisterAttribute \/ RegisterMethod \/ RegisterGlobal \/ Leave \/ Layout
    BY <1>2, RegisterClassStep, RegisterAttributeStep, RegisterMethodStep, RegisterGlobalStep, LeaveStep, LayoutStep
  <1>3. CASE BeginFill \/ FillMethod \/ GenerateClass \/ GenerateFunction \/ EndFunction
    BY <1>3, BeginFillStep, FillMethodStep, GenerateClassStep, GenerateFunctionStep, EndFunctionStep
  <1>4. CASE VisitNew \/ Initialise \/ Construct \/ Declare
    BY <1>4, VisitNewStep, InitialiseStep, ConstructStep, DeclareStep
  <1>5. CASE CallObject \/ CallFunction \/ AccessAttribute \/ LoadName \/ Delete \/ Finish
    BY <1>5, CallObjectStep, CallFunctionStep, AccessAttributeStep, LoadNameStep, DeleteStep, FinishStep
  <1> QED
    BY <1>1, <1>2, <1>3, <1>4, <1>5 DEF Next

LEMMA Invariant == Spec => []IInv
  <1>1. Init => IInv
    BY InitIInv
  <1>2. IInv /\ [Next]_layoutVars => IInv'
    BY NextIInv
  <1> QED
    BY <1>1, <1>2, PTL DEF Spec

\* While nothing is reported, the body of each method goes into the function
\* that fill() made for it, and that of each function into its own: where code
\* is generated, the current class is the one whose task it is, and every
\* method has its function by then.
THEOREM BodiesPlaced == Spec => []BodiesInPlace
  <1>1. IInv => BodiesInPlace
    BY DEF IInv
  <1> QED
    BY <1>1, Invariant, PTL

\* A call on an object that `new` made, known by no other class than its own,
\* finds the method of its class: the pointer to the vtable is set before the
\* object is known to anything, and no vtable changes once code is generated.
THEOREM DispatchFound == Spec => []DispatchRight
  <1>1. IInv => DispatchRight
    BY DEF IInv, DispatchesSound, SoundDispatch, DispatchRight
  <1> QED
    BY <1>1, Invariant, PTL

=============================================================================

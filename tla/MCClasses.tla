----------------------------- MODULE MCClasses -----------------------------
(***************************************************************************)
(* Units with one or two classes and the functions that use them.  The     *)
(* builder of class B is sorted before its methods, that of class Z after  *)
(* them.                                                                   *)
(***************************************************************************)
EXTENDS ClassLayout

\* As std::map orders strings.
MCOrder == <<"B", "Z", "a", "b", "get", "main", "set">>

Attribute(name, type, initial) ==
  [kind |-> "attribute", name |-> name, type |-> type, initial |-> initial]
Function(name, body) == [kind |-> "function", name |-> name, body |-> body]
Class(name, members, builders) ==
  [kind |-> "class", name |-> name, members |-> members, builders |-> builders]

\* dec type v = new c
Made(type, c) == <<<<"new", c>>, <<"dec", "v", type>>>>

Plain(name) == Attribute(name, None, None)
Get == Function("get", <<<<"name", "a">>>>)
Set == Function("set", <<<<"call function", "get">>>>)
Make(c) == Function("set", Made(None, c) \o <<<<"call", "v", "get">>>>)

\* Classes with their attributes, methods and builders, and some that the
\* passes refuse: no builder, an attribute twice, no method.
ClassesNamed(c) ==
  {Class(c, members, <<Function(c, body)>>) :
     members \in {<<Plain("a"), Get>>, <<Set, Plain("b"), Get, Attribute("a", c, None)>>, <<Get, Get>>, << >>},
     body \in {<< >>, <<<<"call function", "set">>>>}}
  \cup {Class(c, <<Get>>, << >>), Class(c, <<Plain("a"), Plain("a"), Get>>, <<Function(c, << >>)>>)}

\* An object made, called twice, read and deleted; one that another variable
\* or a call gives; a name declared twice; names that mean nothing; the
\* builder called by name.
Bodies(c) ==
  {Made(type, c) \o <<<<"call", "v", m>>, <<"attribute", "v", "a">>, <<"call", "v", "get">>, <<"delete", "v">>>> :
     type \in {None, c}, m \in {"get", "set", c}}
  \cup {Made(None, c) \o <<given, <<"dec", w, None>>, <<"call", w, "get">>>> :
          given \in {<<"call function", "get">>, <<"call", "v", "get">>, <<"name", "v">>}, w \in {"v", "w"}}
  \cup {Made(None, c) \o <<<<"attribute", "v", a>>>> : a \in {"a", "b"}}
  \cup {<<<<"dec", "v", type>>, <<"name", "v">>, use>> :
          type \in {None, c},
          use \in {<<"call", "v", "get">>, <<"attribute", "v", "a">>, <<"name", "a">>}}
  \cup {<<use>> : use \in {<<"name", "a">>, <<"delete", "v">>, <<"new", "get">>,
                         <<"call", "v", "get">>, <<"attribute", "v", "a">>}}

\* A class whose attribute is made with each of its objects.
Owners ==
  {Class("B", <<Attribute("b", "Z", "Z"), Plain("a"), Make("Z"), Function("get", <<<<"name", "b">>, use>>)>>,
         <<Function("B", << >>)>>) :
     use \in {<<"attribute", "b", "a">>, <<"call", "b", "get">>, <<"name", "a">>}}

MCUnits ==
  {<<class, Function("main", body)>> : class \in ClassesNamed("B"), body \in Bodies("B")}
  \cup {<<class, Function("get", << >>), Function("main", body)>> :
          class \in ClassesNamed("Z"), body \in Bodies("Z")}
  \cup {<<owner, class, Function("main", body)>> :
          owner \in Owners, class \in ClassesNamed("Z"), body \in Bodies("B")}
  \cup {<<class, class, Function("main", body)>> : class \in ClassesNamed("B"), body \in Bodies("B")}
  \cup {<<class, other>> : class \in ClassesNamed("B"), other \in ClassesNamed("Z")}

=============================================================================

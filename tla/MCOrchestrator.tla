------------------------- MODULE MCOrchestrator -------------------------
(***************************************************************************)
(* Source trees on which TLC checks the pipeline, from several roots.  A   *)
(* tree is given by the spelling under which the compiler meets each file; *)
(* ProjectDescends checks that it is the one the includes lead to.         *)
(***************************************************************************)
EXTENDS Spellings, TLC

CONSTANT Tree   \* path -> its source, one of the trees below

\* Paths in the working directory, in its directory a, and c in a directory x.
W == <<"w">>
InW(file) == Path(TRUE, <<W, <<file>>>>)
InA(file) == Path(TRUE, <<W, <<"a">>, <<file>>>>)
InX(directory) == Path(TRUE, <<W, <<directory>>, <<"x">>, <<"c">>>>)
WorkDir == <<W>>

\* What an include of a file in W writes: the components below W.
Written(path) == SubSeq(path.parts, 2, Len(path.parts))
WrittenIncludes(source) ==
  LET includes == SelectSeq(source.decls, LAMBDA d : d.kind = "include")
  IN [k \in DOMAIN includes |-> Written(includes[k].path)]

MCPaths == DOMAIN Tree
MCProject == [file \in {FileAt(p) : p \in MCPaths} |->
  WrittenIncludes(Tree[CHOOSE p \in MCPaths : FileAt(p) = file])]
MCReadOutcome == [p \in MCPaths |-> Tree[p].read]
MCDecls == [p \in MCPaths |-> Tree[p].decls]
MCCalls == [p \in MCPaths |-> Tree[p].calls]
MCGenOutcome == [p \in MCPaths |-> Tree[p].gen]
MCOutput == [p \in MCPaths |-> OutputName(p)]

ASSUME ProjectDescends == Spelled /\ Descends

---------------------------------------------------------------------------
Source(decls, calls) == [read |-> "ok", decls |-> decls, calls |-> calls, gen |-> "ok"]
Unreadable == [read |-> "fatal", decls |-> <<>>, calls |-> {}, gen |-> "ok"]
SyntaxError == [Unreadable EXCEPT !.read = "error"]
Ungenerable(source) == [source EXCEPT !.gen = "error"]

Function(name, signature) == [kind |-> "function", name |-> name, signature |-> signature]
Call(name) == [kind |-> "call", name |-> name, signature |-> "unary"]
IncludeAt(path) == [kind |-> "include", path |-> path]
Include(file) == IncludeAt(InW(file))
Throw(kind) == [kind |-> kind]

\* cycle includes a and b, which include each other; a includes cycle again.
CycleProject ==
  (InW("cycle") :> Source(<<Include("a"), Include("b"), Function("main", "unary")>>,
                          {Call("f"), Call("g")}))
  @@ (InW("a") :> Source(<<Function("f", "unary"), Include("b"), Include("cycle")>>,
                         {Call("g")}))
  @@ (InW("b") :> Source(<<Include("a"), Function("g", "unary")>>,
                         {Call("f"), Call("print")}))

\* bad does not parse; a visitor rejects half after it has registered g and
\* scheduled late; generating half or late fails too.
ErrorProject ==
  (InW("errors") :> Source(<<Include("bad"), Include("half"), Function("main", "unary")>>,
                           {Call("g")}))
  @@ (InW("bad") :> SyntaxError)
  @@ (InW("half") :> Ungenerable(Source(
          <<Function("g", "unary"), Include("late"), Throw("error"), Include("bad")>>, {})))
  @@ (InW("late") :> Ungenerable(Source(<<>>, {})))

\* absent is not on disk and thrower throws something else than a
\* CompilationError.
FaultProject ==
  (InW("faults") :> Source(<<Include("thrower"), Include("bad"), Include("absent")>>, {}))
  @@ (InW("absent") :> Unreadable)
  @@ (InW("thrower") :> Source(<<Function("f", "unary"), Throw("fatal")>>, {}))

\* early is rejected before it declares f, which it and lost need.
LostFunctionProject ==
  (InW("lost") :> Source(<<Function("main", "unary"), Include("early")>>, {Call("f")}))
  @@ (InW("early") :> Source(<<Throw("error"), Function("f", "unary")>>, {}))

\* same and other both declare f, with different signatures, and both call it;
\* other declares the builtin again.
DisputeProject ==
  (InW("same") :> Source(<<Include("other"), Function("f", "unary")>>,
                         {Call("f"), Call("print")}))
  @@ (InW("other") :> Source(<<Function("f", "binary"), Function("print", "unary")>>,
                             {Call("f")}))

\* m includes c and a/c; c includes m back.  All three declare main alike.
DescendingProject ==
  (InW("m") :> Source(<<Include("c"), IncludeAt(InA("c")), Function("main", "unary")>>,
                      {Call("main")}))
  @@ (InW("c") :> Source(<<Include("m"), Function("main", "unary")>>, {}))
  @@ (InA("c") :> Source(<<Function("main", "unary")>>, {}))

MCNames == {"main", "f", "g", "print"}
MCBuiltins == <<"print">>

MCTree == CycleProject @@ ErrorProject @@ FaultProject @@ LostFunctionProject
          @@ DisputeProject @@ DescendingProject
MCRoots == {InW(file) : file \in {"cycle", "errors", "faults", "lost", "same", "m"}}

---------------------------------------------------------------------------
\* Two folders, each with a folder x that holds a file c.
TwinTree ==
  (InW("twins") :> Source(<<IncludeAt(InX("a")), IncludeAt(InX("b")), Function("main", "unary")>>,
                          {Call("f")}))
  @@ (InX("a") :> Source(<<Function("f", "unary")>>, {}))
  @@ (InX("b") :> Source(<<Function("g", "unary")>>, {}))
TwinRoot == {InW("twins")}

==========================================================================

--------------------------- MODULE Spellings ---------------------------
(***************************************************************************)
(* The pipeline on a project of files in directories: what the units of    *)
(* Orchestrator are called, which files they are made from and which files *)
(* they write.                                                             *)
(***************************************************************************)
EXTENDS Orchestrator, SourcePaths

CONSTANT Project   \* file on disk -> the relative paths its includes write

\* A unit meets the includes its file writes.
Spelled ==
  \A p \in Paths : \A k \in DOMAIN Decls[p] :
    Decls[p][k].kind = "include" =>
      \E m \in DOMAIN IncludesAt(p, Project) : Decls[p][k].path = IncludesAt(p, Project)[m]

WithoutDots(parts) == parts # <<>> /\ parts \in Seq(ToSet(parts) \ {Up, Here})

\* The root is absolute, and neither it nor an include leaves a directory.
Descends ==
  /\ \A p \in Roots : p = Path(TRUE, p.parts) /\ WithoutDots(p.parts)
  /\ \A file \in DOMAIN Project : \A m \in DOMAIN Project[file] : WithoutDots(Project[file][m])

\* robustness.md 2, edge case 1: a file already present is ignored, so no file
\* is compiled twice.
FileCompiledOnce ==
  \A i, j \in DOMAIN units : FileAt(units[i]) = FileAt(units[j]) => i = j

\* unit_compilation.cpp 64-66: the parent folder in the name of the .ll file
\* avoids collisions, so no two units write the same file.
OutputsDistinct ==
  \A i, j \in DOMAIN units : OutputName(units[i]) = OutputName(units[j]) => i = j

==========================================================================

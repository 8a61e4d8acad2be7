--------------------------- MODULE SourcePaths ---------------------------
(***************************************************************************)
(* How the compiler spells a source path: the root is made absolute in     *)
(* pass 1, an include is the including file's directory followed by what   *)
(* the statement says, and the unit's output file is named after the last  *)
(* two components.  No step normalises "..", so one file may have several  *)
(* spellings.  A component is the sequence of its "_"-separated words,     *)
(* since output names join two components with "_"; a source's extension   *)
(* is left out, stem() drops it.                                           *)
(***************************************************************************)
EXTENDS Naturals, Sequences, SequencesExt

CONSTANTS
  Cwd,       \* components of the compiler's working directory
  PathMax    \* components beyond which the system refuses a path (PATH_MAX)

Up == <<"..">>
Here == <<".">>

Path(absolute, parts) == [absolute |-> absolute, parts |-> parts]

\* std::filesystem::absolute: prefixes a relative path, normalises nothing.
Absolute(p) == IF p.absolute THEN p ELSE Path(TRUE, Cwd \o p.parts)

ParentPath(p) == Path(p.absolute, Front(p.parts))

\* operator/ of std::filesystem::path.
Join(directory, p) ==
  IF p.absolute THEN p ELSE Path(directory.absolute, directory.parts \o p.parts)

\* The spelling under which an include statement schedules its file.
ResolveInclude(including, asWritten) == Join(ParentPath(Absolute(including)), asWritten)

\* _fileName: parent directory's name, "_", stem.
OutputName(p) ==
  LET parts == Absolute(p).parts
  IN parts[Len(parts) - 1] \o parts[Len(parts)]

\* The file the system opens for a path: "." stays in the directory before it,
\* ".." leaves it.
Follow(at, part) ==
  CASE part = Here -> at
    [] part = Up -> IF at = <<>> THEN at ELSE Front(at)
    [] OTHER -> Append(at, part)
FileAt(p) ==
  LET parts == Absolute(p).parts
      walk[k \in 0 .. Len(parts)] == IF k = 0 THEN <<>> ELSE Follow(walk[k - 1], parts[k])
  IN walk[Len(parts)]

\* A path the system cannot open makes pass 1 throw something else than a
\* CompilationError: filesystem_error if too long, runtime_error if missing.
Opens(p, files) == Len(Absolute(p).parts) <= PathMax /\ FileAt(p) \in files

\* The spellings a unit meets when it includes what its file says; project:
\* file on disk -> the relative paths its includes write.
IncludesAt(p, project) ==
  IF Opens(p, DOMAIN project)
  THEN [k \in DOMAIN project[FileAt(p)] |->
          ResolveInclude(p, Path(FALSE, project[FileAt(p)][k]))]
  ELSE <<>>

==========================================================================

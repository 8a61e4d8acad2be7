------------------------- MODULE CompilePipeline -------------------------
(***************************************************************************)
(* What OrchestratorInclude::compileProject promises, without threads,     *)
(* queue, mutex or registries: the sources reachable from the root are     *)
(* discovered and analysed (pass 1) until nothing is left to discover, and *)
(* only then is each of them generated (pass 2).  The detailed module      *)
(* Orchestrator is shown to implement this one.                            *)
(***************************************************************************)
CONSTANTS
  Paths,              \* the spellings of source paths
  Roots,              \* the paths that may be given on the command line
  IncludesOf,         \* path -> the paths its include statements name
  AnalysisFails,      \* the paths whose pass 1 ends in a CompilationError
  GenerationFails     \* the paths whose pass 2 ends in a CompilationError

VARIABLES
  root,         \* the path given on the command line
  phase,        \* "analysis", "generation", "failed", "linked", "terminated"
  discovered,   \* paths named by the root or by an include already visited
  analysed,     \* paths whose pass 1 has ended
  generated,    \* paths whose pass 2 has ended
  failed        \* a CompilationError has been recorded

vars == <<root, phase, discovered, analysed, generated, failed>>

Init ==
  /\ root \in Roots
  /\ phase = "analysis"
  /\ discovered = {}
  /\ analysed = {}
  /\ generated = {}
  /\ failed = FALSE

Start ==
  /\ phase = "analysis"
  /\ discovered = {}
  /\ discovered' = {root}
  /\ UNCHANGED <<root, phase, analysed, generated, failed>>

Discover(p, q) ==
  /\ phase = "analysis"
  /\ p \in discovered \ analysed
  /\ q \in IncludesOf[p]
  /\ discovered' = discovered \cup {q}
  /\ UNCHANGED <<root, phase, analysed, generated, failed>>

\* A path whose analysis succeeds has had all its includes discovered.
Analyse(p) ==
  /\ phase = "analysis"
  /\ p \in discovered \ analysed
  /\ p \notin AnalysisFails => IncludesOf[p] \subseteq discovered
  /\ analysed' = analysed \cup {p}
  /\ failed' = (failed \/ p \in AnalysisFails)
  /\ UNCHANGED <<root, phase, discovered, generated>>

\* The barrier: generation starts when every discovered path is analysed.
Advance ==
  /\ phase = "analysis"
  /\ discovered # {}
  /\ analysed = discovered
  /\ phase' = "generation"
  /\ UNCHANGED <<root, discovered, analysed, generated, failed>>

Generate(p) ==
  /\ phase = "generation"
  /\ p \in analysed \ generated
  /\ generated' = generated \cup {p}
  /\ failed' = (failed \/ p \in GenerationFails)
  /\ UNCHANGED <<root, phase, discovered, analysed>>

\* The project links exactly when no path failed in either pass.
Finish ==
  /\ phase = "generation"
  /\ generated = analysed
  /\ phase' = IF failed THEN "failed" ELSE "linked"
  /\ UNCHANGED <<root, discovered, analysed, generated, failed>>

\* An exception no handler catches ends the process in either pass.
Terminate ==
  /\ phase \in {"analysis", "generation"}
  /\ discovered # {}
  /\ phase' = "terminated"
  /\ UNCHANGED <<root, discovered, analysed, generated, failed>>

Next ==
  \/ Start
  \/ \E p, q \in Paths : Discover(p, q)
  \/ \E p \in Paths : Analyse(p)
  \/ Advance
  \/ \E p \in Paths : Generate(p)
  \/ Finish
  \/ Terminate

Spec == Init /\ [][Next]_vars /\ WF_vars(Next)

==========================================================================

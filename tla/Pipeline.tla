------------------------------ MODULE Pipeline ------------------------------
(***************************************************************************)
(* A project that is checked and then measured, as its CI does it: the two *)
(* commands walk the same trees with walks of their own (rules::structure  *)
(* and sloplint_metrics), and speak of the same functions and handlers.    *)
(***************************************************************************)
EXTENDS Inheritance, LintTree

\* What is measured are the files that parse.
Parsing(all) == Chosen(all, {i \in DOMAIN all : all[i].parses})

PipelineInit ==
  /\ LintInit
  /\ files = Parsing(project.files)
  /\ Init

Measure == stage = "over" /\ Next /\ UNCHANGED lintVars

PipelineNext == (LintNext /\ UNCHANGED vars) \/ Measure

PipelineSpec == PipelineInit /\ [][PipelineNext]_<<vars, lintVars>>

\* One thread measures and waits for nobody.
FairPipeline == PipelineSpec /\ WF_vars(Measure)

-----------------------------------------------------------------------------
\* What is said of a file of which nothing is acknowledged.
SaidOf(file, code) ==
  {d \in UNION {results[r].diagnostics : r \in {q \in DOMAIN results : project.files[results[q].file] = file}} :
     d.code = code}

\* The two commands agree on what they both measure: the functions that SLP082
\* calls too deep are those whose nesting is measured above the limit, and
\* every handler SLP030 calls broad is counted bare or broad.
LintAgreesWithMetrics ==
  stage = "over" /\ pc = "index" =>
    \A i \in DOMAIN files :
      LET file == files[i]
          measured == metrics[i]
          deep == {f \in DOMAIN measured.functions :
                     measured.functions[f].nesting > LimitOf("nesting_max_depth", file)}
          plain == \A c \in DOMAIN file.comments : ~IsNoqa(file.comments[c])
      IN  /\ RunsOn("SLP082", file) /\ plain => Cardinality(SaidOf(file, "SLP082")) = Cardinality(deep)
          /\ Cardinality(SaidOf(file, "SLP030")) <= measured.exception.bare + measured.exception.broad

\* The measuring halts, although names that collide may seem to inherit in a
\* circle.
Halts == stage = "over" ~> pc = "done"

=============================================================================

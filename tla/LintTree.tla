------------------------------ MODULE LintTree ------------------------------
(***************************************************************************)
(* A `check` over files as their syntax trees (scan_files and the preview  *)
(* passes of sloplint/src/commands/check.rs, lint::check_file): which rule *)
(* says what of which place, and which of it is acknowledged.  Where the   *)
(* files come from and what becomes of the findings is CheckRun's matter;  *)
(* so are clones and the fan-out of directories.                           *)
(***************************************************************************)
EXTENDS TreeRules, Selection

CONSTANT Sources  \* what a run is about: [files, config, dirs]

\* What is known of a file.
Fields == {"path", "testPath", "parses", "tree", "line", "length", "comments", "glyphs", "rows"}

\* Files that parse give trees, and begin with no scrap of a conflict or of a
\* conversation, which is no Python.  Limits are numbers.
ASSUME SourcesAreFiles ==
  \A s \in Sources :
    LET profiles == s.config.profiles
    IN  /\ s.files \in Seq(ToSet(s.files)) /\ profiles \in Seq(ToSet(profiles))
        /\ \A f \in ToSet(s.files) :
             /\ Fields \subseteq DOMAIN f
             /\ f.rows \in Seq(ToSet(f.rows)) /\ f.comments \in Seq(ToSet(f.comments))
             /\ f.parses => IsTree(f.tree) /\ (1 \in DOMAIN f.rows => f.rows[1] # "artifact")
        /\ "nesting_max_depth" \in DOMAIN s.config.limits
        /\ \A limits \in {s.config.limits} \cup {p.limits : p \in ToSet(profiles)} :
             \A name \in DOMAIN limits : limits[name] \in Nat

VARIABLES
  project,   \* the files in the order they are read, the configuration, the
             \* working directory and those above it
  stage,     \* "scan", "tree", "suppress" or "over"
  next,      \* the file to be scanned next
  results,   \* [file, diagnostics], for each file that something is known of
  hadError   \* a file did not parse and nobody says so in a finding

lintVars == <<project, stage, next, results, hadError>>

LintInit ==
  /\ project \in Sources
  /\ stage = "scan" /\ next = 1
  /\ results = <<>> /\ hadError = FALSE

LimitOf(name, file) == Limit(project.config, name, file.path)
RunsOn(code, file) == Runs(project.config, code, file.path)

FileRules == {"SLP001", "SLP002", "SLP004", "SLP010", "SLP030", "SLP040", "SLP050", "SLP060", "SLP080",
              "SLP082", "SLP084", "SLP120", "SLP130", "SLP210", "SLP230", "SLP250"}

\* What one rule says of a file.
Check(code, file) ==
  CASE code = "SLP001" -> RedundantComment(file)
    [] code = "SLP002" -> RedundantDocstring(file)
    [] code = "SLP004" -> CommentTells(file)
    [] code = "SLP010" -> BannedComments(file)
    [] code = "SLP030" -> DefensiveExcept(file)
    [] code = "SLP040" -> RedundantTypeHint(file)
    [] code = "SLP050" -> AsciiOnly(file)
    [] code = "SLP060" -> VerboseNaming(file, LimitOf("max_identifier_words", file))
    [] code = "SLP080" -> OversizedFile(file, LimitOf("file_max_lines", file))
    [] code = "SLP082" -> DeepNesting(file, LimitOf("nesting_max_depth", file))
    [] code = "SLP084" -> DeepDataNesting(file, LimitOf("data_nesting_max_depth", file))
    [] code = "SLP120" -> GodClass(file, LimitOf("lcom4_min_methods", file), LimitOf("lcom4_max_components", file))
    [] code = "SLP130" -> DispatchLadder(file, LimitOf("dispatch_max_branches", file))
    [] code = "SLP210" -> PhantomGuard(file)
    [] code = "SLP230" -> MockData(file)
    [] code = "SLP250" -> CrossLanguage(file)

CheckFile(file) == UNION {Check(code, file) : code \in {c \in FileRules : RunsOn(c, file)}}

Corrupted(file) ==
  IF ~RunsOn("SLP220", file) THEN {}
  ELSE IF file.parses THEN ScanParsed(file, LimitOf("corrupted_prose_ratio", file))
  ELSE OnParseError(file, LimitOf("corrupted_prose_ratio", file))

Scanning == stage = "scan" /\ next \in DOMAIN project.files /\ next' = next + 1
File == project.files[next]
Found(diagnostics) == results' = Append(results, [file |-> next, diagnostics |-> diagnostics])

ScanFile ==
  /\ Scanning
  /\ File.parses
  /\ Found(CheckFile(File) \cup Corrupted(File))
  /\ UNCHANGED <<project, stage, hadError>>

\* A file that does not parse is a finding, if SLP220 runs, or else an error.
ScanBroken ==
  /\ Scanning
  /\ ~File.parses
  /\ IF RunsOn("SLP220", File) THEN Found(Corrupted(File)) /\ UNCHANGED hadError
     ELSE hadError' = TRUE /\ UNCHANGED results
  /\ UNCHANGED <<project, stage>>

AllScanned ==
  /\ stage = "scan" /\ next = Len(project.files) + 1
  /\ stage' = IF project.config.preview THEN "tree" ELSE "suppress"
  /\ UNCHANGED <<project, next, results, hadError>>

Enabled(code, findings, file) ==
  IF IsEnabled(project.config, code, file.path) THEN findings ELSE {}

\* The file a result is about, and what the files with results that parse refer to.
Whose(r) == project.files[results[r].file]
GhostScans == {GhostScan(Whose(r).tree) : r \in {q \in DOMAIN results : Whose(q).parses}}

\* What is first party is told by all paths, the ones that do not parse too.
Undeclared(file) ==
  LET scanned == {project.files[i].path : i \in DOMAIN project.files}
  IN  UNION {UndeclaredImports(file, FirstPartyNames(d.root.modules \cup scanned), d.dists) :
               d \in ResolveDeclared(project.dirs)}

Ghosts(file) == GhostDefs(file, GhostScans) \cup GhostFlags(file, GhostScans)

TreeFindings(file) == Enabled("SLP180", Undeclared(file), file) \cup Enabled("SLP240", Ghosts(file), file)

\* The passes over the whole project: imports and names are collected from
\* every file that parses, findings go to the files their rule is enabled for.
TreePasses ==
  /\ stage = "tree"
  /\ stage' = "suppress"
  /\ results' = [r \in DOMAIN results |->
                   IF Whose(r).parses THEN [results[r] EXCEPT !.diagnostics = @ \cup TreeFindings(Whose(r))]
                   ELSE results[r]]
  /\ UNCHANGED <<project, next, hadError>>

\* Nothing is acknowledged in a file that does not parse.
Unacknowledged(result) ==
  LET file == project.files[result.file]
  IN  {d \in result.diagnostics : ~(file.parses /\ Suppressed(file, d))}

Acknowledge ==
  /\ stage = "suppress"
  /\ stage' = "over"
  /\ results' = [r \in DOMAIN results |-> [results[r] EXCEPT !.diagnostics = Unacknowledged(results[r])]]
  /\ UNCHANGED <<project, next, hadError>>

LintNext == ScanFile \/ ScanBroken \/ AllScanned \/ TreePasses \/ Acknowledge

-----------------------------------------------------------------------------
(* Properties. *)

\* Of one place a rule says one thing, however many of its passes come by, and
\* no file is reported on twice.
OncePerPlace ==
  /\ \A r, q \in DOMAIN results : results[r].file = results[q].file => r = q
  /\ \A r \in DOMAIN results : \A d, e \in results[r].diagnostics :
       d.code = e.code /\ d.at = e.at => d = e

IsNoqa(comment) == comment.sort = "noqa"

\* A finding without the number of the comment it is on.
Face(finding) == <<finding.code, finding.line, finding.why>>

\* The comments of a file that acknowledge, and the file before they were put in.
Unmarked(file) == [file EXCEPT !.comments = Chosen(@, {c \in DOMAIN @ : ~IsNoqa(@[c])})]

\* Acknowledgements are at the end of lines on which something begins, and their
\* reasons use other words than the comments and docstrings that are compared
\* with the code.
PlainReasons(file) ==
  LET noqa == {c \in DOMAIN file.comments : IsNoqa(file.comments[c])}
      compared == (UNION {file.comments[c].words : c \in DOMAIN file.comments \ noqa})
                    \cup UNION {ContentWords(file.tree[s].name) : s \in OfKind(file.tree, {"StringLiteral"})}
  IN  \A c \in noqa : /\ ~file.comments[c].own /\ NodesOn(file, file.comments[c].line) # {}
                      /\ file.comments[c].words \cap compared = {}

\* All that is said of a file that parses before anything is acknowledged.
Verdict(file) ==
  CheckFile(file) \cup Corrupted(file) \cup IF project.config.preview THEN TreeFindings(file) ELSE {}

\* Acknowledging a finding makes this finding go, and others on its line that
\* are covered by it, and changes nothing else that the rules of this module say
\* of the file: in particular an acknowledgement is no comment that has to be
\* acknowledged.  Not so for SLP220, which leaves out every line with a comment
\* on it when it counts lines of prose: its findings are claimed to stay where
\* the lines left out do, as for an acknowledgement beside a string.
NoqaOnlyRemoves ==
  stage = "over" =>
    \A r \in DOMAIN results :
      LET file == Whose(r)
          bare == Unmarked(file)
          Claimed(d) == d.code = "SLP220" => MaskedLines(bare) = MaskedLines(file)
          found == {d \in results[r].diagnostics : Claimed(d)}
          left == {d \in Verdict(bare) : Claimed(d) /\ ~Suppressed(file, d)}
      IN  file.parses /\ PlainReasons(file) => {Face(d) : d \in found} = {Face(d) : d \in left}

\* A top-level definition whose name an import statement mentions is in use.
UsedIsNoGhost ==
  \A r \in DOMAIN results : \A d \in results[r].diagnostics :
    d.code = "SLP240" /\ d.why = "definition" =>
      LET ghost == project.files[results[r].file].tree[d.at[2]].name
      IN  \A q \in DOMAIN results :
            LET file == project.files[results[q].file]
            IN  file.parses =>
                  \A a \in OfKind(file.tree, {"Alias"}) : file.tree[a].name # ghost

=============================================================================

------------------------------ MODULE CheckRun ------------------------------
(***************************************************************************)
(* The `check` command (sloplint/src/commands/check.rs): discover the      *)
(* files, scan them one at a time, run the whole-tree passes, drop what    *)
(* `# noqa` covers, apply the fixes file by file, report and exit.         *)
(*                                                                         *)
(* The files are shared with whoever edits them: a person or an agent may  *)
(* save a file between any two steps of the run.  Reads, opens and writes  *)
(* may fail, and the process may be killed.                                *)
(*                                                                         *)
(* A text is a record of what the rules see in it: whether it parses, the  *)
(* sites of per-file findings, the functions it defines (a function stands *)
(* for its shape: two that are clones are one value), the top-level names  *)
(* it defines and refers to, the modules it imports, and the findings a    *)
(* `# noqa` comment in it covers.  The fix of a site takes the site away   *)
(* and leaves the rest of the text as it is.                               *)
(***************************************************************************)
EXTENDS Selection, Functions

CONSTANTS
  File,       \* files on disk
  Path,       \* the paths that lead to them
  Rank,       \* the place of a path in sorted order
  FileAt,     \* the file a path leads to: links and spellings make paths meet
  DirOf,      \* the directory part of a path
  TopModule,  \* the top-level module a path defines
  TestPath,   \* the paths that are test files by their name
  Code,       \* rule codes
  Site,       \* [code, lo, hi, fix], fix in {"none", "safe", "unsafe"}
  Name,       \* function shapes, top-level names and modules
  Authored,   \* the texts people write
  Missing,    \* an input that is no path, a manifest that is not there
  WholeFile,  \* what a finding about no particular place is about
  Empty,      \* the text of a file that was just truncated
  Cut,        \* the text of a file whose rewriting stopped half way
  Jobs,       \* command lines with the configuration they load
  MaxFaults,  \* failed system calls and kills per behaviour
  MaxEdits,   \* saves by others per behaviour
  MaxRuns     \* runs of the command per behaviour

\* A finding is about a site, a function, a name, a module or the whole file.
Finding == [code : Code, at : Site \cup Name \cup {WholeFile}]

TextType ==
  [parses : BOOLEAN, sites : SUBSET Site, funcs : Seq(Name), defs : SUBSET Name,
   refs : SUBSET Name, imports : SUBSET Name, noqa : SUBSET Finding]

\* A text after some of its fixes.
Rewritten(text, fixed) == [text EXCEPT !.sites = @ \ fixed]

Written == Authored \cup {Empty, Cut}
Text == {Rewritten(t, S) : t \in Written, S \in SUBSET Site}

\* A job: [config, inputs, fix, unsafe, manifest, tree].  An input is the set of
\* Python files it names, or Missing; the manifest is the set of modules its
\* dependencies provide, or Missing; tree is the modules under its root.

\* Sites belong to the per-file rules, which see a text only when it parses.
WholeTreeCodes == {"SLP020", "SLP090", "SLP180", "SLP240"}

CodesOK == WholeTreeCodes \cup {"SLP220"} \subseteq Code
SitesOK == \A s \in Site : s.code \in Code \ WholeTreeCodes
TextsOK == \A t \in Written : t \in TextType /\ (~t.parses => t.sites = {})
PathsOK == FileAt \in [Path -> File]
JobsOK == \A j \in Jobs : j.fix \in BOOLEAN /\ \A i \in j.inputs \ {Missing} : i \subseteq Path
BoundsOK == MaxFaults \in Nat /\ MaxEdits \in Nat /\ MaxRuns \in Nat \ {0}

ASSUME CodesAssumption == CodesOK
ASSUME SitesAssumption == SitesOK
ASSUME TextsAssumption == TextsOK
ASSUME PathsAssumption == PathsOK
ASSUME JobsAssumption == JobsOK
ASSUME BoundsAssumption == BoundsOK

Result == [path : Path, source : Text, noqa : SUBSET Finding, diagnostics : SUBSET Finding]
Unit == [func : Name, result : Nat]

VARIABLES
  job,       \* the command line, fixed for the behaviour
  disk,      \* the text each file holds
  pc,        \* "discover", "scan", "suppress", "fix", "write", "exit" or "killed"
  todo,      \* discovered paths not scanned yet
  results,   \* one [path, source, noqa, diagnostics] per scanned file
  units,     \* the functions of the files SLP020 is enabled for, [func, result]
  hadError,  \* a path is missing, or a file could not be read, parsed or written
  next,      \* the result whose fixes come next
  accepted,  \* the sites being fixed while a file is open for writing
  clean,     \* the exit status: TRUE for 0, FALSE for 1
  before,    \* (history) what each file held when the run began
  edited,    \* (history) files somebody saved since the run began
  torn,      \* (history) files this run truncated and did not finish writing
  faults, edits, runs   \* how much of the bounds is used

runVars == <<todo, results, units, hadError, next, accepted, clean>>
history == <<before, edited, torn>>
vars == <<job, disk, pc, runVars, history, faults, edits, runs>>

-----------------------------------------------------------------------------
(* What the rules report. *)

Discovered == UNION (job.inputs \ {Missing})
Enabled(code, path) == IsEnabled(job.config, code, path)

About(site) == [code |-> site.code, at |-> site]

\* The enabled registry rules, and SLP220 on a file that parses.
PerFile(path, text) ==
  {About(s) : s \in {x \in text.sites : Runs(job.config, x.code, path)}}

\* A function is a clone when another unit has its shape.
ClonesIn(r) ==
  {[code |-> "SLP020", at |-> units[u].func] :
     u \in {v \in DOMAIN units :
              /\ units[v].result = r
              /\ \E w \in DOMAIN units \ {v} : units[w].func = units[v].func}}

\* An over-full directory is reported on its first result.
Siblings(r) == {q \in DOMAIN results : DirOf[results[q].path] = DirOf[results[r].path]}

FanoutIn(r) ==
  IF /\ Cardinality(Siblings(r)) > job.config.limits["dir_max_modules"]
     /\ r = Min(Siblings(r))
     /\ Enabled("SLP090", results[r].path)
  THEN {[code |-> "SLP090", at |-> WholeFile]} ELSE {}

\* Results of files that parsed: what the import and ghost scans come from.
Scans == {r \in DOMAIN results : results[r].source.parses}

FirstParty == job.tree \cup {TopModule[p] : p \in Discovered}

UndeclaredIn(r) ==
  IF job.manifest = Missing \/ ~Enabled("SLP180", results[r].path) THEN {}
  ELSE {[code |-> "SLP180", at |-> m] :
          m \in results[r].source.imports \ (FirstParty \cup job.manifest)}

\* Names are looked for everywhere, but the definitions of test files are exempt.
GhostsIn(r) ==
  IF results[r].path \in TestPath \/ ~Enabled("SLP240", results[r].path) THEN {}
  ELSE {[code |-> "SLP240", at |-> n] :
          n \in results[r].source.defs \ UNION {results[q].source.refs : q \in Scans}}

\* The preview passes work on the scans: what parsed, under --preview.
PreviewIn(r) ==
  IF job.config.preview /\ r \in Scans THEN UndeclaredIn(r) \cup GhostsIn(r) ELSE {}

-----------------------------------------------------------------------------
(* The run. *)

NotStarted ==
  /\ todo = {} /\ results = <<>> /\ units = <<>> /\ hadError = FALSE
  /\ next = 1 /\ accepted = {} /\ clean = FALSE

Init ==
  /\ job \in Jobs
  /\ disk \in [File -> Authored]
  /\ pc = "discover"
  /\ NotStarted
  /\ before = disk /\ edited = {} /\ torn = {}
  /\ faults = 0 /\ edits = 0 /\ runs = 1

Fault == faults < MaxFaults /\ faults' = faults + 1

\* discover_python_files: every path once; an error of the walk is recorded and
\* the walk goes on.
Discover ==
  /\ pc = "discover"
  /\ pc' = "scan"
  /\ todo' = Discovered
  /\ \/ hadError' = (Missing \in job.inputs) /\ UNCHANGED faults
     \/ hadError' = TRUE /\ Fault
  /\ UNCHANGED <<job, disk, results, units, next, accepted, clean, history, edits, runs>>

\* One round of the loop of scan_files, in the sorted order of the paths.
Scan(p) ==
  /\ pc = "scan"
  /\ \A q \in todo : Rank[p] <= Rank[q]
  /\ todo' = todo \ {p}
  /\ UNCHANGED <<job, disk, pc, next, accepted, clean, history, edits, runs>>

TextAt(p) == disk[FileAt[p]]

\* (Mutant) A file that cannot be read is passed over in silence.
ReadFailsSilently(p) ==
  /\ Scan(p)
  /\ Fault
  /\ UNCHANGED <<hadError, results, units>>

ReadFails(p) ==
  /\ Scan(p)
  /\ Fault
  /\ hadError' = TRUE
  /\ UNCHANGED <<results, units>>

Corrupted(p) ==
  [path |-> p, source |-> TextAt(p), noqa |-> {},
   diagnostics |-> {[code |-> "SLP220", at |-> WholeFile]}]

ScanUnparseable(p) ==
  /\ Scan(p)
  /\ ~TextAt(p).parses
  /\ IF Runs(job.config, "SLP220", p)
     THEN results' = Append(results, Corrupted(p)) /\ UNCHANGED hadError
     ELSE hadError' = TRUE /\ UNCHANGED results
  /\ UNCHANGED <<units, faults>>

Linted(p) ==
  [path |-> p, source |-> TextAt(p), noqa |-> TextAt(p).noqa,
   diagnostics |-> PerFile(p, TextAt(p))]

\* (Mutant) The units are numbered after the result has been pushed.
UnitsOfNextResult(path, text, index) ==
  IF Enabled("SLP020", path)
  THEN [k \in DOMAIN text.funcs |-> [func |-> text.funcs[k], result |-> index + 1]]
  ELSE <<>>

UnitsOf(path, text, index) ==
  IF Enabled("SLP020", path)
  THEN [k \in DOMAIN text.funcs |-> [func |-> text.funcs[k], result |-> index]]
  ELSE <<>>

ScanParsed(p) ==
  /\ Scan(p)
  /\ TextAt(p).parses
  /\ results' = Append(results, Linted(p))
  /\ units' = units \o UnitsOf(p, TextAt(p), Len(results) + 1)
  /\ UNCHANGED <<hadError, faults>>

\* The whole-tree passes, each attaching its findings to the results.
CrossFile ==
  /\ pc = "scan"
  /\ todo = {}
  /\ results' = [r \in DOMAIN results |->
       [results[r] EXCEPT !.diagnostics =
          @ \cup ClonesIn(r) \cup FanoutIn(r) \cup PreviewIn(r)]]
  /\ pc' = "suppress"
  /\ UNCHANGED <<job, disk, todo, units, hadError, next, accepted, clean,
                 history, faults, edits, runs>>

\* (Mutant) Suppressions are not looked at before the fixes.
IgnoringNoqa(result) == result.diagnostics

Unsuppressed(result) == result.diagnostics \ result.noqa

Suppress ==
  /\ pc = "suppress"
  /\ results' = [r \in DOMAIN results |->
                   [results[r] EXCEPT !.diagnostics = Unsuppressed(results[r])]]
  /\ pc' = IF job.fix THEN "fix" ELSE "report"
  /\ UNCHANGED <<job, disk, todo, units, hadError, next, accepted, clean,
                 history, faults, edits, runs>>

-----------------------------------------------------------------------------
(* apply_fixes, one result after the other. *)

\* The sites whose fix is permitted and whose finding is still listed.
Fixable(result) ==
  {s \in result.source.sites :
     /\ About(s) \in result.diagnostics
     /\ s.fix = "safe" \/ (s.fix = "unsafe" /\ job.unsafe)}

\* (Mutant) A file with overlapping fixes is left alone.
AllOrNothing(S, candidates) ==
  S = IF \A s, t \in candidates : s # t => s.hi <= t.lo \/ t.hi <= s.lo
      THEN candidates ELSE {}

\* fix::apply, as FixApply describes it: no two accepted fixes overlap, and one
\* is left out only because it starts inside an accepted one on its left.
Selects(S, candidates) ==
  /\ S \subseteq candidates
  /\ \A s, t \in S : s # t => s.hi <= t.lo \/ t.hi <= s.lo
  /\ \A s \in candidates \ S : \E t \in S : t.lo <= s.lo /\ s.lo < t.hi

Current == results[next]
CurrentFile == FileAt[Current.path]

Fixing == pc = "fix" /\ next \in DOMAIN results

NothingToFix ==
  /\ Fixing
  /\ Selects({}, Fixable(Current))
  /\ next' = next + 1
  /\ UNCHANGED <<job, disk, pc, todo, results, units, hadError, accepted, clean,
                 history, faults, edits, runs>>

\* (Mutant) A file is written back also when nothing in it was fixed.
WriteBack(S) ==
  /\ Fixing
  /\ Selects(S, Fixable(Current))
  /\ accepted' = S
  /\ disk' = [disk EXCEPT ![CurrentFile] = Empty]
  /\ torn' = torn \cup {CurrentFile}
  /\ pc' = "write"
  /\ UNCHANGED <<job, todo, results, units, hadError, next, clean,
                 before, edited, faults, edits, runs>>

\* fs::write truncates the file when it opens it.
OpenForFix(S) ==
  /\ Fixing
  /\ S # {}
  /\ Selects(S, Fixable(Current))
  /\ accepted' = S
  /\ disk' = [disk EXCEPT ![CurrentFile] = Empty]
  /\ torn' = torn \cup {CurrentFile}
  /\ pc' = "write"
  /\ UNCHANGED <<job, todo, results, units, hadError, next, clean,
                 before, edited, faults, edits, runs>>

\* (Mutant) The first file that cannot be opened ends the loop.
OpenFailureAborts ==
  /\ Fixing
  /\ ~Selects({}, Fixable(Current))
  /\ Fault
  /\ hadError' = TRUE
  /\ next' = Len(results) + 1
  /\ UNCHANGED <<job, disk, pc, todo, results, units, accepted, clean,
                 history, edits, runs>>

\* A file that cannot be written keeps its findings, and the loop goes on.
OpenFails ==
  /\ Fixing
  /\ ~Selects({}, Fixable(Current))
  /\ Fault
  /\ hadError' = TRUE
  /\ next' = next + 1
  /\ UNCHANGED <<job, disk, pc, todo, results, units, accepted, clean,
                 history, edits, runs>>

\* (Mutant) Every fixable finding of a rewritten file counts as fixed.
NoFixableLeft(result, fixed) == result.diagnostics \ {About(s) : s \in Fixable(result)}

\* The findings a rewritten file keeps.
Remaining(result, fixed) == result.diagnostics \ {About(s) : s \in fixed}

WriteOut ==
  /\ pc = "write"
  /\ disk' = [disk EXCEPT ![CurrentFile] = Rewritten(Current.source, accepted)]
  /\ results' = [results EXCEPT ![next].diagnostics = Remaining(Current, accepted)]
  /\ torn' = torn \ {CurrentFile}
  /\ next' = next + 1
  /\ accepted' = {}
  /\ pc' = "fix"
  /\ UNCHANGED <<job, todo, units, hadError, clean, before, edited, faults, edits, runs>>

\* (Mutant) The result of the write is dropped.
WriteFailsSilently ==
  /\ pc = "write"
  /\ Fault
  /\ disk' \in {disk, [disk EXCEPT ![CurrentFile] = Cut]}
  /\ next' = next + 1
  /\ accepted' = {}
  /\ pc' = "fix"
  /\ UNCHANGED <<job, todo, results, units, hadError, clean, history, edits, runs>>

\* The disk is full: what reached the file is nothing, or a part.
WriteFails ==
  /\ pc = "write"
  /\ Fault
  /\ disk' \in {disk, [disk EXCEPT ![CurrentFile] = Cut]}
  /\ hadError' = TRUE
  /\ next' = next + 1
  /\ accepted' = {}
  /\ pc' = "fix"
  /\ UNCHANGED <<job, todo, results, units, clean, history, edits, runs>>

Report ==
  /\ \/ pc = "report"
     \/ pc = "fix" /\ next \notin DOMAIN results
  /\ clean' = (~hadError /\ \A r \in DOMAIN results : results[r].diagnostics = {})
  /\ pc' = "exit"
  /\ UNCHANGED <<job, disk, todo, results, units, hadError, next, accepted,
                 history, faults, edits, runs>>

Run ==
  \/ Discover
  \/ \E p \in todo : ReadFails(p) \/ ScanUnparseable(p) \/ ScanParsed(p)
  \/ CrossFile \/ Suppress
  \/ NothingToFix
  \/ \E S \in SUBSET Site : OpenForFix(S)
  \/ OpenFails \/ WriteOut \/ WriteFails
  \/ Report

-----------------------------------------------------------------------------
(* Around the run. *)

Over == pc \in {"exit", "killed"}

Kill ==
  /\ ~Over
  /\ Fault
  /\ pc' = "killed"
  /\ UNCHANGED <<job, disk, runVars, history, edits, runs>>

\* Somebody saves a file; saves are not torn, and none falls between the open
\* and the write of fs::write.
Save(f) ==
  /\ edits < MaxEdits
  /\ ~(pc = "write" /\ f = CurrentFile)
  /\ \E text \in Authored : disk' = [disk EXCEPT ![f] = text]
  /\ edited' = edited \cup {f}
  /\ edits' = edits + 1
  /\ UNCHANGED <<job, pc, runVars, before, torn, faults, runs>>

RunAgain ==
  /\ Over
  /\ runs < MaxRuns
  /\ runs' = runs + 1
  /\ pc' = "discover"
  /\ todo' = {} /\ results' = <<>> /\ units' = <<>> /\ hadError' = FALSE
  /\ next' = 1 /\ accepted' = {} /\ clean' = FALSE
  /\ before' = disk /\ edited' = {} /\ torn' = {}
  /\ UNCHANGED <<job, disk, faults, edits>>

Stopped == Over /\ runs = MaxRuns /\ UNCHANGED vars

Next == Run \/ Kill \/ (\E f \in File : Save(f)) \/ RunAgain \/ Stopped

Spec == Init /\ [][Next]_vars

\* The run is one thread that is never left waiting, and whoever uses the
\* command runs it again.
FairSpec == Spec /\ WF_vars(Run) /\ WF_vars(RunAgain)

-----------------------------------------------------------------------------
(* Properties. *)

FilesOf == {FileAt[p] : p \in Discovered}

TypeOK ==
  /\ job \in Jobs
  /\ disk \in [File -> Text] /\ before \in [File -> Text]
  /\ edited \subseteq File /\ torn \subseteq File
  /\ pc \in {"discover", "scan", "suppress", "fix", "write", "report", "exit", "killed"}
  /\ todo \subseteq Path
  /\ results \in Seq(Result)
  /\ units \in Seq(Unit)
  /\ hadError \in BOOLEAN /\ clean \in BOOLEAN
  /\ next \in 1..(Len(results) + 1)
  /\ pc = "write" => next \in DOMAIN results /\ accepted # {}
  /\ accepted \subseteq Site
  /\ faults \in 0..MaxFaults /\ edits \in 0..MaxEdits /\ runs \in 1..MaxRuns

\* A finding of a whole-tree pass is attached to a result by its index: what it
\* is about is to be found in the text of that very result.
FindingsAtHome ==
  \A r \in DOMAIN results : \A finding \in results[r].diagnostics :
    LET text == results[r].source
    IN  \/ finding.at = WholeFile
        \/ finding.at \in text.sites \cup text.defs \cup text.imports \cup Range(text.funcs)

\* The sites of a text that a run may fix through a path.
Permitted(path, text) ==
  {s \in text.sites :
     /\ job.fix
     /\ Runs(job.config, s.code, path)
     /\ About(s) \notin text.noqa
     /\ s.fix = "safe" \/ (s.fix = "unsafe" /\ job.unsafe)}

\* Fixes run after selection and suppression: a file the run was not told to
\* fix, a rule that is off for it and a site under `# noqa` stay as they were.
\* Of files somebody saved meanwhile the run knows nothing.
OptedOutNeverRewritten ==
  \A p \in Discovered : FileAt[p] \notin edited \cup torn =>
    before[FileAt[p]].sites \ disk[FileAt[p]].sites \subseteq Permitted(p, before[FileAt[p]])

\* The only files a step of the run writes are those with something to fix.
WritesWhatItFixes ==
  \A f \in File : disk'[f] # disk[f] =>
    \/ \E text \in Authored : disk'[f] = text /\ edits' = edits + 1
    \/ \E r \in DOMAIN results :
         FileAt[results[r].path] = f /\ Permitted(results[r].path, results[r].source) # {}

\* A file that has nothing to fix is not written at all, so a save that comes
\* between its scan and the end of the run is not undone.
SavesSurvive == [][WritesWhatItFixes]_vars

\* Exit status 0 tells the truth about the files as they are then: each was
\* read and parses, and what the rules over one file find in them, and what
\* SLP020 finds two of them to share, is either off or suppressed.  (Of files
\* saved meanwhile the run knows nothing.  Clones within one file, SLP090,
\* SLP180 and SLP240 are left aside.)
CleanMeansClean ==
  LET known == {p \in Discovered : FileAt[p] \notin edited}
      Holds(p) == disk[FileAt[p]]
  IN  pc = "exit" /\ clean =>
        /\ Missing \notin job.inputs
        /\ \A p \in known : Holds(p).parses /\ PerFile(p, Holds(p)) \subseteq Holds(p).noqa
        /\ \A p, q \in {x \in known : Enabled("SLP020", x)} : p # q =>
             \A fn \in Range(Holds(p).funcs) \cap Range(Holds(q).funcs) :
               [code |-> "SLP020", at |-> fn] \in Holds(p).noqa

CaughtOpen(f) == pc \in {"write", "killed"} /\ next \in DOMAIN results /\ f = CurrentFile

StillListed(f) ==
  /\ hadError
  /\ \E r \in DOMAIN results : FileAt[results[r].path] = f /\ Fixable(results[r]) # {}

\* A file this run damaged is accounted for: it is the one that was open when
\* the run was killed, or the run ends with status 1 and lists its findings.
DamageIsReported == \A f \in torn : CaughtOpen(f) \/ StillListed(f)

\* The results whose fixes were due and of which none was made.
Unfixed ==
  {r \in DOMAIN results :
     LET f == FileAt[results[r].path]
     IN  /\ f \notin edited
         /\ Permitted(results[r].path, results[r].source) # {}
         /\ f \in torn \/ disk[f].sites = results[r].source.sites}

\* A file that cannot be written costs the run the fixes of that file only,
\* and is not passed over in silence: no failed call stops the loop.
FailureIsContained ==
  pc = "exit" /\ job.fix =>
    /\ Cardinality(Unfixed) <= faults
    /\ Unfixed # {} => ~clean

\* What the report no longer lists because it was fixed is gone from the file.
FixedIsGone ==
  pc = "exit" => \A r \in DOMAIN results :
    LET f == FileAt[results[r].path]
    IN  f \notin edited =>
          \A s \in Permitted(results[r].path, results[r].source) :
            About(s) \notin results[r].diagnostics => s \notin disk[f].sites

\* What the documentation says and the code does not hold to.

\* Comments stay where a profile of the path permits them.
PermittedCommentsStay ==
  \A p \in Discovered :
    FileAt[p] \notin edited \cup torn /\ CommentsAllowed(job.config, p) =>
      {s \in before[FileAt[p]].sites : s.code = "SLP010"} \subseteq disk[FileAt[p]].sites

\* Running the command again and again leaves no fix unmade, however many of them
\* overlap, and although calls failed or runs were killed on the way.
Converges ==
  job.fix => <>(\A p \in Discovered : Permitted(p, disk[FileAt[p]]) = {})

=============================================================================

# TLA+ models of sloplint

sloplint is a linter for Python written in Rust. Two things are hard to get right
in it. Around the analysis: files that are rewritten while others save them, fixes
that overlap, configuration files of other tools that are merged into, badge files
that an interrupted run leaves half new, and exit statuses that agents act on. And
in the analysis: rules and measures that walk the same trees each in their own way
and have to agree, facts of all files that meet by name, and findings that have to
reach the right file and be acknowledged on the right line. These modules model
both, check them with TLC and prove some of it with TLAPS.

Paths in this document are relative to `src/crates/`.

## The system

| component | where | state and operations | what makes it correct |
|---|---|---|---|
| autofix engine | `sloplint_diagnostics/src/fix.rs` | `apply(source, diagnostics, allow_unsafe)`: candidates, watermark, accepted edits, the text being spliced | accepted edits are disjoint; offsets stay valid; the result is the source with all accepted edits made at once |
| comment policy, SLP010 | `sloplint_linter/src/rules/comments/comment_policy.rs` | from a comment token to a deletion | deletions of neighbours do not conflict; code and directives are untouched; no stub lines |
| rule selection | `sloplint_linter/src/config/selector.rs`, `registry.rs` | queries by path: profiles, enabled codes, thresholds | a file belongs to the profiles that claim it, or to the default one |
| `check` | `sloplint/src/commands/check.rs`, `cross_file.rs`, `discover.rs` | results, clone units, error flag, the files on disk | opted-out files are not rewritten; nothing is lost or damaged in silence; status 0 means clean |
| whole-tree rules | `clones.rs`, `fanout.rs`, `imports/findings.rs`, `ghost.rs` of `sloplint_linter/src` | facts of all files at once | findings are attached to the file they are about, from complete inputs |
| suppression | `sloplint_linter/src/suppression.rs` | `# noqa` by line and code | acknowledged findings are neither reported nor fixed |
| `check --hook` | `sloplint/src/main.rs`, `hook.rs` | payload on stdin, one file, exit status | status 2 is for findings only |
| `init` | `sloplint/src/main.rs`, `init.rs` | configurations of three AI tools, read-plan-write | idempotent, additive, stops at the first error |
| clone engine | `sloplint_clone/src` | shingles, MinHash signatures, bands, exact Jaccard | candidates contain every pair that matters; pairs are exact |
| `metrics` | `sloplint/src/commands/metrics.rs`, `compute.rs`, `gates.rs`, `badges.rs` | per-file measures, panels per profile, gates, badge files | panels, gates and badges agree; failures are not silently good news |
| import graph | `sloplint_metrics/src/graph*` | modules, resolved edges, cycles, coupling | imports resolve to the right module; cycles are the strongly connected components |
| modularity | `sloplint_metrics/src/modularity.rs` | Louvain levels, communities | terminates; aggregation keeps the weights |
| class and function metrics | `complexity.rs`, `cohesion.rs`, `response.rs`, `inheritance.rs`, `file.rs`, ... of `sloplint_metrics/src` | figures of every function, class and file; a cache of inheritance depths | inheritance in a circle terminates; nothing is counted for two owners; figures of one graph agree |
| risk and aggregation | `risk.rs`, `aggregate.rs`, `report.rs`, `badge.rs` of `sloplint_metrics/src` | tables and roll-ups | what is shown of one measure in several places agrees |
| the other rules | `sloplint_linter/src/rules`, `sloplint/src/corrupted.rs` | pure functions of one tree and its lines | one finding for a place; they agree with what `metrics` measures of it |
| import manifest | `sloplint_linter/src/imports` | declared distributions, first-party names | the nearest manifest decides |
| front end | `sloplint_python/src` | trees, collected functions and classes | every definition is collected once |
| reports, macros, configuration files | `sloplint_report`, `sloplint_macros`, `sloplint_linter/src/config*` | formatting, generated code, decoding | - |

How they interact: `check` asks the selection which rules run on a path, runs the
per-file rules, feeds the scanned facts to the whole-tree rules, filters by
suppression, hands each file's diagnostics to the autofix engine and writes the
result over the file. The hook runs selection and per-file rules alone. `init`
writes the configuration that makes other tools call the hook. `metrics` measures the
same files, builds an import graph per profile and hands each graph to community
detection. The program is a
single thread; concurrency comes from the disk, which people, agents and other
tools write at the same time, and from kills and failing system calls.

The hazards of this code, each at its line with the properties that would catch
it, are listed in `PROJECT.json`.

## The modules

| module | models | extends or instantiates |
|---|---|---|
| `Fixes` | edits, fixes, well-formedness, replacing a range | |
| `FixApply` | `fix::apply`, one action per loop step | `Fixes`; instantiates `FixPromise` |
| `FixPromise` | what `apply` promises: disjoint fixes, made all at once, and a reason for each one left out | `Fixes` |
| `CommentPolicy` | SLP010: comment tokens, directives, deletions | |
| `CommentFix` | SLP010 composed with the engine: the report of a text is the engine's input; what is the program in a text | `FixApply`, `CommentPolicy` |
| `Selection` | profiles by glob and by content, enabled codes, thresholds, preview | |
| `CheckRun` | the `check` command and its surroundings | `Selection` |
| `InitRun` | the `init` command and its surroundings | |
| `HookRun` | `check --hook` and its surroundings | `Selection` |
| `ImportNames` | names of modules from paths, import statements, resolution | |
| `ImportGraph` | `ImportGraph::build` for a scope, module by module; cycles; the spread over packages | `ImportNames` |
| `Sums` | the sum of a function's values, things in order of their numbers | |
| `Modularity` | Louvain community detection, visit by visit | `Sums` |
| `Architecture` | the graph handed to community detection; what the imports of a project say | `ImportGraph`, `Modularity` |
| `Dsu` | union-find as `compute.rs` and `cohesion.rs` do it: path compression, linking roots; groups of linked elements | |
| `CloneDetect` | normalised symbols, shingles, MinHash, bands, exact similarity, findings and clusters | `Dsu` |
| `RiskBands` | bands, histograms, percentiles, the roll-up of a panel, badges | |
| `MetricsRun` | the `metrics` command and its surroundings | `Selection`, `RiskBands`, `CloneDetect`, `Sums` |
| `SyntaxTree` | trees, what a visitor sees, what is collected from them | |
| `FunctionMeasures` | the figures of a function, of handlers, of top-level code, of tests | `SyntaxTree` |
| `ClassMeasures` | cohesion, response, candidates of coupling; the figures of a file | `FunctionMeasures`, `Dsu`, `Sums` |
| `Inheritance` | `resolve_inheritance`, call by call of its recursion | `ClassMeasures`, `Sums` |
| `CommentRules` | SLP001, SLP002, SLP004, SLP010; `# noqa` | `SyntaxTree` |
| `StructureRules` | SLP030, SLP040, SLP050, SLP060, SLP080, SLP082, SLP084, SLP120, SLP130 | `CommentRules`, `ClassMeasures` |
| `NameRules` | SLP210, SLP230, SLP250 | `StructureRules` |
| `TreeRules` | SLP180 with manifests, SLP220, SLP240: what each file contributes, and what follows | `NameRules` |
| `LintTree` | `check` over syntax trees, file by file, then the passes over all, then acknowledgements | `TreeRules`, `Selection` |
| `Pipeline` | a project that is checked and then measured | `LintTree`, `Inheritance` |
| `TreeBuilder` | trees written as nested operators, for instances | |
| `FixApplyProofs`, `CheckRunProofs`, `HookRunProofs`, `InitRunProofs`, `ArchitectureProofs`, `MetricsRunProofs`, `PipelineProofs` | theorems | the module of the name (`FixApplyProofs` by way of `CommentFix`), `TLAPS` |
| `FoldProofs` | what folds do: sums over finite sets, least and greatest members, order, union-find, counting; for `FixApplyProofs`, `ArchitectureProofs`, `MetricsRunProofs` and `PipelineProofs` | `Sums`, `Dsu`, `TLAPS` |
| `MCFixApply`, `MCCommentFix`, `MCCheckRun`, `MCInitRun`, `MCHookRun`, `MCArchitecture`, `MCMetricsRun`, `MCPipeline` | instances for TLC | |

**Texts.** `Fixes` and `CommentPolicy` work on sequences of characters, because
offsets are what they are about. `CheckRun` sees a text as the facts the rules
find in it: sites of per-file findings (with their range and fix), functions,
names defined and used, imports, and what `# noqa` covers. The fix of a site takes
the site away. Which fixes of a file are made is `Selects`, the acceptance rule of
`FixApply` without its loop. Functions are clones when they have one shape.

**Projects.** `ImportNames` sees a file as its directories, its stem, its import
statements and the profiles that claim it; a dotted name is the sequence of its
components. Files here are those that could be read and parsed. That a directory is a
package is read off these files, where the code asks the disk. `Architecture` says
once more, in terms of directories and of what Python would find there, which file
an import statement binds; `EdgesAreImports` compares the two. Strongly connected
components are petgraph's and defined by reachability.

**Trees.** A tree is the sequence of its nodes in source order, each with its kind,
its parent, the field of the parent it is in, a name and a number. What the
parser's visitor walks is `Visited`, whose last argument are the nodes a walk does
not go below; each measure and rule says which these are, as that is what they
differ in. Names and texts are model strings. What the code reads off them
character by character (words of an identifier, the names a credential may have,
the look of a line, distributions of a module) is given by constants, one for each
classification of the code. A comment is a record of its line, its sort and its words.

**Check twice.** `CheckRun` and `LintTree` are two views of the same command. The first has the disk,
failures, kills, fixes and reruns, and sees a file as sites; the second has the
syntax and sees a file that does not change. `RunsOn` and `Enabled` come from `Selection` in both.

**Inheritance.** The recursion of `dit_of` is a stack of frames (`path`), one for each
class being resolved, with the bases still to be taken and the depth so far; the
answers are the cache. The other figures of `resolve_inheritance` are written in one
step, as nothing of them depends on an order.

**Hashes.** Shingles and the keys of bands are values, not 64-bit hashes of them:
collisions are left out. The hash functions of MinHash are a constant.

**Gains.** `modularity.rs` computes with floating-point numbers and compares with a
tolerance of 1e-12. All weights are whole numbers, so that gains times the sum of
degrees are too; `Modularity` compares these, which comes to the same while that
sum stays below 10^12.

**Writes.** `fs::write` is two steps, `OpenForFix`/`Open` (truncate) and
`WriteOut`/`Write`; each may fail, the second leaving nothing or a part, and the
process may be killed between them. Saves by others are taken to be atomic and not
to fall between those two steps; they may fall anywhere else.

**Fixes of other rules.** Only SLP010 ships a fix. The engine and `check` accept
fixes of every rule, safe and unsafe, of one edit or several, and the models do
too: the sites of SLP001 and SLP002 with a fix in `MCCheckRun` stand for them. A
`# noqa` cannot share a line with a comment that SLP010 bans, so what it protects
from rewriting is such another fix.

**History variables** (`before`, `edited`, `torn`, `authored`, `overtaken`, `saved`,
`seen`, `failed`, `faulty`) record what happened for the properties and guard no
action of the program.

**Mutants.** An operator preceded by a comment "(Mutant)" is a plausible bug in
the definition that follows it; no specification uses it. Replacing the
definition by it must break a property, so that each property is known to say
something about the code. `PROJECT.json` pairs them.

## The runs

Passing runs:

| run | instance | shows |
|---|---|---|
| `fix_apply` | a text of four characters; up to three fixes; one fix of two edits, unsafe or malformed; and SLP010 on every text of up to `MaxLen` = 5 characters of the alphabet: code, blank, hash, directive mark, CR, LF, byte order mark | `NoOverlap`, `OffsetsStayValid`; `FixApply` implements `FixPromise`; one pass leaves no banned comment, the lines of the program are unchanged, no blank line appears |
| `check_saves` | two paths, three jobs (`--fix --unsafe-fixes` with preview, `--fix`, no fix with a missing path), five texts, one fault, one save | no opted-out site is rewritten, findings sit in the file they are about, status 0 is true of sites and of clones between files, damage is listed, fixed is gone, files with nothing to fix are not written |
| `check_rerun` | three paths, texts with fixes that overlap and fixes under `# noqa`, two faults, up to five runs | at most one file loses its fixes per fault; repeated runs converge |
| `init_run` | three tools, configurations absent, foreign, wired by hand or unparseable; detection, explicit tools, dry run; one fault, one save, any number of runs | every entry of the version that a configuration was read from survives, idempotent, truthful; after an interruption a rerun finishes the work |
| `hook_run` | two files in four spellings, three configurations (one malformed), one fault, two edits | status 2 for findings only; silence means clean |
| `architecture` | four families of projects: one import statement of any form in any file of two nested packages, at the root or below `src`; modules, packages and scripts with one name; three modules with imports of every kind; every graph of four modules, with a mutual import too, and of five with two given edges | edges are the imports, load-time cycles are cycles of load-time imports, text and JSON agree, profiles lose no coupling; aggregation and new levels keep modularity, moves gain, Louvain ends |
| `metrics_run` | three paths (production, generated by name or by marker, tests), three trees, four command lines over the formats and scopes, four configurations (one with a bad glob, one malformed); five contents, one of them with two functions that differ in names only; one fault, one save, any number of runs | gates fail exactly on what is over the limit, whatever the scope; badges are those of the panel, and become so again after interruptions; proxies, panels and histograms agree; duplication is counted as the pairs connect functions |
| `pipeline` | files in which every rule finds something, an acknowledgement on each of their lines in four forms, with a manifest that lacks what they import; files most of whose lines are prose, with an acknowledgement on each line that covers it or not; unparseable files of each look; manifests of each sort; three configurations, one with two profiles that claim a file; files whose functions, classes, handlers and tests nest in every way the measures tell apart; 160 hierarchies of three or four classes over two files with circles and colliding names | see below |

`pipeline` runs the rules over each project, then the measures, and asks of the
whole: that a rule says one thing of one place (`OncePerPlace`); that an acknowledgement takes away
the findings it covers, adds none and takes no other (`NoqaOnlyRemoves`: of the rules over
one file, of SLP180 and SLP240, and of SLP220 where the lines it leaves out stay the same); that SLP082 finds as many
functions too deep as `metrics` measures above the limit, and SLP030 no handler that is
not counted broad (`LintAgreesWithMetrics`); that branches, statements and
assertions are counted for one owner (`NothingCountedTwice`); that LCOM4, TCC and
LCC, each from its own union-find, are those of the connected components
(`CohesionAgrees`); that depths of inheritance are longest chains where there is no
circle (`DepthsAreChains`); that coupling adds up on both sides
(`CouplingIsMutual`); and that the recursion ends (`Halts`).

Violation runs state what the repository says and the code does not do; the lines
they quote are in `PROJECT.json` under "findings". In short:
`allow_comments` is not consulted (`check_permitted`); the hook ignores `# noqa`
(`hook_noqa`); a package called `src` has its modules named without the component
that imports of them spell out, so that these are lost (`src_package`; the projects
of `architecture` have no such package); a definition that is imported under an
alias is called a ghost (`ghost_alias`; no file of `pipeline` renames a
definition of another).

Limits of the code met while modelling, and no run is spent on:

- An insertion at the start of an accepted deletion does not raise the watermark:
  both are accepted, and the splice then deletes what was inserted. No shipped rule
  inserts; the edits of `MCFixApply` cover a byte each, and `SpliceOffsetsStayValid`
  assumes it (`NonEmptyEdits`).
- The hook matches profile globs against the path of the payload, which is
  absolute, so that a relative glob such as `tests/**` does not claim the file.
- `metrics --max-cyclomatic 10 typo/` measures no file and exits with 0, as gates
  hold for what could be measured; `--badges` is ignored without a word in the
  formats that are feeds of rows.
- A discovered configuration that is malformed is ignored by `metrics`; one with a
  glob that does not compile ends it.
- `test_proxies.rs` looks for test functions and doctests in bodies of modules,
  functions and classes, not in blocks of `if` and `try`; `max_nesting` and
  SLP082 do not descend into `match`, cognitive complexity does.
- SLP210 takes no notice of star imports and of names a `match` captures; SLP230
  takes the docstring of a definition within an `if` or `try` for any other text.
- `# NOQA` in capitals is a directive for SLP010 and acknowledges nothing. A comment
  in front of a `# noqa` on one line is a comment as a whole and acknowledges
  nothing either.
- The words of an acknowledgement's reason count as words of the code SLP001 and
  SLP002 compare with, so that it can add a finding: `NoqaOnlyRemoves` is about
  acknowledgements whose reasons use other words (`PlainReasons`), at the end of a line on
  which some node begins, since elsewhere one becomes the code a comment above it is
  about.
- SLP220 counts a line with a comment neither as code nor as prose (`masked_lines`): an
  acknowledgement takes its line out of the total and may so add a finding of SLP220 or
  take one. `NoqaOnlyRemoves` speaks of SLP220 where the lines left out are the same with and
  without the acknowledgements, as for one beside a string.
- A finding reported on the first line of a string of several lines cannot be
  acknowledged, since nothing but the string can stand there; strings of the models
  are of one line.
- A file lost to a parse error contributes no references and no constants:
  definitions elsewhere may become ghosts, and flags may be silenced.

- A `check` that is killed between truncating and writing leaves an empty file, which the
  next run finds clean; nothing remembers it. `DamageIsReported` exempts that file.
- A `check` writes what it fixed over a save made since its scan. `SavesSurvive` is about
  files that have nothing to fix.
- `CleanMeansClean` is about the sites of single files and clones between files: clones within a file,
  SLP090, SLP180 and SLP240 are attached by `FindingsAtHome`, but not counted.
- A lone CR does not end a line for `deletion_edit`: an own-line comment after it
  is taken for a trailing one. `NoStubLeft` excludes such texts.
- A file that two discovered paths lead to is scanned and fixed once for each, also
  through the path that is not exempt. `OptedOutIsNeverRewritten` assumes that
  there are none (`Unlinked`).
- Whole-tree rules see the files of the command line that could be read (and, for
  ghosts, that parse): `check one_file.py` may call a definition ghost that
  another file uses, and an over-full directory may go uncounted.
- A `.aider.conf.yml` whose writing stopped behind the banner comment counts as
  wired, since the comment mentions sloplint. `SaidIsSo` and `SettlesDown` use the
  code's own notion of being wired (`Mentions`).
- `lib.rs:38` of `sloplint_diagnostics` says that a warning does not by itself fail
  the run; `run_check` counts findings of every severity.
- `init` writes the merged text over the file in place: a kill or a full disk
  between truncating and writing loses the settings (`torn` in `InitRun`). What somebody saves
  after `init` has read the file and before it writes is overwritten (`overtaken`).
  `NothingLost` claims nothing of the first, and of the second that an earlier version is whole.
- `graph.rs` calls its module edges deduplicated. They are per importing file: two
  files of one dotted name that import the same module make parallel edges, which
  `summary` counts and community detection weighs twice. `summary.modules` counts
  such files too, the rows per package do not.
- An import below both a function and a `TYPE_CHECKING` test keeps its edge in
  `runtime_cycles`, though it never runs.
- A relative import in one source root may resolve to a module of the same name in
  another, and in a profile's graph an import of a submodule that another profile
  claims becomes an edge to the parent package.
- Depths of inheritance go by bare names: classes of one name share their bases
  and the depth, and a class may seem to inherit from itself. For a name on a
  circle the depth depends on which class was asked for first; `DepthsAreChains`
  speaks of the others.

**Bounds.** `MaxFaults`, `MaxEdits` and `MaxRuns` bound failed calls (kills
included), saves by others, and runs. One fault and one save at every possible
step cover every pair of a failure and a race; a second fault is added where the
question is about several failures. In `check_rerun` two runs are needed when two
fixes overlap (two sites of one text overlap), two may be spoilt by the faults, and
a fifth shows that nothing is left to do. Five characters hold two comments on neighbouring lines, a trailing
comment behind code and blanks, and both two-character terminators. Three fixes
hold a chain in which the second overlaps both others. Two nested packages are the
least in which dots lead to the package itself, its parent, the root and beyond;
`EdgesAreImports` is about projects whose names are unique (`NamesUnique`), which all
but the colliding ones are. Five modules are enough for a second level of Louvain
to move nodes that aggregation made. Hierarchies over two files with at most two bases a class
hold circles of one, two and three names, a circle that another class hangs below,
and two classes of one name. Signatures of five hashes in four bands leave one hash
over, and the streams of `MCMetricsRun` share all, most and few of their windows.
Three paths are one for each built-in profile; the ceilings of the command lines
are at a value some function has, and one below that of another.

**Fairness.** `Architecture` is a synchronous call, and so is the measuring in `Pipeline`:
weak fairness of their steps. `check`, `metrics` and `init` are one thread that never waits for another: `WF_vars(Run)`. That somebody
runs the command again, `WF_vars(RunAgain)`, is an assumption on the user, made
only for `Converges`, `SettlesDown` and `BadgesSettle`, which are about reruns. Kills, failures
and saves are never fair, and there are finitely many of them, as the three
properties need. Deadlock is checked in every run.

## The proofs

All theorems hold for every value of the constants that meets the named
assumptions of the module (`InputsOK`; `CodesAssumption`, `SitesAssumption`, ...).

`FixApplyProofs`. The types are invariant (`TypeCorrect`). `NoOverlap` is not
inductive: that the next fix is disjoint from the accepted ones follows from the
watermark, so the invariant `IInv` adds that no accepted edit ends behind the
watermark (`UnderWatermark`), and that the text is the source until the splice
(`UntouchedUntilSplice`). A fix that is accepted starts at or behind the
watermark, so all of its edits lie behind all accepted ones; the edits within it
are disjoint because it is well-formed. From `Invariance` follow
`AcceptedEditsNeverOverlap` and, when every edit covers a byte (`NonEmptyEdits`),
`SpliceOffsetsStayValid`: the edits still to come lie to the left of the one just
spliced. Without that assumption the last one is false, as an insertion at the start
of a deletion shows.

`EngineKeepsItsPromise` is the refinement of `FixPromise`, under the same assumption.
Only the last step of the splice maps to a step of the abstract specification, the
others stutter. That a candidate left out runs into an accepted one follows from the
watermark, which is always the end of an accepted fix. That the text is the source
with all edits made at once is carried along the splice: what lies to the right of the
next edit is rendered already, and the text up to its end is the source. `Rendered` is
a recursive function over offsets, so that a stretch without edits and a stretch
covered by one can be told apart by set induction from the end of the text.

`OnePassIsEnough` puts the rule and the engine together, for texts of any length. Comments
are told apart by where they begin, and the end of a line is between two (`CommentsApart`); so
the deletion of one is over where that of the next begins (`DeletionsApart`), although either
may reach over line terminators and blanks: an own-line deletion starts after an LF, which
the deletion before takes only with the CR in front of it. No fix
runs into another, and the scan leaves none out (`AllAccepted`). What the splice returns is then the
source at the places no edit takes, in their order (`RestIsKept`, again by set induction from
the end). A banned comment in it would begin with a hash of the source that was kept, hence of a
directive, whose first hash and mark are kept, too (`TakesItsOwn`), and still on one line: it
is a directive (`NoneBannedLeft`).

`CheckRunProofs`. The types are invariant (`TypeCorrect`). `IInv` adds what a run
knows (`Knowledge`): the source kept with a result is what the file held when the
run began unless it was saved since; nothing is written before the fixes; listed
findings about sites are of enabled rules; once fixing starts none is covered by
a suppression; the file that is open is among the torn ones. Hence every fix in
progress is permitted (lemma `FixableIsPermitted`), and
`OptedOutIsNeverRewritten` follows, under the assumption `Unlinked` that no two
paths lead to one file, without which it is false.
`DamageIsAlwaysReported` and `SavesAlwaysSurvive` follow from the same invariant;
the second is an action property.

The rest of `CheckRunProofs` is about what a run reports. `FindingsAreAtHome` rests on the units: the result
each is numbered with holds its function. The other two rest on `ReportIInv`.
`Covered`: every path waits, has exactly one result, or an error is recorded.
`Reported`: a file that does not parse is listed as broken until the end; the units of
every result are recorded until the whole-tree passes, and from then on functions
shared by two results are listed in both or acknowledged. `Accounted`: a site whose
rule is on and which is not acknowledged is listed, or the loop of the fixes is past
its result and the site is gone from the file; a file that is neither torn nor
saved by somebody is its source without some sites. `Truth`: status 0 is given only
to empty lists and no error. Writing the file of one result must not disturb that of
another, so `FixedIsAlwaysGone` and `CleanIsAlwaysClean` assume `Unlinked`, too;
the second also uses `DamageIsAlwaysReported`, as a torn file proves nothing.
`FailureIsAlwaysContained` counts: each result whose fixes are lost has used up one
fault of the run, as a fault is spent where a file is marked as failed and nowhere
else, so there are at most as many of them as faults.

`HookRunProofs`. The invariant: a run on its way has said nothing and nothing has
failed (`Underway`); every text the edited file has held since the edit is in `seen`
(`Witnessed`); a run that lints has read one of these (`Passed`); and the status of a
run that is over rests on that text (`Justified`). `BlocksAlwaysOnFindings` is the last
of these; for `SilenceAlwaysMeansClean`, a `seen` of one element holds just the text read.

`InitRunProofs`. `HookedOnce` holds because from the plan to the end of the write the
plan says "wired" (`Decided`), which it does only for what does not mention sloplint
or for an absent file of Aider's, while a file that is truncated, cut short or saved by others
has no hook. For `SayingIsTrue` the invariant adds that the targets are
distinct, that nothing is said of a tool before its turn is over (`Unsaid`), and that
the plan is made of the configuration that is there (`Fresh`). That `InOrder` names a tool
once uses that the natural numbers are well-founded. `BannerAssumption`, that the comment in
Aider's file is not the command, is needed for the two entries written there.
`NothingIsLost` needs more (`Kept`): a configuration that is damaged is one the command will
not write again (`DamageIsSettled`); what the plan was made of is a whole version of others, and the last one unless they
saved since (`ReadWhole`); and one that mentions no hook is such a version
(`UnhookedIsVersion`). The property says that the entries of a file are those of a version,
followed by some that `init` adds, and that this version is the last one written by others
unless `init` has overtaken a save, that is, written what it read before it. Of a file whose
writing was cut short it says nothing.

`ArchitectureProofs`. `ProfilesLoseNoCoupling`: resolving against fewer modules
loses no target among them. A candidate that is a module of the fewer is found
either way; one that falls back to its parent among the more is no module there,
hence none of the fewer (`ResolutionShrinks`). The invariant adds that the index
knows a node for every name, and that the imports of the modules passed are among
the edges. `TextAlwaysMatchesJson`: the flag of a name is that of the last file
passed that bears it (`LastBefore`), as in the map of the text view. Both assume
only that a project is a sequence.

`EdgesAreAlwaysImports` and `HardCyclesAreAlwaysHard`: a search through directories
and one through names find the same files. The location of a file is the directories
and the stem; its path is the location without its source root, and its dotted name is the path
(`DottedFacts`). `FoundIff`: below a package of `f`, a path leads to exactly the files that have
the root of `f` and the name put together, since all directories on the way are
packages and the root of a directory is unique (`RootIsUnique`). The converse
needs that a name that starts with a package of `f` is the name of a file under the root of `f`:
its outermost package has an `__init__.py` under each root it stands in, and two of
these would share a name (`SamePackage`). `BasesAre` then has the dots, counted from a module or
from a package, lead to one directory by either reading; and `PathResolves` goes through the
fallback from an attribute to the module before it. What the loop adds is `EdgesOK`: the
edges are those of the modules passed, by an index that does not change any more.
The theorems are about `Regular` projects, and need to be: a package `src` below a
root loses that component of its name (`src_package`), and with the two roots `s` and `t`,
`from . import util` in `t/run.py` is an edge to `s/util.py`, which Python would not
find, as the name of that anchor is empty under either root. All projects of `architecture` with unique
names are regular. `FilesAssumption` is what the grammar of Python says of an import:
without dots it names a module, and without imported names it has no dots.

The other half is about the communities, for a graph of any number of nodes and any
weights (`WeightOK`: whole, symmetric, not negative). `QAsBonds` writes the modularity
of a partition, scaled to whole numbers, as the sum of the bonds of all ordered pairs
that share a community: the bond of u and v is the weight between them, a self-loop
twice, times the sum of all degrees, minus the product of theirs. Two facts follow. Moving a node
changes only the pairs it is in (`MoveChangesQ`), and what the move adds is twice what the
visit compares (`GainIsBonds`), provided that the total of a community, kept up to date
by hand, is the sum of its members' degrees (`TotalsKept`, part of the invariant). And bonds
add up over blocks: the bond of two nodes of the next level is the sum of the bonds
between their members (`AggregateBond`), though the code meets each edge from both ends and
keeps a half of them, so that a partition of the next level has the modularity of the one
it lifts to (`AggregateKeepsQ`). Numbering the communities in order of their first
members neither joins nor splits any (`RenumberFacts`).

The invariant `LInv` adds to `IInv` that the weights of the level are such a graph, with
the sum of degrees computed at the start, and that every partition of the level has
the modularity of its lifting (`Faithful`). The last is more than `LevelsAgree`,
which is about the present partition only: a move compares two. `LevelsAlwaysAgree` is an
instance, and `MovesAlwaysPay` joins `BestPays`, that a community moved to has a
greater gain than the one left, with the two facts.

`FoldProofs`. `SumOf` is a fold over a set; `SumIsTotal` and `TotalsUnfold` bring it down
to the sum of a set with one element less, and the other lemmas (disjoint sets, pairs in
either order, products, renaming, bounds) follow by induction over finite sets.
`MinIsLeast`, `MaxIsGreatest` and `GreatestValue` say that what the models choose as the
least, the last or the best exists, and `LadderFacts` that numbering by order is one to one,
of numbers (`PlaceFacts`) and of pairs.

The second part is union-find. `Forest` gives every element a root and a depth that
falls along the parents, so that the recursive walk to the root, which is a path by
induction on the depth, ends in it (`FindIsRoot`). Compressing a path keeps all roots
(`CompressedIsForest`), linking two roots merges two classes (`UnionIsForest`). What pairs link
is defined without forests: the group of an element is the smallest set with it that no
pair leaves (`Group` of `Dsu`). `Represents` says that roots are equal within groups and
nowhere else; one union keeps it for one pair more (`UnionRepresents`), and set induction
carries it over the fold, for any order the fold may choose (`UnitedPairs`) and for the order of a sequence
(`UnitedInOrder`). The third part counts: as many roots as groups (`RootsAreGroups`), and
the sum over the roots of k (k - 1) / 2 is the number of pairs within the groups (`PairsBelowRoots`).

`MetricsRunProofs`. As long as a run is undisturbed, what is measured so far is what
the files passed hold now, a badge file is due or shows the panel of this run, and the status
of a finished run is that of the gates (`IInv`); nothing is known of a run that is
disturbed. `GatesAreAlwaysExact` and `BadgesAlwaysShowPanel` read off the
last two; whatever an earlier run left in the badge files does not matter.

`ViewsAlwaysAgree` holds of disturbed runs as well, so it has an invariant of its own,
`ReportInv`: what is measured is at every step what some content of some path is measured
to be under the configuration in force, which only changes while nothing is measured.
The panels and the proxies are then compared as sequences chosen from the same files
(`ChosenFacts`); for the built-in profiles `ProductionIsTheRest` shows that production is what
is neither a test nor generated. `WorstIsLargest` rests on bands that do not decrease with the
value, and on `FlattenInSeq`, that the functions of all files are one sequence, by
induction over the naturals. The assumptions: `MeasuresAssumption`, measures of
functions are natural numbers; `ProfilesAssumption`, profiles are sequences, and the built-in
ones are those of the source: tests, generated code with the globs that tell it, and the
default, production. A configuration without a default profile is allowed, and there a file may be in
no panel: `Wanted` tells which files must be.

`DuplicatesAreAlwaysCounted` follows from `ReportInv`, too. Equal sets of windows have equal
signatures, whatever the hash functions are, so that they share a bucket of the first
band, which has a row (`FirstBand`), and a similarity that no threshold up to 100 rejects: hence
`similarity <= 100` in the property, as more is nowhere refused. The pairs of a profile are united in the
order of the report, which leaves out none (`SortedFacts`); what lies below a root is then a
group, and below any other function nothing (`LargestGroup`). `SignaturesAssumption` says that there
are hashes and bands; the source fixes them in `CloneConfig::default`, and no configuration changes them.

`PipelineProofs`, the classes. `IInv` speaks of the calls under way: no name is twice on the path
(what the recursion's termination rests on), each call accounts for the bases it has
taken, and the one below it waits for the name it is about; a
name remembered has the depth of its longest chain if no circle is reachable from it.
Depths are compared with the levels of the definition by set induction on the naturals
(lemma `Upward`), which needs no operator as a parameter. In the end every name has its
depth (`DepthsAreAlwaysChains`). `CouplingIsAlwaysMutual` says that what all
classes use is what all are used by; `Counts` shows each of the two sums to be the
number of pairs it counts, with lemmas on sums over finite sets, and the pairs to
be the same by a bijection of their ends. The assumption `NamesAreOrdered` says that
projects are finite and that the names sorted are all that occur.

`NothingIsCountedTwice`, in the same module, is about the walks over syntax trees. What is
above a node is a line (`AboveFacts`, by induction along the tree): of two nodes on it the
earlier is above the later. So every node has one function next above it, or none, and the
range a function's branches are counted in is what it is next above of (`OwnRange`); the
sum over functions is then a sum over the groups of a partition (`OverFibers`). A
statement of a function's own walk is one whose scope the function is (`OwnStatements`), a
class weighs its methods under another numbering (`OverRenamed`), and no test is inside
another. The assumption `TreesAreTrees` is what the grammar gives: parents come
before their children, statements stand in blocks, those of a function or class in its body;
bodies are not empty, and an `if` has one test.

The rest of `PipelineProofs` is about the rules. Each speaks once of a place
(`RulesSpeakOnce`, rule by rule), mostly since a finding is built from the node it is at;
the exceptions are the rules of several passes (SLP130, SLP210, SLP230, SLP240, SLP220),
where the passes must not meet at a node. SLP220 is the reason for a part of
`SourcesAreFiles`: a file whose first line is an artifact of a conversation does not
parse. `LintInv` says that every file scanned has one result (`FilesInTurn`), whose
findings with the code of a rule over one file are what this rule says of this file
(`FindingsAreSaid`), through the passes over all files, which add other codes, and until
what is acknowledged is dropped. `OnePerPlaceAlways` is a part of it.

`LintAlwaysAgreesWithMetrics` joins it with what is measured of the same files
(`MeasuredIsChecked`: the files measured are those that parse). SLP082 reports a function
at the least statement of it that is too deep; that statement has the function next
above it among the scopes (`OwnStatements`), so that two functions are never reported as
one, and its depth is the number of blocks around it, of which `max_nesting` takes the
largest (`NestingIsDepth`). SLP030 speaks of handlers without a type or with one of two
names, and such handlers are counted bare or broad (`BroadIsBroad`).

`CohesionAlwaysAgrees` compares, for every class of every project, the figures that come from
two forests with groups of methods. For LCOM4 the code links methods that share an attribute
only with the next one in order, the property links all of them: a set keeps the one if and
only if it keeps the other (`InTurnIsAll`), and pairs that the same sets keep make the
same groups (`SameGroups`). For LCC the pairs united are those that TCC counts; they are
among the pairs within groups, which the sum over components counts. LCOM* is a share as the
methods that use attributes are pairs of a method and an attribute.

`NoqaOnlyEverRemoves` compares two views of a file, with and without its acknowledgements.
`LintInv` says of the rules over one file what is in the results; here `NothingElseIsSaid`
says exactly what is: all that the scan found, with what the passes over all files add,
less what is acknowledged once that has been dropped. The passes read no comments, and
neither does SLP220 but for the lines it leaves out (`PassesAside`), which is why the
theorem speaks of SLP220 only where these are the same. SLP020 and SLP090 are not of this
model. Twelve of the rules over one file do not read comments (`CommentsAside`). Of the
four others, SLP004 and SLP010 look at one comment at a time and take no acknowledgement
for prose; SLP001 and SLP002 hold words against the code, and find the same words there,
which no acknowledgement uses, on the same next line, which an acknowledgement is never
alone on (`WordsAside`, `AssociatedAside`). Comments have other numbers in the two views,
so that findings are compared by their faces: code, line and reason. `SourcesAreFiles`
says for these two that sources are records with the fields the rules read, comments are
sequences and limits are numbers.

Only model-checked, as out of the proof system's reach: liveness (`Terminates`,
`Converges`, `SettlesDown`, `BadgesSettle`, `Halts`).

Only model-checked, for all texts of the alphabet up to a length: `ProgramUnchanged` and
`NoStubLeft`. They compare the lines of two texts, and lines are cut with `SelectSeq`, a recursive
definition with an operator as a parameter.

`EdgesAreImports` and `HardCyclesAreHard` are proved for `Regular` projects, and false of others.

## Not modelled

- Parsing of Python, TOML, JSON and command lines, rendering, reports, rule
  documentation, derive macros: formatting, decoding and pure I/O.
- How a single name, text or line is classified: the tables of phrases, guards,
  foreign idioms and placeholders, the words of an identifier, the look of prose.
  Each is a comparison with a list; the models take the class.
- Propagation cost, coupling rows, Gini coefficients: arithmetic on the graph. Of
  the figures of a panel, the mean of the inheritance depths and of the top-level share.
- Collisions of 64-bit hashes in clone detection, and rounding in means and ratios, which
  are kept as pairs of numbers.
- The `parse` and `rule` commands, which print a tree or a rule's documentation.

## Plan

Done: the autofix engine with its promise, SLP010, `check`, `init`, `check --hook`,
`metrics` with clones, panels, badges and gates, the import graph with community detection, the measures of
functions and classes, all other rules, suppression and manifests, and theorems about
the engine and its promise, `check`, the hook, `init`, `metrics`, the import graph, community detection and
inheritance, the walks over syntax trees, cohesion and duplication down to their union-find,
the results of a check over trees and that they agree with what is measured.

Next: an abstract specification of a `check` run (each file ends as it was, as
somebody saved it, torn, or with a permitted set of sites removed) refined by
`CheckRun`; the coupling rows on top of `ImportGraph`.

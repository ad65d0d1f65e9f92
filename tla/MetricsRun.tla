------------------------------ MODULE MetricsRun ------------------------------
(***************************************************************************)
(* The `metrics` command (run_metrics of sloplint/src/commands/metrics.rs, *)
(* with compute, gates, badges and output): files are measured one by one, *)
(* panels are rolled up per profile, badge files are written, and ceilings *)
(* decide the exit status.                                                 *)
(*                                                                         *)
(* While the command runs, others may save or delete files; reading and    *)
(* writing may fail, and the process may be killed between two steps.      *)
(***************************************************************************)
EXTENDS Selection, RiskBands, CloneDetect, Sums

CONSTANTS
  Path,       \* the Python files of the project, a sequence in sorted order
  Content,    \* names of what a file may hold
  Measures,   \* what the front end measures in it: see MeasuresOK
  Trees,      \* what the project may hold at first
  Saved,      \* what others may save
  Suffixed,   \* paths named like generated modules (*_pb2.py)
  Missing,    \* the content of a file that is not there
  Malformed,  \* a configuration that is not TOML of the right shape
  Configs,    \* what sloplint.toml may hold
  DefaultConfig, \* the built-in configuration
  Jobs,       \* command lines: [explicit, paths, format, scope, badges, ceilings]
  MaxFaults,  \* failed calls and kills per behaviour
  MaxSaves    \* saves by others per behaviour

Paths == ToSet(Path)

\* A content is readable text or not, parses or not, carries the marker of
\* generated code or not, and has the measures of its functions and classes.
MeasuresOK ==
  \A c \in Content :
    LET functions == Measures[c].functions
    IN  /\ {"readable", "parses", "marker", "functions", "classes"} \subseteq DOMAIN Measures[c]
        /\ functions \in Seq(ToSet(functions))
        /\ \A f \in ToSet(functions), m \in FunctionMeasures : f[m] \in Nat
        /\ \A f \in ToSet(functions) : IsFiniteSet(f.shingles)
BoundsOK == MaxFaults \in Nat /\ MaxSaves \in Nat

\* There are two ceilings to ask for.
GatedMeasures == {"cyclomatic", "cognitive"}
JobsOK == \A j \in Jobs : DOMAIN j.ceilings \subseteq GatedMeasures

\* The built-in profiles: tests, generated code (whose globs are the suffixes
\* that tell it), and all the rest.  Profiles are sequences.
ProfilesOK ==
  LET tests == DefaultConfig.profiles[1]
      generated == DefaultConfig.profiles[2]
      production == DefaultConfig.profiles[3]
  IN  /\ Len(DefaultConfig.profiles) = 3
      /\ tests.name = "tests" /\ ~tests.generated /\ ~tests.default
      /\ generated.name = "generated" /\ generated.generated /\ ~generated.default
      /\ generated.match \ generated.exclude \subseteq Suffixed
      /\ production.name = "production" /\ production.default
      /\ \A c \in (Configs \ {Malformed}) \cup {DefaultConfig} :
           c.profiles \in Seq(ToSet(c.profiles)) /\ c.clone.similarity \in Nat

ASSUME MeasuresAssumption == MeasuresOK
ASSUME ProfilesAssumption == ProfilesOK /\ Path \in Seq(Paths)
ASSUME JobsAssumption == JobsOK
ASSUME MetricsBoundsAssumption == BoundsOK /\ Missing \notin Content /\ Saved \subseteq Content \cup {Missing}
                               /\ Trees \subseteq [Paths -> Content \cup {Missing}]

VARIABLES
  toml,      \* what sloplint.toml holds
  job,       \* the command line
  disk,      \* the content of each path, or Missing
  badges,    \* the badge files: [svg, json] of each slug, as what they show
  pc,        \* "load", "measure", "mkdir", "write", "gates" or "exit"
  config,    \* the configuration in force
  queue,     \* places in Path of the discovered paths still to be measured
  measured,  \* the files measured, by their place: [path, profiles, generated, content]
  printed,   \* the report is out
  pending,   \* badge files still to be written: <<slug, extension>>
  status,    \* the exit status
  faults, saves,
  disturbed  \* (history) during this run a call failed or a file was saved

vars == <<toml, job, disk, badges, pc, config, queue, measured, printed, pending, status,
          faults, saves, disturbed>>

None == [kind |-> "none"]
NoBadge == [svg |-> None, json |-> None]
Partial == [kind |-> "partial"]
Slugs == ToSet(MetricSlugs) \cup {"summary"}

-----------------------------------------------------------------------------
\* What is measured in a file, filed under its profiles.
MeasuredFile(path, content) ==
  LET m == Measures[content]
      generated == m.marker \/ path \in Suffixed
  IN  [path |-> path, content |-> content, generated |-> generated,
       profiles |-> ProfilesForFile(config, path, generated)]

\* What is measured, in the order of the places.
Files == Chosen(measured, DOMAIN measured)

InScope(scope, profiles) == scope = "all" \/ scope \in profiles

MeasuresOf(files) == [i \in DOMAIN files |-> Measures[files[i].content]]
Claimed(files, name) == Chosen(files, {i \in DOMAIN files : name \in files[i].profiles})

\* The clone units of all files, and the profiles of each.
UnitsOf(files) ==
  FlattenSeq([i \in DOMAIN files |->
    [j \in DOMAIN Measures[files[i].content].functions |->
      [file |-> i, shingles |-> Measures[files[i].content].functions[j].shingles,
       statements |-> Measures[files[i].content].functions[j].statements]]])
UnitProfiles(files) ==
  LET units == UnitsOf(files)
  IN  [u \in DOMAIN units |-> files[units[u].file].profiles]

\* (Mutant) Whatever is no test is production, generated or not.
TestStatsOfAll(files) ==
  LET tests == Claimed(files, "tests")
      production == Chosen(files, {i \in DOMAIN files : "tests" \notin files[i].profiles})
      Sum(part, field) == Total([i \in DOMAIN part |-> Measures[part[i].content][field]])
  IN  [testFiles |-> Len(tests), productionFiles |-> Len(production),
       testCode |-> <<Sum(tests, "loc"), Sum(production, "loc")>>,
       assertionFree |-> <<Sum(tests, "assertionFree"), Sum(tests, "tests")>>,
       doctested |-> <<Sum(production, "doctested"), Sum(production, "defs")>>]

\* The split into tests and production that the proxies report.
TestStats(files) ==
  LET tests == Claimed(files, "tests")
      production == Chosen(files, {i \in DOMAIN files : "tests" \notin files[i].profiles /\ ~files[i].generated})
      Sum(part, field) == Total([i \in DOMAIN part |-> Measures[part[i].content][field]])
  IN  [testFiles |-> Len(tests), productionFiles |-> Len(production),
       testCode |-> <<Sum(tests, "loc"), Sum(production, "loc")>>,
       assertionFree |-> <<Sum(tests, "assertionFree"), Sum(tests, "tests")>>,
       doctested |-> <<Sum(production, "doctested"), Sum(production, "defs")>>]

\* (Mutant) Only the files the panel shows are held against the ceiling.
OffendersInScope(files, measure, ceiling) ==
  UNION {{<<i, j>> : j \in {k \in DOMAIN Measures[files[i].content].functions :
                             /\ "production" \in files[i].profiles
                             /\ Measures[files[i].content].functions[k][measure] > ceiling}} :
           i \in DOMAIN files}

\* The functions over a ceiling: their file, and their place in it.
GateOffenders(files, measure, ceiling) ==
  UNION {{<<i, j>> : j \in {k \in DOMAIN Measures[files[i].content].functions :
                             Measures[files[i].content].functions[k][measure] > ceiling}} :
           i \in DOMAIN files}

Gate(files, measure, ceilings) ==
  measure \in DOMAIN ceilings /\ GateOffenders(files, measure, ceilings[measure]) # {}

-----------------------------------------------------------------------------
Init ==
  /\ toml \in Configs
  /\ job \in Jobs
  /\ disk \in Trees
  /\ badges = [s \in Slugs |-> NoBadge]
  /\ pc = "load"
  /\ config = DefaultConfig
  /\ queue = {} /\ measured = <<>> /\ printed = FALSE /\ pending = {}
  /\ status = 0
  /\ faults = 0 /\ saves = 0
  /\ disturbed = FALSE

Exit(code) == pc' = "exit" /\ status' = code

UnchangedOutside == UNCHANGED <<toml, job, disk, faults, saves, disturbed>>
Fault == faults < MaxFaults /\ faults' = faults + 1 /\ disturbed' = TRUE
UnchangedBut == UNCHANGED <<toml, job, disk, saves>>

\* A bad file named by --config is an error; a bad one that was discovered is
\* ignored.  A glob that does not compile is an error in both.
Loaded == IF toml = Malformed THEN DefaultConfig ELSE toml
CanLoad == (job.explicit => toml # Malformed) /\ Loaded.globsCompile

\* The scope asked for, by default the default profile or else the first.
ResolveScope(cfg) ==
  LET defaults == {i \in DOMAIN cfg.profiles : cfg.profiles[i].default}
  IN  IF job.scope # "none" THEN job.scope
      ELSE IF defaults = {} THEN cfg.profiles[1].name ELSE cfg.profiles[Min(defaults)].name
ScopeExists(cfg) ==
  IF job.scope = "none" THEN cfg.profiles # <<>>
  ELSE job.scope = "all" \/ job.scope \in ProfileNames(cfg)
Scope == ResolveScope(config)

Load ==
  /\ pc = "load"
  /\ IF CanLoad /\ ScopeExists(Loaded)
     THEN /\ config' = Loaded
          /\ queue' = {i \in DOMAIN Path : Path[i] \in job.paths /\ disk[Path[i]] # Missing}
          /\ pc' = "measure"
          /\ UNCHANGED status
     ELSE Exit(2) /\ UNCHANGED <<config, queue>>
  /\ UNCHANGED <<badges, measured, printed, pending>>
  /\ UnchangedOutside

\* One round of the loop of measure_files, in the order of the paths.
Take(i) ==
  /\ pc = "measure"
  /\ i \in queue /\ \A j \in queue : i <= j
  /\ queue' = queue \ {i}
  /\ UNCHANGED <<badges, pc, config, printed, pending, status>>

Readable(p) == disk[p] # Missing /\ Measures[disk[p]].readable /\ Measures[disk[p]].parses

\* A file is read, parsed and measured; one that cannot be is passed over.
Measure(i) ==
  /\ Take(i)
  /\ measured' = IF Readable(Path[i])
                  THEN [j \in DOMAIN measured \cup {i} |->
                          IF j = i THEN MeasuredFile(Path[i], disk[Path[i]]) ELSE measured[j]]
                  ELSE measured
  /\ UnchangedOutside

ReadFails(i) ==
  /\ Take(i)
  /\ Fault
  /\ UNCHANGED measured
  /\ UnchangedBut

\* The panel of a profile, and its duplication.
PanelOf(files, name) == Aggregate(MeasuresOf(Claimed(files, name)))
Pairs(files) == FindClones(UnitsOf(files), config.clone)

Aggregated == {"text", "json", "github"}

\* Feeds are rows of the units in scope; JSON has a panel for every profile.
ReportOf(files) ==
  LET inScope == Chosen(files, {i \in DOMAIN files : InScope(Scope, files[i].profiles)})
      panels == IF job.format = "json" \/ Scope = "all" THEN ProfileNames(config) ELSE {Scope}
  IN  IF job.format \notin Aggregated
      THEN [kind |-> job.format, rows |-> [i \in DOMAIN inScope |-> inScope[i].path]]
      ELSE LET pairs == Pairs(files)
               Panel(n) == [repo |-> PanelOf(files, n),
                            clones |-> CloneStatsFor(n, UnitProfiles(files), pairs)]
           IN  [kind |-> "panels", proxies |-> TestStats(files), pairs |-> pairs,
                panels |-> [n \in panels |-> Panel(n)]]

\* Badges report the scoped panel, or the whole tree.
BadgeScope(files) == IF Scope = "all" THEN files ELSE Claimed(files, Scope)

\* A badge file is stood for by the contents of the files its panel is made of;
\* the badges it is one of are those of that panel.
Panel(files) == [kind |-> "panel", shows |-> [i \in DOMAIN files |-> files[i].content]]
BadgesOf(panel) ==
  LET all == MetricBadges(Aggregate([i \in DOMAIN panel.shows |-> Measures[panel.shows[i]]]))
  IN  all @@ [s \in {"summary"} |-> SummaryBadge(all, config.summary)]

\* Which badge files a run writes, and when: slug by slug, the image first.
BadgeFiles ==
  LET kept == {s \in ToSet(MetricSlugs) : s \in config.include}
      known == {i \in DOMAIN config.summary : config.summary[i] \in ToSet(MetricSlugs)}
  IN  (kept \cup IF known = {} THEN {} ELSE {"summary"}) \X {"svg", "json"}
Turn(f) ==
  LET slugs == Append(MetricSlugs, "summary")
  IN  2 * Min({i \in DOMAIN slugs : slugs[i] = f[1]}) + (IF f[2] = "svg" THEN 0 ELSE 1)
IsNext(f) == f \in pending /\ \A g \in pending : Turn(f) <= Turn(g)

Report ==
  /\ pc = "measure" /\ queue = {}
  /\ printed' = TRUE
  /\ IF job.format \in Aggregated /\ job.badges
     THEN pc' = "mkdir" /\ pending' = BadgeFiles
     ELSE pc' = "gates" /\ UNCHANGED pending
  /\ UNCHANGED <<badges, config, queue, measured, status>>
  /\ UnchangedOutside

\* (Mutant) A directory that is there is an error.
CreateDirOnce ==
  /\ pc = "mkdir"
  /\ IF \A s \in Slugs : badges[s] = NoBadge THEN pc' = "write" /\ UNCHANGED status ELSE Exit(2)
  /\ UNCHANGED <<badges, config, queue, measured, printed, pending>>
  /\ UnchangedOutside

CreateDir ==
  /\ pc = "mkdir"
  /\ pc' = "write"
  /\ UNCHANGED <<badges, config, queue, measured, printed, pending, status>>
  /\ UnchangedOutside

\* (Mutant) A file that is there is left alone.
WriteIfMissing(f) ==
  /\ pc = "write" /\ IsNext(f)
  /\ badges' = IF badges[f[1]][f[2]] # None THEN badges
                ELSE [badges EXCEPT ![f[1]][f[2]] = Panel(BadgeScope(Files))]
  /\ pending' = pending \ {f}
  /\ UNCHANGED <<pc, config, queue, measured, printed, status>>
  /\ UnchangedOutside

WriteBadge(f) ==
  /\ pc = "write" /\ IsNext(f)
  /\ badges' = [badges EXCEPT ![f[1]][f[2]] = Panel(BadgeScope(Files))]
  /\ pending' = pending \ {f}
  /\ UNCHANGED <<pc, config, queue, measured, printed, status>>
  /\ UnchangedOutside

\* The directory cannot be made, or a badge file not be written, or only in
\* part: the gates are not reached.
WriteFails ==
  /\ \/ pc = "mkdir" /\ UNCHANGED badges
     \/ pc = "write" /\ pending # {} /\ UNCHANGED badges
     \/ /\ pc = "write"
        /\ \E f \in pending : IsNext(f) /\ badges' = [badges EXCEPT ![f[1]][f[2]] = Partial]
  /\ Fault
  /\ Exit(2)
  /\ UNCHANGED <<config, queue, measured, printed, pending>>
  /\ UnchangedBut

BadgesDone ==
  /\ pc = "write" /\ pending = {}
  /\ pc' = "gates"
  /\ UNCHANGED <<badges, config, queue, measured, printed, pending, status>>
  /\ UnchangedOutside

\* Every measured file is held against the ceilings, whatever the scope.
Gates ==
  /\ pc = "gates"
  /\ Exit(IF Gate(measured, "cyclomatic", job.ceilings) \/ Gate(measured, "cognitive", job.ceilings)
          THEN 1 ELSE 0)
  /\ UNCHANGED <<badges, config, queue, measured, printed, pending>>
  /\ UnchangedOutside

Run ==
  \/ Load \/ (\E i \in queue : Measure(i)) \/ Report
  \/ CreateDir \/ (\E f \in pending : WriteBadge(f)) \/ BadgesDone
  \/ Gates

-----------------------------------------------------------------------------
\* The surroundings.
Kill ==
  /\ pc # "exit"
  /\ Fault
  /\ pc' = "exit" /\ status' = 137
  /\ UNCHANGED <<badges, config, queue, measured, printed, pending>>
  /\ UnchangedBut

Save ==
  /\ saves < MaxSaves
  /\ \E p \in Paths, c \in Saved : c # disk[p] /\ disk' = [disk EXCEPT ![p] = c]
  /\ saves' = saves + 1
  /\ disturbed' = TRUE
  /\ UNCHANGED <<toml, job, badges, pc, config, queue, measured, printed, pending, status, faults>>

RunAgain ==
  /\ pc = "exit"
  /\ pc' = "load" /\ queue' = {} /\ measured' = <<>> /\ printed' = FALSE /\ pending' = {}
  /\ status' = 0 /\ disturbed' = FALSE
  /\ UNCHANGED <<toml, job, disk, badges, config, faults, saves>>

Next == Run \/ (\E i \in queue : ReadFails(i)) \/ WriteFails \/ Kill \/ Save \/ RunAgain

Spec == Init /\ [][Next]_vars /\ WF_vars(Run) /\ WF_vars(RunAgain)
-----------------------------------------------------------------------------
Finished == pc = "exit" /\ status \in {0, 1}

\* The files of the command line as they are now, measured, by their place.
Present ==
  [i \in {x \in DOMAIN Path : Path[x] \in job.paths /\ Readable(Path[x])} |->
     MeasuredFile(Path[i], disk[Path[i]])]

\* The exit status tells whether a function is over a ceiling: 1 if and only
\* if some file of the command line that can be read and parsed holds one, in
\* whatever profile, unless a call failed or somebody saved meanwhile.
GatesAreExact ==
  (Finished /\ ~disturbed) =>
    (status = 1 <=> \E i \in DOMAIN Present, m \in DOMAIN job.ceilings :
                       \E j \in DOMAIN Measures[Present[i].content].functions :
                         Measures[Present[i].content].functions[j][m] > job.ceilings[m])

\* Both files of every badge asked for show the panel of the scope as the
\* files are now.
WantsBadges == job.badges /\ job.format \in Aggregated /\ CanLoad /\ ScopeExists(Loaded)
BadgesCurrent ==
  LET expected == BadgesOf(Panel(BadgeScope(Chosen(Present, DOMAIN Present))))
      Shows(file, s) == file.kind = "panel" /\ BadgesOf(file)[s] = expected[s]
  IN  \A f \in BadgeFiles : Shows(badges[f[1]][f[2]], f[1])

\* A run that ends without an error leaves the badges it was asked for up to
\* date, unless somebody saved meanwhile: no stale or half-written file
\* remains from an earlier, interrupted run.
BadgesShowPanel == (Finished /\ ~disturbed /\ WantsBadges) => BadgesCurrent

\* However often runs are interrupted or raced, with the command run again
\* every run from some point on ends with the badges up to date.
BadgesSettle == <>[](pc = "exit" /\ WantsBadges => BadgesCurrent)

\* What is printed does not change afterwards.
Printed == ReportOf(Files)
JustPrinted ==
  /\ printed /\ job.format \in Aggregated
  /\ pc = IF job.badges THEN "mkdir" ELSE "gates"

\* There is a profile for a file: one that claims it, or one for all the rest.
Wanted(file) ==
  \E i \in DOMAIN config.profiles :
    config.profiles[i].default \/ Matches(config.profiles[i], file.path, file.generated)

\* What the parts of one report say of one another.
PartsAgree(report) ==
  LET panels == report.panels
      proxies == report.proxies
  IN  /\ "tests" \in DOMAIN panels => proxies.testFiles = panels["tests"].repo.files
      /\ config = DefaultConfig /\ "production" \in DOMAIN panels =>
           /\ proxies.productionFiles = panels["production"].repo.files
           /\ proxies.testCode[2] = panels["production"].repo.loc
      /\ DOMAIN panels = ProfileNames(config) =>
           \A i \in DOMAIN measured :
             measured[i].profiles \cap DOMAIN panels # {} \/ ~Wanted(measured[i])
      /\ \A n \in DOMAIN panels, m \in FunctionMeasures :
           LET roll == panels[n].repo.roll[m]
           IN  panels[n].repo.functions > 0 => WorstTier(roll.risk) = Tier(m, roll.max)

\* The parts of one report agree: the test proxies count the files the panels
\* count (for the built-in profiles), every file there is a profile for is in
\* some panel, and the worst band of a risk histogram is the band of the
\* maximum shown beside it.
ViewsAgree == JustPrinted => PartsAgree(Printed)

\* What the panel of profile n counts of the confirmed pairs.
CountedFor(clones, n, units, profilesOf, pairs) ==
  LET mine == {u \in DOMAIN units : n \in profilesOf[u]}
      inner == {p \in pairs : p[1] \in mine /\ p[2] \in mine}
  IN  /\ clones.inClones = Cardinality({u \in mine : \E v \in Partners(pairs, u) : v \in mine})
      /\ clones.inClones <= Cardinality(DOMAIN CloneFindings(pairs))
      /\ clones.largestCluster =
           Max({0} \cup {Cardinality(Group(inner, DOMAIN units, u)) : u \in Involved(inner)})

CountedIn(report, units, profilesOf) ==
  /\ config.clone.similarity <= 100 =>
       \A u, v \in Eligible(units, config.clone.minStatements) :
         u < v /\ units[u].shingles = units[v].shingles => <<u, v>> \in report.pairs
  /\ \A n \in DOMAIN report.panels :
       CountedFor(report.panels[n].clones, n, units, profilesOf, report.pairs)

\* Functions that differ only in names and literals are found to be clones
\* (unless more than all is asked for), and the duplication a panel reports is
\* what SLP020 reports: the functions with a partner in the profile, and as
\* largest cluster the most functions that are linked by pairs.
DuplicatesAreCounted == JustPrinted => CountedIn(Printed, UnitsOf(Files), UnitProfiles(Files))

=============================================================================

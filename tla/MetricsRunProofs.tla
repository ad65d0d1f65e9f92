--------------------------- MODULE MetricsRunProofs ---------------------------
(***************************************************************************)
(* Theorems about the metrics command, for every project, configuration    *)
(* and command line, and any number of failures, kills, saves by others    *)
(* and further runs: the exit status is what the files deserve, the        *)
(* badges that a run leaves show the files as they are, the parts of a     *)
(* report agree with each other, and duplicates are counted as the pairs   *)
(* link them.                                                              *)
(***************************************************************************)
EXTENDS MetricsRun, FoldProofs, TLAPS

Extensions == {"svg", "json"}

\* The places of the files that a run measures when nothing interferes.
Places == {x \in DOMAIN Path : Path[x] \in job.paths /\ Readable(Path[x])}

\* What the badge files of this run show.
Shown == Panel(BadgeScope(Files))

Shows(f) == badges[f[1]][f[2]] = Shown

\* What is measured was asked for, and every badge has its two files.
Shaped ==
  /\ job \in Jobs
  /\ \A i \in queue : i \in DOMAIN Path /\ Path[i] \in job.paths
  /\ badges = [s \in Slugs |-> badges[s]]
  /\ \A s \in Slugs : badges[s] = [e \in Extensions |-> badges[s][e]]
  /\ pending \subseteq Slugs \X Extensions

\* What is measured so far is what the files hold now.
MeasuredSoFar ==
  /\ pc = "load" => measured = <<>>
  /\ pc = "measure" => measured = [i \in Places \ queue |-> MeasuredFile(Path[i], disk[Path[i]])]
  /\ pc \in {"mkdir", "write", "gates"} \/ Finished => measured = Present

\* A badge file is still to be written or shows the panel of this run.
WrittenSoFar ==
  /\ pc = "mkdir" => pending = BadgeFiles
  /\ pc = "write" => \A f \in BadgeFiles : f \in pending \/ Shows(f)
  /\ (pc = "gates" \/ Finished) /\ WantsBadges => \A f \in BadgeFiles : Shows(f)

\* The exit status is that of the gates.
Gated ==
  Finished => (status = 1 <=> \E m \in GatedMeasures : Gate(measured, m, job.ceilings))

Exact == MeasuredSoFar /\ WrittenSoFar /\ Gated

IInv == Shaped /\ (~disturbed => Exact)

-----------------------------------------------------------------------------
LEMMA BadgeFilesAreBadges == BadgeFiles \subseteq Slugs \X Extensions
BY DEF BadgeFiles, Slugs, Extensions

\* One file of one badge is written, the others stay.
LEMMA OneBadge ==
  ASSUME Shaped, NEW f \in Slugs \X Extensions, NEW x, job' = job,
         badges' = [badges EXCEPT ![f[1]][f[2]] = x], queue' = queue,
         pending' \subseteq pending
  PROVE  /\ Shaped'
         /\ badges'[f[1]][f[2]] = x
         /\ \A g \in Slugs \X Extensions : g # f => badges'[g[1]][g[2]] = badges[g[1]][g[2]]
<1>1. PICK s \in Slugs, e \in Extensions : f = <<s, e>>
  OBVIOUS
<1>2. badges' = [badges EXCEPT ![s][e] = x]
  BY <1>1
<1>3. \A t \in Slugs : badges'[t] = IF t = s THEN [badges[s] EXCEPT ![e] = x] ELSE badges[t]
  BY <1>2 DEF Shaped
<1>4. \A u \in Extensions : badges'[s][u] = IF u = e THEN x ELSE badges[s][u]
  BY <1>3 DEF Shaped
<1>5. Shaped'
  <2>1. badges' = [t \in Slugs |-> badges'[t]]
    BY <1>2 DEF Shaped
  <2>2. badges'[s] = [u \in Extensions |-> badges'[s][u]]
    BY <1>3 DEF Shaped
  <2>3. \A t \in Slugs : badges'[t] = [u \in Extensions |-> badges'[t][u]]
    BY <1>3, <2>2 DEF Shaped
  <2>4. \A i \in queue' : i \in DOMAIN Path /\ Path[i] \in job'.paths
    BY DEF Shaped
  <2>5. QED
    BY <2>1, <2>3, <2>4 DEF Shaped
<1>6. QED
  BY <1>1, <1>3, <1>4, <1>5

\* What was found and measured is the same as long as files and profiles are.
LEMMA SameFiles ==
  ASSUME UNCHANGED <<job, disk, config>>
  PROVE  /\ Places' = Places
         /\ \A i : MeasuredFile(Path[i], disk[Path[i]])' = MeasuredFile(Path[i], disk[Path[i]])
         /\ Present' = Present
<1>1. Places' = Places
  BY DEF Places, Readable
<1>2. \A i : MeasuredFile(Path[i], disk[Path[i]])' = MeasuredFile(Path[i], disk[Path[i]])
  BY DEF MeasuredFile
<1>3. Present = [i \in Places |-> MeasuredFile(Path[i], disk[Path[i]])]
  BY DEF Present, Places
<1>4. Present' = [i \in Places' |-> MeasuredFile(Path[i], disk[Path[i]])']
  BY DEF Present, Places, Readable
<1>5. QED
  BY <1>1, <1>2, <1>3, <1>4

LEMMA SameReport ==
  ASSUME UNCHANGED <<job, toml, config, measured>>
  PROVE  Shown' = Shown /\ BadgeFiles' = BadgeFiles /\ (WantsBadges' <=> WantsBadges)
<1>1. Shown' = Shown
  BY DEF Shown, BadgeScope, Files, Scope, ResolveScope
<1>2. BadgeFiles' = BadgeFiles
  BY DEF BadgeFiles
<1>3. WantsBadges' <=> WantsBadges
  BY DEF WantsBadges, CanLoad, ScopeExists, Loaded
<1>4. QED
  BY <1>1, <1>2, <1>3

LEMMA InitHolds == Init => IInv
<1> SUFFICES ASSUME Init PROVE IInv
  OBVIOUS
<1>1. Shaped
  <2>1. \A s \in Slugs : badges[s] = [e \in Extensions |-> badges[s][e]]
    BY DEF Init, NoBadge, Extensions
  <2>2. QED
    BY <2>1 DEF Init, Shaped
<1>2. pc = "load" /\ measured = <<>>
  BY DEF Init
<1>3. QED
  BY <1>1, <1>2 DEF IInv, Exact, MeasuredSoFar, WrittenSoFar, Gated, Finished

LEMMA LoadKeeps == IInv /\ Load => IInv'
<1> SUFFICES ASSUME IInv, Load PROVE IInv'
  OBVIOUS
<1>1. /\ pc = "load" /\ UNCHANGED <<job, disk, badges, measured, pending, disturbed>>
      /\ \/ pc' = "exit" /\ status' = 2 /\ queue' = queue
         \/ pc' = "measure" /\ queue' = {i \in DOMAIN Path : Path[i] \in job.paths /\ disk[Path[i]] # Missing}
  BY DEF Load, UnchangedOutside, Exit
<1>2. Shaped'
  BY <1>1 DEF IInv, Shaped
<1>3. CASE pc' = "exit"
  BY <1>1, <1>2, <1>3 DEF IInv, Exact, MeasuredSoFar, WrittenSoFar, Gated, Finished
<1>4. CASE pc' = "measure" /\ ~disturbed
  <2>1. measured' = <<>>
    BY <1>1, <1>4 DEF IInv, Exact, MeasuredSoFar
  <2>2. Places' \ queue' = {}
    BY <1>1, <1>4 DEF Places, Readable
  <2>3. measured' = [i \in Places' \ queue' |-> MeasuredFile(Path[i], disk[Path[i]])']
    BY <2>1, <2>2
  <2>4. QED
    BY <1>1, <1>2, <1>4, <2>3 DEF IInv, Exact, MeasuredSoFar, WrittenSoFar, Gated, Finished
<1>5. QED
  BY <1>1, <1>2, <1>3, <1>4 DEF IInv

LEMMA MeasureKeeps == ASSUME NEW i \in queue PROVE IInv /\ Measure(i) => IInv'
<1> SUFFICES ASSUME IInv, Measure(i) PROVE IInv'
  OBVIOUS
<1> DEFINE M(j) == MeasuredFile(Path[j], disk[Path[j]])
<1>1. /\ pc = "measure" /\ pc' = "measure" /\ queue' = queue \ {i}
      /\ UNCHANGED <<job, disk, config, badges, pending, disturbed>>
      /\ measured' = IF Readable(Path[i])
                     THEN [j \in DOMAIN measured \cup {i} |-> IF j = i THEN M(i) ELSE measured[j]]
                     ELSE measured
  BY DEF Measure, Take, UnchangedOutside
<1>2. Shaped'
  BY <1>1 DEF IInv, Shaped
<1>3. ASSUME ~disturbed PROVE measured' = [j \in Places \ (queue \ {i}) |-> M(j)]
  <2>1. measured = [j \in Places \ queue |-> M(j)]
    BY <1>1, <1>3 DEF IInv, Exact, MeasuredSoFar
  <2>2. CASE i \in Places
    <3>1. Readable(Path[i]) /\ Places \ (queue \ {i}) = (Places \ queue) \cup {i}
      BY <2>2 DEF Places
    <3>2. measured' = [j \in (Places \ queue) \cup {i} |-> IF j = i THEN M(i) ELSE measured[j]]
      BY <1>1, <2>1, <3>1
    <3>3. QED
      BY <2>1, <3>1, <3>2
  <2>3. CASE i \notin Places
    <3>1. Places \ (queue \ {i}) = Places \ queue
      BY <2>3
    <3>2. measured' = measured
      BY <1>1, <2>3 DEF Places, IInv, Shaped
    <3>3. QED
      BY <2>1, <3>1, <3>2
  <2>4. QED
    BY <2>2, <2>3
<1>4. QED
  BY <1>1, <1>2, <1>3, SameFiles DEF IInv, Exact, MeasuredSoFar, WrittenSoFar, Gated, Finished

\* When the last file is measured, what is measured is what is present.
LEMMA ReportKeeps == IInv /\ Report => IInv'
<1> SUFFICES ASSUME IInv, Report PROVE IInv'
  OBVIOUS
<1>1. /\ pc = "measure" /\ queue = {} /\ pc' \in {"mkdir", "gates"}
      /\ pc' = "mkdir" => pending' = BadgeFiles
      /\ pc' = "gates" => ~(job.format \in Aggregated /\ job.badges) /\ pending' = pending
      /\ UNCHANGED <<toml, job, disk, config, badges, measured, disturbed, queue>>
  BY DEF Report, UnchangedOutside
<1>2. Shaped'
  BY <1>1, BadgeFilesAreBadges DEF IInv, Shaped
<1>3. ASSUME ~disturbed PROVE measured' = Present'
  <2>1. measured = [i \in Places |-> MeasuredFile(Path[i], disk[Path[i]])]
    BY <1>1, <1>3 DEF IInv, Exact, MeasuredSoFar
  <2>2. measured = Present
    BY <2>1 DEF Present, Places
  <2>3. QED
    BY <1>1, <2>2, SameFiles
<1>4. BadgeFiles' = BadgeFiles /\ (WantsBadges' <=> WantsBadges)
  BY <1>1, SameReport
<1>5. WrittenSoFar'
  BY <1>1, <1>4 DEF WrittenSoFar, WantsBadges, Finished
<1>6. QED
  BY <1>1, <1>2, <1>3, <1>5 DEF IInv, Exact, MeasuredSoFar, Gated, Finished

LEMMA CreateDirKeeps == IInv /\ CreateDir => IInv'
<1> SUFFICES ASSUME IInv, CreateDir PROVE IInv'
  OBVIOUS
<1>1. /\ pc = "mkdir" /\ pc' = "write"
      /\ UNCHANGED <<toml, job, disk, config, badges, measured, pending, disturbed, queue>>
  BY DEF CreateDir, UnchangedOutside
<1>2. Shaped'
  BY <1>1 DEF IInv, Shaped
<1>3. Present' = Present /\ BadgeFiles' = BadgeFiles
  BY <1>1, SameFiles, SameReport
<1>4. QED
  BY <1>1, <1>2, <1>3 DEF IInv, Exact, MeasuredSoFar, WrittenSoFar, Gated, Finished

LEMMA WriteBadgeKeeps == ASSUME NEW f \in pending PROVE IInv /\ WriteBadge(f) => IInv'
<1> SUFFICES ASSUME IInv, WriteBadge(f) PROVE IInv'
  OBVIOUS
<1>1. /\ pc = "write" /\ pc' = "write" /\ pending' = pending \ {f}
      /\ badges' = [badges EXCEPT ![f[1]][f[2]] = Shown]
      /\ UNCHANGED <<toml, job, disk, config, measured, disturbed, queue>>
  BY DEF WriteBadge, UnchangedOutside, Shown
<1>2. Present' = Present /\ BadgeFiles' = BadgeFiles /\ Shown' = Shown
  BY <1>1, SameFiles, SameReport
<1>3. f \in Slugs \X Extensions
  BY <1>1 DEF IInv, Shaped
<1>4. Shaped' /\ Shows(f)' /\ \A g \in Slugs \X Extensions : g # f /\ Shows(g) => Shows(g)'
  <2>1. /\ Shaped' /\ badges'[f[1]][f[2]] = Shown
        /\ \A g \in Slugs \X Extensions : g # f => badges'[g[1]][g[2]] = badges[g[1]][g[2]]
    BY <1>1, <1>3, OneBadge DEF IInv
  <2>2. QED
    BY <1>2, <2>1 DEF Shows
<1>5. ASSUME ~disturbed, NEW g \in BadgeFiles PROVE g \in pending' \/ Shows(g)'
  <2>1. g \in pending \/ Shows(g)
    BY <1>1, <1>5 DEF IInv, Exact, WrittenSoFar
  <2>2. QED
    BY <1>1, <1>4, <2>1, BadgeFilesAreBadges
<1>6. QED
  BY <1>1, <1>2, <1>4, <1>5 DEF IInv, Exact, MeasuredSoFar, WrittenSoFar, Gated, Finished

LEMMA BadgesDoneKeeps == IInv /\ BadgesDone => IInv'
<1> SUFFICES ASSUME IInv, BadgesDone PROVE IInv'
  OBVIOUS
<1>1. /\ pc = "write" /\ pc' = "gates" /\ pending = {}
      /\ UNCHANGED <<toml, job, disk, config, badges, measured, disturbed, queue, pending>>
  BY DEF BadgesDone, UnchangedOutside
<1>2. Present' = Present /\ BadgeFiles' = BadgeFiles /\ Shown' = Shown
  BY <1>1, SameFiles, SameReport
<1>3. Shaped'
  BY <1>1 DEF IInv, Shaped
<1>4. ~disturbed => \A f \in BadgeFiles : Shows(f)
  BY <1>1 DEF IInv, Exact, WrittenSoFar
<1>5. QED
  BY <1>1, <1>2, <1>3, <1>4 DEF IInv, Exact, MeasuredSoFar, WrittenSoFar, Gated, Finished, Shows

LEMMA GatesKeeps == IInv /\ Gates => IInv'
<1> SUFFICES ASSUME IInv, Gates PROVE IInv'
  OBVIOUS
<1>1. /\ pc = "gates" /\ pc' = "exit"
      /\ status' = IF Gate(measured, "cyclomatic", job.ceilings) \/ Gate(measured, "cognitive", job.ceilings)
                   THEN 1 ELSE 0
      /\ UNCHANGED <<toml, job, disk, config, badges, measured, disturbed, queue, pending>>
  BY DEF Gates, UnchangedOutside, Exit
<1>2. Present' = Present /\ BadgeFiles' = BadgeFiles /\ Shown' = Shown /\ (WantsBadges' <=> WantsBadges)
  BY <1>1, SameFiles, SameReport
<1>3. Shaped'
  BY <1>1 DEF IInv, Shaped
<1>4. Gated'
  BY <1>1 DEF Gated, GatedMeasures
<1>5. ASSUME ~disturbed PROVE MeasuredSoFar' /\ WrittenSoFar'
  BY <1>1, <1>2, <1>5 DEF IInv, Exact, MeasuredSoFar, WrittenSoFar, Shows
<1>6. QED
  BY <1>1, <1>3, <1>4, <1>5 DEF IInv, Exact

\* A failure or a kill disturbs the run, and leaves no badge without a file.
LEMMA DisturbanceKeeps ==
  ASSUME IInv, (\E i \in queue : ReadFails(i)) \/ WriteFails \/ Kill \/ Save
  PROVE  IInv'
<1>1. disturbed' = TRUE /\ job' = job /\ queue' \subseteq queue /\ pending' = pending
  BY DEF ReadFails, WriteFails, Kill, Save, Take, Fault, UnchangedBut
<1>2. CASE badges' = badges
  BY <1>1, <1>2 DEF IInv, Shaped
<1>3. ASSUME NEW f \in pending, badges' = [badges EXCEPT ![f[1]][f[2]] = Partial], queue' = queue
      PROVE  IInv'
  <2>1. f \in Slugs \X Extensions
    BY DEF IInv, Shaped
  <2>2. QED
    BY <1>1, <1>3, <2>1, OneBadge DEF IInv
<1>4. QED
  BY <1>2, <1>3 DEF ReadFails, WriteFails, Kill, Save, Take

LEMMA RunAgainKeeps == IInv /\ RunAgain => IInv'
BY DEF RunAgain, IInv, Shaped, Exact, MeasuredSoFar, WrittenSoFar, Gated, Finished

LEMMA StutterKeeps == IInv /\ UNCHANGED vars => IInv'
<1> SUFFICES ASSUME IInv, UNCHANGED vars PROVE IInv'
  OBVIOUS
<1>1. UNCHANGED <<toml, job, disk, badges, pc, config, queue, measured, pending, status, disturbed>>
  BY DEF vars
<1>2. /\ Present' = Present /\ Places' = Places
      /\ \A i : MeasuredFile(Path[i], disk[Path[i]])' = MeasuredFile(Path[i], disk[Path[i]])
      /\ BadgeFiles' = BadgeFiles /\ Shown' = Shown /\ (WantsBadges' <=> WantsBadges)
  BY <1>1, SameFiles, SameReport
<1>3. Shaped' /\ (Finished' <=> Finished)
  BY <1>1 DEF IInv, Shaped, Finished
<1>4. MeasuredSoFar => MeasuredSoFar'
  BY <1>1, <1>2, <1>3 DEF MeasuredSoFar
<1>5. WrittenSoFar => WrittenSoFar'
  BY <1>1, <1>2, <1>3 DEF WrittenSoFar, Shows
<1>6. Gated => Gated'
  BY <1>1, <1>3 DEF Gated
<1>7. QED
  BY <1>1, <1>3, <1>4, <1>5, <1>6 DEF IInv, Exact

-----------------------------------------------------------------------------
\* The inductive invariant of the metrics command: as long as nothing interferes,
\* what is measured is what the files hold, each badge file is still due or
\* shows it, and the exit status is that of the gates.
THEOREM Invariance == Spec => []IInv
<1>1. IInv /\ [Next]_vars => IInv'
  BY LoadKeeps, MeasureKeeps, ReportKeeps, CreateDirKeeps, WriteBadgeKeeps, BadgesDoneKeeps, GatesKeeps,
     DisturbanceKeeps, RunAgainKeeps, StutterKeeps DEF Next, Run
<1>2. QED
  BY InitHolds, <1>1, PTL DEF Spec

\* THEOREM: the exit status of an undisturbed run is 1 if and only if a function
\* of the files of the command line, as they are, is over a ceiling, whatever
\* the profiles of its file and the scope of the report.
THEOREM GatesAreAlwaysExact == Spec => []GatesAreExact
<1>1. IInv => GatesAreExact
  <2> SUFFICES ASSUME IInv, Finished, ~disturbed
               PROVE  status = 1 <=> \E i \in DOMAIN Present, m \in DOMAIN job.ceilings :
                                       \E j \in DOMAIN Measures[Present[i].content].functions :
                                         Measures[Present[i].content].functions[j][m] > job.ceilings[m]
    BY DEF GatesAreExact
  <2>1. measured = Present /\ (status = 1 <=> \E m \in GatedMeasures : Gate(measured, m, job.ceilings))
    BY DEF IInv, Exact, MeasuredSoFar, Gated
  <2>2. DOMAIN job.ceilings \subseteq GatedMeasures
    BY JobsAssumption DEF JobsOK, IInv, Shaped
  <2>3. ASSUME NEW m
        PROVE  GateOffenders(Present, m, job.ceilings[m]) # {} <=>
                 \E i \in DOMAIN Present : \E j \in DOMAIN Measures[Present[i].content].functions :
                   Measures[Present[i].content].functions[j][m] > job.ceilings[m]
    <3> DEFINE functions(i) == Measures[Present[i].content].functions
               over(i) == {k \in DOMAIN functions(i) : functions(i)[k][m] > job.ceilings[m]}
               pairs(i) == {<<i, j>> : j \in over(i)}
    <3>1. GateOffenders(Present, m, job.ceilings[m]) = UNION {pairs(i) : i \in DOMAIN Present}
      BY DEF GateOffenders
    <3>2. \A i : pairs(i) # {} <=> over(i) # {}
      OBVIOUS
    <3>3. \A i : over(i) # {} <=> \E j \in DOMAIN functions(i) : functions(i)[j][m] > job.ceilings[m]
      OBVIOUS
    <3> HIDE DEF pairs
    <3>4. UNION {pairs(i) : i \in DOMAIN Present} # {} <=> \E i \in DOMAIN Present : pairs(i) # {}
      OBVIOUS
    <3>5. QED
      BY <3>1, <3>2, <3>3, <3>4
  <2>4. QED
    BY <2>1, <2>2, <2>3 DEF Gate
<1>2. QED
  BY Invariance, <1>1, PTL

\* THEOREM: whatever earlier runs were stopped or raced, an undisturbed run that
\* ends without an error leaves both files of every badge it was asked for
\* showing the panel of the files as they are.
THEOREM BadgesAlwaysShowPanel == Spec => []BadgesShowPanel
<1>1. IInv => BadgesShowPanel
  <2> SUFFICES ASSUME IInv, Finished, ~disturbed, WantsBadges, NEW f \in BadgeFiles
               PROVE  LET expected == BadgesOf(Panel(BadgeScope(Chosen(Present, DOMAIN Present))))
                      IN  badges[f[1]][f[2]].kind = "panel" /\ BadgesOf(badges[f[1]][f[2]])[f[1]] = expected[f[1]]
    BY DEF BadgesShowPanel, BadgesCurrent
  <2>1. measured = Present /\ badges[f[1]][f[2]] = Shown
    BY DEF IInv, Exact, MeasuredSoFar, WrittenSoFar, Shows
  <2>2. Shown = Panel(BadgeScope(Chosen(Present, DOMAIN Present)))
    BY <2>1 DEF Shown, Files
  <2>3. Shown.kind = "panel"
    BY DEF Shown, Panel
  <2>4. QED
    BY <2>1, <2>2, <2>3
<1>2. QED
  BY Invariance, <1>1, PTL

-----------------------------------------------------------------------------
(* Sequences of sequences, one after the other. *)

\* The first n of some sequences, flattened, for each n up to their number.
Flat(f, seqs, n) ==
  f = [i \in 1..n |-> IF i = 1 THEN seqs[i] ELSE f[i - 1] \o seqs[i]]


\* There is such a function, although it is defined by itself.
LEMMA FlatExists ==
  ASSUME NEW seqs, NEW k \in Nat
  PROVE  \E f : Flat(f, seqs, k)
<1> DEFINE N == {n \in 0..k : \E f : Flat(f, seqs, n)}
<1>1. 0 \in N
  <2> DEFINE f == [i \in 1..0 |-> i]
  <2>1. Flat(f, seqs, 0)
    BY DEF Flat
  <2>2. QED
    BY <2>1
<1>2. ASSUME NEW n \in 1..k, n - 1 \in N PROVE n \in N
  <2>1. PICK f : Flat(f, seqs, n - 1)
    BY <1>2
  <2> DEFINE g == [i \in 1..n |-> IF i = n THEN (IF n = 1 THEN seqs[1] ELSE f[n - 1] \o seqs[n]) ELSE f[i]]
  <2>2. \A i \in 1..(n - 1) : f[i] = IF i = 1 THEN seqs[i] ELSE f[i - 1] \o seqs[i]
    BY <2>1 DEF Flat
  <2>3. \A i \in 1..n : g[i] = IF i = 1 THEN seqs[i] ELSE g[i - 1] \o seqs[i]
    <3>1. CASE n = 1
      BY <3>1
    <3>2. ASSUME n # 1, NEW i \in 1..n PROVE g[i] = IF i = 1 THEN seqs[i] ELSE g[i - 1] \o seqs[i]
      <4>1. n \in Nat /\ n > 1
        BY <3>2
      <4>2. CASE i = n
        <5>1. g[i - 1] = f[n - 1]
          BY <4>1, <4>2
        <5>2. QED
          BY <4>1, <4>2, <5>1
      <4>3. CASE i # n /\ i = 1
        BY <2>2, <4>1, <4>3
      <4>4. CASE i # n /\ i # 1
        <5>1. i \in 1..(n - 1) /\ i - 1 \in 1..n /\ i - 1 # n
          BY <4>1, <4>4
        <5>2. g[i] = f[i] /\ g[i - 1] = f[i - 1]
          BY <5>1, <4>4
        <5> HIDE DEF g
        <5>3. QED
          BY <2>2, <4>4, <5>1, <5>2
      <4>5. QED
        BY <4>2, <4>3, <4>4
    <3>3. QED
      BY <3>1, <3>2
  <2>4. Flat(g, seqs, n)
    <3>1. g = [i \in 1..n |-> g[i]]
      OBVIOUS
    <3> HIDE DEF g
    <3>2. QED
      BY <2>3, <3>1 DEF Flat
  <2> HIDE DEF g
  <2>5. QED
    BY <2>4
<1> HIDE DEF N
<1>3. 0..k \subseteq N
  BY <1>1, <1>2, Upward
<1>4. k \in N
  BY <1>3
<1>5. QED
  BY <1>4 DEF N

\* Sequences over a set make one sequence over it.
LEMMA FlattenInSeq ==
  ASSUME NEW S, NEW seqs \in Seq(Seq(S))
  PROVE  FlattenSeq(seqs) \in Seq(S)
<1> DEFINE k == Len(seqs)
           f == CHOOSE f : Flat(f, seqs, k)
<1>1. k \in Nat /\ \A i \in 1..k : seqs[i] \in Seq(S)
  OBVIOUS
<1>2. CASE k = 0
  BY <1>2 DEF FlattenSeq
<1>3. CASE k > 0
  <2>1. Flat(f, seqs, k)
    <3>1. \E h : Flat(h, seqs, k)
      BY <1>1, FlatExists
    <3>2. QED
      BY <3>1, Zenon
  <2>2. FlattenSeq(seqs) = f[k]
    <3>1. FlattenSeq(seqs) = IF Len(seqs) = 0 THEN seqs ELSE f[Len(seqs)]
      BY Zenon DEF FlattenSeq, Flat
    <3> HIDE DEF f
    <3>2. QED
      BY <1>1, <1>3, <3>1
  <2> HIDE DEF f
  <2>3. \A i \in 1..k : f[i] = IF i = 1 THEN seqs[i] ELSE f[i - 1] \o seqs[i]
    BY <2>1 DEF Flat
  <2> DEFINE N == {n \in 0..k : n > 0 => f[n] \in Seq(S)}
  <2>4. 0 \in N
    BY <1>1
  <2>5. ASSUME NEW n \in 1..k, n - 1 \in N PROVE n \in N
    <3>1. CASE n = 1
      BY <1>1, <2>3, <3>1
    <3>2. CASE n > 1
      <4>1. f[n - 1] \in Seq(S) /\ seqs[n] \in Seq(S)
        BY <1>1, <2>5, <3>2
      <4>2. f[n] = f[n - 1] \o seqs[n]
        <5>1. n # 1 /\ n \in 1..k
          BY <1>1, <2>5, <3>2
        <5>2. QED
          BY <2>3, <5>1, Zenon
      <4>3. f[n] \in Seq(S)
        BY <4>1, <4>2
      <4>4. QED
        BY <4>3
    <3>3. QED
      BY <3>1, <3>2
  <2> HIDE DEF N
  <2>6. 0..k \subseteq N
    BY <1>1, <2>4, <2>5, Upward
  <2>7. k \in N
    BY <1>1, <2>6
  <2>8. QED
    BY <1>3, <2>2, <2>7 DEF N
<1>4. QED
  BY <1>1, <1>2, <1>3

-----------------------------------------------------------------------------
(* Bands. *)

\* There are four bands, which do not decrease with the value.
LEMMA TierFacts ==
  ASSUME NEW measure \in FunctionMeasures
  PROVE  /\ \A x \in Nat : Tier(measure, x) \in Tiers
         /\ \A x, y \in Nat : x <= y => Tier(measure, x) <= Tier(measure, y)
<1> DEFINE Passed(x) == {b \in 1..3 : x > Bounds[measure][b]}
<1>1. \A b \in 1..3 : Bounds[measure][b] \in Nat
  BY DEF Bounds, FunctionMeasures
<1>2. IsFiniteSet(1..3) /\ Cardinality(1..3) = 3
  <2>1. \A n \in Nat : IsFiniteSet(1..n) /\ Cardinality(1..n) = n
    BY FS_Interval
  <2>2. QED
    BY <2>1, Zenon, 3 \in Nat
<1>3. ASSUME NEW x \in Nat PROVE IsFiniteSet(Passed(x)) /\ Cardinality(Passed(x)) \in 0..3
  <2>1. IsFiniteSet(Passed(x)) /\ Cardinality(Passed(x)) <= Cardinality(1..3)
    <3>1. Passed(x) \subseteq 1..3
      OBVIOUS
    <3> HIDE DEF Passed
    <3>2. QED
      BY <1>2, <3>1, FS_Subset
  <2>2. Cardinality(Passed(x)) \in Nat
    <3> HIDE DEF Passed
    <3>1. QED
      BY <2>1, FS_CardinalityType
  <2>3. QED
    BY <1>2, <2>1, <2>2
<1>4. ASSUME NEW x \in Nat, NEW y \in Nat, x <= y PROVE Cardinality(Passed(x)) <= Cardinality(Passed(y))
  <2>1. Passed(x) \subseteq Passed(y)
    BY <1>1, <1>4
  <2>2. IsFiniteSet(Passed(y))
    BY <1>3
  <2> HIDE DEF Passed
  <2>3. QED
    BY <2>1, <2>2, FS_Subset
<1>5. \A x : Tier(measure, x) = 1 + Cardinality(Passed(x))
  BY DEF Tier
<1> HIDE DEF Passed
<1>6. QED
  BY <1>3, <1>4, <1>5 DEF Tiers

\* The worst band that is occupied is the band of the largest value.
LEMMA WorstIsLargest ==
  ASSUME NEW measure \in FunctionMeasures, NEW n \in Nat \ {0}, NEW values \in [1..n -> Nat]
  PROVE  WorstTier(Histogram(measure, values)) = Tier(measure, Largest(values))
<1> DEFINE h == Histogram(measure, values)
           InBand(t) == {i \in DOMAIN values : Tier(measure, values[i]) = t}
<1>1. IsFiniteSet(1..n) /\ DOMAIN values = 1..n
  BY FS_Interval
<1>2. PICK k \in 1..n : \A i \in 1..n : values[k] >= values[i]
  <2>1. 1..n # {} /\ \A i \in 1..n : values[i] \in Int
    BY 1 \in 1..n
  <2>2. QED
    BY <1>1, <2>1, GreatestValue
<1>3. Largest(values) = values[k]
  <2> DEFINE S == {0} \cup ToSet(values)
             m == values[k]
  <2>1. S \subseteq 0..m /\ m \in S /\ m \in Nat
    <3>1. ToSet(values) = {values[i] : i \in 1..n}
      BY <1>1 DEF ToSet
    <3>2. \A i \in 1..n : values[i] \in 0..m
      BY <1>2
    <3>3. m \in Nat /\ m \in ToSet(values)
      BY <3>1
    <3> HIDE DEF m
    <3>4. QED
      BY <3>1, <3>2, <3>3
  <2>2. Max(S) \in S /\ \A y \in S : y <= Max(S)
    <3> HIDE DEF S, m
    <3>1. QED
      BY <2>1, MaxIsGreatest
  <2>3. Max(S) = m
    <3> HIDE DEF S, m
    <3>1. Max(S) \in 0..m /\ m <= Max(S)
      BY <2>1, <2>2
    <3>2. QED
      BY <2>1, <3>1
  <2>4. QED
    BY <2>3 DEF Largest
<1>4. ASSUME NEW t \in Tiers PROVE h[t] > 0 <=> \E i \in 1..n : Tier(measure, values[i]) = t
  <2>1. h[t] = Cardinality(InBand(t))
    BY <1>4 DEF Histogram
  <2>2. InBand(t) \subseteq 1..n
    BY <1>1
  <2>3. InBand(t) # {} <=> \E i \in 1..n : Tier(measure, values[i]) = t
    BY <1>1
  <2> HIDE DEF InBand, h
  <2>4. IsFiniteSet(InBand(t))
    BY <1>1, <2>2, FS_Subset
  <2>5. Cardinality(InBand(t)) \in Nat /\ (Cardinality(InBand(t)) = 0 <=> InBand(t) = {})
    BY <2>4, FS_CardinalityType, FS_EmptySet
  <2>6. QED
    BY <2>1, <2>3, <2>5
<1> DEFINE W == {0} \cup {t \in Tiers : h[t] > 0}
           w == Tier(measure, values[k])
<1>5. \A i \in 1..n : Tier(measure, values[i]) \in Tiers /\ Tier(measure, values[i]) <= w
  BY <1>2, TierFacts
<1>6. w \in W
  <2>1. w \in Tiers
    BY <1>5
  <2>2. h[w] > 0
    BY <1>4, <2>1
  <2> HIDE DEF h, w
  <2>3. QED
    BY <2>1, <2>2
<1>7. \A t \in W : t \in 0..4 /\ t <= w
  <2>1. w \in Nat
    BY <1>5 DEF Tiers
  <2>2. ASSUME NEW t \in Tiers, h[t] > 0 PROVE t \in 0..4 /\ t <= w
    <3>1. PICK i \in 1..n : Tier(measure, values[i]) = t
      BY <1>4, <2>2
    <3>2. t <= w
      BY <1>5, <3>1
    <3>3. QED
      BY <3>2 DEF Tiers
  <2> HIDE DEF h, w
  <2>3. QED
    BY <2>1, <2>2
<1>8. Max(W) = w
  <2> HIDE DEF W, w
  <2>1. Max(W) \in W /\ \A y \in W : y <= Max(W)
    BY <1>6, <1>7, MaxIsGreatest
  <2>2. QED
    BY <1>6, <1>7, <2>1
<1>9. QED
  BY <1>3, <1>8 DEF WorstTier

-----------------------------------------------------------------------------
(* What is reported. *)

FunctionsOf(files) == FlattenSeq([i \in DOMAIN files |-> files[i].functions])

\* What a panel says of the files it is made of.
LEMMA PanelFigures ==
  ASSUME NEW files
  PROVE  LET fs == FunctionsOf(files)
             panel == Aggregate(files)
         IN  /\ panel.files = Len(files)
             /\ panel.functions = Len(fs)
             /\ panel.loc = Total([i \in DOMAIN files |-> files[i].loc])
             /\ \A m \in FunctionMeasures : panel.roll[m] = Rollup(m, [i \in DOMAIN fs |-> fs[i][m]])
<1> DEFINE fs == FunctionsOf(files)
<1>1. Aggregate(files).files = Len(files)
  BY DEF Aggregate
<1>2. Aggregate(files).functions = Len(fs)
  BY DEF Aggregate, FunctionsOf
<1>3. Aggregate(files).loc = Total([i \in DOMAIN files |-> files[i].loc])
  BY DEF Aggregate
<1>4. ASSUME NEW m \in FunctionMeasures PROVE Aggregate(files).roll[m] = Rollup(m, [i \in DOMAIN fs |-> fs[i][m]])
  BY DEF Aggregate, FunctionsOf
<1>5. QED
  BY <1>1, <1>2, <1>3, <1>4

-----------------------------------------------------------------------------
(* Lengths. *)

LEMMA LengthOf ==
  ASSUME NEW n \in Nat, NEW f, f = [i \in 1..n |-> f[i]]
  PROVE  Len(f) = n /\ DOMAIN f = 1..n /\ f \in Seq({f[i] : i \in 1..n})
OBVIOUS

-----------------------------------------------------------------------------
(* What is measured, for every step. *)

InForce == (Configs \ {Malformed}) \cup {DefaultConfig}

Placed ==
  /\ toml \in Configs
  /\ disk \in [Paths -> Content \cup {Missing}]
  /\ queue \subseteq DOMAIN Path

AsMeasured ==
  /\ DOMAIN measured \subseteq DOMAIN Path
  /\ \A i \in DOMAIN measured : \E p \in Paths, c \in Content : measured[i] = MeasuredFile(p, c)

ReportInv ==
  /\ Placed
  /\ config \in InForce
  /\ pc = "load" => measured = <<>>
  /\ AsMeasured

LEMMA ReportInitHolds == Init => ReportInv
<1> SUFFICES ASSUME Init PROVE ReportInv
  OBVIOUS
<1>1. toml \in Configs /\ disk \in Trees /\ queue = {} /\ measured = <<>> /\ config = DefaultConfig
  BY DEF Init
<1>2. DOMAIN measured = {}
  BY <1>1
<1>3. QED
  BY <1>1, <1>2, MetricsBoundsAssumption DEF ReportInv, Placed, AsMeasured, InForce

\* What is measured stays so as long as the configuration is.
LEMMA SameMeasured ==
  ASSUME ReportInv, config' = config, UNCHANGED measured
  PROVE  AsMeasured'
<1>1. \A p, c : MeasuredFile(p, c)' = MeasuredFile(p, c)
  BY DEF MeasuredFile
<1>2. QED
  BY <1>1 DEF ReportInv, AsMeasured

LEMMA ReportLoadKeeps == ReportInv /\ Load => ReportInv'
<1> SUFFICES ASSUME ReportInv, Load PROVE ReportInv'
  OBVIOUS
<1>1. measured = <<>> /\ measured' = <<>> /\ pc = "load" /\ UNCHANGED <<toml, disk>>
  BY DEF ReportInv, Load, UnchangedOutside
<1>2. AsMeasured'
  BY <1>1 DEF AsMeasured
<1>3. config' \in InForce
  BY DEF Load, Loaded, ReportInv, Placed, InForce
<1>4. queue' \subseteq DOMAIN Path
  BY DEF Load, ReportInv, Placed
<1>5. QED
  BY <1>1, <1>2, <1>3, <1>4 DEF ReportInv, Placed

LEMMA ReportMeasureKeeps == ASSUME NEW i \in queue PROVE ReportInv /\ Measure(i) => ReportInv'
<1> SUFFICES ASSUME ReportInv, Measure(i) PROVE ReportInv'
  OBVIOUS
<1>1. /\ pc = "measure" /\ UNCHANGED <<toml, disk, config, pc>> /\ queue' \subseteq queue
      /\ measured' = IF Readable(Path[i])
                     THEN [j \in DOMAIN measured \cup {i} |->
                             IF j = i THEN MeasuredFile(Path[i], disk[Path[i]]) ELSE measured[j]]
                     ELSE measured
  BY DEF Measure, Take, UnchangedOutside
<1>2. Placed' /\ config' \in InForce
  BY <1>1 DEF ReportInv, Placed
<1>3. CASE ~Readable(Path[i])
  BY <1>1, <1>2, <1>3, SameMeasured DEF ReportInv
<1>4. CASE Readable(Path[i])
  <2>1. i \in DOMAIN Path /\ Path[i] \in Paths /\ disk[Path[i]] \in Content
    <3>1. i \in DOMAIN Path
      BY DEF ReportInv, Placed
    <3>2. Path[i] \in Paths
      BY <3>1, ProfilesAssumption DEF Paths, ToSet
    <3>3. disk[Path[i]] # Missing
      BY <1>4 DEF Readable
    <3>4. QED
      BY <3>1, <3>2, <3>3 DEF ReportInv, Placed
  <2>2. \A p, c : MeasuredFile(p, c)' = MeasuredFile(p, c)
    BY <1>1 DEF MeasuredFile
  <2>3. DOMAIN measured' = DOMAIN measured \cup {i}
    BY <1>1, <1>4
  <2>4. ASSUME NEW j \in DOMAIN measured' PROVE \E p \in Paths, c \in Content : measured'[j] = MeasuredFile(p, c)
    <3>1. CASE j = i
      <4>1. measured'[j] = MeasuredFile(Path[i], disk[Path[i]])
        BY <1>1, <1>4, <3>1
      <4>2. QED
        BY <2>1, <4>1
    <3>2. CASE j # i
      <4>1. measured'[j] = measured[j] /\ j \in DOMAIN measured
        BY <1>1, <1>4, <2>3, <3>2
      <4>2. QED
        BY <4>1 DEF ReportInv, AsMeasured
    <3>3. QED
      BY <3>1, <3>2
  <2>5. AsMeasured'
    BY <2>1, <2>2, <2>3, <2>4 DEF ReportInv, AsMeasured
  <2>6. QED
    BY <1>1, <1>2, <2>5 DEF ReportInv
<1>5. QED
  BY <1>3, <1>4

\* The steps that leave alone what is measured, and the files.
LEMMA ReportOthersKeep ==
  ASSUME ReportInv, Report \/ CreateDir \/ (\E f \in pending : WriteBadge(f)) \/ BadgesDone \/ Gates
               \/ (\E i \in queue : ReadFails(i)) \/ WriteFails \/ Kill \/ UNCHANGED vars
  PROVE  ReportInv'
<1>1. UNCHANGED <<toml, disk, config, measured>> /\ queue' \subseteq queue /\ (pc' = "load" => pc = "load")
  BY DEF Report, CreateDir, WriteBadge, BadgesDone, Gates, ReadFails, WriteFails, Kill, vars, Take, Fault,
         UnchangedBut, UnchangedOutside, Exit
<1>2. AsMeasured'
  BY <1>1, SameMeasured
<1>3. QED
  BY <1>1, <1>2 DEF ReportInv, Placed

LEMMA ReportSurroundingsKeep == ReportInv /\ (Save \/ RunAgain) => ReportInv'
<1> SUFFICES ASSUME ReportInv, Save \/ RunAgain PROVE ReportInv'
  OBVIOUS
<1>1. CASE Save
  <2>1. UNCHANGED <<toml, config, measured, queue, pc>>
    BY <1>1 DEF Save
  <2>2. PICK p \in Paths, c \in Saved : disk' = [disk EXCEPT ![p] = c]
    BY <1>1 DEF Save
  <2>3. c \in Content \cup {Missing}
    BY MetricsBoundsAssumption
  <2>4. disk' \in [Paths -> Content \cup {Missing}]
    BY <2>2, <2>3 DEF ReportInv, Placed
  <2>5. AsMeasured'
    BY <2>1, SameMeasured
  <2>6. QED
    BY <2>1, <2>4, <2>5 DEF ReportInv, Placed
<1>2. CASE RunAgain
  <2>1. UNCHANGED <<toml, config, disk>> /\ measured' = <<>> /\ queue' = {}
    BY <1>2 DEF RunAgain
  <2>2. AsMeasured'
    BY <2>1 DEF AsMeasured
  <2>3. QED
    BY <2>1, <2>2 DEF ReportInv, Placed
<1>3. QED
  BY <1>1, <1>2

\* The inductive invariant of what is reported: at every step, disturbed or not,
\* what is measured is what some content of some path is measured to be.
THEOREM ReportInvariance == Spec => []ReportInv
<1>1. ReportInv /\ [Next]_vars => ReportInv'
  BY ReportLoadKeeps, ReportMeasureKeeps, ReportOthersKeep, ReportSurroundingsKeep DEF Next, Run
<1>2. QED
  BY ReportInitHolds, <1>1, PTL DEF Spec

-----------------------------------------------------------------------------
(* The profiles of a file. *)

LEMMA ProfilesAreSequences ==
  ASSUME NEW c \in InForce
  PROVE  c.profiles \in Seq(ToSet(c.profiles)) /\ DOMAIN c.profiles \subseteq Nat
<1>1. c.profiles \in Seq(ToSet(c.profiles))
  BY ProfilesAssumption DEF ProfilesOK, InForce
<1>2. DOMAIN c.profiles = 1..Len(c.profiles) /\ Len(c.profiles) \in Nat
  BY <1>1
<1>3. QED
  BY <1>1, <1>2

\* A file there is a profile for has profiles, of those there are.
LEMMA WantedIsFiled ==
  ASSUME NEW c \in InForce, NEW p, NEW g,
         \E i \in DOMAIN c.profiles : c.profiles[i].default \/ Matches(c.profiles[i], p, g)
  PROVE  ProfilesForFile(c, p, g) \cap ProfileNames(c) # {}
<1> DEFINE D == DOMAIN c.profiles
           claimed == {i \in D : ~c.profiles[i].default /\ Matches(c.profiles[i], p, g)}
           defaults == {i \in D : c.profiles[i].default}
           M == MatchingIndicesWith(c, p, g)
<1>1. M = IF claimed # {} \/ defaults = {} THEN claimed ELSE {Min(defaults)}
  BY DEF MatchingIndicesWith
<1>2. claimed # {} \/ defaults # {}
  OBVIOUS
<1>3. defaults # {} => Min(defaults) \in D
  <2>1. defaults \subseteq Nat /\ defaults \subseteq D
    BY ProfilesAreSequences
  <2> HIDE DEF defaults
  <2>2. QED
    BY <2>1, MinIsLeast
<1>4. PICK i \in D : i \in M
  <2>1. claimed \subseteq D
    OBVIOUS
  <2> HIDE DEF claimed, defaults, M
  <2>2. QED
    BY <1>1, <1>2, <1>3, <2>1
<1>5. c.profiles[i].name \in ProfilesForFile(c, p, g)
  BY <1>4 DEF ProfilesForFile
<1>6. c.profiles[i].name \in ProfileNames(c)
  BY <1>4 DEF ProfileNames
<1>7. QED
  BY <1>5, <1>6

\* With the built-in profiles, production is what is neither test nor generated.
LEMMA ProductionIsTheRest ==
  ASSUME NEW p, NEW g \in BOOLEAN, p \in Suffixed => g
  PROVE  "production" \in ProfilesForFile(DefaultConfig, p, g) <=>
           "tests" \notin ProfilesForFile(DefaultConfig, p, g) /\ ~g
<1> DEFINE c == DefaultConfig
           P(i) == c.profiles[i]
           claimed == {i \in DOMAIN c.profiles : ~P(i).default /\ Matches(P(i), p, g)}
           defaults == {i \in DOMAIN c.profiles : P(i).default}
           M == MatchingIndicesWith(c, p, g)
<1>1. /\ P(1).name = "tests" /\ ~P(1).default
      /\ P(2).name = "generated" /\ P(2).generated /\ ~P(2).default
      /\ P(2).match \ P(2).exclude \subseteq Suffixed
      /\ P(3).name = "production" /\ P(3).default
      /\ DOMAIN c.profiles = {1, 2, 3}
  <2>1. c.profiles \in Seq(ToSet(c.profiles)) /\ Len(c.profiles) = 3
    BY ProfilesAreSequences, ProfilesAssumption DEF ProfilesOK, InForce
  <2>2. DOMAIN c.profiles = {1, 2, 3}
    <3>1. DOMAIN c.profiles = 1..3
      BY <2>1
    <3>2. 1..3 = {1, 2, 3}
      OBVIOUS
    <3>3. QED
      BY <3>1, <3>2
  <2>3. QED
    BY <2>2, ProfilesAssumption DEF ProfilesOK
<1>2. Matches(P(2), p, g) <=> g
  BY <1>1 DEF Matches, GlobMatches
<1>3. defaults = {3}
  BY <1>1
<1>4. Min(defaults) = 3
  <2>1. {3} \subseteq Nat /\ {3} # {}
    OBVIOUS
  <2>2. Min({3}) \in {3}
    BY <2>1, MinIsLeast
  <2>3. QED
    BY <1>3, <2>2
<1>5. M = IF claimed # {} THEN claimed ELSE {3}
  <2>1. M = IF claimed # {} \/ defaults = {} THEN claimed ELSE {Min(defaults)}
    BY DEF MatchingIndicesWith
  <2>2. QED
    BY <1>3, <1>4, <2>1
<1>6. claimed \subseteq {1, 2} /\ (2 \in claimed <=> g)
  BY <1>1, <1>2
<1>7. M \subseteq {1, 2, 3} /\ (3 \in M <=> 1 \notin M /\ ~g)
  <2> HIDE DEF claimed, M, c
  <2>1. CASE claimed = {}
    BY <1>5, <1>6, <2>1
  <2>2. CASE claimed # {}
    <3>1. M = claimed
      BY <1>5, <2>2
    <3>2. 1 \in claimed \/ 2 \in claimed
      BY <1>6, <2>2
    <3>3. QED
      BY <1>6, <3>1, <3>2
  <2>3. QED
    BY <2>1, <2>2
<1>8. ProfilesForFile(c, p, g) = {P(i).name : i \in M}
  BY DEF ProfilesForFile
<1>9. "tests" # "production" /\ "tests" # "generated" /\ "production" # "generated"
  OBVIOUS
<1> DEFINE F == ProfilesForFile(c, p, g)
<1>10. "tests" \in F <=> 1 \in M
  <2> HIDE DEF M
  <2>1. QED
    BY <1>1, <1>7, <1>8, <1>9
<1>11. "production" \in F <=> 3 \in M
  <2> HIDE DEF M
  <2>1. QED
    BY <1>1, <1>7, <1>8, <1>9
<1>12. QED
  BY <1>7, <1>10, <1>11

-----------------------------------------------------------------------------
(* The views of one report. *)

\* What is measured, in order: a sequence of measured files.
Row(x) == \E p \in Paths, c \in Content : x = MeasuredFile(p, c)

LEMMA RowFacts ==
  ASSUME NEW p \in Paths, NEW c \in Content
  PROVE  LET x == MeasuredFile(p, c)
         IN  /\ x.path = p /\ x.content = c
             /\ x.generated \in BOOLEAN /\ (p \in Suffixed => x.generated)
             /\ x.profiles = ProfilesForFile(config, p, x.generated)
<1> DEFINE g == Measures[c].marker \/ p \in Suffixed
<1>1. MeasuredFile(p, c) = [path |-> p, content |-> c, generated |-> g, profiles |-> ProfilesForFile(config, p, g)]
  BY DEF MeasuredFile
<1>2. g \in BOOLEAN /\ (p \in Suffixed => g)
  OBVIOUS
<1> HIDE DEF g
<1>3. QED
  BY <1>1, <1>2

LEMMA FilesFacts ==
  ASSUME ReportInv
  PROVE  \E n \in Nat :
           /\ DOMAIN Files = 1..n
           /\ \A i \in 1..n : Row(Files[i])
<1> DEFINE S == DOMAIN measured
<1>1. S \subseteq Nat /\ IsFiniteSet(S)
  <2>1. Path \in Seq(Paths)
    BY ProfilesAssumption
  <2>2. DOMAIN Path = 1..Len(Path) /\ Len(Path) \in Nat
    BY <2>1
  <2>3. S \subseteq 1..Len(Path)
    BY <2>2 DEF ReportInv, AsMeasured
  <2>4. IsFiniteSet(1..Len(Path))
    BY <2>2, FS_Interval
  <2> HIDE DEF S
  <2>5. IsFiniteSet(S)
    BY <2>3, <2>4, FS_Subset
  <2>6. QED
    BY <2>3, <2>5
<1>2. \A i \in S : Row(measured[i])
  BY DEF ReportInv, AsMeasured, Row
<1>3. Files = Chosen(measured, S)
  BY DEF Files
<1> HIDE DEF S
<1>4. /\ Cardinality(S) \in Nat /\ DOMAIN Files = 1..Cardinality(S)
      /\ \A i \in DOMAIN Files : \E s \in S : Files[i] = measured[s]
  BY <1>1, <1>3, ChosenFacts
<1>5. \A i \in 1..Cardinality(S) : Row(Files[i])
  BY <1>2, <1>4
<1>6. QED
  BY <1>4, <1>5

\* The files of a profile, in order.
LEMMA ClaimedFacts ==
  ASSUME ReportInv, NEW name
  PROVE  \E n \in Nat :
           /\ DOMAIN Claimed(Files, name) = 1..n
           /\ Len(Claimed(Files, name)) = n
           /\ \A i \in 1..n : Row(Claimed(Files, name)[i])
<1>1. PICK k \in Nat : DOMAIN Files = 1..k /\ \A i \in 1..k : Row(Files[i])
  BY FilesFacts
<1> DEFINE S == {i \in DOMAIN Files : name \in Files[i].profiles}
           f == Claimed(Files, name)
<1>2. S \subseteq 1..k /\ S \subseteq Nat /\ IsFiniteSet(S)
  <2>1. S \subseteq 1..k
    BY <1>1
  <2>2. IsFiniteSet(1..k)
    BY FS_Interval
  <2> HIDE DEF S
  <2>3. IsFiniteSet(S)
    BY <2>1, <2>2, FS_Subset
  <2>4. QED
    BY <2>1, <2>3
<1>3. f = Chosen(Files, S)
  BY DEF Claimed
<1> HIDE DEF S, f
<1>4. /\ Cardinality(S) \in Nat /\ DOMAIN f = 1..Cardinality(S)
      /\ \A i \in DOMAIN f : \E s \in S : f[i] = Files[s]
      /\ f = [i \in 1..Cardinality(S) |-> f[i]]
  BY <1>2, <1>3, ChosenFacts
<1>5. Len(f) = Cardinality(S)
  BY <1>4, LengthOf
<1>6. \A i \in 1..Cardinality(S) : Row(f[i])
  BY <1>1, <1>2, <1>4
<1>7. QED
  BY <1>4, <1>5, <1>6 DEF f

LEMMA ReportFacts ==
  ASSUME NEW files, job.format \in Aggregated
  PROVE  LET report == ReportOf(files)
         IN  /\ report.proxies = TestStats(files)
             /\ \A n \in DOMAIN report.panels : report.panels[n].repo = PanelOf(files, n)
<1>1. ReportOf(files).proxies = TestStats(files)
  BY DEF ReportOf
<1>2. \A n \in DOMAIN ReportOf(files).panels : ReportOf(files).panels[n].repo = PanelOf(files, n)
  BY DEF ReportOf
<1>3. QED
  BY <1>1, <1>2

LEMMA MeasuresOfFacts ==
  ASSUME NEW files, NEW n \in Nat, DOMAIN files = 1..n
  PROVE  /\ DOMAIN MeasuresOf(files) = 1..n /\ Len(MeasuresOf(files)) = n
         /\ \A i \in 1..n : MeasuresOf(files)[i] = Measures[files[i].content]
<1>1. MeasuresOf(files) = [i \in 1..n |-> Measures[files[i].content]]
  BY DEF MeasuresOf
<1>2. QED
  BY <1>1

\* The panel of a profile has as many files as the profile.
LEMMA PanelCounts ==
  ASSUME ReportInv, NEW name
  PROVE  PanelOf(Files, name).files = Len(Claimed(Files, name))
<1>1. PICK n \in Nat : DOMAIN Claimed(Files, name) = 1..n /\ Len(Claimed(Files, name)) = n
  BY ClaimedFacts
<1>2. Len(MeasuresOf(Claimed(Files, name))) = n
  BY <1>1, MeasuresOfFacts
<1>3. PanelOf(Files, name).files = Len(MeasuresOf(Claimed(Files, name)))
  BY PanelFigures DEF PanelOf
<1>4. QED
  BY <1>1, <1>2, <1>3

\* The functions of a panel are measured in numbers.
LEMMA PanelFunctions ==
  ASSUME ReportInv, NEW name, NEW m \in FunctionMeasures
  PROVE  \E n \in Nat : \E values \in [1..n -> Nat] :
           /\ PanelOf(Files, name).functions = n
           /\ PanelOf(Files, name).roll[m] = Rollup(m, values)
<1> DEFINE files == MeasuresOf(Claimed(Files, name))
           fs == FunctionsOf(files)
           S == UNION {ToSet(Measures[c].functions) : c \in Content}
<1>1. PICK k \in Nat : /\ DOMAIN Claimed(Files, name) = 1..k
                       /\ \A i \in 1..k : Row(Claimed(Files, name)[i])
  BY ClaimedFacts
<1>2. /\ DOMAIN files = 1..k
      /\ \A i \in 1..k : files[i] = Measures[Claimed(Files, name)[i].content]
  BY <1>1, MeasuresOfFacts
<1>3. ASSUME NEW i \in 1..k PROVE files[i].functions \in Seq(S)
  <2>1. PICK p \in Paths, c \in Content : Claimed(Files, name)[i] = MeasuredFile(p, c)
    BY <1>1 DEF Row
  <2>2. files[i] = Measures[c]
    BY <1>2, <2>1, RowFacts
  <2>3. Measures[c].functions \in Seq(ToSet(Measures[c].functions))
    BY MeasuresAssumption DEF MeasuresOK
  <2>4. ToSet(Measures[c].functions) \subseteq S
    OBVIOUS
  <2> HIDE DEF S, files
  <2>5. QED
    BY <2>2, <2>3, <2>4
<1>4. \A x \in S : x[m] \in Nat
  BY MeasuresAssumption DEF MeasuresOK
<1>5. fs \in Seq(S)
  <2> DEFINE seqs == [i \in DOMAIN files |-> files[i].functions]
  <2> HIDE DEF S, files
  <2>1. seqs \in Seq(Seq(S))
    BY <1>2, <1>3
  <2>2. fs = FlattenSeq(seqs)
    BY DEF FunctionsOf
  <2> HIDE DEF seqs, fs
  <2>3. QED
    BY <2>1, <2>2, FlattenInSeq
<1> DEFINE values == [i \in DOMAIN fs |-> fs[i][m]]
<1>6. PanelOf(Files, name).functions = Len(fs) /\ PanelOf(Files, name).roll[m] = Rollup(m, values)
  BY PanelFigures DEF PanelOf
<1>7. Len(fs) \in Nat /\ values \in [1..Len(fs) -> Nat]
  <2> HIDE DEF S, fs
  <2>1. QED
    BY <1>4, <1>5
<1> HIDE DEF fs, values
<1>8. QED
  BY <1>6, <1>7

LEMMA WorstBandIsThatOfTheMaximum ==
  ASSUME ReportInv, NEW name, NEW m \in FunctionMeasures, PanelOf(Files, name).functions > 0
  PROVE  LET roll == PanelOf(Files, name).roll[m]
         IN  WorstTier(roll.risk) = Tier(m, roll.max)
<1>1. PICK n \in Nat :
        \E values \in [1..n -> Nat] :
          /\ PanelOf(Files, name).functions = n
          /\ PanelOf(Files, name).roll[m] = Rollup(m, values)
  BY PanelFunctions
<1>11. PICK values \in [1..n -> Nat] :
         /\ PanelOf(Files, name).functions = n
         /\ PanelOf(Files, name).roll[m] = Rollup(m, values)
  BY <1>1
<1>2. n \in Nat \ {0}
  BY <1>11
<1>3. WorstTier(Histogram(m, values)) = Tier(m, Largest(values))
  BY <1>2, WorstIsLargest
<1>4. Rollup(m, values).risk = Histogram(m, values) /\ Rollup(m, values).max = Largest(values)
  BY DEF Rollup
<1>5. QED
  BY <1>11, <1>3, <1>4

-----------------------------------------------------------------------------
\* With the built-in profiles, the proxies count as production what the panel
\* of production does.
LEMMA ProductionAgrees ==
  ASSUME ReportInv, config = DefaultConfig
  PROVE  /\ TestStats(Files).productionFiles = PanelOf(Files, "production").files
         /\ TestStats(Files).testCode[2] = PanelOf(Files, "production").loc
<1> DEFINE claimed == Claimed(Files, "production")
           rest == {i \in DOMAIN Files : "tests" \notin Files[i].profiles /\ ~Files[i].generated}
           mine == {i \in DOMAIN Files : "production" \in Files[i].profiles}
           ms == MeasuresOf(claimed)
<1>1. rest = mine
  <2>1. PICK n \in Nat : DOMAIN Files = 1..n /\ \A i \in 1..n : Row(Files[i])
    BY FilesFacts
  <2>2. ASSUME NEW i \in DOMAIN Files
        PROVE  "production" \in Files[i].profiles <=> "tests" \notin Files[i].profiles /\ ~Files[i].generated
    <3>1. PICK p \in Paths, c \in Content : Files[i] = MeasuredFile(p, c)
      BY <2>1 DEF Row
    <3> DEFINE x == MeasuredFile(p, c)
    <3>2. /\ x.generated \in BOOLEAN /\ (p \in Suffixed => x.generated)
          /\ x.profiles = ProfilesForFile(DefaultConfig, p, x.generated)
      BY RowFacts
    <3> HIDE DEF x
    <3>3. "production" \in x.profiles <=> "tests" \notin x.profiles /\ ~x.generated
      BY <3>2, ProductionIsTheRest
    <3>4. QED
      BY <3>1, <3>3 DEF x
  <2>3. QED
    BY <2>2
<1>2. claimed = Chosen(Files, mine)
  BY DEF Claimed
<1>3. TestStats(Files).productionFiles = Len(Chosen(Files, rest))
  BY DEF TestStats
<1>4. TestStats(Files).testCode[2] =
        Total([i \in DOMAIN Chosen(Files, rest) |-> Measures[Chosen(Files, rest)[i].content].loc])
  BY DEF TestStats
<1>5. PanelOf(Files, "production").loc = Total([i \in DOMAIN ms |-> ms[i].loc])
  BY PanelFigures DEF PanelOf
<1>6. [i \in DOMAIN ms |-> ms[i].loc] = [i \in DOMAIN claimed |-> Measures[claimed[i].content].loc]
  <2>1. ms = [i \in DOMAIN claimed |-> Measures[claimed[i].content]]
    BY DEF MeasuresOf
  <2> HIDE DEF claimed, ms
  <2>2. QED
    BY <2>1
<1>7. PanelOf(Files, "production").files = Len(claimed)
  BY PanelCounts
<1> HIDE DEF claimed, rest, mine, ms
<1>8. QED
  BY <1>1, <1>2, <1>3, <1>4, <1>5, <1>6, <1>7

\* Every file there is a profile for is in a panel, when every profile has one.
LEMMA WantedIsShown ==
  ASSUME ReportInv, NEW i \in DOMAIN measured, Wanted(measured[i])
  PROVE  measured[i].profiles \cap ProfileNames(config) # {}
<1>1. PICK p \in Paths, c \in Content : measured[i] = MeasuredFile(p, c)
  BY DEF ReportInv, AsMeasured
<1> DEFINE x == MeasuredFile(p, c)
<1>2. x.path = p /\ x.profiles = ProfilesForFile(config, p, x.generated)
  BY RowFacts
<1>3. \E j \in DOMAIN config.profiles :
        config.profiles[j].default \/ Matches(config.profiles[j], p, x.generated)
  BY <1>1, <1>2 DEF Wanted
<1> HIDE DEF x
<1>4. ProfilesForFile(config, p, x.generated) \cap ProfileNames(config) # {}
  BY <1>3, WantedIsFiled DEF ReportInv
<1>5. QED
  BY <1>1, <1>2, <1>4 DEF x

\* THEOREM: the parts of one report agree: the proxies count the files the panels
\* count, every file there is a profile for is in some panel, and the worst band of a
\* histogram is the band of the maximum.
THEOREM ViewsAlwaysAgree == Spec => []ViewsAgree
<1>1. ReportInv => ViewsAgree
  <2> SUFFICES ASSUME ReportInv, JustPrinted PROVE ViewsAgree
    BY DEF ViewsAgree
  <2> DEFINE report == ReportOf(Files)
             panels == report.panels
  <2>1. /\ report.proxies = TestStats(Files)
        /\ \A n \in DOMAIN panels : panels[n].repo = PanelOf(Files, n)
    BY ReportFacts DEF JustPrinted
  <2>2. TestStats(Files).testFiles = Len(Claimed(Files, "tests"))
    BY DEF TestStats
  <2>3. "tests" \in DOMAIN panels => report.proxies.testFiles = panels["tests"].repo.files
    <3>1. PanelOf(Files, "tests").files = Len(Claimed(Files, "tests"))
      BY PanelCounts
    <3> HIDE DEF report
    <3>2. QED
      BY <2>1, <2>2, <3>1
  <2>4. config = DefaultConfig /\ "production" \in DOMAIN panels =>
          /\ report.proxies.productionFiles = panels["production"].repo.files
          /\ report.proxies.testCode[2] = panels["production"].repo.loc
    <3> HIDE DEF report
    <3>1. QED
      BY <2>1, ProductionAgrees
  <2>5. DOMAIN panels = ProfileNames(config) =>
          \A i \in DOMAIN measured : measured[i].profiles \cap DOMAIN panels # {} \/ ~Wanted(measured[i])
    BY WantedIsShown
  <2>6. \A n \in DOMAIN panels, m \in FunctionMeasures :
          LET roll == panels[n].repo.roll[m]
          IN  panels[n].repo.functions > 0 => WorstTier(roll.risk) = Tier(m, roll.max)
    <3> HIDE DEF report
    <3>1. QED
      BY <2>1, WorstBandIsThatOfTheMaximum
  <2>7. Printed = report
    BY DEF Printed
  <2> HIDE DEF report
  <2>8. QED
    BY <2>3, <2>4, <2>5, <2>6, <2>7 DEF ViewsAgree, PartsAgree
<1>2. QED
  BY ReportInvariance, <1>1, PTL

-----------------------------------------------------------------------------
(* Duplicates. *)

\* The order of the report leaves out no pair.
LEMMA SortedFacts ==
  ASSUME NEW pairs, pairs \subseteq Nat \X Nat, IsFiniteSet(pairs)
  PROVE  LET seq == Sorted(pairs)
             n == Cardinality(pairs)
         IN  n \in Nat /\ seq = [i \in 1..n |-> seq[i]] /\ {seq[i] : i \in 1..n} = pairs
<1> DEFINE n == Cardinality(pairs)
           L == [p \in pairs |-> {q \in pairs : NotAfter(q, p)}]
           seq == Sorted(pairs)
<1>1. \A p \in pairs : p = <<p[1], p[2]>> /\ p[1] \in Nat /\ p[2] \in Nat
  OBVIOUS
<1>2. \A p, q \in pairs : p # q => p[1] # q[1] \/ p[2] # q[2]
  BY <1>1
<1>3. \A p \in pairs : L[p] \subseteq pairs /\ p \in L[p]
  BY <1>1 DEF NotAfter
<1>4. ASSUME NEW p \in pairs, NEW q \in pairs, NotAfter(p, q), p # q
      PROVE  L[p] \subseteq L[q] /\ q \notin L[p]
  BY <1>1, <1>2, <1>4 DEF NotAfter
<1>5. \A p, q \in pairs : NotAfter(p, q) \/ NotAfter(q, p)
  BY <1>1 DEF NotAfter
<1>6. seq = [i \in 1..n |-> CHOOSE p \in pairs : Cardinality(L[p]) = i]
  <2>1. \A p \in pairs : L[p] = {q \in pairs : NotAfter(q, p)}
    OBVIOUS
  <2> HIDE DEF L
  <2>2. \A i : (CHOOSE p \in pairs : Cardinality({q \in pairs : NotAfter(q, p)}) = i)
                 = CHOOSE p \in pairs : Cardinality(L[p]) = i
    BY <2>1
  <2>3. QED
    BY <2>2 DEF Sorted
<1> HIDE DEF L, seq
<1>7. /\ n \in Nat
      /\ \A p \in pairs : Cardinality(L[p]) \in 1..n
      /\ \A p, q \in pairs : Cardinality(L[p]) = Cardinality(L[q]) => p = q
      /\ \A i \in 1..n : \E p \in pairs : Cardinality(L[p]) = i
  BY <1>3, <1>4, <1>5, LadderFacts
<1> HIDE DEF n
<1>8. \A i \in 1..n : seq[i] \in pairs /\ Cardinality(L[seq[i]]) = i
  BY <1>6, <1>7
<1>9. \A p \in pairs : seq[Cardinality(L[p])] = p
  BY <1>7, <1>8
<1>10. {seq[i] : i \in 1..n} = pairs
  BY <1>7, <1>8, <1>9
<1>11. seq = [i \in 1..n |-> seq[i]]
  BY <1>6
<1>12. QED
  BY <1>7, <1>10, <1>11 DEF seq, n

\* What a panel says of the duplicates in its profile.
InnerPairs(name, profilesOf, pairs) == {p \in pairs : name \in profilesOf[p[1]] /\ name \in profilesOf[p[2]]}
ClusterForest(name, profilesOf, pairs) ==
  FoldLeft(Union, [u \in DOMAIN profilesOf |-> u], Sorted(InnerPairs(name, profilesOf, pairs)))

Figured(stats, linked, forest) ==
  /\ stats.inClones = Cardinality(linked)
  /\ stats.largestCluster = Max({0} \cup RootSizes(forest, linked))

LEMMA CloneFigures ==
  ASSUME NEW name, NEW profilesOf, NEW pairs
  PROVE  Figured(CloneStatsFor(name, profilesOf, pairs),
                 Involved(ToSet(Sorted(InnerPairs(name, profilesOf, pairs)))),
                 ClusterForest(name, profilesOf, pairs))
<1> DEFINE inner == InnerPairs(name, profilesOf, pairs)
           linked == Involved(ToSet(Sorted(inner)))
           largest == Max({0} \cup RootSizes(ClusterForest(name, profilesOf, pairs), linked))
           functions == Cardinality({u \in DOMAIN profilesOf : name \in profilesOf[u]})
<1>1. CloneStatsFor(name, profilesOf, pairs) =
        [pairs |-> Len(Sorted(inner)), inClones |-> Cardinality(linked),
         functions |-> functions, largestCluster |-> largest]
  BY Zenon DEF CloneStatsFor, InnerPairs, ClusterForest, RootSizes
<1> HIDE DEF linked, largest, functions
<1>2. /\ CloneStatsFor(name, profilesOf, pairs).inClones = Cardinality(linked)
      /\ CloneStatsFor(name, profilesOf, pairs).largestCluster = largest
  BY <1>1
<1>3. QED
  BY <1>2, Zenon DEF Figured, linked, largest

\* For pairs of numbers up to n.
OfUnits(pairs, n) == pairs \subseteq (1..n) \X (1..n)
ClustersFound(name, profilesOf, pairs, n) ==
  LET inner == InnerPairs(name, profilesOf, pairs)
      stats == CloneStatsFor(name, profilesOf, pairs)
  IN  /\ stats.inClones = Cardinality(Involved(inner))
      /\ stats.largestCluster = Max({0} \cup GroupSizes(inner, 1..n, Involved(inner)))
      /\ IsFiniteSet(Involved(pairs)) /\ Involved(inner) \subseteq Involved(pairs)

LEMMA ClustersAreGroups ==
  ASSUME NEW n \in Nat, NEW profilesOf, DOMAIN profilesOf = 1..n,
         NEW pairs, OfUnits(pairs, n), NEW name
  PROVE  ClustersFound(name, profilesOf, pairs, n)
<1> DEFINE D == 1..n
           inner == InnerPairs(name, profilesOf, pairs)
           seq == Sorted(inner)
           parent == ClusterForest(name, profilesOf, pairs)
           k == Cardinality(inner)
           A == Involved(inner)
<1>1. IsFiniteSet(D)
  BY FS_Interval
<1>2. inner \subseteq pairs
  BY DEF InnerPairs
<1>3. inner \subseteq D \X D /\ IsFiniteSet(inner) /\ inner \subseteq Nat \X Nat
  <2>1. IsFiniteSet(D \X D)
    BY <1>1, FS_Product
  <2>2. inner \subseteq D \X D /\ D \X D \subseteq Nat \X Nat
    BY <1>2 DEF OfUnits
  <2> HIDE DEF D, inner
  <2>3. IsFiniteSet(inner)
    BY <2>1, <2>2, FS_Subset
  <2>4. QED
    BY <2>2, <2>3
<1>4. k \in Nat /\ seq = [i \in 1..k |-> seq[i]] /\ {seq[i] : i \in 1..k} = inner
  BY <1>3, SortedFacts
<1>5. parent = FoldLeft(Union, [u \in D |-> u], seq)
  BY Zenon DEF ClusterForest
<1>6. A = {p[1] : p \in inner} \cup {p[2] : p \in inner}
  BY DEF Involved
<1>7. IsFiniteSet(Involved(pairs)) /\ A \subseteq Involved(pairs)
  <2>1. Involved(pairs) \subseteq D
    BY DEF Involved, OfUnits
  <2> HIDE DEF D, inner
  <2>2. IsFiniteSet(Involved(pairs))
    BY <1>1, <2>1, FS_Subset
  <2>3. QED
    BY <1>2, <2>2 DEF Involved
<1>8. ToSet(seq) = inner
  <2>1. DOMAIN seq = 1..k
    <3> HIDE DEF seq, k
    <3>1. QED
      BY <1>4
  <2> HIDE DEF seq, k, inner
  <2>2. QED
    BY <1>4, <2>1 DEF ToSet
<1> DEFINE sizes == RootSizes(parent, A)
           groups == GroupSizes(inner, D, A)
           stats == CloneStatsFor(name, profilesOf, pairs)
<1>9. stats.inClones = Cardinality(A) /\ stats.largestCluster = Max({0} \cup sizes)
  <2>1. Figured(stats, Involved(ToSet(seq)), parent)
    BY CloneFigures
  <2>2. Figured(stats, A, parent)
    BY <1>8, <2>1
  <2>3. QED
    BY <2>2, Zenon DEF Figured
<1> HIDE DEF seq, k, A, parent, stats, inner
<1>10. Represents(parent, inner, D)
  <2>1. \A i \in 1..k : \E a \in D, b \in D : seq[i] = <<a, b>>
    <3>1. \A i \in 1..k : seq[i] \in D \X D
      BY <1>3, <1>4
    <3> HIDE DEF D
    <3>2. QED
      BY <3>1
  <2> HIDE DEF D
  <2>2. Represents(FoldLeft(Union, [x \in D |-> x], seq), {seq[i] : i \in 1..k}, D)
    BY <1>1, <1>4, <2>1, UnitedInOrder
  <2>3. QED
    BY <1>4, <1>5, <2>2
<1> HIDE DEF D
<1>11. {0} \cup sizes = {0} \cup groups
  <2>1. inner \subseteq D \X D
    BY <1>3
  <2>2. QED
    BY <1>6, <1>10, <2>1, LargestGroup
<1>12. stats.largestCluster = Max({0} \cup groups)
  <2> HIDE DEF sizes, groups
  <2>1. QED
    BY <1>9, <1>11
<1>13. QED
  BY <1>7, <1>9, <1>12, Zenon DEF ClustersFound, stats, groups, A, inner, D

\* Every band has a row.
LEMMA FirstBand == 0 \in 0..(Bands - 1) /\ BandRows(0) # {}
<1> DEFINE q == NumHashes \div Bands
<1>1. NumHashes \in Nat /\ NumHashes >= 1 /\ Bands \in Nat /\ Bands >= 1
  BY SignaturesAssumption
<1>2. q \in Nat
  BY <1>1
<1> HIDE DEF q
<1>3. {q, 1} \subseteq 0..(q + 1) /\ {q, 1} # {}
  BY <1>2
<1>4. Max({q, 1}) \in {q, 1} /\ 1 <= Max({q, 1})
  BY <1>2, <1>3, MaxIsGreatest
<1>5. Rows \in Nat /\ 1 <= Rows
  <2>1. Rows = Max({q, 1})
    BY DEF Rows, q
  <2>2. QED
    BY <1>2, <1>4, <2>1
<1>6. 1 \in BandRows(0)
  <2>1. 0 * Rows = 0 /\ (0 + 1) * Rows = Rows
    BY <1>5
  <2>2. QED
    BY <1>1, <1>5, <2>1 DEF BandRows
<1>7. QED
  BY <1>1, <1>6

\* Functions with the same windows are in one bucket, and as similar as can be.
LEMMA TwinsAreFound ==
  ASSUME NEW units, NEW settings, settings.similarity \in Nat, settings.similarity <= 100,
         NEW u \in Eligible(units, settings.minStatements),
         NEW v \in Eligible(units, settings.minStatements), u < v,
         units[u].shingles = units[v].shingles, IsFiniteSet(units[u].shingles)
  PROVE  <<u, v>> \in FindClones(units, settings)
<1> DEFINE E == Eligible(units, settings.minStatements)
           s == units[u].shingles
           sign == [w \in E |-> MinHash(units[w].shingles)]
           p == <<u, v>>
           Same(a, b) ==
             \E band \in 0..(Bands - 1) :
               /\ BandRows(band) # {}
               /\ \A i \in BandRows(band) : sign[a][i] = sign[b][i]
<1>1. s # {} /\ units[v].shingles = s
  BY DEF Eligible
<1>2. p \in E \X E /\ p[1] = u /\ p[2] = v
  OBVIOUS
<1>3. sign[u] = sign[v]
  BY <1>1
<1>4. Same(u, v)
  <2> HIDE DEF sign
  <2>1. QED
    BY <1>3, FirstBand
<1>5. Candidates(units, E) = {q \in E \X E : q[1] < q[2] /\ Same(q[1], q[2])}
  BY Zenon DEF Candidates
<1> HIDE DEF E, p, Same
<1>6. p \in Candidates(units, E)
  BY <1>2, <1>4, <1>5
<1>7. Similar(s, s, settings.similarity)
  <2> DEFINE c == Cardinality(s)
             k == settings.similarity
  <2>1. c \in Nat
    BY FS_CardinalityType
  <2>2. Jaccard(s, s) = <<c, c>>
    <3>1. s \cap s = s /\ s \cup s = s
      OBVIOUS
    <3>2. QED
      BY <3>1 DEF Jaccard
  <2> HIDE DEF c
  <2>3. k * c <= 100 * c
    BY <2>1
  <2>4. 100 * Jaccard(s, s)[1] >= k * Jaccard(s, s)[2]
    BY <2>1, <2>2, <2>3
  <2>5. s \cup s # {}
    BY <1>1
  <2> HIDE DEF s
  <2>6. QED
    BY <2>4, <2>5 DEF Similar
<1>8. FindClones(units, settings) =
        {q \in Candidates(units, E) : Similar(units[q[1]].shingles, units[q[2]].shingles, settings.similarity)}
  BY Zenon DEF FindClones, E
<1>9. QED
  <2>1. Similar(units[p[1]].shingles, units[p[2]].shingles, settings.similarity)
    BY <1>1, <1>2, <1>7
  <2>2. QED
    BY <1>6, <1>8, <2>1, Zenon DEF p

\* The units of a report are numbered, and have finitely many windows.
LEMMA UnitsFacts ==
  ASSUME ReportInv
  PROVE  \E n \in Nat :
           /\ DOMAIN UnitsOf(Files) = 1..n /\ DOMAIN UnitProfiles(Files) = 1..n
           /\ \A u \in 1..n : IsFiniteSet(UnitsOf(Files)[u].shingles)
<1> DEFINE Functions(i) == Measures[Files[i].content].functions
           Unit(i, j) == [file |-> i, shingles |-> Functions(i)[j].shingles,
                          statements |-> Functions(i)[j].statements]
           seqs == [i \in DOMAIN Files |-> [j \in DOMAIN Functions(i) |-> Unit(i, j)]]
           all == UNION {{Unit(i, j) : j \in DOMAIN Functions(i)} : i \in DOMAIN Files}
           units == UnitsOf(Files)
<1>1. PICK k \in Nat : DOMAIN Files = 1..k /\ \A i \in 1..k : Row(Files[i])
  BY FilesFacts
<1>2. ASSUME NEW i \in 1..k
      PROVE  /\ Functions(i) \in Seq(ToSet(Functions(i)))
             /\ \A f \in ToSet(Functions(i)) : IsFiniteSet(f.shingles)
  <2>1. PICK p \in Paths, c \in Content : Files[i] = MeasuredFile(p, c)
    BY <1>1 DEF Row
  <2>2. Files[i].content = c
    BY <2>1, RowFacts
  <2>3. /\ Measures[c].functions \in Seq(ToSet(Measures[c].functions))
        /\ \A f \in ToSet(Measures[c].functions) : IsFiniteSet(f.shingles)
    BY MeasuresAssumption DEF MeasuresOK
  <2>4. QED
    BY <2>2, <2>3
<1>3. ASSUME NEW i \in 1..k, NEW j \in DOMAIN Functions(i) PROVE IsFiniteSet(Unit(i, j).shingles)
  <2>1. Functions(i)[j] \in ToSet(Functions(i))
    BY DEF ToSet
  <2>2. Unit(i, j).shingles = Functions(i)[j].shingles
    OBVIOUS
  <2> HIDE DEF Functions, Unit
  <2>3. QED
    BY <1>2, <2>1, <2>2
<1>4. ASSUME NEW i \in 1..k PROVE seqs[i] \in Seq(all)
  <2> DEFINE m == Len(Functions(i))
             row == [j \in 1..m |-> Unit(i, j)]
  <2>1. m \in Nat /\ DOMAIN Functions(i) = 1..m
    <3> HIDE DEF Functions
    <3>1. QED
      BY <1>2
  <2>2. \A j \in 1..m : Unit(i, j) \in all
    <3> HIDE DEF Functions, Unit
    <3>1. QED
      BY <1>1, <2>1
  <2>3. seqs[i] = row
    <3> HIDE DEF Functions, Unit
    <3>1. QED
      BY <1>1, <2>1
  <2> HIDE DEF Functions, Unit, seqs, all, m
  <2>4. row \in Seq(all)
    BY <2>1, <2>2
  <2>5. QED
    BY <2>3, <2>4
<1>5. units \in Seq(all)
  <2>1. units = FlattenSeq(seqs)
    BY Zenon DEF UnitsOf
  <2>2. seqs = [i \in 1..k |-> seqs[i]]
    BY <1>1
  <2> HIDE DEF seqs, all, units, Functions, Unit
  <2>3. seqs \in Seq(Seq(all))
    BY <1>4, <2>2
  <2>4. QED
    BY <2>1, <2>3, FlattenInSeq
<1>6. \A w \in all : IsFiniteSet(w.shingles)
  <2> HIDE DEF Functions, Unit
  <2>1. QED
    BY <1>1, <1>3
<1>7. DOMAIN UnitProfiles(Files) = DOMAIN units
  BY DEF UnitProfiles
<1> HIDE DEF units, all
<1>8. Len(units) \in Nat /\ DOMAIN units = 1..Len(units) /\ \A u \in 1..Len(units) : units[u] \in all
  BY <1>5
<1>9. QED
  BY <1>6, <1>7, <1>8 DEF units

\* What a report says of duplicates.
LEMMA ReportClones ==
  ASSUME NEW files, job.format \in Aggregated
  PROVE  LET report == ReportOf(files)
         IN  /\ report.pairs = FindClones(UnitsOf(files), config.clone)
             /\ \A n \in DOMAIN report.panels :
                  report.panels[n].clones
                    = CloneStatsFor(n, UnitProfiles(files), FindClones(UnitsOf(files), config.clone))
<1> DEFINE pairs == FindClones(UnitsOf(files), config.clone)
           Stats(n) == CloneStatsFor(n, UnitProfiles(files), pairs)
           names == IF job.format = "json" \/ Scope = "all" THEN ProfileNames(config) ELSE {Scope}
           panels == [n \in names |-> [repo |-> PanelOf(files, n), clones |-> Stats(n)]]
<1>1. ReportOf(files) = [kind |-> "panels", proxies |-> TestStats(files), pairs |-> pairs, panels |-> panels]
  <2>1. ~(job.format \notin Aggregated)
    OBVIOUS
  <2>2. QED
    BY <2>1, Zenon DEF ReportOf, Pairs
<1> HIDE DEF pairs, Stats, names
<1>2. \A n \in names : panels[n].clones = Stats(n)
  OBVIOUS
<1>3. DOMAIN panels = names
  OBVIOUS
<1> HIDE DEF panels
<1>4. QED
  BY <1>1, <1>2, <1>3 DEF Stats, pairs

\* Pairs are of units.
LEMMA PairsAreOfUnits ==
  ASSUME NEW units, NEW settings
  PROVE  FindClones(units, settings) \subseteq (DOMAIN units) \X (DOMAIN units)
<1>1. FindClones(units, settings) \subseteq Candidates(units, Eligible(units, settings.minStatements))
  BY DEF FindClones
<1>2. ASSUME NEW E PROVE Candidates(units, E) \subseteq E \X E
  BY DEF Candidates
<1>3. Eligible(units, settings.minStatements) \subseteq DOMAIN units
  BY DEF Eligible
<1>4. QED
  BY <1>1, <1>2, <1>3

\* A unit is linked within a profile that has a partner there.
LEMMA PartnersAreLinked ==
  ASSUME NEW pairs, NEW mine
  PROVE  Involved({p \in pairs : p[1] \in mine /\ p[2] \in mine})
           = {u \in mine : \E v \in Partners(pairs, u) : v \in mine}
<1> DEFINE inner == {p \in pairs : p[1] \in mine /\ p[2] \in mine}
<1>1. ASSUME NEW u PROVE \A v : v \in Partners(pairs, u) <=> \E p \in pairs : (p[1] = u /\ p[2] = v) \/ (p[2] = u /\ p[1] = v)
  BY DEF Partners
<1>2. \A u : u \in Involved(inner) <=> \E p \in inner : p[1] = u \/ p[2] = u
  BY DEF Involved
<1>3. \A u : u \in Involved(inner) <=> u \in mine /\ \E v \in Partners(pairs, u) : v \in mine
  BY <1>1, <1>2
<1>4. QED
  BY <1>3

\* THEOREM: whatever the hash functions and the bands are, functions that differ only in
\* names and literals are found to be clones (unless more than all is asked for), a
\* panel counts the functions with a partner in its profile, no more than SLP020
\* reports, and its largest cluster is the largest group that pairs link, although it
\* is read off a union-find forest whose paths are compressed (find_clones of
\* sloplint_clone, clone_stats_for of sloplint::compute).
THEOREM DuplicatesAreAlwaysCounted == Spec => []DuplicatesAreCounted
<1>1. ReportInv => DuplicatesAreCounted
  <2> SUFFICES ASSUME ReportInv, JustPrinted PROVE DuplicatesAreCounted
    BY DEF DuplicatesAreCounted
  <2> DEFINE units == UnitsOf(Files)
             profilesOf == UnitProfiles(Files)
             report == ReportOf(Files)
             pairs == FindClones(units, config.clone)
             E == Eligible(units, config.clone.minStatements)
             Mine(n) == {u \in DOMAIN units : n \in profilesOf[u]}
             Inner(n) == {p \in pairs : p[1] \in Mine(n) /\ p[2] \in Mine(n)}
  <2>1. PICK k \in Nat : /\ DOMAIN units = 1..k /\ DOMAIN profilesOf = 1..k
                         /\ \A u \in 1..k : IsFiniteSet(units[u].shingles)
    BY UnitsFacts
  <2>2. config.clone.similarity \in Nat
    BY ProfilesAssumption DEF ProfilesOK, ReportInv, InForce
  <2>3. /\ report.pairs = pairs
        /\ \A n \in DOMAIN report.panels : report.panels[n].clones = CloneStatsFor(n, profilesOf, pairs)
    BY ReportClones DEF JustPrinted
  <2>4. OfUnits(pairs, k)
    <3> HIDE DEF units
    <3>1. QED
      BY <2>1, PairsAreOfUnits DEF OfUnits
  <2>5. ASSUME config.clone.similarity <= 100, NEW u \in E, NEW v \in E
        PROVE  u < v /\ units[u].shingles = units[v].shingles => <<u, v>> \in pairs
    <3> SUFFICES ASSUME u < v, units[u].shingles = units[v].shingles PROVE <<u, v>> \in pairs
      OBVIOUS
    <3>1. u \in 1..k
      BY <2>1 DEF Eligible
    <3> HIDE DEF units
    <3>2. IsFiniteSet(units[u].shingles)
      BY <2>1, <3>1
    <3>3. QED
      BY <2>2, <2>5, <3>2, TwinsAreFound
  <2> HIDE DEF units, profilesOf, report, pairs
  <2>6. ASSUME NEW n PROVE InnerPairs(n, profilesOf, pairs) = Inner(n) /\ Mine(n) \subseteq 1..k
    <3>1. \A p \in pairs : p[1] \in DOMAIN units /\ p[2] \in DOMAIN units
      BY <2>1, <2>4 DEF OfUnits
    <3>2. QED
      BY <2>1, <3>1 DEF InnerPairs
  <2>7. ASSUME NEW n
        PROVE  LET stats == CloneStatsFor(n, profilesOf, pairs)
               IN  /\ stats.inClones = Cardinality({u \in Mine(n) : \E v \in Partners(pairs, u) : v \in Mine(n)})
                   /\ stats.inClones <= Cardinality(Involved(pairs))
                   /\ stats.largestCluster =
                        Max({0} \cup {Cardinality(Group(Inner(n), DOMAIN units, u)) : u \in Involved(Inner(n))})
    <3> DEFINE stats == CloneStatsFor(n, profilesOf, pairs)
               inner == InnerPairs(n, profilesOf, pairs)
               largest == Max({0} \cup GroupSizes(inner, 1..k, Involved(inner)))
    <3>1. /\ stats.inClones = Cardinality(Involved(inner)) /\ stats.largestCluster = largest
          /\ IsFiniteSet(Involved(pairs)) /\ Involved(inner) \subseteq Involved(pairs)
      <4>1. ClustersFound(n, profilesOf, pairs, k)
        BY <2>1, <2>4, ClustersAreGroups
      <4>2. QED
        BY <4>1, Zenon DEF ClustersFound
    <3>2. inner = Inner(n) /\ Mine(n) \subseteq 1..k
      BY <2>6
    <3>3. Involved(Inner(n)) = {u \in Mine(n) : \E v \in Partners(pairs, u) : v \in Mine(n)}
      <4> HIDE DEF Mine
      <4>1. QED
        BY PartnersAreLinked
    <3>4. Cardinality(Involved(inner)) <= Cardinality(Involved(pairs))
      <4> HIDE DEF inner
      <4>1. QED
        BY <3>1, FS_Subset
    <3>5. largest = Max({0} \cup {Cardinality(Group(Inner(n), DOMAIN units, u)) : u \in Involved(Inner(n))})
      <4> HIDE DEF inner, Inner
      <4>1. QED
        BY <2>1, <3>2, Zenon DEF GroupSizes
    <3> HIDE DEF stats, inner, Inner, Mine, largest
    <3>6. /\ stats.inClones = Cardinality({u \in Mine(n) : \E v \in Partners(pairs, u) : v \in Mine(n)})
          /\ stats.inClones <= Cardinality(Involved(pairs))
      BY <3>1, <3>2, <3>3, <3>4
    <3>7. QED
      BY <3>1, <3>5, <3>6, Zenon DEF stats
  <2>8. DOMAIN CloneFindings(pairs) = Involved(pairs)
    BY DEF CloneFindings
  <2>9. Printed = report
    BY DEF Printed, report
  <2>10. CountedIn(report, units, profilesOf)
    <3>1. ASSUME NEW n \in DOMAIN report.panels PROVE CountedFor(report.panels[n].clones, n, units, profilesOf, pairs)
      <4>1. report.panels[n].clones = CloneStatsFor(n, profilesOf, pairs)
        BY <2>3
      <4>2. CountedFor(CloneStatsFor(n, profilesOf, pairs), n, units, profilesOf, pairs)
        BY <2>7, <2>8, Zenon DEF CountedFor
      <4>3. QED
        BY <4>1, <4>2
    <3>2. config.clone.similarity <= 100 =>
            \A u, v \in Eligible(units, config.clone.minStatements) :
              u < v /\ units[u].shingles = units[v].shingles => <<u, v>> \in pairs
      BY <2>5
    <3>3. QED
      BY <2>3, <3>1, <3>2, Zenon DEF CountedIn
  <2>11. QED
    BY <2>9, <2>10, Zenon DEF DuplicatesAreCounted, units, profilesOf
<1>2. QED
  BY ReportInvariance, <1>1, PTL

=============================================================================

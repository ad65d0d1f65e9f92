--------------------------- MODULE CheckRunProofs ---------------------------
(***************************************************************************)
(* Theorems about the check command, for every tree of files, every set of *)
(* texts, rules and configurations, and any number of failures, saves by   *)
(* others and runs: type correctness, that a run rewrites nothing it was   *)
(* told to leave alone, that damage is reported, and that a file without a *)
(* fix is never written; and, from what a pass knows of the files it has   *)
(* been over, that a failure at one file changes what is said of no other. *)
(***************************************************************************)
EXTENDS CheckRun, SequenceTheorems, FiniteSetTheorems, TLAPS

-----------------------------------------------------------------------------
(* Texts and findings are closed under what the run does with them. *)

\* A rewritten text is a text, with fewer sites and else unchanged.
LEMMA RewrittenType ==
  ASSUME NEW t \in Text, NEW S \in SUBSET Site
  PROVE  /\ Rewritten(t, S) \in Text
         /\ Rewritten(t, S).sites = t.sites \ S
<1>1. PICK u \in Written, R \in SUBSET Site : t = Rewritten(u, R)
  BY DEF Text
<1>2. u \in TextType
  BY TextsAssumption DEF TextsOK
<1>3. Rewritten(t, S) = Rewritten(u, R \cup S)
  BY <1>1, <1>2 DEF Rewritten, TextType
<1>4. Rewritten(t, S).sites = t.sites \ S
  BY <1>1, <1>2 DEF Rewritten, TextType
<1>5. QED
  BY <1>3, <1>4 DEF Text

\* A text has its type, and no sites unless it parses.
LEMMA TextFacts ==
  ASSUME NEW t \in Text
  PROVE  t \in TextType /\ (~t.parses => t.sites = {})
<1>1. PICK u \in Written, R \in SUBSET Site : t = Rewritten(u, R)
  BY DEF Text
<1>2. u \in TextType /\ (~u.parses => u.sites = {})
  BY TextsAssumption DEF TextsOK
<1>3. QED
  BY <1>1, <1>2 DEF Rewritten, TextType

\* What people write, and an empty or a cut file, are texts.
LEMMA WrittenAreTexts == Written \subseteq Text
<1>1. ASSUME NEW t \in Written PROVE t \in Text
  <2>1. t \in TextType
    BY TextsAssumption DEF TextsOK
  <2>2. Rewritten(t, {}) = t
    BY <2>1 DEF Rewritten, TextType
  <2>3. QED
    BY <2>2 DEF Text
<1>2. QED
  BY <1>1

\* The finding of a site is a finding, and tells the site.
LEMMA AboutFacts ==
  ASSUME NEW s \in Site
  PROVE  /\ About(s) \in Finding
         /\ About(s).code = s.code /\ About(s).at = s
BY SitesAssumption, CodesAssumption DEF SitesOK, CodesOK, About, Finding

\* What the per-file rules report of a text is findings.
LEMMA PerFileType ==
  ASSUME NEW t \in Text, NEW p
  PROVE  PerFile(p, t) \subseteq Finding
BY TextFacts, AboutFacts DEF PerFile, TextType

\* A unit's function is a name.
LEMMA UnitFacts ==
  ASSUME TypeOK, NEW v \in DOMAIN units
  PROVE  units[v].func \in Name
<1>1. units \in Seq(Unit)
  BY DEF TypeOK
<1>2. units[v] \in Unit
  BY <1>1, ElementOfSeq
<1>3. QED
  BY <1>2 DEF Unit

\* A finding of a whole-tree pass is a finding.
LEMMA WholeTreeFinding ==
  ASSUME NEW c \in WholeTreeCodes, NEW x \in Site \cup Name \cup {WholeFile}
  PROVE  [code |-> c, at |-> x] \in Finding
BY CodesAssumption DEF CodesOK, Finding

\* The findings of the whole-tree passes are findings, under their own codes.
LEMMA CrossFileType ==
  ASSUME TypeOK, NEW r \in DOMAIN results
  PROVE  /\ ClonesIn(r) \cup FanoutIn(r) \cup PreviewIn(r) \subseteq Finding
         /\ \A f \in ClonesIn(r) \cup FanoutIn(r) \cup PreviewIn(r) :
              f.code \in WholeTreeCodes
<1> DEFINE Whole(f) == f \in Finding /\ f.code \in WholeTreeCodes
<1>1. results[r] \in Result
  <2>1. results \in Seq(Result)
    BY DEF TypeOK
  <2>2. QED
    BY <2>1, ElementOfSeq
<1>2. results[r].source \in TextType
  BY <1>1, TextFacts DEF Result
<1>3. \A c \in WholeTreeCodes : \A x \in Name \cup {WholeFile} : Whole([code |-> c, at |-> x])
  BY WholeTreeFinding
<1>4. ASSUME NEW f \in ClonesIn(r) PROVE Whole(f)
  <2>1. PICK v \in DOMAIN units : f = [code |-> "SLP020", at |-> units[v].func]
    BY DEF ClonesIn
  <2>2. QED
    BY <1>3, <2>1, UnitFacts DEF WholeTreeCodes
<1>5. ASSUME NEW f \in FanoutIn(r) PROVE Whole(f)
  <2>1. f = [code |-> "SLP090", at |-> WholeFile]
    BY DEF FanoutIn
  <2>2. QED
    BY <1>3, <2>1 DEF WholeTreeCodes
<1>6. ASSUME NEW f \in UndeclaredIn(r) PROVE Whole(f)
  <2>1. PICK m \in results[r].source.imports : f = [code |-> "SLP180", at |-> m]
    BY DEF UndeclaredIn
  <2>2. m \in Name
    BY <1>2, <2>1 DEF TextType
  <2>3. QED
    BY <1>3, <2>1, <2>2 DEF WholeTreeCodes
<1>7. ASSUME NEW f \in GhostsIn(r) PROVE Whole(f)
  <2>1. PICK m \in results[r].source.defs : f = [code |-> "SLP240", at |-> m]
    BY DEF GhostsIn
  <2>2. m \in Name
    BY <1>2, <2>1 DEF TextType
  <2>3. QED
    BY <1>3, <2>1, <2>2 DEF WholeTreeCodes
<1>8. \A f \in ClonesIn(r) \cup FanoutIn(r) \cup PreviewIn(r) : Whole(f)
  BY <1>4, <1>5, <1>6, <1>7 DEF PreviewIn
<1>9. QED
  BY <1>8

-----------------------------------------------------------------------------
(* Type correctness. *)

\* A function on the positions of a sequence is a sequence.
LEMMA SequenceOver ==
  ASSUME NEW S, NEW T, NEW s \in Seq(S), NEW q \in [DOMAIN s -> T]
  PROVE  q \in Seq(T) /\ Len(q) = Len(s)
<1>1. DOMAIN s = 1..Len(s) /\ Len(s) \in Nat
  BY LenProperties
<1>2. q \in [1..Len(s) -> T]
  BY <1>1
<1>3. QED
  BY <1>1, <1>2

\* The results are typed, and so are the results with other diagnostics.
LEMMA ResultFacts ==
  ASSUME TypeOK, NEW r \in DOMAIN results
  PROVE  /\ results[r] \in Result
         /\ results[r].source \in Text /\ results[r].path \in Path
         /\ \A D \in SUBSET Finding :
              /\ [results[r] EXCEPT !.diagnostics = D] \in Result
              /\ [results[r] EXCEPT !.diagnostics = D].path = results[r].path
              /\ [results[r] EXCEPT !.diagnostics = D].source = results[r].source
              /\ [results[r] EXCEPT !.diagnostics = D].noqa = results[r].noqa
              /\ [results[r] EXCEPT !.diagnostics = D].diagnostics = D
<1>1. results \in Seq(Result)
  BY DEF TypeOK
<1>2. results[r] \in Result
  BY <1>1, ElementOfSeq
<1>3. QED
  BY <1>2 DEF Result

\* Both scans of a file yield a result.
LEMMA ScanFacts ==
  ASSUME TypeOK, NEW p \in Path
  PROVE  /\ FileAt[p] \in File /\ TextAt(p) \in Text
         /\ Corrupted(p) \in Result /\ Linted(p) \in Result
<1>1. FileAt[p] \in File /\ TextAt(p) \in Text
  BY PathsAssumption DEF PathsOK, TypeOK, TextAt
<1>2. TextAt(p).noqa \subseteq Finding
  BY <1>1, TextFacts DEF TextType
<1>3. [code |-> "SLP220", at |-> WholeFile] \in Finding
  BY CodesAssumption DEF CodesOK, Finding
<1>4. PerFile(p, TextAt(p)) \subseteq Finding
  BY <1>1, PerFileType
<1>5. QED
  BY <1>1, <1>2, <1>3, <1>4 DEF Corrupted, Linted, Result

\* The units of a file are units.
LEMMA UnitsOfType ==
  ASSUME NEW p, NEW t \in Text, NEW index \in Nat
  PROVE  UnitsOf(p, t, index) \in Seq(Unit)
<1>1. t.funcs \in Seq(Name)
  BY TextFacts DEF TextType
<1>2. \A k \in DOMAIN t.funcs : t.funcs[k] \in Name
  BY <1>1, ElementOfSeq
<1>3. [k \in DOMAIN t.funcs |-> [func |-> t.funcs[k], result |-> index]]
        \in [DOMAIN t.funcs -> Unit]
  BY <1>2 DEF Unit
<1>4. [k \in DOMAIN t.funcs |-> [func |-> t.funcs[k], result |-> index]] \in Seq(Unit)
  BY <1>1, <1>3, SequenceOver
<1>5. <<>> \in Seq(Unit)
  OBVIOUS
<1>6. QED
  BY <1>4, <1>5 DEF UnitsOf

\* A failure stays within the bound.
LEMMA FaultFacts ==
  ASSUME TypeOK, Fault
  PROVE  faults' \in 0..MaxFaults
BY BoundsAssumption DEF BoundsOK, TypeOK, Fault

\* The command's three kinds of steps keep the types: those that do not touch
\* the disk, the ones of apply_fixes, and what happens around the run.
LEMMA TypeOfScan ==
  ASSUME TypeOK, NEW p \in todo, ReadFails(p) \/ ScanUnparseable(p) \/ ScanParsed(p)
  PROVE  TypeOK'
<1>1. p \in Path /\ results \in Seq(Result) /\ units \in Seq(Unit)
  BY DEF TypeOK
<1>2. todo' \subseteq Path /\ pc' = "scan" /\ pc = "scan"
  BY DEF TypeOK, Scan, ReadFails, ScanUnparseable, ScanParsed
<1>3. results' \in Seq(Result) /\ (results' = results \/ Len(results') = Len(results) + 1)
  <2>1. \/ results' = results
        \/ results' = Append(results, Corrupted(p))
        \/ results' = Append(results, Linted(p))
    BY DEF ReadFails, ScanUnparseable, ScanParsed
  <2>2. ASSUME NEW e \in Result
        PROVE  Append(results, e) \in Seq(Result) /\ Len(Append(results, e)) = Len(results) + 1
    BY <1>1, AppendProperties
  <2>3. Corrupted(p) \in Result /\ Linted(p) \in Result
    BY <1>1, ScanFacts
  <2>4. QED
    BY <1>1, <2>1, <2>2, <2>3
<1>4. units' \in Seq(Unit)
  <2>1. Len(results) + 1 \in Nat
    BY <1>1, LenProperties
  <2>2. units' = units \/ units' = units \o UnitsOf(p, TextAt(p), Len(results) + 1)
    BY DEF ReadFails, ScanUnparseable, ScanParsed
  <2>3. UnitsOf(p, TextAt(p), Len(results) + 1) \in Seq(Unit)
    BY <1>1, <2>1, ScanFacts, UnitsOfType
  <2>4. QED
    BY <1>1, <2>2, <2>3, ConcatProperties
<1>5. next' \in 1..(Len(results') + 1)
  <2>1. next' = next /\ next \in 1..(Len(results) + 1)
    BY DEF TypeOK, Scan, ReadFails, ScanUnparseable, ScanParsed
  <2>2. Len(results) \in Nat
    BY <1>1, LenProperties
  <2>3. QED
    BY <1>3, <2>1, <2>2
<1>6. hadError' \in BOOLEAN
  BY DEF TypeOK, ReadFails, ScanUnparseable, ScanParsed
<1>7. faults' \in 0..MaxFaults
  <2>1. faults' = faults \/ Fault
    BY DEF ReadFails, ScanUnparseable, ScanParsed
  <2>2. QED
    BY <2>1, FaultFacts DEF TypeOK
<1>8. /\ job' \in Jobs /\ disk' \in [File -> Text] /\ before' \in [File -> Text]
      /\ edited' \subseteq File /\ torn' \subseteq File /\ clean' \in BOOLEAN
      /\ accepted' \subseteq Site
      /\ edits' \in 0..MaxEdits /\ runs' \in 1..MaxRuns
  BY DEF TypeOK, Scan, ReadFails, ScanUnparseable, ScanParsed, history
<1>9. QED
  BY <1>2, <1>3, <1>4, <1>5, <1>6, <1>7, <1>8 DEF TypeOK

\* Giving every result other diagnostics keeps the results typed.
LEMMA RelabelFacts ==
  ASSUME TypeOK, NEW D, \A r \in DOMAIN results : D[r] \in SUBSET Finding,
         results' = [r \in DOMAIN results |-> [results[r] EXCEPT !.diagnostics = D[r]]]
  PROVE  /\ results' \in Seq(Result) /\ Len(results') = Len(results)
         /\ DOMAIN results' = DOMAIN results
         /\ \A r \in DOMAIN results :
              /\ results'[r].path = results[r].path
              /\ results'[r].source = results[r].source
              /\ results'[r].noqa = results[r].noqa
              /\ results'[r].diagnostics = D[r]
<1>1. results \in Seq(Result)
  BY DEF TypeOK
<1>2. \A r \in DOMAIN results : [results[r] EXCEPT !.diagnostics = D[r]] \in Result
  BY ResultFacts
<1>3. results' \in [DOMAIN results -> Result]
  BY <1>2
<1>4. results' \in Seq(Result) /\ Len(results') = Len(results)
  BY <1>1, <1>3, SequenceOver
<1>5. QED
  BY <1>4, ResultFacts

\* What the two passes over the results do to them.
LEMMA CrossFileFacts ==
  ASSUME TypeOK, CrossFile
  PROVE  /\ results' \in Seq(Result) /\ Len(results') = Len(results)
         /\ DOMAIN results' = DOMAIN results
         /\ \A r \in DOMAIN results :
              /\ results'[r].path = results[r].path
              /\ results'[r].source = results[r].source
              /\ results'[r].noqa = results[r].noqa
              /\ results'[r].diagnostics =
                   results[r].diagnostics \cup (ClonesIn(r) \cup FanoutIn(r) \cup PreviewIn(r))
<1> DEFINE D == [r \in DOMAIN results |->
       results[r].diagnostics \cup (ClonesIn(r) \cup FanoutIn(r) \cup PreviewIn(r))]
<1>1. \A r \in DOMAIN results : D[r] \in SUBSET Finding
  <2>1. ASSUME NEW r \in DOMAIN results
        PROVE  results[r].diagnostics \subseteq Finding
    BY <2>1, ResultFacts DEF Result
  <2>2. QED
    BY <2>1, CrossFileType
<1>2. results' = [r \in DOMAIN results |-> [results[r] EXCEPT !.diagnostics = D[r]]]
  <2>1. ASSUME NEW r \in DOMAIN results
        PROVE  [results[r] EXCEPT !.diagnostics =
                  @ \cup ClonesIn(r) \cup FanoutIn(r) \cup PreviewIn(r)]
               = [results[r] EXCEPT !.diagnostics = D[r]]
    BY <2>1, ResultFacts DEF Result
  <2>2. QED
    BY <2>1 DEF CrossFile
<1> HIDE DEF D
<1>3. /\ results' \in Seq(Result) /\ Len(results') = Len(results)
      /\ DOMAIN results' = DOMAIN results
      /\ \A r \in DOMAIN results :
           /\ results'[r].path = results[r].path
           /\ results'[r].source = results[r].source
           /\ results'[r].noqa = results[r].noqa
           /\ results'[r].diagnostics = D[r]
  BY <1>1, <1>2, RelabelFacts
<1>4. QED
  BY <1>3 DEF D

\* Suppression takes away what `# noqa` covers, and keeps the results in order.
LEMMA SuppressFacts ==
  ASSUME TypeOK, Suppress
  PROVE  /\ results' \in Seq(Result) /\ Len(results') = Len(results)
         /\ DOMAIN results' = DOMAIN results
         /\ \A r \in DOMAIN results :
              /\ results'[r].path = results[r].path
              /\ results'[r].source = results[r].source
              /\ results'[r].noqa = results[r].noqa
              /\ results'[r].diagnostics = results[r].diagnostics \ results[r].noqa
<1> DEFINE D == [r \in DOMAIN results |-> results[r].diagnostics \ results[r].noqa]
<1>1. \A r \in DOMAIN results : D[r] \in SUBSET Finding
  <2>1. ASSUME NEW r \in DOMAIN results
        PROVE  results[r].diagnostics \subseteq Finding
    BY <2>1, ResultFacts DEF Result
  <2>2. QED
    BY <2>1
<1>2. results' = [r \in DOMAIN results |-> [results[r] EXCEPT !.diagnostics = D[r]]]
  BY DEF Suppress, Unsuppressed
<1> HIDE DEF D
<1>3. /\ results' \in Seq(Result) /\ Len(results') = Len(results)
      /\ DOMAIN results' = DOMAIN results
      /\ \A r \in DOMAIN results :
           /\ results'[r].path = results[r].path
           /\ results'[r].source = results[r].source
           /\ results'[r].noqa = results[r].noqa
           /\ results'[r].diagnostics = D[r]
  BY <1>1, <1>2, RelabelFacts
<1>4. QED
  BY <1>3 DEF D

\* Writing a file shortens the findings of its result and leaves the others.
LEMMA WriteOutFacts ==
  ASSUME TypeOK, WriteOut
  PROVE  /\ results' \in Seq(Result) /\ Len(results') = Len(results)
         /\ DOMAIN results' = DOMAIN results
         /\ \A r \in DOMAIN results :
              /\ results'[r].path = results[r].path
              /\ results'[r].source = results[r].source
              /\ results'[r].noqa = results[r].noqa
              /\ results'[r].diagnostics \subseteq results[r].diagnostics
              /\ r # next => results'[r] = results[r]
<1>1. next \in DOMAIN results /\ results \in Seq(Result)
  BY DEF TypeOK, WriteOut, Remaining, Current
<1>2. results' = [results EXCEPT ![next] = [results[next] EXCEPT !.diagnostics =
                    results[next].diagnostics \ {About(s) : s \in accepted}]]
  BY <1>1, ResultFacts DEF WriteOut, Remaining, Current, Result
<1>3. results[next].diagnostics \subseteq Finding
  BY <1>1, ResultFacts DEF Result
<1> DEFINE D == results[next].diagnostics \ {About(s) : s \in accepted}
<1>4. D \in SUBSET Finding /\ D \subseteq results[next].diagnostics
  BY <1>3
<1>5. results' = [results EXCEPT ![next] = [results[next] EXCEPT !.diagnostics = D]]
  BY <1>2
<1> HIDE DEF D
<1>6. /\ [results[next] EXCEPT !.diagnostics = D] \in Result
      /\ [results[next] EXCEPT !.diagnostics = D].path = results[next].path
      /\ [results[next] EXCEPT !.diagnostics = D].source = results[next].source
      /\ [results[next] EXCEPT !.diagnostics = D].noqa = results[next].noqa
      /\ [results[next] EXCEPT !.diagnostics = D].diagnostics = D
  BY <1>1, <1>4, ResultFacts
<1>7. results' \in [DOMAIN results -> Result]
  BY <1>1, <1>5, <1>6
<1>8. results' \in Seq(Result) /\ Len(results') = Len(results)
  BY <1>1, <1>7, SequenceOver
<1>9. \A r \in DOMAIN results : results'[r] =
        IF r = next THEN [results[next] EXCEPT !.diagnostics = D] ELSE results[r]
  BY <1>1, <1>5
<1>10. QED
  BY <1>4, <1>6, <1>7, <1>8, <1>9

\* The steps of the run that only read: the variables they leave alone.
LEMMA TypeOfPasses ==
  ASSUME TypeOK, Discover \/ CrossFile \/ Suppress \/ NothingToFix \/ Report
  PROVE  TypeOK'
<1>1. results \in Seq(Result) /\ Len(results) \in Nat /\ DOMAIN results = 1..Len(results)
  BY LenProperties DEF TypeOK
<1>2. CASE Discover
  <2>1. Discovered \subseteq Path
    BY JobsAssumption DEF JobsOK, TypeOK, Discovered
  <2>2. hadError' \in BOOLEAN
    <3>1. hadError' = (Missing \in job.inputs) \/ hadError' = TRUE
      BY <1>2 DEF Discover
    <3>2. CASE hadError' = (Missing \in job.inputs)
      <4>1. (Missing \in job.inputs) \in BOOLEAN
        OBVIOUS
      <4>2. QED
        BY <3>2, <4>1, Zenon
    <3>3. CASE hadError' = TRUE
      BY <3>3
    <3>4. QED
      BY <3>1, <3>2, <3>3
  <2>3. faults' \in 0..MaxFaults
    <3>1. faults' = faults \/ Fault
      BY <1>2 DEF Discover
    <3>2. QED
      BY <3>1, FaultFacts DEF TypeOK
  <2>4. QED
    BY <1>2, <2>1, <2>2, <2>3 DEF Discover, TypeOK, history
<1>3. CASE CrossFile
  BY <1>3, CrossFileFacts DEF CrossFile, TypeOK, history
<1>4. CASE Suppress
  BY <1>4, SuppressFacts DEF Suppress, TypeOK, history
<1>5. CASE NothingToFix
  BY <1>1, <1>5 DEF NothingToFix, Fixing, TypeOK, history
<1>6. CASE Report
  BY <1>6 DEF Report, TypeOK, history
<1>7. QED
  BY <1>2, <1>3, <1>4, <1>5, <1>6

\* The result whose turn it is, and its file.
LEMMA CurrentFacts ==
  ASSUME TypeOK, next \in DOMAIN results
  PROVE  /\ Current \in Result /\ Current.source \in Text /\ Current.path \in Path
         /\ CurrentFile \in File
         /\ next + 1 \in 1..(Len(results) + 1)
<1>1. Current.path \in Path /\ Current \in Result /\ Current.source \in Text
  BY ResultFacts DEF Current
<1>2. CurrentFile \in File
  BY <1>1, PathsAssumption DEF PathsOK, CurrentFile
<1>3. next + 1 \in 1..(Len(results) + 1)
  <2>1. Len(results) \in Nat /\ DOMAIN results = 1..Len(results)
    BY LenProperties DEF TypeOK
  <2>2. QED
    BY <2>1
<1>4. QED
  BY <1>1, <1>2, <1>3

\* The fix loop keeps the types.
LEMMA TypeOfFix ==
  ASSUME TypeOK,
         (\E S \in SUBSET Site : OpenForFix(S)) \/ OpenFails \/ WriteOut \/ WriteFails
  PROVE  TypeOK'
<1>1. next \in DOMAIN results
  BY DEF TypeOK, OpenForFix, OpenFails, Fixing, WriteOut, WriteFails
<1>2. Empty \in Text /\ Cut \in Text
  BY WrittenAreTexts DEF Written
<1>3. ASSUME NEW S \in SUBSET Site, OpenForFix(S) PROVE TypeOK'
  BY <1>1, <1>2, <1>3, CurrentFacts DEF OpenForFix, TypeOK
<1>4. CASE OpenFails
  BY <1>1, <1>4, CurrentFacts, FaultFacts DEF OpenFails, Fixing, TypeOK, history
<1>5. CASE WriteOut
  <2>1. Rewritten(Current.source, accepted) \in Text
    BY <1>1, CurrentFacts, RewrittenType DEF TypeOK
  <2>2. disk' \in [File -> Text]
    BY <1>5, <2>1 DEF WriteOut, TypeOK
  <2>3. next' \in 1..(Len(results') + 1)
    BY <1>1, <1>5, CurrentFacts, WriteOutFacts DEF WriteOut
  <2>4. torn' \subseteq File
    BY <1>5 DEF WriteOut, TypeOK
  <2>5. QED
    BY <1>5, <2>2, <2>3, <2>4, WriteOutFacts DEF WriteOut, TypeOK
<1>6. CASE WriteFails
  <2>1. disk' \in [File -> Text]
    BY <1>2, <1>6 DEF WriteFails, TypeOK
  <2>2. next' \in 1..(Len(results') + 1)
    BY <1>1, <1>6, CurrentFacts DEF WriteFails
  <2>3. QED
    BY <1>6, <2>1, <2>2, FaultFacts DEF WriteFails, TypeOK, history
<1>7. QED
  BY <1>3, <1>4, <1>5, <1>6

\* So do kills, saves, and starting over.
LEMMA TypeOfSurroundings ==
  ASSUME TypeOK, Kill \/ (\E f \in File : Save(f)) \/ RunAgain \/ UNCHANGED vars
  PROVE  TypeOK'
<1>1. CASE Kill
  BY <1>1, FaultFacts DEF Kill, TypeOK, runVars, history
<1>2. ASSUME NEW f \in File, Save(f) PROVE TypeOK'
  <2>1. disk' \in [File -> Text]
    BY <1>2, WrittenAreTexts DEF Save, TypeOK, Written
  <2>2. edits' \in 0..MaxEdits
    BY <1>2, BoundsAssumption DEF BoundsOK, Save, TypeOK
  <2>3. QED
    BY <1>2, <2>1, <2>2 DEF Save, TypeOK, runVars
<1>3. CASE RunAgain
  <2>1. runs' \in 1..MaxRuns
    BY <1>3, BoundsAssumption DEF BoundsOK, RunAgain, TypeOK
  <2>2. results' \in Seq(Result) /\ units' \in Seq(Unit) /\ next' \in 1..(Len(results') + 1)
    BY <1>3, EmptySeq DEF RunAgain
  <2>3. /\ todo' = {} /\ accepted' = {} /\ edited' = {} /\ torn' = {}
        /\ pc' = "discover" /\ hadError' = FALSE /\ clean' = FALSE
        /\ job' = job /\ disk' = disk /\ before' = disk
        /\ faults' = faults /\ edits' = edits
    BY <1>3 DEF RunAgain
  <2>4. QED
    BY <2>1, <2>2, <2>3 DEF TypeOK
<1>4. CASE UNCHANGED vars
  BY <1>4 DEF vars, runVars, history, TypeOK
<1>5. QED
  BY <1>1, <1>2, <1>3, <1>4

\* Every step keeps the types.
LEMMA TypeStep ==
  ASSUME TypeOK, [Next]_vars
  PROVE  TypeOK'
BY TypeOfScan, TypeOfPasses, TypeOfFix, TypeOfSurroundings DEF Next, Run, Stopped

\* The types hold when the run begins.
LEMMA TypeInit == Init => TypeOK
<1> SUFFICES ASSUME Init PROVE TypeOK
  OBVIOUS
<1>1. disk \in [File -> Text]
  BY WrittenAreTexts DEF Init, Written
<1>2. results \in Seq(Result) /\ units \in Seq(Unit) /\ next \in 1..(Len(results) + 1)
  BY EmptySeq DEF Init, NotStarted
<1>3. faults \in 0..MaxFaults /\ edits \in 0..MaxEdits /\ runs \in 1..MaxRuns
  BY BoundsAssumption DEF BoundsOK, Init
<1>4. QED
  BY <1>1, <1>2, <1>3 DEF Init, NotStarted, TypeOK

\* THEOREM: through every run, failure, kill and save the variables keep their
\* types; in particular a file holds a text somebody wrote less some sites, or
\* what is left of a torn one, and while it is open something is being fixed.
THEOREM TypeCorrect == Spec => []TypeOK
<1>1. TypeOK /\ [Next]_vars => TypeOK'
  BY TypeStep
<1>2. QED
  BY <1>1, TypeInit, PTL DEF Spec

-----------------------------------------------------------------------------
(* What a run was told to leave alone stays as it was. *)

\* No two paths lead to one file: the tree holds no symbolic links.
Unlinked == \A p, q \in Path : FileAt[p] = FileAt[q] => p = q

\* What the run keeps of a file is what the file held when the run began.
SourceKnown ==
  \A r \in DOMAIN results : FileAt[results[r].path] \notin edited =>
    results[r].source = before[FileAt[results[r].path]]

\* Nothing is written before the fixes.
UnwrittenYet ==
  pc \in {"discover", "scan", "suppress"} =>
    \A f \in File \ edited : disk[f] = before[f]

UntornYet == pc \in {"discover", "scan", "suppress"} => torn = {}

\* Findings about sites are those of rules that are on.
OnlyEnabled ==
  \A r \in DOMAIN results : \A s \in results[r].source.sites :
    About(s) \in results[r].diagnostics => Runs(job.config, s.code, results[r].path)

\* The suppressions of a result are its text's; of a text that does not parse
\* none are known, and nothing in it is reported that they could cover.
NoqaKnown ==
  \A r \in DOMAIN results :
    results[r].source.sites # {} => results[r].noqa = results[r].source.noqa

\* Fixes run after suppression, and when asked for.
Filtered ==
  pc \in {"fix", "write"} =>
    job.fix /\ \A r \in DOMAIN results : results[r].diagnostics \cap results[r].noqa = {}

\* The file that is open is torn, and the sites being fixed may be.
Opened == pc = "write" => accepted \subseteq Fixable(Current) /\ CurrentFile \in torn

Knowledge ==
  SourceKnown /\ UnwrittenYet /\ UntornYet /\ OnlyEnabled /\ NoqaKnown /\ Filtered /\ Opened
IInv == TypeOK /\ Knowledge

\* A site whose finding is still listed when the fixes run is one the run may fix.
LEMMA FixableIsPermitted ==
  ASSUME IInv, pc \in {"fix", "write"}, NEW r \in DOMAIN results
  PROVE  Fixable(results[r]) \subseteq Permitted(results[r].path, results[r].source)
<1>1. ASSUME NEW s \in Fixable(results[r])
      PROVE  s \in Permitted(results[r].path, results[r].source)
  <2>1. /\ s \in results[r].source.sites /\ About(s) \in results[r].diagnostics
        /\ s.fix = "safe" \/ (s.fix = "unsafe" /\ job.unsafe)
    BY <1>1 DEF Fixable
  <2>2. Runs(job.config, s.code, results[r].path)
    BY <2>1 DEF IInv, Knowledge, OnlyEnabled
  <2>3. job.fix /\ About(s) \notin results[r].noqa
    BY <2>1 DEF IInv, Knowledge, Filtered
  <2>4. About(s) \notin results[r].source.noqa
    BY <2>1, <2>3 DEF IInv, Knowledge, NoqaKnown
  <2>5. QED
    BY <2>1, <2>2, <2>3, <2>4 DEF Permitted
<1>2. QED
  BY <1>1

\* The invariant holds when the run begins: nothing is known yet.
LEMMA InitKnowledge == Init => IInv
<1> SUFFICES ASSUME Init PROVE IInv
  OBVIOUS
<1>1. results = <<>> /\ pc = "discover" /\ before = disk /\ torn = {}
  BY DEF Init, NotStarted
<1>2. DOMAIN results = {}
  BY <1>1
<1>3. QED
  BY <1>1, <1>2, TypeInit
     DEF IInv, Knowledge, SourceKnown, UnwrittenYet, UntornYet, OnlyEnabled, NoqaKnown, Filtered, Opened

\* A new result knows its text: scanning keeps the knowledge.
LEMMA KnowledgeOfScan ==
  ASSUME IInv, NEW p \in todo, ReadFails(p) \/ ScanUnparseable(p) \/ ScanParsed(p)
  PROVE  Knowledge'
<1>1. /\ job' = job /\ disk' = disk /\ pc = "scan" /\ pc' = "scan"
      /\ before' = before /\ edited' = edited /\ torn' = torn
  BY DEF Scan, ReadFails, ScanUnparseable, ScanParsed, history
<1>2. UnwrittenYet' /\ UntornYet' /\ Filtered' /\ Opened'
  BY <1>1 DEF IInv, Knowledge, UnwrittenYet, UntornYet, Filtered, Opened
<1>3. p \in Path /\ results \in Seq(Result)
  BY DEF IInv, TypeOK
<1>4. FileAt[p] \notin edited => TextAt(p) = before[FileAt[p]]
  BY <1>1, <1>3, ScanFacts DEF IInv, Knowledge, UnwrittenYet, TextAt
<1>5. CASE results' = results
  BY <1>1, <1>2, <1>5
     DEF IInv, Knowledge, SourceKnown, OnlyEnabled, NoqaKnown
<1>6. ASSUME NEW new,
             results' = Append(results, new),
             new.path = p, new.source = TextAt(p),
             \A s \in new.source.sites :
               /\ About(s) \in new.diagnostics => Runs(job.config, s.code, p)
               /\ new.noqa = new.source.noqa,
             new \in Result
      PROVE  Knowledge'
  <2>1. \A r \in DOMAIN results' :
          \/ r \in DOMAIN results /\ results'[r] = results[r]
          \/ results'[r] = new
    BY <1>3, <1>6, AppendProperties, LenProperties
  <2>2. SourceKnown'
    BY <1>1, <1>4, <1>6, <2>1 DEF IInv, Knowledge, SourceKnown
  <2>3. OnlyEnabled'
    BY <1>1, <1>6, <2>1 DEF IInv, Knowledge, OnlyEnabled
  <2>4. NoqaKnown'
    BY <1>6, <2>1 DEF IInv, Knowledge, NoqaKnown
  <2>5. QED
    BY <1>2, <2>2, <2>3, <2>4 DEF Knowledge
<1>7. CASE results' = Append(results, Corrupted(p)) /\ ~TextAt(p).parses
  <2>1. TextAt(p).sites = {} /\ Corrupted(p) \in Result
    BY <1>3, <1>7, ScanFacts, TextFacts DEF IInv
  <2>2. Corrupted(p).path = p /\ Corrupted(p).source = TextAt(p)
    BY DEF Corrupted
  <2>3. QED
    BY <1>6, <1>7, <2>1, <2>2
<1>8. CASE results' = Append(results, Linted(p))
  <2>1. /\ Linted(p) \in Result /\ TextAt(p) \in TextType
    BY <1>3, ScanFacts, TextFacts DEF IInv
  <2>2. /\ Linted(p).path = p /\ Linted(p).source = TextAt(p)
        /\ Linted(p).noqa = TextAt(p).noqa
        /\ Linted(p).diagnostics = PerFile(p, TextAt(p))
    BY DEF Linted
  <2>3. ASSUME NEW s \in TextAt(p).sites, About(s) \in PerFile(p, TextAt(p))
        PROVE  Runs(job.config, s.code, p)
    <3>1. PICK x \in TextAt(p).sites : About(x) = About(s) /\ Runs(job.config, x.code, p)
      BY <2>3 DEF PerFile
    <3>2. x \in Site /\ s \in Site
      BY <2>1 DEF TextType
    <3>3. x = s
      BY <3>1, <3>2, AboutFacts
    <3>4. QED
      BY <3>1, <3>3
  <2>4. QED
    BY <1>6, <1>8, <2>1, <2>2, <2>3
<1>9. QED
  BY <1>5, <1>7, <1>8 DEF ReadFails, ScanUnparseable, ScanParsed

\* The passes over the results add no finding about a site, and Suppress drops
\* the ones that are suppressed.
LEMMA KnowledgeOfPasses ==
  ASSUME IInv, Discover \/ CrossFile \/ Suppress \/ NothingToFix \/ Report
  PROVE  Knowledge'
<1>1. /\ job' = job /\ disk' = disk /\ before' = before
      /\ edited' = edited /\ torn' = torn
  BY DEF Discover, CrossFile, Suppress, NothingToFix, Report, history
<1>2. CASE Discover \/ NothingToFix \/ Report
  <2>1. results' = results /\ pc' \notin {"write", "discover", "suppress"}
    BY <1>2 DEF Discover, NothingToFix, Fixing, Report
  <2>2. pc' = "scan" => pc = "discover"
    BY <1>2 DEF Discover, NothingToFix, Fixing, Report
  <2>3. pc' = "fix" => pc = "fix"
    BY <1>2 DEF Discover, NothingToFix, Fixing, Report
  <2>4. QED
    BY <1>1, <2>1, <2>2, <2>3
       DEF IInv, Knowledge, SourceKnown, UnwrittenYet, UntornYet, OnlyEnabled, NoqaKnown, Filtered, Opened
<1>3. CASE CrossFile
  <2>1. /\ DOMAIN results' = DOMAIN results
        /\ \A r \in DOMAIN results :
             /\ results'[r].path = results[r].path
             /\ results'[r].source = results[r].source
             /\ results'[r].noqa = results[r].noqa
             /\ results'[r].diagnostics =
                  results[r].diagnostics \cup (ClonesIn(r) \cup FanoutIn(r) \cup PreviewIn(r))
    BY <1>3, CrossFileFacts DEF IInv
  <2>2. ASSUME NEW r \in DOMAIN results, NEW s \in results[r].source.sites,
               About(s) \in results'[r].diagnostics
        PROVE  About(s) \in results[r].diagnostics
    <3>1. s \in Site
      BY ResultFacts, TextFacts DEF IInv, TextType
    <3>2. About(s).code \notin WholeTreeCodes
      BY <3>1, AboutFacts, SitesAssumption DEF SitesOK
    <3>3. QED
      BY <2>1, <2>2, <3>2, CrossFileType DEF IInv
  <2>3. OnlyEnabled'
    BY <1>1, <2>1, <2>2 DEF IInv, Knowledge, OnlyEnabled
  <2>4. pc = "scan" /\ pc' = "suppress"
    BY <1>3 DEF CrossFile
  <2>5. QED
    BY <1>1, <2>1, <2>3, <2>4
       DEF IInv, Knowledge, SourceKnown, UnwrittenYet, UntornYet, NoqaKnown, Filtered, Opened
<1>4. CASE Suppress
  <2>1. /\ DOMAIN results' = DOMAIN results
        /\ \A r \in DOMAIN results :
             /\ results'[r].path = results[r].path
             /\ results'[r].source = results[r].source
             /\ results'[r].noqa = results[r].noqa
             /\ results'[r].diagnostics = results[r].diagnostics \ results[r].noqa
    BY <1>4, SuppressFacts DEF IInv
  <2>2. pc' \in {"fix", "report"} /\ (pc' = "fix" => job.fix)
    BY <1>4 DEF Suppress
  <2>3. Filtered'
    BY <1>1, <2>1, <2>2 DEF Filtered
  <2>4. QED
    BY <1>1, <2>1, <2>2, <2>3
       DEF IInv, Knowledge, SourceKnown, UnwrittenYet, UntornYet, OnlyEnabled, NoqaKnown, Opened
<1>5. QED
  BY <1>2, <1>3, <1>4

\* Fixing takes findings away and changes no result otherwise.
LEMMA KnowledgeOfFix ==
  ASSUME IInv,
         (\E S \in SUBSET Site : OpenForFix(S)) \/ OpenFails \/ WriteOut \/ WriteFails
  PROVE  Knowledge'
<1>1. /\ job' = job /\ before' = before /\ edited' = edited
      /\ pc \in {"fix", "write"} /\ pc' \in {"fix", "write"}
  BY DEF OpenForFix, OpenFails, Fixing, WriteOut, WriteFails, history
<1>2. UnwrittenYet' /\ UntornYet'
  BY <1>1 DEF UnwrittenYet, UntornYet
<1>3. CASE results' = results
  <2>1. SourceKnown' /\ OnlyEnabled' /\ NoqaKnown' /\ Filtered'
    BY <1>1, <1>3
       DEF IInv, Knowledge, SourceKnown, OnlyEnabled, NoqaKnown, Filtered
  <2>2. Opened'
    <3>1. ASSUME pc' = "write"
          PROVE  /\ accepted' \subseteq Fixable(Current) /\ CurrentFile \in torn'
                 /\ next' = next
      <4>1. PICK S \in SUBSET Site : OpenForFix(S)
        BY <3>1 DEF OpenFails, Fixing, WriteOut, WriteFails
      <4>2. QED
        BY <4>1 DEF OpenForFix, Selects
    <3>2. QED
      BY <1>1, <1>3, <3>1 DEF Opened, Fixable, CurrentFile, Current
  <2>3. QED
    BY <1>2, <2>1, <2>2 DEF Knowledge
<1>4. CASE WriteOut
  <2>1. /\ DOMAIN results' = DOMAIN results
        /\ \A r \in DOMAIN results :
             /\ results'[r].path = results[r].path
             /\ results'[r].source = results[r].source
             /\ results'[r].noqa = results[r].noqa
             /\ results'[r].diagnostics \subseteq results[r].diagnostics
    BY <1>4, WriteOutFacts DEF IInv
  <2>2. SourceKnown' /\ NoqaKnown'
    BY <1>1, <2>1 DEF IInv, Knowledge, SourceKnown, NoqaKnown
  <2>3. OnlyEnabled'
    BY <1>1, <2>1 DEF IInv, Knowledge, OnlyEnabled
  <2>4. Filtered'
    BY <1>1, <2>1 DEF IInv, Knowledge, Filtered
  <2>5. Opened'
    BY <1>4 DEF WriteOut, Opened
  <2>6. QED
    BY <1>2, <2>2, <2>3, <2>4, <2>5 DEF Knowledge
<1>5. QED
  BY <1>3, <1>4 DEF OpenForFix, OpenFails, WriteFails, history

\* Of a file somebody saves the run claims to know nothing any more.
LEMMA KnowledgeOfSurroundings ==
  ASSUME IInv, Kill \/ (\E f \in File : Save(f)) \/ RunAgain \/ UNCHANGED vars
  PROVE  Knowledge'
<1>1. CASE Kill
  BY <1>1
     DEF Kill, runVars, history, IInv, Knowledge, SourceKnown, UnwrittenYet, UntornYet, OnlyEnabled,
         NoqaKnown, Filtered, Opened
<1>2. ASSUME NEW f \in File, Save(f) PROVE Knowledge'
  <2>1. /\ job' = job /\ pc' = pc /\ results' = results /\ next' = next
        /\ accepted' = accepted /\ before' = before /\ torn' = torn
        /\ edited' = edited \cup {f}
        /\ \A g \in File \ {f} : disk'[g] = disk[g]
    BY <1>2 DEF Save, runVars, IInv, TypeOK
  <2>2. UnwrittenYet' /\ UntornYet'
    BY <2>1 DEF IInv, Knowledge, UnwrittenYet, UntornYet
  <2>3. Opened'
    BY <2>1 DEF IInv, Knowledge, Opened, Fixable, CurrentFile, Current
  <2>4. QED
    BY <2>1, <2>2, <2>3 DEF IInv, Knowledge, SourceKnown, OnlyEnabled, NoqaKnown, Filtered
<1>3. CASE RunAgain
  <2>1. /\ results' = <<>> /\ pc' = "discover" /\ torn' = {}
        /\ before' = disk /\ disk' = disk
    BY <1>3 DEF RunAgain
  <2>2. DOMAIN results' = {}
    BY <2>1
  <2>3. QED
    BY <2>1, <2>2
       DEF Knowledge, SourceKnown, UnwrittenYet, UntornYet, OnlyEnabled, NoqaKnown, Filtered, Opened
<1>4. CASE UNCHANGED vars
  BY <1>4
     DEF vars, runVars, history, IInv, Knowledge, SourceKnown, UnwrittenYet, UntornYet, OnlyEnabled,
         NoqaKnown, Filtered, Opened, Fixable, CurrentFile, Current
<1>5. QED
  BY <1>1, <1>2, <1>3, <1>4

\* Every step keeps the invariant.
LEMMA KnowledgeStep ==
  ASSUME IInv, [Next]_vars
  PROVE  IInv'
<1>1. TypeOK'
  BY TypeStep DEF IInv
<1>2. Knowledge'
  BY KnowledgeOfScan, KnowledgeOfPasses, KnowledgeOfFix, KnowledgeOfSurroundings
     DEF Next, Run, Stopped
<1>3. QED
  BY <1>1, <1>2 DEF IInv

\* The inductive invariant: what the run knows of the files is right.
THEOREM Invariance == Spec => []IInv
<1>1. IInv /\ [Next]_vars => IInv'
  BY KnowledgeStep
<1>2. QED
  BY <1>1, InitKnowledge, PTL DEF Spec

\* One step rewrites nothing it was told to leave alone.
LEMMA OptedOutStep ==
  ASSUME Unlinked, IInv, OptedOutNeverRewritten, [Next]_vars
  PROVE  OptedOutNeverRewritten'
<1> SUFFICES ASSUME NEW p \in Discovered', (FileAt[p] \notin edited \cup torn)'
             PROVE  before'[FileAt[p]].sites \ disk'[FileAt[p]].sites
                      \subseteq Permitted(p, before[FileAt[p]])'
  BY DEF OptedOutNeverRewritten
<1> DEFINE f == FileAt[p]
<1>1. job' = job /\ p \in Discovered
  BY DEF Next, vars, Run, Discover, Scan, ReadFails, ScanUnparseable, ScanParsed, CrossFile,
         Suppress, NothingToFix, OpenForFix, OpenFails, WriteOut, WriteFails, Report, Kill,
         Save, RunAgain, Stopped, Discovered
<1>2. p \in Path /\ f \in File
  BY <1>1, JobsAssumption, PathsAssumption DEF JobsOK, PathsOK, IInv, TypeOK, Discovered
<1>4. CASE before' = before /\ disk'[f] = disk[f] /\ f \notin edited \cup torn
  BY <1>1, <1>4 DEF OptedOutNeverRewritten, Permitted
<1>5. CASE before' = disk /\ disk' = disk
  BY <1>5
<1>6. CASE WriteOut /\ f = CurrentFile
  <2>1. /\ pc = "write" /\ next \in DOMAIN results /\ before' = before /\ edited' = edited
        /\ disk'[f] = Rewritten(Current.source, accepted)
    BY <1>2, <1>6 DEF WriteOut, IInv, TypeOK
  <2>2. Current.path = p
    BY <1>2, <1>6, <2>1, CurrentFacts DEF Unlinked, CurrentFile, IInv
  <2>3. Current.source = before[f]
    BY <1>6, <2>1 DEF IInv, Knowledge, SourceKnown, Current, CurrentFile
  <2>4. accepted \subseteq Permitted(p, before[f])
    BY <2>1, <2>2, <2>3, FixableIsPermitted DEF IInv, Knowledge, Opened, Current
  <2>5. disk'[f].sites = before[f].sites \ accepted
    BY <2>1, <2>3, CurrentFacts, RewrittenType DEF IInv, TypeOK
  <2>6. Permitted(p, before[f])' = Permitted(p, before[f])
    BY <1>1, <2>1 DEF Permitted
  <2>7. QED
    BY <2>1, <2>4, <2>5, <2>6
<1>7. CASE \E g \in File : Save(g)
  <2>1. PICK g \in File : Save(g)
    BY <1>7
  <2>2. g # f /\ disk'[f] = disk[f] /\ before' = before /\ f \notin edited \cup torn
    BY <1>2, <2>1 DEF Save, IInv, TypeOK
  <2>3. QED
    BY <1>4, <2>2
<1>8. CASE \E S \in SUBSET Site : OpenForFix(S)
  <2>1. CurrentFile # f /\ before' = before /\ f \notin edited \cup torn /\ disk'[f] = disk[f]
    BY <1>2, <1>8 DEF OpenForFix, IInv, TypeOK
  <2>2. QED
    BY <1>4, <2>1
<1>9. CASE WriteFails
  <2>1. CurrentFile \in torn /\ torn' = torn /\ edited' = edited /\ before' = before
    BY <1>9 DEF WriteFails, history, IInv, Knowledge, Opened
  <2>2. CurrentFile # f /\ disk'[f] = disk[f]
    BY <1>2, <1>9, <2>1 DEF WriteFails, IInv, TypeOK
  <2>3. QED
    BY <1>4, <2>1, <2>2
<1>10. CASE WriteOut /\ f # CurrentFile
  <2>1. before' = before /\ disk'[f] = disk[f] /\ f \notin edited \cup torn
    BY <1>2, <1>10 DEF WriteOut, IInv, TypeOK
  <2>2. QED
    BY <1>4, <2>1
<1>11. CASE RunAgain
  BY <1>5, <1>11 DEF RunAgain
<1>12. CASE disk' = disk /\ UNCHANGED history
  BY <1>4, <1>12 DEF history
<1>13. QED
  <2>1. ASSUME NEW q \in todo, ReadFails(q) \/ ScanUnparseable(q) \/ ScanParsed(q)
        PROVE  disk' = disk /\ UNCHANGED history
    BY <2>1 DEF ReadFails, ScanUnparseable, ScanParsed, Scan
  <2>2. ASSUME Discover \/ CrossFile \/ Suppress \/ NothingToFix \/ OpenFails \/ Report
        PROVE  disk' = disk /\ UNCHANGED history
    BY <2>2 DEF Discover, CrossFile, Suppress, NothingToFix, OpenFails, Report
  <2>3. ASSUME Kill \/ Stopped \/ UNCHANGED vars
        PROVE  disk' = disk /\ UNCHANGED history
    BY <2>3 DEF Kill, Stopped, vars, history
  <2>4. QED
    BY <1>6, <1>7, <1>8, <1>9, <1>10, <1>11, <1>12, <2>1, <2>2, <2>3 DEF Next, Run

\* THEOREM: where no two paths lead to one file, a run takes nothing out of a
\* file that it was not told to take: no site while --fix is off, none of a
\* rule that is off for the path, none under `# noqa`, no unsafe fix unasked;
\* for every configuration, and whatever fails or is saved or killed meanwhile.
THEOREM OptedOutIsNeverRewritten ==
  ASSUME Unlinked
  PROVE  Spec => []OptedOutNeverRewritten
<1>1. Init => OptedOutNeverRewritten
  BY DEF Init, OptedOutNeverRewritten
<1>2. IInv /\ OptedOutNeverRewritten /\ [Next]_vars => OptedOutNeverRewritten'
  BY OptedOutStep
<1>3. QED
  BY <1>1, <1>2, Invariance, PTL DEF Spec

-----------------------------------------------------------------------------
(* Damage, and files without fixes. *)

\* The findings of a file stay listed while the results are what they were.
LEMMA ListedStays ==
  ASSUME NEW f, StillListed(f), results' = results, job' = job, hadError'
  PROVE  StillListed(f)'
BY DEF StillListed, Fixable

\* One step leaves no damage unaccounted for.
LEMMA DamageStep ==
  ASSUME IInv, DamageIsReported, [Next]_vars
  PROVE  DamageIsReported'
<1> SUFFICES ASSUME NEW f \in torn'
             PROVE  CaughtOpen(f)' \/ StillListed(f)'
  BY DEF DamageIsReported
<1>1. f \in torn => CaughtOpen(f) \/ StillListed(f)
  BY DEF DamageIsReported
<1>2. CASE UNCHANGED vars \/ Stopped \/ \E g \in File : Save(g)
  <2>1. /\ job' = job /\ pc' = pc /\ results' = results /\ next' = next
        /\ hadError' = hadError /\ torn' = torn
    BY <1>2 DEF Stopped, Save, vars, runVars, history
  <2>2. CaughtOpen(f) => CaughtOpen(f)'
    BY <2>1 DEF CaughtOpen, CurrentFile, Current
  <2>3. ASSUME StillListed(f)
        PROVE  StillListed(f)'
    <3>1. hadError'
      BY <2>1, <2>3 DEF StillListed
    <3>2. QED
      BY <2>1, <2>3, <3>1, ListedStays
  <2>4. QED
    BY <1>1, <2>1, <2>2, <2>3
<1>3. CASE Kill
  <2>1. /\ job' = job /\ pc' = "killed" /\ results' = results /\ next' = next
        /\ hadError' = hadError /\ torn' = torn
    BY <1>3 DEF Kill, runVars, history
  <2>2. CaughtOpen(f) => CaughtOpen(f)'
    BY <2>1 DEF CaughtOpen, CurrentFile, Current
  <2>3. ASSUME StillListed(f)
        PROVE  StillListed(f)'
    <3>1. hadError'
      BY <2>1, <2>3 DEF StillListed
    <3>2. QED
      BY <2>1, <2>3, <3>1, ListedStays
  <2>4. QED
    BY <1>1, <2>1, <2>2, <2>3
<1>4. CASE RunAgain
  BY <1>4 DEF RunAgain
<1>5. ASSUME NEW S \in SUBSET Site, OpenForFix(S)
      PROVE  CaughtOpen(f)' \/ StillListed(f)'
  <2>1. /\ job' = job /\ results' = results /\ next' = next /\ hadError' = hadError
        /\ torn' = torn \cup {CurrentFile} /\ pc = "fix" /\ pc' = "write"
        /\ next \in DOMAIN results
    BY <1>5 DEF OpenForFix, Fixing
  <2>2. CASE f = CurrentFile
    BY <2>1, <2>2 DEF CaughtOpen, CurrentFile, Current
  <2>3. CASE f \in torn
    <3>1. StillListed(f)
      BY <1>1, <2>1, <2>3 DEF CaughtOpen
    <3>2. hadError'
      BY <2>1, <3>1 DEF StillListed
    <3>3. QED
      BY <2>1, <3>1, <3>2, ListedStays
  <2>4. QED
    BY <2>1, <2>2, <2>3
<1>6. CASE WriteFails
  <2>1. /\ job' = job /\ results' = results /\ hadError' = TRUE /\ torn' = torn
        /\ next \in DOMAIN results /\ pc = "write"
    BY <1>6 DEF WriteFails, history, IInv, TypeOK
  <2>2. CASE f = CurrentFile
    <3>1. Fixable(Current) # {}
      BY <2>1 DEF IInv, TypeOK, Knowledge, Opened
    <3>2. FileAt[results[next].path] = f /\ Fixable(results[next]) # {}
      BY <2>2, <3>1 DEF CurrentFile, Current
    <3>3. QED
      BY <2>1, <3>2 DEF Fixable, StillListed
  <2>3. CASE f # CurrentFile
    <3>1. StillListed(f)
      BY <1>1, <2>1, <2>3 DEF CaughtOpen
    <3>2. QED
      BY <2>1, <3>1, ListedStays
  <2>4. QED
    BY <2>2, <2>3
<1>7. CASE WriteOut
  <2>1. /\ job' = job /\ hadError' = hadError /\ torn' = torn \ {CurrentFile}
        /\ DOMAIN results' = DOMAIN results
        /\ \A r \in DOMAIN results : r # next => results'[r] = results[r]
    BY <1>7, WriteOutFacts DEF WriteOut, IInv
  <2>2. f \in torn /\ f # CurrentFile
    BY <2>1
  <2>3. StillListed(f)
    BY <1>1, <2>2 DEF CaughtOpen
  <2>4. PICK r \in DOMAIN results : FileAt[results[r].path] = f /\ Fixable(results[r]) # {}
    BY <2>3 DEF StillListed
  <2>5. r # next
    BY <2>2, <2>4 DEF CurrentFile, Current
  <2>6. results'[r] = results[r] /\ hadError'
    BY <2>1, <2>3, <2>4, <2>5 DEF StillListed
  <2>7. QED
    BY <2>1, <2>4, <2>6 DEF Fixable, StillListed
<1>8. ASSUME job' = job, results' = results, torn' = torn, hadError => hadError',
             pc \notin {"write", "killed"}
      PROVE  StillListed(f)'
  <2>1. StillListed(f)
    BY <1>1, <1>8 DEF CaughtOpen
  <2>2. QED
    BY <1>8, <2>1, ListedStays DEF StillListed
<1>9. CASE NothingToFix \/ OpenFails \/ Report
  BY <1>8, <1>9 DEF NothingToFix, OpenFails, Fixing, Report, history
<1>10. CASE Discover \/ CrossFile \/ Suppress
          \/ \E p \in todo : ReadFails(p) \/ ScanUnparseable(p) \/ ScanParsed(p)
  <2>1. pc \in {"discover", "scan", "suppress"} /\ torn' = torn
    BY <1>10 DEF Discover, CrossFile, Suppress, ReadFails, ScanUnparseable, ScanParsed,
                 Scan, history
  <2>2. torn = {}
    BY <2>1 DEF IInv, Knowledge, UntornYet
  <2>3. QED
    BY <2>1, <2>2
<1>11. QED
  BY <1>2, <1>3, <1>4, <1>5, <1>6, <1>7, <1>9, <1>10 DEF Next, Run

\* THEOREM: whatever fails, is saved by others or is killed, a file the run
\* truncated and did not finish writing is never passed over: it was open when
\* the run was killed, or the run ends with status 1 and lists its findings.
THEOREM DamageIsAlwaysReported == Spec => []DamageIsReported
<1>1. Init => DamageIsReported
  BY DEF Init, DamageIsReported
<1>2. IInv /\ DamageIsReported /\ [Next]_vars => DamageIsReported'
  BY DamageStep
<1>3. QED
  BY <1>1, <1>2, Invariance, PTL DEF Spec

\* A step that changes a file is somebody's save, or opens or writes the file
\* of the current result, which has a fixable finding.
LEMMA WriteStep ==
  ASSUME IInv, Next
  PROVE  WritesWhatItFixes
<1> SUFFICES ASSUME NEW f \in File, disk'[f] # disk[f]
             PROVE  \/ \E text \in Authored : disk'[f] = text /\ edits' = edits + 1
                    \/ \E r \in DOMAIN results :
                         /\ FileAt[results[r].path] = f
                         /\ Permitted(results[r].path, results[r].source) # {}
  BY DEF WritesWhatItFixes
<1>1. ASSUME pc \in {"fix", "write"}, next \in DOMAIN results, f = CurrentFile,
             Fixable(Current) # {}
      PROVE  \E r \in DOMAIN results :
               FileAt[results[r].path] = f /\ Permitted(results[r].path, results[r].source) # {}
  BY <1>1, FixableIsPermitted DEF Current, CurrentFile
<1>2. CASE \E g \in File : Save(g)
  BY <1>2 DEF Save, IInv, TypeOK
<1>3. ASSUME NEW S \in SUBSET Site, OpenForFix(S)
      PROVE  \E r \in DOMAIN results :
               FileAt[results[r].path] = f /\ Permitted(results[r].path, results[r].source) # {}
  <2>1. f = CurrentFile /\ pc = "fix" /\ next \in DOMAIN results
    BY <1>3 DEF OpenForFix, Fixing, IInv, TypeOK
  <2>2. Fixable(Current) # {}
    BY <1>3 DEF OpenForFix, Selects
  <2>3. QED
    BY <1>1, <2>1, <2>2
<1>4. CASE WriteOut \/ WriteFails
  <2>1. f = CurrentFile /\ pc = "write" /\ next \in DOMAIN results
    BY <1>4 DEF WriteOut, WriteFails, IInv, TypeOK
  <2>2. Fixable(Current) # {}
    BY <2>1 DEF IInv, TypeOK, Knowledge, Opened
  <2>3. QED
    BY <1>1, <2>1, <2>2
<1>5. ASSUME disk' = disk
      PROVE  FALSE
  BY <1>5
<1>6. QED
  BY <1>2, <1>3, <1>4, <1>5
     DEF Next, Run, Discover, ReadFails, ScanUnparseable, ScanParsed, Scan, CrossFile, Suppress,
         NothingToFix, OpenFails, Report, Kill, RunAgain, Stopped, vars

\* THEOREM: a run writes no file but those it has a permitted fix for, so what
\* others save to the rest survives; also where paths meet in one file.
THEOREM SavesAlwaysSurvive == Spec => SavesSurvive
<1>1. IInv /\ [Next]_vars => [WritesWhatItFixes]_vars
  BY WriteStep
<1>2. QED
  BY <1>1, Invariance, PTL DEF Spec, SavesSurvive

-----------------------------------------------------------------------------
(* Findings are attached to the file they are about. *)

\* A unit's function is one of the file its result is about.
UnitsAtHome ==
  \A u \in DOMAIN units :
    /\ units[u].result \in DOMAIN results
    /\ units[u].func \in Range(results[units[u].result].source.funcs)

Homes == UnitsAtHome /\ FindingsAtHome

\* What a text holds for findings to be about.
Places(text) == {WholeFile} \cup text.sites \cup text.defs \cup text.imports \cup Range(text.funcs)

LEMMA PlacesFacts ==
  FindingsAtHome <=>
    \A r \in DOMAIN results : \A f \in results[r].diagnostics : f.at \in Places(results[r].source)
BY DEF FindingsAtHome, Places

\* Both are kept when results keep their sources and gain no findings.
LEMMA HomesStay ==
  ASSUME Homes, units' = units, DOMAIN results' = DOMAIN results,
         \A r \in DOMAIN results : /\ results'[r].source = results[r].source
                                   /\ results'[r].diagnostics \subseteq results[r].diagnostics
  PROVE  Homes'
<1>1. UnitsAtHome'
  BY DEF Homes, UnitsAtHome
<1>2. FindingsAtHome'
  BY DEF Homes, FindingsAtHome
<1>3. QED
  BY <1>1, <1>2 DEF Homes

\* A scanned file brings its own units, numbered with its own result.
LEMMA HomesOfScan ==
  ASSUME TypeOK, Homes, NEW p \in todo, ScanParsed(p)
  PROVE  Homes'
<1> DEFINE new == Linted(p)
           n == Len(results) + 1
           more == UnitsOf(p, TextAt(p), n)
<1>1. /\ results' = Append(results, new) /\ units' = units \o more
      /\ results \in Seq(Result) /\ units \in Seq(Unit) /\ p \in Path
  BY DEF ScanParsed, TypeOK
<1>2. /\ new \in Result /\ TextAt(p) \in Text /\ n \in Nat
  BY <1>1, ScanFacts, LenProperties
<1>3. more \in Seq(Unit)
  BY <1>2, UnitsOfType
<1>4. \A k \in DOMAIN more : more[k].result = n /\ more[k].func \in Range(TextAt(p).funcs)
  BY DEF UnitsOf, Range
<1>5. new.source = TextAt(p) /\ new.diagnostics = PerFile(p, TextAt(p))
  BY DEF Linted
<1> HIDE DEF new, more
<1>6. /\ DOMAIN results' = DOMAIN results \cup {n}
      /\ \A r \in DOMAIN results : results'[r] = results[r]
      /\ results'[n] = new
  BY <1>1, <1>2, AppendProperties, LenProperties
<1>7. \A u \in DOMAIN units' :
        \/ u \in DOMAIN units /\ units'[u] = units[u]
        \/ \E k \in DOMAIN more : units'[u] = more[k]
  <2>1. /\ units' \in Seq(Unit) /\ Len(units') = Len(units) + Len(more)
        /\ \A i \in 1..Len(units') :
             units'[i] = IF i <= Len(units) THEN units[i] ELSE more[i - Len(units)]
    BY <1>1, <1>3, ConcatProperties
  <2>2. /\ DOMAIN units = 1..Len(units) /\ DOMAIN more = 1..Len(more)
        /\ DOMAIN units' = 1..Len(units') /\ Len(units) \in Nat /\ Len(more) \in Nat
    BY <1>1, <1>3, <2>1, LenProperties
  <2> SUFFICES ASSUME NEW u \in DOMAIN units'
               PROVE  \/ u \in DOMAIN units /\ units'[u] = units[u]
                      \/ \E k \in DOMAIN more : units'[u] = more[k]
    OBVIOUS
  <2>3. u \in 1..(Len(units) + Len(more)) /\ u \in Int
    BY <2>1, <2>2
  <2>4. CASE u <= Len(units)
    BY <2>1, <2>2, <2>3, <2>4
  <2>5. CASE ~(u <= Len(units))
    <3>1. u - Len(units) \in DOMAIN more
      BY <2>2, <2>3, <2>5
    <3>2. units'[u] = more[u - Len(units)]
      BY <2>1, <2>2, <2>5
    <3>3. QED
      BY <3>1, <3>2
  <2>6. QED
    BY <2>4, <2>5
<1>8. UnitsAtHome'
  BY <1>4, <1>5, <1>6, <1>7 DEF Homes, UnitsAtHome
<1>9. \A f \in new.diagnostics : f.at \in Places(new.source)
  <2>1. \A s \in TextAt(p).sites : s \in Site
    BY <1>2, TextFacts DEF TextType
  <2>2. QED
    BY <1>5, <2>1, AboutFacts DEF PerFile, Places
<1>10. FindingsAtHome'
  BY <1>5, <1>6, <1>9 DEF Homes, FindingsAtHome, Places
<1>11. QED
  BY <1>8, <1>10 DEF Homes

LEMMA HomesOfUnparseable ==
  ASSUME TypeOK, Homes, NEW p \in todo, ScanUnparseable(p)
  PROVE  Homes'
<1>1. units' = units /\ results \in Seq(Result) /\ p \in Path
  BY DEF ScanUnparseable, TypeOK
<1>2. CASE results' = results
  BY <1>1, <1>2, HomesStay
<1>3. CASE results' = Append(results, Corrupted(p))
  <2>1. Corrupted(p) \in Result
    BY <1>1, ScanFacts
  <2>2. /\ DOMAIN results' = DOMAIN results \cup {Len(results) + 1}
        /\ \A r \in DOMAIN results : results'[r] = results[r]
        /\ results'[Len(results) + 1] = Corrupted(p)
    BY <1>1, <1>3, <2>1, AppendProperties, LenProperties
  <2>3. \A f \in Corrupted(p).diagnostics : f.at = WholeFile
    BY DEF Corrupted
  <2>4. UnitsAtHome'
    BY <1>1, <2>2 DEF Homes, UnitsAtHome
  <2>5. FindingsAtHome'
    BY <2>2, <2>3 DEF Homes, FindingsAtHome
  <2>6. QED
    BY <2>4, <2>5 DEF Homes
<1>4. QED
  BY <1>2, <1>3 DEF ScanUnparseable

\* The whole-tree passes hand each finding to the result that it is about.
LEMMA HomesOfCrossFile ==
  ASSUME TypeOK, Homes, CrossFile
  PROVE  Homes'
<1>1. units' = units
  BY DEF CrossFile
<1>2. \A r \in DOMAIN results : \A f \in ClonesIn(r) : f.at \in Places(results[r].source)
  BY DEF ClonesIn, Homes, UnitsAtHome, Places
<1>3. \A r \in DOMAIN results : \A f \in FanoutIn(r) \cup PreviewIn(r) : f.at \in Places(results[r].source)
  BY DEF FanoutIn, PreviewIn, UndeclaredIn, GhostsIn, Places
<1>4. UnitsAtHome'
  BY <1>1, CrossFileFacts DEF Homes, UnitsAtHome
<1>5. FindingsAtHome'
  <2> SUFFICES ASSUME NEW r \in DOMAIN results, NEW f \in results'[r].diagnostics
               PROVE  f.at \in Places(results[r].source)
    BY CrossFileFacts DEF FindingsAtHome, Places
  <2>1. \/ f \in results[r].diagnostics
        \/ f \in ClonesIn(r) \cup (FanoutIn(r) \cup PreviewIn(r))
    BY CrossFileFacts
  <2>2. QED
    BY <1>2, <1>3, <2>1, PlacesFacts DEF Homes
<1>6. QED
  BY <1>4, <1>5 DEF Homes

LEMMA HomesStep ==
  ASSUME TypeOK, Homes, [Next]_vars
  PROVE  Homes'
<1>1. CASE Suppress
  <2>1. units' = units
    BY <1>1 DEF Suppress
  <2>2. QED
    BY <1>1, <2>1, SuppressFacts, HomesStay
<1>2. CASE WriteOut
  <2>1. units' = units
    BY <1>2 DEF WriteOut
  <2>2. QED
    BY <1>2, <2>1, WriteOutFacts, HomesStay
<1>3. CASE RunAgain
  <2>1. DOMAIN units' = {} /\ DOMAIN results' = {}
    BY <1>3 DEF RunAgain
  <2>2. QED
    BY <2>1 DEF Homes, UnitsAtHome, FindingsAtHome
<1>4. CASE results' = results /\ units' = units
  BY <1>4, HomesStay
<1>5. CASE \E p \in todo : ReadFails(p) \/ ScanUnparseable(p) \/ ScanParsed(p)
  BY <1>4, <1>5, HomesOfUnparseable, HomesOfScan DEF ReadFails
<1>6. CASE Discover \/ NothingToFix \/ (\E S \in SUBSET Site : OpenForFix(S)) \/ OpenFails \/ WriteFails \/ Report
  BY <1>4, <1>6 DEF Discover, NothingToFix, OpenForFix, OpenFails, WriteFails, Report
<1>7. CASE Kill \/ (\E f \in File : Save(f)) \/ Stopped \/ UNCHANGED vars
  BY <1>4, <1>7 DEF Kill, Save, Stopped, vars, runVars
<1>8. QED
  BY <1>1, <1>2, <1>3, <1>5, <1>6, <1>7, HomesOfCrossFile DEF Next, Run

\* Whatever fails or is saved on the way, a finding of a whole-tree pass names
\* something of the very file under which it is reported.
THEOREM FindingsAreAtHome == Spec => []FindingsAtHome
<1>1. Init => Homes
  <2> SUFFICES ASSUME Init PROVE Homes
    OBVIOUS
  <2>1. DOMAIN units = {} /\ DOMAIN results = {}
    BY DEF Init, NotStarted
  <2>2. QED
    BY <2>1 DEF Homes, UnitsAtHome, FindingsAtHome
<1>2. TypeOK /\ Homes /\ [Next]_vars => Homes'
  BY HomesStep
<1>3. Homes => FindingsAtHome
  BY DEF Homes
<1>4. QED
  BY <1>1, <1>2, <1>3, TypeCorrect, PTL DEF Spec

-----------------------------------------------------------------------------
(* Every discovered path has one result, or the run knows of an error. *)

\* One result is added to the results.
Adds(new, n) ==
  /\ n \notin DOMAIN results
  /\ DOMAIN results' = DOMAIN results \cup {n}
  /\ \A r \in DOMAIN results : results'[r] = results[r]
  /\ results'[n] = new

\* The three outcomes of a scan.
Unscanned == results' = results /\ units' = units /\ hadError' = TRUE

ScannedBroken(p) ==
  /\ ~TextAt(p).parses /\ units' = units /\ hadError' = hadError
  /\ \E n : Adds(Corrupted(p), n)

\* The units there were, and those of the new result.
UnitsGrow(text, path, n) ==
  /\ \A u \in DOMAIN units : u \in DOMAIN units' /\ units'[u] = units[u]
  /\ Enabled("SLP020", path) =>
       \A fn \in Range(text.funcs) : \E u \in DOMAIN units' : units'[u] = [func |-> fn, result |-> n]

ScannedWhole(p) ==
  /\ TextAt(p).parses /\ hadError' = hadError
  /\ \E n : Adds(Linted(p), n) /\ UnitsGrow(TextAt(p), p, n)

LEMMA AddsFacts ==
  ASSUME TypeOK, NEW new \in Result, results' = Append(results, new)
  PROVE  Adds(new, Len(results) + 1)
<1>1. results \in Seq(Result)
  BY DEF TypeOK
<1>2. DOMAIN results = 1..Len(results) /\ Len(results) \in Nat
  BY <1>1, LenProperties
<1>3. /\ DOMAIN results' = 1..(Len(results) + 1)
      /\ \A r \in 1..Len(results) : results'[r] = results[r]
      /\ results'[Len(results) + 1] = new
  BY <1>1, AppendProperties, LenProperties
<1>4. QED
  BY <1>2, <1>3 DEF Adds

LEMMA ScanOutcome ==
  ASSUME TypeOK, NEW p \in todo, ReadFails(p) \/ ScanUnparseable(p) \/ ScanParsed(p)
  PROVE  Unscanned \/ ScannedBroken(p) \/ ScannedWhole(p)
<1>1. p \in Path /\ Corrupted(p) \in Result /\ Linted(p) \in Result /\ TextAt(p) \in Text
  BY ScanFacts DEF TypeOK
<1>2. CASE ReadFails(p)
  BY <1>2 DEF ReadFails, Unscanned
<1>3. CASE ScanUnparseable(p)
  BY <1>1, <1>3, AddsFacts DEF ScanUnparseable, Unscanned, ScannedBroken
<1>4. CASE ScanParsed(p)
  <2> DEFINE n == Len(results) + 1
             more == UnitsOf(p, TextAt(p), n)
  <2>1. Adds(Linted(p), n) /\ units' = units \o more /\ hadError' = hadError /\ TextAt(p).parses
    BY <1>1, <1>4, AddsFacts DEF ScanParsed
  <2>2. n \in Nat /\ units \in Seq(Unit)
    BY LenProperties DEF TypeOK
  <2>3. more \in Seq(Unit)
    BY <1>1, <2>2, UnitsOfType
  <2>4. Enabled("SLP020", p) =>
          \A fn \in Range(TextAt(p).funcs) : \E k \in DOMAIN more : more[k] = [func |-> fn, result |-> n]
    BY DEF UnitsOf, Range
  <2> HIDE DEF more, n
  <2>5. /\ units' \in Seq(Unit) /\ Len(units') = Len(units) + Len(more)
        /\ \A i \in 1..Len(units') :
             units'[i] = IF i <= Len(units) THEN units[i] ELSE more[i - Len(units)]
    BY <2>1, <2>2, <2>3, ConcatProperties
  <2>6. /\ DOMAIN units = 1..Len(units) /\ DOMAIN more = 1..Len(more)
        /\ DOMAIN units' = 1..(Len(units) + Len(more)) /\ Len(units) \in Nat /\ Len(more) \in Nat
    BY <2>2, <2>3, <2>5, LenProperties
  <2>7. \A u \in DOMAIN units : u \in DOMAIN units' /\ units'[u] = units[u]
    BY <2>5, <2>6
  <2>8. ASSUME NEW k \in DOMAIN more
        PROVE  Len(units) + k \in DOMAIN units' /\ units'[Len(units) + k] = more[k]
    <3>1. k \in 1..Len(more) /\ ~(Len(units) + k <= Len(units)) /\ (Len(units) + k) - Len(units) = k
      BY <2>6
    <3>2. Len(units) + k \in DOMAIN units' /\ Len(units) + k \in 1..Len(units')
      BY <2>5, <2>6, <3>1
    <3>3. QED
      BY <2>5, <3>1, <3>2
  <2>9. UnitsGrow(TextAt(p), p, n)
    BY <2>4, <2>7, <2>8 DEF UnitsGrow
  <2>10. QED
    BY <2>1, <2>9 DEF ScannedWhole
<1>5. QED
  BY <1>2, <1>3, <1>4

Covered ==
  /\ pc = "discover" => DOMAIN results = {}
  /\ \A r \in DOMAIN results : results[r].path \notin todo
  /\ \A r, q \in DOMAIN results : results[r].path = results[q].path => r = q
  /\ pc \notin {"discover", "killed"} =>
       hadError \/ /\ Missing \notin job.inputs
                   /\ \A p \in Discovered : p \in todo \/ \E r \in DOMAIN results : results[r].path = p
  /\ pc \notin {"discover", "scan", "killed"} => todo = {}

\* Later steps leave the paths of the results alone.
LEMMA CoveredStays ==
  ASSUME Covered, pc \notin {"discover", "killed"}, pc' # "discover",
         job' = job, todo' = todo, hadError' = hadError \/ hadError' = TRUE,
         pc' \notin {"scan", "killed"} => todo = {},
         DOMAIN results' = DOMAIN results,
         \A r \in DOMAIN results : results'[r].path = results[r].path
  PROVE  Covered'
BY DEF Covered, Discovered

LEMMA CoveredOfScan ==
  ASSUME TypeOK, Covered, NEW p \in todo, ReadFails(p) \/ ScanUnparseable(p) \/ ScanParsed(p)
  PROVE  Covered'
<1>1. pc = "scan" /\ pc' = "scan" /\ job' = job /\ todo' = todo \ {p}
  BY DEF ReadFails, ScanUnparseable, ScanParsed, Scan
<1>2. CASE Unscanned
  BY <1>1, <1>2 DEF Covered, Unscanned
<1>3. ASSUME NEW new, NEW n, Adds(new, n), new.path = p, hadError' = hadError
      PROVE  Covered'
  <2>1. \A r \in DOMAIN results' :
          \/ r \in DOMAIN results /\ results'[r].path = results[r].path
          \/ r = n /\ results'[r].path = p
    BY <1>3 DEF Adds
  <2>2. \A r \in DOMAIN results : r \in DOMAIN results' /\ results'[r].path = results[r].path
    BY <1>3 DEF Adds
  <2>3. n \in DOMAIN results' /\ results'[n].path = p
    BY <1>3 DEF Adds
  <2>4. \A r \in DOMAIN results : results[r].path # p
    BY DEF Covered
  <2>5. \A r, q \in DOMAIN results' : results'[r].path = results'[q].path => r = q
    BY <2>1, <2>4 DEF Covered
  <2>6. \A q \in Discovered :
          q \in todo => q \in todo' \/ \E r \in DOMAIN results' : results'[r].path = q
    BY <1>1, <2>3
  <2>7. QED
    BY <1>1, <1>3, <2>1, <2>2, <2>5, <2>6 DEF Covered, Discovered
<1>4. Corrupted(p).path = p /\ Linted(p).path = p
  BY DEF Corrupted, Linted
<1>5. QED
  BY <1>2, <1>3, <1>4, ScanOutcome DEF ScannedBroken, ScannedWhole

LEMMA CoveredStep ==
  ASSUME TypeOK, Covered, [Next]_vars
  PROVE  Covered'
<1>1. CASE Discover
  <2>1. /\ pc = "discover" /\ pc' = "scan" /\ results' = results /\ job' = job
        /\ todo' = Discovered
        /\ hadError' = (Missing \in job.inputs) \/ hadError' = TRUE
    BY <1>1 DEF Discover
  <2>2. DOMAIN results' = {}
    BY <2>1 DEF Covered
  <2>3. hadError' \/ Missing \notin job.inputs
    BY <2>1
  <2>4. Missing \notin job'.inputs \/ hadError'
    BY <2>1, <2>3
  <2>5. QED
    BY <2>1, <2>2, <2>4 DEF Covered, Discovered
<1>2. CASE CrossFile
  BY <1>2, CrossFileFacts, CoveredStays DEF CrossFile
<1>3. CASE Suppress
  BY <1>3, SuppressFacts, CoveredStays DEF Suppress, Covered
<1>4. CASE WriteOut
  BY <1>4, WriteOutFacts, CoveredStays DEF WriteOut, Covered
<1>5. CASE NothingToFix \/ (\E S \in SUBSET Site : OpenForFix(S)) \/ OpenFails \/ WriteFails \/ Report
  <2>1. /\ pc \in {"fix", "write", "report"} /\ pc' \in {"fix", "write", "exit"} /\ results' = results
        /\ job' = job /\ todo' = todo /\ (hadError' = hadError \/ hadError' = TRUE)
    BY <1>5 DEF NothingToFix, OpenForFix, OpenFails, WriteFails, Report, Fixing
  <2>2. QED
    BY <2>1, CoveredStays DEF Covered
<1>6. CASE Kill
  <2>1. pc' = "killed" /\ UNCHANGED <<job, results, todo>>
    BY <1>6 DEF Kill, runVars
  <2>2. QED
    BY <2>1 DEF Covered
<1>7. CASE RunAgain
  <2>1. DOMAIN results' = {} /\ pc' = "discover" /\ todo' = {}
    BY <1>7 DEF RunAgain
  <2>2. QED
    BY <2>1 DEF Covered
<1>8. CASE (\E f \in File : Save(f)) \/ Stopped \/ UNCHANGED vars
  <2>1. UNCHANGED <<pc, job, results, todo, hadError>>
    BY <1>8 DEF Save, Stopped, vars, runVars
  <2>2. QED
    BY <2>1 DEF Covered, Discovered
<1>9. QED
  BY <1>1, <1>2, <1>3, <1>4, <1>5, <1>6, <1>7, <1>8, CoveredOfScan DEF Next, Run

-----------------------------------------------------------------------------
(* What is found is listed, unless `# noqa` covers it. *)

Broken == [code |-> "SLP220", at |-> WholeFile]
Clone(fn) == [code |-> "SLP020", at |-> fn]

\* The functions of a result are looked at for clones.
Compared(r) == results[r].source.parses /\ Enabled("SLP020", results[r].path)

Funcs(r) == Range(results[r].source.funcs)

Reported ==
  /\ \A r \in DOMAIN results :
       IF results[r].source.parses THEN results[r].noqa = results[r].source.noqa
       ELSE results[r].noqa = {} /\ Broken \in results[r].diagnostics
  /\ pc = "scan" =>
       \A r \in DOMAIN results : Compared(r) =>
         \A fn \in Funcs(r) : \E u \in DOMAIN units : units[u] = [func |-> fn, result |-> r]
  /\ pc \notin {"discover", "scan", "killed"} =>
       \A r, q \in DOMAIN results : r # q /\ Compared(r) /\ Compared(q) =>
         \A fn \in Funcs(r) \cap Funcs(q) : Clone(fn) \in results[r].diagnostics \cup results[r].noqa

\* Later steps keep what the results say of their files, and drop no finding
\* but those under `# noqa` and the fixed ones.
LEMMA ReportedStays ==
  ASSUME Reported, pc \notin {"discover", "scan"}, pc' \notin {"discover", "scan"}, job' = job,
         pc = "killed" => pc' = "killed",
         DOMAIN results' = DOMAIN results,
         \A r \in DOMAIN results :
           /\ results'[r].path = results[r].path
           /\ results'[r].source = results[r].source
           /\ results'[r].noqa = results[r].noqa
           /\ ~results[r].source.parses /\ Broken \in results[r].diagnostics \ results[r].noqa =>
                Broken \in results'[r].diagnostics
           /\ \A fn \in Funcs(r) :
                Clone(fn) \in results[r].diagnostics \ results[r].noqa => Clone(fn) \in results'[r].diagnostics
  PROVE  Reported'
<1>1. \A r \in DOMAIN results : (Compared(r)' <=> Compared(r)) /\ Funcs(r)' = Funcs(r)
  BY DEF Compared, Funcs, Enabled
<1>2. \A r \in DOMAIN results :
        IF results'[r].source.parses THEN results'[r].noqa = results'[r].source.noqa
        ELSE results'[r].noqa = {} /\ Broken \in results'[r].diagnostics
  BY DEF Reported
<1>3. ASSUME pc' # "killed", NEW r \in DOMAIN results, NEW q \in DOMAIN results, r # q,
             Compared(r), Compared(q), NEW fn \in Funcs(r) \cap Funcs(q)
      PROVE  Clone(fn) \in results'[r].diagnostics \cup results'[r].noqa
  BY <1>3 DEF Reported
<1>4. QED
  BY <1>1, <1>2, <1>3 DEF Reported, Broken, Clone

\* The findings a rewritten file keeps.
LEMMA WriteOutKeeps ==
  ASSUME TypeOK, WriteOut
  PROVE  /\ next \in DOMAIN results /\ accepted \subseteq Site
         /\ results'[next].diagnostics = results[next].diagnostics \ {About(s) : s \in accepted}
<1>1. next \in DOMAIN results /\ results[next] \in Result
  BY ResultFacts DEF TypeOK, WriteOut
<1>2. QED
  BY <1>1 DEF TypeOK, WriteOut, Remaining, Current, Result

LEMMA ReportedOfWriteOut ==
  ASSUME IInv, Reported, WriteOut
  PROVE  Reported'
<1>1. /\ DOMAIN results' = DOMAIN results
      /\ \A r \in DOMAIN results :
           /\ results'[r].path = results[r].path
           /\ results'[r].source = results[r].source
           /\ results'[r].noqa = results[r].noqa
           /\ r # next => results'[r] = results[r]
  BY WriteOutFacts DEF IInv
<1>2. /\ next \in DOMAIN results /\ accepted \subseteq Site
      /\ results'[next].diagnostics = results[next].diagnostics \ {About(s) : s \in accepted}
  BY WriteOutKeeps DEF IInv
<1>3. \A s \in accepted : \A fn : About(s) # Clone(fn)
  BY <1>2, AboutFacts, SitesAssumption DEF SitesOK, Clone, WholeTreeCodes
<1>4. ~results[next].source.parses => accepted = {}
  <2>1. results[next].source \in Text
    BY <1>2, ResultFacts DEF IInv
  <2>2. accepted \subseteq results[next].source.sites
    BY DEF WriteOut, IInv, Knowledge, Opened, Fixable, Current
  <2>3. QED
    BY <2>1, <2>2, TextFacts
<1>5. pc = "write" /\ pc' = "fix" /\ job' = job
  BY DEF WriteOut
<1>6. QED
  BY <1>1, <1>2, <1>3, <1>4, <1>5, ReportedStays

\* A scan lists what it finds, and records the units that clones are found by.
LEMMA ReportedOfScan ==
  ASSUME TypeOK, Reported, NEW p \in todo, ReadFails(p) \/ ScanUnparseable(p) \/ ScanParsed(p)
  PROVE  Reported'
<1>1. pc = "scan" /\ pc' = "scan" /\ job' = job
  BY DEF ReadFails, ScanUnparseable, ScanParsed, Scan
<1>2. CASE Unscanned
  BY <1>1, <1>2 DEF Unscanned, Reported, Compared, Funcs, Enabled
<1>3. CASE ScannedBroken(p)
  <2>1. PICK n : Adds(Corrupted(p), n)
    BY <1>3 DEF ScannedBroken
  <2>2. /\ ~Corrupted(p).source.parses /\ Corrupted(p).noqa = {} /\ Broken \in Corrupted(p).diagnostics
        /\ units' = units
    BY <1>3 DEF ScannedBroken, Corrupted, Broken
  <2>3. QED
    BY <1>1, <2>1, <2>2 DEF Adds, Reported, Compared, Funcs, Enabled, Broken
<1>4. CASE ScannedWhole(p)
  <2>1. PICK n : Adds(Linted(p), n) /\ UnitsGrow(TextAt(p), p, n)
    BY <1>4 DEF ScannedWhole
  <2>2. /\ Linted(p).source = TextAt(p) /\ Linted(p).path = p /\ Linted(p).noqa = TextAt(p).noqa
        /\ TextAt(p).parses
    BY <1>4 DEF ScannedWhole, Linted
  <2>3. ASSUME NEW r \in DOMAIN results', Compared(r)', NEW fn \in Funcs(r)'
        PROVE  \E u \in DOMAIN units' : units'[u] = [func |-> fn, result |-> r]
    <3>1. CASE r \in DOMAIN results
      <4>1. Compared(r) /\ fn \in Funcs(r)
        BY <1>1, <2>1, <2>3, <3>1 DEF Adds, Compared, Funcs, Enabled
      <4>2. QED
        BY <1>1, <2>1, <3>1, <4>1 DEF Reported, UnitsGrow
    <3>2. CASE r = n
      BY <1>1, <2>1, <2>2, <2>3, <3>2 DEF Adds, UnitsGrow, Compared, Funcs, Enabled
    <3>3. QED
      BY <2>1, <3>1, <3>2 DEF Adds
  <2>4. \A r \in DOMAIN results' :
          IF results'[r].source.parses THEN results'[r].noqa = results'[r].source.noqa
          ELSE results'[r].noqa = {} /\ Broken \in results'[r].diagnostics
    BY <2>1, <2>2 DEF Adds, Reported
  <2>5. QED
    BY <1>1, <2>3, <2>4 DEF Reported, Broken
<1>5. QED
  BY <1>2, <1>3, <1>4, ScanOutcome

\* Functions of two results that are the same are clones in both.
LEMMA ReportedOfCrossFile ==
  ASSUME TypeOK, Reported, CrossFile
  PROVE  Reported'
<1>1. pc = "scan" /\ pc' = "suppress" /\ job' = job
  BY DEF CrossFile
<1>2. /\ DOMAIN results' = DOMAIN results
      /\ \A r \in DOMAIN results :
           /\ results'[r].path = results[r].path
           /\ results'[r].source = results[r].source
           /\ results'[r].noqa = results[r].noqa
           /\ results'[r].diagnostics =
                results[r].diagnostics \cup (ClonesIn(r) \cup FanoutIn(r) \cup PreviewIn(r))
  BY CrossFileFacts
<1>3. ASSUME NEW r \in DOMAIN results, NEW q \in DOMAIN results, r # q, Compared(r), Compared(q),
             NEW fn \in Funcs(r) \cap Funcs(q)
      PROVE  Clone(fn) \in ClonesIn(r)
  <2>1. PICK v \in DOMAIN units : units[v] = [func |-> fn, result |-> r]
    BY <1>1, <1>3 DEF Reported
  <2>2. PICK w \in DOMAIN units : units[w] = [func |-> fn, result |-> q]
    BY <1>1, <1>3 DEF Reported
  <2>3. v # w /\ units[v].func = fn /\ units[w].func = fn /\ units[v].result = r
    BY <1>3, <2>1, <2>2
  <2>4. QED
    BY <2>3 DEF ClonesIn, Clone
<1>4. \A r \in DOMAIN results : (Compared(r)' <=> Compared(r)) /\ Funcs(r)' = Funcs(r)
  BY <1>1, <1>2 DEF Compared, Funcs, Enabled
<1>5. \A r \in DOMAIN results :
        IF results'[r].source.parses THEN results'[r].noqa = results'[r].source.noqa
        ELSE results'[r].noqa = {} /\ Broken \in results'[r].diagnostics
  BY <1>2 DEF Reported
<1>6. QED
  BY <1>1, <1>2, <1>3, <1>4, <1>5 DEF Reported, Broken, Clone

LEMMA ReportedStep ==
  ASSUME IInv, Covered, Reported, [Next]_vars
  PROVE  Reported'
<1>1. TypeOK
  BY DEF IInv
<1>2. CASE Discover
  <2>1. pc = "discover" /\ pc' = "scan" /\ results' = results
    BY <1>2 DEF Discover
  <2>2. DOMAIN results' = {}
    BY <2>1 DEF Covered
  <2>3. QED
    BY <2>1, <2>2 DEF Reported
<1>3. CASE Suppress
  <2>1. pc = "suppress" /\ pc' \in {"fix", "report"} /\ job' = job
    BY <1>3 DEF Suppress
  <2>2. QED
    BY <1>1, <1>3, <2>1, SuppressFacts, ReportedStays
<1>4. CASE NothingToFix \/ (\E S \in SUBSET Site : OpenForFix(S)) \/ OpenFails \/ WriteFails \/ Report
  <2>1. /\ pc \in {"fix", "write", "report"} /\ pc' \in {"fix", "write", "exit"} /\ results' = results
        /\ job' = job
    BY <1>4 DEF NothingToFix, OpenForFix, OpenFails, WriteFails, Report, Fixing
  <2>2. QED
    BY <2>1, ReportedStays
<1>5. CASE Kill
  <2>1. pc' = "killed" /\ UNCHANGED <<job, results>>
    BY <1>5 DEF Kill, runVars
  <2>2. QED
    BY <2>1 DEF Reported, Broken
<1>6. CASE RunAgain
  <2>1. DOMAIN results' = {} /\ pc' = "discover"
    BY <1>6 DEF RunAgain
  <2>2. QED
    BY <2>1 DEF Reported
<1>7. CASE (\E f \in File : Save(f)) \/ Stopped \/ UNCHANGED vars
  <2>1. UNCHANGED <<pc, job, results, units>>
    BY <1>7 DEF Save, Stopped, vars, runVars
  <2>2. QED
    BY <2>1 DEF Reported, Compared, Funcs, Enabled, Broken, Clone
<1>8. QED
  BY <1>1, <1>2, <1>3, <1>4, <1>5, <1>6, <1>7, ReportedOfScan, ReportedOfCrossFile, ReportedOfWriteOut
     DEF Next, Run

-----------------------------------------------------------------------------
(* What is no longer listed is fixed. *)

FileOf(r) == FileAt[results[r].path]

\* The sites of a result whose findings are due: the rule is on, no `# noqa`.
Due(r) ==
  {s \in results[r].source.sites :
     Runs(job.config, s.code, results[r].path) /\ About(s) \notin results[r].source.noqa}

Lists(r, s) == About(s) \in results[r].diagnostics

\* A text is another one without some of its sites.
Thinned(t, u) == t.parses = u.parses /\ t.noqa = u.noqa /\ t.funcs = u.funcs /\ t.sites \subseteq u.sites

DueIsListed ==
  pc \in {"scan", "suppress"} => \A r \in DOMAIN results : \A s \in Due(r) : Lists(r, s)

DueIsListedOrFixed ==
  pc \in {"fix", "write", "report", "exit"} =>
    \A r \in DOMAIN results : \A s \in Due(r) :
      Lists(r, s) \/ (r < next /\ (FileOf(r) \in edited \/ s \notin disk[FileOf(r)].sites))

FilesKept ==
  \A r \in DOMAIN results :
    FileOf(r) \notin edited \cup torn => Thinned(disk[FileOf(r)], results[r].source)

Accounted == DueIsListed /\ DueIsListedOrFixed /\ FilesKept

\* What the results say of their files, but for their diagnostics, stays.
SameFiles ==
  /\ job' = job /\ DOMAIN results' = DOMAIN results
  /\ \A r \in DOMAIN results :
       results'[r].path = results[r].path /\ results'[r].source = results[r].source

LEMMA SameFilesFacts ==
  ASSUME SameFiles, NEW r \in DOMAIN results
  PROVE  FileOf(r)' = FileOf(r) /\ Due(r)' = Due(r)
BY DEF SameFiles, FileOf, Due

LEMMA DueIsSite ==
  ASSUME TypeOK, NEW r \in DOMAIN results, NEW s \in Due(r)
  PROVE  s \in Site
BY ResultFacts, TextFacts DEF Due, TextType

LEMMA FileIsFile ==
  ASSUME TypeOK, NEW r \in DOMAIN results
  PROVE  FileOf(r) \in File /\ r \in Nat
<1>1. FileOf(r) \in File
  BY ResultFacts, PathsAssumption DEF PathsOK, FileOf
<1>2. r \in Nat
  BY LenProperties DEF TypeOK
<1>3. QED
  BY <1>1, <1>2

\* Each result has a file of its own.
LEMMA OwnFile ==
  ASSUME Unlinked, TypeOK, Covered, NEW r \in DOMAIN results, NEW q \in DOMAIN results,
         FileOf(r) = FileOf(q)
  PROVE  r = q
<1>1. results[r].path = results[q].path
  BY ResultFacts DEF Unlinked, FileOf
<1>2. QED
  BY <1>1 DEF Covered

\* A scan lists what is due of a file as it is.
LEMMA AccountedOfScan ==
  ASSUME IInv, Accounted, NEW p \in todo, ReadFails(p) \/ ScanUnparseable(p) \/ ScanParsed(p)
  PROVE  Accounted'
<1>1. pc = "scan" /\ pc' = "scan" /\ UNCHANGED <<job, disk, edited, torn>> /\ TypeOK
  BY DEF ReadFails, ScanUnparseable, ScanParsed, Scan, history, IInv
<1>2. TextAt(p) \in Text /\ TextAt(p) = disk[FileAt[p]]
  BY <1>1, ScanFacts DEF TypeOK, TextAt
<1>3. CASE Unscanned
  BY <1>1, <1>3 DEF Unscanned, Accounted, DueIsListed, DueIsListedOrFixed, FilesKept, Due, Lists, FileOf
<1>4. ASSUME NEW new, NEW n, Adds(new, n), new.path = p, new.source = TextAt(p),
             \A s \in new.source.sites :
               Runs(job.config, s.code, p) /\ About(s) \notin new.source.noqa => About(s) \in new.diagnostics
      PROVE  Accounted'
  <2>1. \A r \in DOMAIN results' : (r \in DOMAIN results /\ results'[r] = results[r]) \/ results'[r] = new
    BY <1>4 DEF Adds
  <2>2. DueIsListed'
    BY <1>1, <1>4, <2>1 DEF Accounted, DueIsListed, Due, Lists
  <2>3. FilesKept'
    BY <1>1, <1>2, <1>4, <2>1 DEF Accounted, FilesKept, FileOf, Thinned
  <2>4. DueIsListedOrFixed'
    BY <1>1 DEF DueIsListedOrFixed
  <2>5. QED
    BY <2>2, <2>3, <2>4 DEF Accounted
<1>5. CASE ScannedBroken(p)
  <2>1. TextAt(p).sites = {}
    BY <1>2, <1>5, TextFacts DEF ScannedBroken
  <2>2. QED
    BY <1>4, <1>5, <2>1 DEF ScannedBroken, Corrupted
<1>6. CASE ScannedWhole(p)
  BY <1>4, <1>6 DEF ScannedWhole, Linted, PerFile
<1>7. QED
  BY <1>1, <1>3, <1>5, <1>6, ScanOutcome

\* The passes add findings, and suppression drops none that are due.
LEMMA AccountedOfPasses ==
  ASSUME IInv, Covered, Reported, Accounted, Discover \/ CrossFile \/ Suppress \/ NothingToFix \/ Report
  PROVE  Accounted'
<1>1. UNCHANGED <<job, disk, edited, torn>> /\ TypeOK
  BY DEF Discover, CrossFile, Suppress, NothingToFix, Report, history, IInv
<1>2. CASE Discover
  <2>1. pc = "discover" /\ results' = results /\ DOMAIN results' = {} /\ pc' = "scan"
    BY <1>2 DEF Discover, Covered
  <2>2. QED
    BY <2>1 DEF Accounted, DueIsListed, DueIsListedOrFixed, FilesKept
<1>3. CASE CrossFile
  <2>1. SameFiles /\ pc = "scan" /\ pc' = "suppress"
    BY <1>1, <1>3, CrossFileFacts DEF SameFiles, CrossFile
  <2>2. \A r \in DOMAIN results : results[r].diagnostics \subseteq results'[r].diagnostics
    BY <1>1, <1>3, CrossFileFacts
  <2>3. DueIsListed'
    BY <2>1, <2>2, SameFilesFacts DEF SameFiles, Accounted, DueIsListed, Lists
  <2>4. FilesKept'
    BY <1>1, <2>1, SameFilesFacts DEF SameFiles, Accounted, FilesKept
  <2>5. QED
    BY <2>1, <2>3, <2>4 DEF Accounted, DueIsListedOrFixed
<1>4. CASE Suppress
  <2>1. SameFiles /\ pc = "suppress" /\ pc' \in {"fix", "report"}
    BY <1>1, <1>4, SuppressFacts DEF SameFiles, Suppress
  <2>2. ASSUME NEW r \in DOMAIN results, NEW s \in Due(r) PROVE Lists(r, s)'
    <3>1. Lists(r, s) /\ s \in results[r].source.sites /\ About(s) \notin results[r].source.noqa
      BY <2>1 DEF Accounted, DueIsListed, Due
    <3>2. results[r].noqa = results[r].source.noqa
      BY <3>1 DEF IInv, Knowledge, NoqaKnown
    <3>3. QED
      BY <1>1, <1>4, <3>1, <3>2, SuppressFacts DEF Lists
  <2>3. DueIsListedOrFixed'
    BY <2>1, <2>2, SameFilesFacts DEF SameFiles, DueIsListedOrFixed
  <2>4. FilesKept'
    BY <1>1, <2>1, SameFilesFacts DEF SameFiles, Accounted, FilesKept
  <2>5. QED
    BY <2>1, <2>3, <2>4 DEF Accounted, DueIsListed
<1>5. CASE NothingToFix \/ Report
  <2>1. /\ results' = results /\ pc \in {"fix", "report"} /\ pc' \in {"fix", "exit"}
        /\ next' = next \/ next' = next + 1
    BY <1>5 DEF NothingToFix, Report, Fixing
  <2>2. next \in Nat /\ \A r \in DOMAIN results : r \in Nat
    BY <1>1, FileIsFile, LenProperties DEF TypeOK
  <2>3. \A r \in DOMAIN results : r < next => r < next'
    BY <2>1, <2>2
  <2>4. DueIsListedOrFixed'
    BY <1>1, <2>1, <2>3 DEF Accounted, DueIsListedOrFixed, Due, Lists, FileOf
  <2>5. FilesKept'
    BY <1>1, <2>1 DEF Accounted, FilesKept, FileOf
  <2>6. QED
    BY <2>1, <2>4, <2>5 DEF Accounted, DueIsListed
<1>6. QED
  BY <1>2, <1>3, <1>4, <1>5

\* Writing touches the file of one result, and what it drops there is fixed.
LEMMA AccountedOfWriteOut ==
  ASSUME Unlinked, IInv, Covered, Accounted, WriteOut
  PROVE  Accounted'
<1>1. /\ TypeOK /\ next \in DOMAIN results /\ accepted \subseteq Site
      /\ results'[next].diagnostics = results[next].diagnostics \ {About(s) : s \in accepted}
  BY WriteOutKeeps DEF IInv
<1>2. SameFiles /\ \A r \in DOMAIN results : r # next => results'[r] = results[r]
  BY <1>1, WriteOutFacts DEF SameFiles, WriteOut
<1>3. /\ pc = "write" /\ pc' = "fix" /\ next' = next + 1 /\ edited' = edited
      /\ torn' = torn \ {FileOf(next)}
      /\ disk' = [disk EXCEPT ![FileOf(next)] = Rewritten(results[next].source, accepted)]
  BY DEF WriteOut, CurrentFile, Current, FileOf
<1>4. ASSUME NEW r \in DOMAIN results, r # next
      PROVE  disk'[FileOf(r)] = disk[FileOf(r)] /\ FileOf(r) # FileOf(next)
  BY <1>1, <1>3, <1>4, OwnFile, FileIsFile DEF TypeOK
<1>5. /\ results[next].source \in Text
      /\ disk'[FileOf(next)] = Rewritten(results[next].source, accepted)
      /\ disk'[FileOf(next)].sites = results[next].source.sites \ accepted
  <2>1. results[next].source \in Text /\ FileOf(next) \in File
    BY <1>1, ResultFacts, FileIsFile
  <2>2. disk'[FileOf(next)] = Rewritten(results[next].source, accepted)
    BY <1>1, <1>3, <2>1 DEF TypeOK
  <2>3. Rewritten(results[next].source, accepted).sites = results[next].source.sites \ accepted
    BY <1>1, <2>1, RewrittenType
  <2>4. QED
    BY <2>1, <2>2, <2>3
<1>6. next \in Nat /\ \A r \in DOMAIN results : r \in Nat
  BY <1>1, FileIsFile
<1>7. ASSUME NEW r \in DOMAIN results, NEW s \in Due(r)
      PROVE  Lists(r, s)' \/ (r < next' /\ (FileOf(r) \in edited' \/ s \notin disk'[FileOf(r)].sites))
  <2>1. Lists(r, s) \/ (r < next /\ (FileOf(r) \in edited \/ s \notin disk[FileOf(r)].sites))
    BY <1>3 DEF Accounted, DueIsListedOrFixed
  <2>2. CASE r # next
    BY <1>2, <1>3, <1>4, <1>6, <2>1, <2>2 DEF Lists
  <2>3. CASE r = next
    <3>1. About(s) \in results[next].diagnostics /\ s \in Site
      BY <1>1, <1>6, <2>1, <2>3, DueIsSite DEF Lists
    <3>2. CASE s \in accepted
      BY <1>3, <1>5, <1>6, <2>3, <3>2
    <3>3. CASE s \notin accepted
      <4>1. About(s) \notin {About(x) : x \in accepted}
        BY <1>1, <3>1, <3>3, AboutFacts
      <4>2. QED
        BY <1>1, <2>3, <3>1, <4>1 DEF Lists
    <3>4. QED
      BY <3>2, <3>3
  <2>4. QED
    BY <2>2, <2>3
<1>8. DueIsListedOrFixed'
  BY <1>2, <1>7, SameFilesFacts DEF SameFiles, DueIsListedOrFixed
<1>9. FilesKept'
  <2>1. ASSUME NEW r \in DOMAIN results, FileOf(r) \notin edited' \cup torn'
        PROVE  Thinned(disk'[FileOf(r)], results[r].source)
    <3>1. CASE r # next
      BY <1>3, <1>4, <2>1, <3>1 DEF Accounted, FilesKept
    <3>2. CASE r = next
      <4>1. results[next].source \in TextType
        BY <1>5, TextFacts
      <4>2. QED
        BY <1>5, <3>2, <4>1 DEF Thinned, Rewritten, TextType
    <3>3. QED
      BY <3>1, <3>2
  <2>2. QED
    BY <1>2, <2>1, SameFilesFacts DEF SameFiles, FilesKept
<1>10. QED
  BY <1>3, <1>8, <1>9 DEF Accounted, DueIsListed

\* A file that is opened, or not written, keeps its findings listed.
LEMMA AccountedOfFailure ==
  ASSUME Unlinked, IInv, Covered, Accounted,
         (\E S \in SUBSET Site : OpenForFix(S)) \/ OpenFails \/ WriteFails
  PROVE  Accounted'
<1>1. /\ TypeOK /\ next \in DOMAIN results
      /\ pc \in {"fix", "write"} /\ pc' \in {"fix", "write"} /\ edited' = edited
      /\ next' = next \/ next' = next + 1
      /\ SameFiles /\ results' = results
  BY DEF IInv, TypeOK, OpenForFix, OpenFails, WriteFails, Fixing, history, SameFiles
<1>2. /\ torn \subseteq torn' /\ (disk' = disk \/ FileOf(next) \in torn')
      /\ \A f \in File : f # FileOf(next) => disk'[f] = disk[f]
  <2>1. CASE \E S \in SUBSET Site : OpenForFix(S)
    BY <1>1, <2>1 DEF OpenForFix, CurrentFile, Current, FileOf, TypeOK
  <2>2. CASE OpenFails
    BY <2>2 DEF OpenFails, history
  <2>3. CASE WriteFails
    BY <1>1, <2>3 DEF WriteFails, history, CurrentFile, Current, FileOf, TypeOK, IInv, Knowledge, Opened
  <2>4. QED
    BY <2>1, <2>2, <2>3
<1>3. ASSUME NEW r \in DOMAIN results, r # next
      PROVE  disk'[FileOf(r)] = disk[FileOf(r)]
  BY <1>1, <1>2, <1>3, OwnFile, FileIsFile
<1>4. next \in Nat /\ \A r \in DOMAIN results : r \in Nat
  BY <1>1, FileIsFile
<1>5. ASSUME NEW r \in DOMAIN results, NEW s \in Due(r)
      PROVE  Lists(r, s)' \/ (r < next' /\ (FileOf(r) \in edited' \/ s \notin disk'[FileOf(r)].sites))
  <2>1. Lists(r, s) \/ (r < next /\ (FileOf(r) \in edited \/ s \notin disk[FileOf(r)].sites))
    BY <1>1 DEF Accounted, DueIsListedOrFixed
  <2>2. Lists(r, s)' <=> Lists(r, s)
    BY <1>1 DEF Lists
  <2>3. QED
    BY <1>1, <1>3, <1>4, <2>1, <2>2
<1>6. DueIsListedOrFixed'
  BY <1>1, <1>5, SameFilesFacts DEF DueIsListedOrFixed
<1>7. FilesKept'
  <2>1. ASSUME NEW r \in DOMAIN results, FileOf(r) \notin edited' \cup torn'
        PROVE  Thinned(disk'[FileOf(r)], results[r].source)
    BY <1>1, <1>2, <1>3, <2>1 DEF Accounted, FilesKept
  <2>2. QED
    BY <1>1, <2>1, SameFilesFacts DEF FilesKept
<1>8. QED
  BY <1>1, <1>6, <1>7 DEF Accounted, DueIsListed

LEMMA AccountedOfSurroundings ==
  ASSUME IInv, Accounted, Kill \/ (\E f \in File : Save(f)) \/ RunAgain \/ UNCHANGED vars
  PROVE  Accounted'
<1>1. CASE Kill
  <2>1. pc' = "killed" /\ UNCHANGED <<job, disk, results, edited, torn>>
    BY <1>1 DEF Kill, runVars, history
  <2>2. QED
    BY <2>1 DEF Accounted, DueIsListed, DueIsListedOrFixed, FilesKept, FileOf
<1>2. ASSUME NEW f \in File, Save(f) PROVE Accounted'
  <2>1. /\ UNCHANGED <<job, pc, results, next, torn>> /\ edited' = edited \cup {f} /\ SameFiles
        /\ \A g \in File : g # f => disk'[g] = disk[g]
    BY <1>2 DEF Save, runVars, IInv, TypeOK, SameFiles
  <2>2. ASSUME NEW r \in DOMAIN results
        PROVE  FileOf(r) \in edited' \/ (FileOf(r) \notin edited /\ disk'[FileOf(r)] = disk[FileOf(r)])
    BY <2>1, FileIsFile DEF IInv
  <2>3. DueIsListed'
    BY <2>1, SameFilesFacts DEF Accounted, DueIsListed, Lists
  <2>4. DueIsListedOrFixed'
    BY <2>1, <2>2, SameFilesFacts DEF Accounted, DueIsListedOrFixed, Lists
  <2>5. FilesKept'
    BY <2>1, <2>2, SameFilesFacts DEF Accounted, FilesKept
  <2>6. QED
    BY <2>3, <2>4, <2>5 DEF Accounted
<1>3. CASE RunAgain
  <2>1. DOMAIN results' = {} /\ pc' = "discover"
    BY <1>3 DEF RunAgain
  <2>2. QED
    BY <2>1 DEF Accounted, DueIsListed, DueIsListedOrFixed, FilesKept
<1>4. CASE UNCHANGED vars
  <2>1. UNCHANGED <<job, pc, disk, results, next, edited, torn>>
    BY <1>4 DEF vars, runVars, history
  <2>2. QED
    BY <2>1 DEF Accounted, DueIsListed, DueIsListedOrFixed, FilesKept, Lists, FileOf, Due
<1>5. QED
  BY <1>1, <1>2, <1>3, <1>4

LEMMA AccountedStep ==
  ASSUME Unlinked, IInv, Covered, Reported, Accounted, [Next]_vars
  PROVE  Accounted'
BY AccountedOfScan, AccountedOfPasses, AccountedOfWriteOut, AccountedOfFailure, AccountedOfSurroundings
   DEF Next, Run, Stopped

-----------------------------------------------------------------------------
(* The exit status. *)

Truth == pc = "exit" /\ clean => ~hadError /\ \A r \in DOMAIN results : results[r].diagnostics = {}

LEMMA TruthStep ==
  ASSUME Truth, [Next]_vars
  PROVE  Truth'
<1>1. CASE Report
  BY <1>1 DEF Report, Truth
<1>2. CASE pc' # "exit"
  BY <1>2 DEF Truth
<1>3. CASE UNCHANGED <<pc, clean, hadError, results>>
  BY <1>3 DEF Truth
<1>4. CASE (\E f \in File : Save(f)) \/ Stopped \/ UNCHANGED vars
  <2>1. UNCHANGED <<pc, clean, hadError, results>>
    BY <1>4 DEF Save, Stopped, vars, runVars
  <2>2. QED
    BY <1>3, <2>1
<1>5. CASE \E p \in todo : ReadFails(p) \/ ScanUnparseable(p) \/ ScanParsed(p)
  BY <1>2, <1>5 DEF ReadFails, ScanUnparseable, ScanParsed, Scan
<1>6. CASE Discover \/ CrossFile \/ Suppress \/ NothingToFix \/ (\E S \in SUBSET Site : OpenForFix(S))
           \/ OpenFails \/ WriteOut \/ WriteFails \/ Kill \/ RunAgain
  BY <1>2, <1>6 DEF Discover, CrossFile, Suppress, NothingToFix, OpenForFix, OpenFails, WriteOut,
                    WriteFails, Kill, RunAgain, Fixing
<1>7. QED
  BY <1>1, <1>4, <1>5, <1>6 DEF Next, Run

\* What the run knows of the files, of what it reports, and of its fixes.
ReportIInv == Covered /\ Reported /\ Accounted /\ Truth

\* The inductive invariant of what is reported, where no two paths lead to one file.
THEOREM ReportInvariance ==
  ASSUME Unlinked
  PROVE  Spec => []ReportIInv
<1>1. Init => ReportIInv
  <2> SUFFICES ASSUME Init PROVE ReportIInv
    OBVIOUS
  <2>1. DOMAIN results = {} /\ pc = "discover"
    BY DEF Init, NotStarted
  <2>2. QED
    BY <2>1 DEF ReportIInv, Covered, Reported, Accounted, DueIsListed, DueIsListedOrFixed, FilesKept, Truth
<1>2. IInv /\ ReportIInv /\ [Next]_vars => ReportIInv'
  BY CoveredStep, ReportedStep, AccountedStep, TruthStep DEF ReportIInv, IInv
<1>3. QED
  BY <1>1, <1>2, Invariance, PTL DEF Spec

\* A site that the run may fix and no longer lists when it ends is gone from
\* the file, unless somebody saved the file meanwhile.
THEOREM FixedIsAlwaysGone ==
  ASSUME Unlinked
  PROVE  Spec => []FixedIsGone
<1>1. TypeOK /\ ReportIInv => FixedIsGone
  <2> SUFFICES ASSUME TypeOK, ReportIInv, pc = "exit", NEW r \in DOMAIN results, FileOf(r) \notin edited,
                      NEW s \in Permitted(results[r].path, results[r].source),
                      About(s) \notin results[r].diagnostics
               PROVE  s \notin disk[FileOf(r)].sites
    BY DEF FixedIsGone, FileOf
  <2>1. s \in Due(r)
    BY DEF Permitted, Due
  <2>2. QED
    BY <2>1 DEF ReportIInv, Accounted, DueIsListedOrFixed, Lists
<1>2. QED
  BY <1>1, ReportInvariance, TypeCorrect, PTL

\* Exit status 0 tells the truth: every path was found and read, every file not
\* saved meanwhile parses, and what the rules over one file find in them, and
\* SLP020 between two of them, is off or under `# noqa`.
THEOREM CleanIsAlwaysClean ==
  ASSUME Unlinked
  PROVE  Spec => []CleanMeansClean
<1>1. IInv /\ ReportIInv /\ DamageIsReported => CleanMeansClean
  <2> SUFFICES ASSUME IInv, ReportIInv, DamageIsReported, pc = "exit", clean
               PROVE  CleanMeansClean
    BY DEF CleanMeansClean
  <2> DEFINE Known(p) == p \in Discovered /\ FileAt[p] \notin edited
             Holds(p) == disk[FileAt[p]]
             Of(p, r) == r \in DOMAIN results /\ results[r].path = p
  <2>1. ~hadError /\ \A r \in DOMAIN results : results[r].diagnostics = {}
    BY DEF ReportIInv, Truth
  <2>2. Missing \notin job.inputs /\ \A p \in Discovered : \E r \in DOMAIN results : Of(p, r)
    BY <2>1 DEF ReportIInv, Covered
  <2>3. torn = {}
    BY <2>1 DEF DamageIsReported, StillListed, CaughtOpen
  <2>4. ASSUME NEW p, Known(p), NEW r, Of(p, r)
        PROVE  /\ results[r].source.parses /\ results[r].noqa = Holds(p).noqa
               /\ Thinned(Holds(p), results[r].source)
               /\ \A s \in Due(r) : s \notin Holds(p).sites
    <3>1. results[r].source.parses /\ results[r].noqa = results[r].source.noqa
      BY <2>1, <2>4 DEF ReportIInv, Reported
    <3>2. FileOf(r) = FileAt[p] /\ FileOf(r) \notin edited \cup torn
      BY <2>3, <2>4 DEF FileOf
    <3>3. Thinned(Holds(p), results[r].source)
      BY <2>4, <3>2 DEF ReportIInv, Accounted, FilesKept
    <3>4. \A s \in Due(r) : s \notin Holds(p).sites
      BY <2>1, <2>4, <3>2 DEF ReportIInv, Accounted, DueIsListedOrFixed, Lists
    <3>5. QED
      BY <3>1, <3>3, <3>4 DEF Thinned
  <2>5. ASSUME NEW p, Known(p)
        PROVE  Holds(p).parses /\ PerFile(p, Holds(p)) \subseteq Holds(p).noqa
    <3>1. PICK r \in DOMAIN results : Of(p, r)
      BY <2>2, <2>5
    <3>2. ASSUME NEW s \in Holds(p).sites, Runs(job.config, s.code, p)
          PROVE  About(s) \in Holds(p).noqa
      BY <2>4, <2>5, <3>1, <3>2 DEF Due, Thinned
    <3>3. QED
      BY <2>4, <2>5, <3>1, <3>2 DEF PerFile, Thinned
  <2>6. ASSUME NEW p, Known(p), Enabled("SLP020", p), NEW q, Known(q), Enabled("SLP020", q), p # q,
               NEW fn \in Range(Holds(p).funcs) \cap Range(Holds(q).funcs)
        PROVE  Clone(fn) \in Holds(p).noqa
    <3>1. PICK r \in DOMAIN results : Of(p, r)
      BY <2>2, <2>6
    <3>2. PICK s \in DOMAIN results : Of(q, s)
      BY <2>2, <2>6
    <3>3. r # s /\ Compared(r) /\ Compared(s) /\ fn \in Funcs(r) \cap Funcs(s)
      BY <2>4, <2>6, <3>1, <3>2 DEF Compared, Funcs, Thinned
    <3>4. Clone(fn) \in results[r].diagnostics \cup results[r].noqa
      BY <3>3 DEF ReportIInv, Reported
    <3>5. QED
      BY <2>1, <2>4, <2>6, <3>1, <3>4
  <2>7. QED
    BY <2>2, <2>5, <2>6 DEF CleanMeansClean, Clone
<1>2. QED
  BY <1>1, Invariance, ReportInvariance, DamageIsAlwaysReported, PTL

-----------------------------------------------------------------------------
(* A failed call costs the fixes of one file. *)

\* The results the fix loop is done with and did not fix.
Stuck == {r \in Unfixed : r < next}

\* The fix loop starts at the first result and ends after the last one.
Tried ==
  /\ pc \in {"discover", "scan", "suppress"} => next = 1
  /\ pc = "report" => ~job.fix
  /\ pc = "exit" /\ job.fix => next = Len(results) + 1

Contained == Tried /\ (pc \in {"fix", "write", "exit"} /\ job.fix => Cardinality(Stuck) <= faults)

\* A site that may be fixed is still listed when the turn of its result comes.
LEMMA PermittedIsFixable ==
  ASSUME TypeOK, Accounted, pc \in {"fix", "write"}, next \in DOMAIN results
  PROVE  Permitted(Current.path, Current.source) \subseteq Fixable(Current)
<1> SUFFICES ASSUME NEW s \in Permitted(Current.path, Current.source)
             PROVE  s \in Fixable(Current)
  OBVIOUS
<1>1. s \in Due(next) /\ next \in Nat
  BY FileIsFile DEF Permitted, Due, Current
<1>2. Lists(next, s)
  BY <1>1 DEF Accounted, DueIsListedOrFixed
<1>3. QED
  BY <1>2 DEF Permitted, Fixable, Lists, Current

\* The results are finitely many, and so are those that are stuck.
LEMMA StuckIsFinite ==
  ASSUME TypeOK
  PROVE  IsFiniteSet(Stuck) /\ Cardinality(Stuck) \in Nat
<1>1. Stuck \subseteq 1..Len(results) /\ Len(results) \in Nat
  BY LenProperties DEF TypeOK, Stuck, Unfixed
<1>2. IsFiniteSet(1..Len(results))
  BY <1>1, FS_Interval
<1>3. QED
  BY <1>1, <1>2, FS_Subset, FS_CardinalityType

\* With one more result stuck there is at most one more.
LEMMA StuckGrows ==
  ASSUME TypeOK, NEW n, Stuck' \subseteq Stuck \cup {n}
  PROVE  /\ Cardinality(Stuck') \in Nat
         /\ Cardinality(Stuck') <= Cardinality(Stuck) + 1
         /\ Stuck' \subseteq Stuck => Cardinality(Stuck') <= Cardinality(Stuck)
<1> DEFINE old == Stuck
           new == Stuck'
<1>1. IsFiniteSet(old) /\ Cardinality(old) \in Nat /\ new \subseteq old \cup {n}
  BY StuckIsFinite
<1> HIDE DEF old, new
<1>2. /\ IsFiniteSet(old \cup {n})
      /\ Cardinality(old \cup {n}) = IF n \in old THEN Cardinality(old) ELSE Cardinality(old) + 1
  BY <1>1, FS_AddElement
<1>3. IsFiniteSet(new) /\ Cardinality(new) \in Nat /\ Cardinality(new) <= Cardinality(old \cup {n})
  BY <1>1, <1>2, FS_Subset, FS_CardinalityType
<1>4. new \subseteq old => Cardinality(new) <= Cardinality(old)
  BY <1>1, FS_Subset
<1>5. QED
  BY <1>1, <1>2, <1>3, <1>4 DEF old, new

\* A result is stuck after a step only if it was before, or its turn just ended.
LEMMA StuckStays ==
  ASSUME TypeOK, SameFiles, edited \subseteq edited', next' = next \/ next' = next + 1,
         \A r \in DOMAIN results : r < next =>
           \/ FileOf(r) \in edited'
           \/ /\ disk'[FileOf(r)] = disk[FileOf(r)]
              /\ FileOf(r) \in torn' => FileOf(r) \in torn
  PROVE  /\ next' = next => Stuck' \subseteq Stuck
         /\ Stuck' \subseteq Stuck \cup {next}
         /\ next \notin Unfixed' => Stuck' \subseteq Stuck
<1>1. next \in Nat /\ \A r \in DOMAIN results : r \in Nat
  BY FileIsFile, LenProperties DEF TypeOK
<1>2. ASSUME NEW r \in DOMAIN results, r < next, r \in Unfixed'
      PROVE  r \in Unfixed
  <2>1. Permitted(results[r].path, results[r].source)' = Permitted(results[r].path, results[r].source)
    BY DEF SameFiles, Permitted
  <2>2. QED
    BY <1>2, <2>1 DEF SameFiles, Unfixed, FileOf
<1>3. Stuck' = {r \in Unfixed' : r < next'} /\ Unfixed' \subseteq DOMAIN results
  BY DEF SameFiles, Stuck, Unfixed
<1>4. QED
  BY <1>1, <1>2, <1>3 DEF Stuck

LEMMA ContainedOfLoop ==
  ASSUME Unlinked, IInv, Covered, Accounted, Contained,
         NothingToFix \/ (\E S \in SUBSET Site : OpenForFix(S)) \/ OpenFails \/ WriteOut \/ WriteFails
  PROVE  Contained'
<1>1. /\ TypeOK /\ pc \in {"fix", "write"} /\ pc' \in {"fix", "write"} /\ next \in DOMAIN results
      /\ job' = job /\ edited' = edited
  BY DEF IInv, TypeOK, NothingToFix, OpenForFix, OpenFails, WriteOut, WriteFails, Fixing, history
<1>2. SameFiles
  BY <1>1, WriteOutFacts DEF SameFiles, NothingToFix, OpenForFix, OpenFails, WriteOut, WriteFails
<1>3. /\ \A f \in File : f # FileOf(next) => disk'[f] = disk[f]
      /\ torn' \subseteq torn \cup {FileOf(next)}
  <2>1. disk \in [File -> Text]
    BY <1>1 DEF TypeOK
  <2>2. QED
    BY <1>1, <2>1 DEF NothingToFix, OpenForFix, OpenFails, WriteOut, WriteFails, CurrentFile, Current, FileOf,
                      history
<1>4. ASSUME NEW r \in DOMAIN results, r < next
      PROVE  disk'[FileOf(r)] = disk[FileOf(r)] /\ (FileOf(r) \in torn' => FileOf(r) \in torn)
  <2>1. FileOf(r) # FileOf(next) /\ FileOf(r) \in File
    BY <1>1, <1>4, OwnFile, FileIsFile
  <2>2. QED
    BY <1>3, <2>1
<1>5. next' = next \/ next' = next + 1
  BY DEF NothingToFix, OpenForFix, OpenFails, WriteOut, WriteFails
<1>6. /\ next' = next => Stuck' \subseteq Stuck
      /\ Stuck' \subseteq Stuck \cup {next}
      /\ next \notin Unfixed' => Stuck' \subseteq Stuck
  BY <1>1, <1>2, <1>4, <1>5, StuckStays
<1>7. /\ Cardinality(Stuck) \in Nat /\ Cardinality(Stuck') \in Nat
      /\ Cardinality(Stuck') <= Cardinality(Stuck) + 1
      /\ Stuck' \subseteq Stuck => Cardinality(Stuck') <= Cardinality(Stuck)
  BY <1>1, <1>6, StuckGrows, StuckIsFinite
<1>8. Stuck' \subseteq Stuck \/ faults' = faults + 1
  <2>1. CASE NothingToFix
    <3>1. Fixable(Current) = {} /\ UNCHANGED <<job, results>>
      BY <2>1 DEF NothingToFix, Selects
    <3>2. Permitted(Current.path, Current.source) = {}
      BY <1>1, <3>1, PermittedIsFixable
    <3>3. next \notin Unfixed'
      BY <3>1, <3>2 DEF Unfixed, Permitted, Current
    <3>4. QED
      BY <1>6, <3>3
  <2>2. CASE WriteOut
    <3>1. accepted \subseteq results[next].source.sites /\ accepted # {}
      BY <1>1, <2>2 DEF IInv, TypeOK, Knowledge, Opened, WriteOut, Fixable, Current
    <3>2. /\ results[next].source \in Text /\ FileOf(next) \in File
          /\ torn' = torn \ {FileOf(next)} /\ disk \in [File -> Text] /\ accepted \in SUBSET Site
          /\ disk' = [disk EXCEPT ![FileOf(next)] = Rewritten(results[next].source, accepted)]
      BY <1>1, <2>2, ResultFacts, FileIsFile DEF WriteOut, TypeOK, CurrentFile, Current, FileOf
    <3>3. disk'[FileOf(next)].sites = results[next].source.sites \ accepted
      BY <3>2, RewrittenType
    <3>4. FileOf(next) \notin torn' /\ disk'[FileOf(next)].sites # results'[next].source.sites
      BY <1>1, <1>2, <3>1, <3>2, <3>3 DEF SameFiles
    <3>5. next \notin Unfixed'
      BY <1>1, <1>2, <3>4 DEF Unfixed, FileOf, SameFiles
    <3>6. QED
      BY <1>6, <3>5
  <2>3. CASE \E S \in SUBSET Site : OpenForFix(S)
    BY <1>6, <2>3 DEF OpenForFix
  <2>4. CASE OpenFails \/ WriteFails
    BY <2>4 DEF OpenFails, WriteFails, Fault
  <2>5. QED
    BY <2>1, <2>2, <2>3, <2>4
<1>9. faults \in Nat /\ (faults' = faults \/ faults' = faults + 1)
  BY <1>1 DEF TypeOK, NothingToFix, OpenForFix, OpenFails, WriteOut, WriteFails, Fault
<1>10. job'.fix => Cardinality(Stuck') <= faults'
  <2>1. CASE ~job.fix
    BY <1>1, <2>1
  <2>2. CASE job.fix
    <3>1. Cardinality(Stuck) <= faults
      BY <1>1, <2>2 DEF Contained
    <3>2. QED
      BY <1>7, <1>8, <1>9, <3>1
  <2>3. QED
    BY <2>1, <2>2
<1>11. QED
  BY <1>1, <1>10 DEF Contained, Tried

\* What happens around the run leaves no more results stuck.
LEMMA ContainedOfSurroundings ==
  ASSUME IInv, Contained, Kill \/ (\E f \in File : Save(f)) \/ RunAgain \/ UNCHANGED vars
  PROVE  Contained'
<1>1. CASE Kill
  <2>1. pc' = "killed"
    BY <1>1 DEF Kill
  <2>2. QED
    BY <2>1 DEF Contained, Tried
<1>2. ASSUME NEW f \in File, Save(f) PROVE Contained'
  <2>1. /\ UNCHANGED <<job, pc, results, next, torn, faults>> /\ edited' = edited \cup {f} /\ SameFiles
        /\ \A g \in File : g # f => disk'[g] = disk[g]
        /\ TypeOK
    BY <1>2 DEF Save, runVars, IInv, TypeOK, SameFiles
  <2>2. ASSUME NEW r \in DOMAIN results
        PROVE  FileOf(r) \in edited' \/ disk'[FileOf(r)] = disk[FileOf(r)]
    BY <2>1, FileIsFile
  <2>3. Stuck' \subseteq Stuck
    BY <2>1, <2>2, StuckStays
  <2>4. Cardinality(Stuck) \in Nat /\ Cardinality(Stuck') \in Nat /\ Cardinality(Stuck') <= Cardinality(Stuck)
    BY <2>1, <2>3, StuckIsFinite, StuckGrows
  <2>5. faults \in Nat
    BY <2>1 DEF TypeOK
  <2>6. QED
    BY <2>1, <2>4, <2>5 DEF Contained, Tried
<1>3. CASE RunAgain
  <2>1. pc' = "discover" /\ next' = 1
    BY <1>3 DEF RunAgain
  <2>2. QED
    BY <2>1 DEF Contained, Tried
<1>4. CASE UNCHANGED vars
  <2>1. UNCHANGED <<job, pc, disk, results, next, edited, torn, faults>>
    BY <1>4 DEF vars, runVars, history
  <2>2. Unfixed' = Unfixed
    BY <2>1 DEF Unfixed, Permitted
  <2>3. Stuck' = Stuck
    BY <2>1, <2>2 DEF Stuck
  <2>4. QED
    BY <2>1, <2>3 DEF Contained, Tried
<1>5. QED
  BY <1>1, <1>2, <1>3, <1>4

LEMMA ContainedStep ==
  ASSUME Unlinked, IInv, Covered, Accounted, Contained, [Next]_vars
  PROVE  Contained'
<1>1. CASE Discover \/ CrossFile \/ \E p \in todo : ReadFails(p) \/ ScanUnparseable(p) \/ ScanParsed(p)
  <2>1. pc \in {"discover", "scan"} /\ pc' \in {"scan", "suppress"} /\ next' = next
    BY <1>1 DEF Discover, CrossFile, ReadFails, ScanUnparseable, ScanParsed, Scan
  <2>2. QED
    BY <2>1 DEF Contained, Tried
<1>2. CASE Suppress
  <2>1. /\ pc = "suppress" /\ next = 1 /\ next' = next /\ job' = job /\ faults' = faults
        /\ pc' = IF job.fix THEN "fix" ELSE "report"
    BY <1>2 DEF Suppress, Contained, Tried
  <2>2. \A r \in DOMAIN results' : r \in 1..Len(results')
    BY <1>2, TypeOfPasses, LenProperties DEF TypeOK, IInv
  <2>3. Stuck' = {}
    <3>1. \A r \in Nat : ~(r < 1 /\ r \in 1..Len(results'))
      OBVIOUS
    <3>2. QED
      BY <2>1, <2>2 DEF Stuck, Unfixed
  <2>4. Cardinality(Stuck') = 0 /\ faults \in Nat
    BY <2>3, FS_EmptySet DEF IInv, TypeOK
  <2>5. QED
    BY <2>1, <2>4 DEF Contained, Tried
<1>3. CASE Report
  <2>1. /\ pc' = "exit" /\ UNCHANGED <<job, disk, results, next, edited, torn, faults>>
        /\ pc = "report" \/ (pc = "fix" /\ next \notin DOMAIN results)
    BY <1>3 DEF Report, history
  <2>2. next = Len(results) + 1 \/ ~job.fix
    <3>1. next \in 1..(Len(results) + 1) /\ DOMAIN results = 1..Len(results) /\ Len(results) \in Nat
      BY LenProperties DEF IInv, TypeOK
    <3>2. pc = "fix" => next = Len(results) + 1
      BY <2>1, <3>1
    <3>3. QED
      BY <2>1, <3>2 DEF Contained, Tried
  <2>3. Unfixed' = Unfixed
    BY <2>1 DEF Unfixed, Permitted
  <2>4. Stuck' = Stuck
    BY <2>1, <2>3 DEF Stuck
  <2>5. job.fix => pc = "fix"
    BY <2>1 DEF Contained, Tried
  <2>6. QED
    BY <2>1, <2>2, <2>4, <2>5 DEF Contained, Tried
<1>4. QED
  BY <1>1, <1>2, <1>3, ContainedOfLoop, ContainedOfSurroundings DEF Next, Run, Stopped

\* THEOREM: a failed open or write costs a `check --fix` run the fixes of one
\* file: as many results as calls failed are left with fixes unmade, and the
\* run does not exit 0 if there is one.
THEOREM FailureIsAlwaysContained ==
  ASSUME Unlinked
  PROVE  Spec => []FailureIsContained
<1>1. Init => Contained
  <2> SUFFICES ASSUME Init PROVE Contained
    OBVIOUS
  <2>1. pc = "discover" /\ next = 1
    BY DEF Init, NotStarted
  <2>2. QED
    BY <2>1 DEF Contained, Tried
<1>2. IInv /\ ReportIInv /\ Contained /\ [Next]_vars => Contained'
  BY ContainedStep DEF ReportIInv
<1>3. IInv /\ ReportIInv /\ DamageIsReported /\ Contained => FailureIsContained
  <2> SUFFICES ASSUME IInv, ReportIInv, DamageIsReported, Contained, pc = "exit", job.fix
               PROVE  Cardinality(Unfixed) <= faults /\ (Unfixed # {} => ~clean)
    BY DEF FailureIsContained
  <2>1. Stuck = Unfixed
    <3>1. next = Len(results) + 1 /\ Len(results) \in Nat /\ Unfixed \subseteq 1..Len(results)
      BY LenProperties DEF Contained, Tried, IInv, TypeOK, Unfixed
    <3>2. \A r \in Unfixed : r < next
      BY <3>1
    <3>3. QED
      BY <3>2 DEF Stuck
  <2>2. ASSUME clean, NEW r \in Unfixed PROVE FALSE
    <3>1. ~hadError /\ results[r].diagnostics = {} /\ r \in DOMAIN results /\ FileOf(r) \notin edited
      BY <2>2 DEF ReportIInv, Truth, Unfixed, FileOf
    <3>2. torn = {}
      BY <3>1 DEF DamageIsReported, StillListed, CaughtOpen
    <3>3. PICK s : s \in Permitted(results[r].path, results[r].source)
      BY <2>2 DEF Unfixed
    <3>4. s \in Due(r) /\ s \in disk[FileOf(r)].sites
      BY <2>2, <3>2, <3>3 DEF Unfixed, Permitted, Due, FileOf
    <3>5. Lists(r, s)
      BY <3>1, <3>4 DEF ReportIInv, Accounted, DueIsListedOrFixed
    <3>6. QED
      BY <3>1, <3>5 DEF Lists
  <2>3. QED
    BY <2>1, <2>2 DEF Contained
<1>4. QED
  BY <1>1, <1>2, <1>3, Invariance, ReportInvariance, DamageIsAlwaysReported, PTL DEF Spec

=============================================================================

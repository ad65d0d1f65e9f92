---------------------------- MODULE HookRunProofs ----------------------------
(***************************************************************************)
(* Theorems about `check --hook`, for every project, every configuration,  *)
(* any texts, and any number of edits, saves by others and failed reads:   *)
(* status 2 is kept for findings, and status 0 means that there are none.  *)
(***************************************************************************)
EXTENDS HookRun, FiniteSetTheorems, TLAPS

\* A run on its way has said nothing, and nothing has failed.
Underway == Running => status = 0 /\ reported = {} /\ ~failed

\* What is edited is a file of the project, whose texts since are known.
Witnessed ==
  /\ payload \in Spelling \cup {NoPath}
  /\ disk \in [File -> Authored]
  /\ IsFiniteSet(seen)
  /\ \A f \in Edited(payload) : disk[f] \in seen

\* How far the run has got, and what that took.
Passed ==
  /\ pc \in {"payload", "config", "read", "lint", "exit"}
  /\ pc \in {"config", "read", "lint"} => payload # NoPath
  /\ pc \in {"read", "lint"} => config # Malformed
  /\ pc = "lint" => source \in seen

\* What a status of the run that is over rests on.
Justified ==
  /\ status = 2 =>
       /\ config # Malformed /\ ~failed
       /\ source \in seen /\ Blocks /\ reported = PerFile(payload, source)
  /\ pc = "exit" /\ status = 0 /\ ~failed /\ payload # NoPath => source \in seen /\ ~Blocks

IInv == Underway /\ Witnessed /\ Passed /\ Justified

-----------------------------------------------------------------------------
LEMMA InitHolds == Init => IInv
<1> SUFFICES ASSUME Init PROVE IInv
  OBVIOUS
<1>1. IsFiniteSet(seen)
  <2>1. CASE payload = NoPath
    <3>1. seen = {}
      BY <2>1 DEF Init, Edited
    <3>2. QED
      BY <3>1, FS_EmptySet
  <2>2. CASE payload # NoPath
    <3>1. seen = {disk[FileAt[payload]]}
      BY <2>2 DEF Init, Edited
    <3>2. QED
      BY <3>1, FS_Singleton
  <2>3. QED
    BY <2>1, <2>2
<1>2. Witnessed
  BY <1>1 DEF Init, Witnessed, Edited
<1>3. QED
  BY <1>2 DEF Init, IInv, Underway, Passed, Justified, Running

-----------------------------------------------------------------------------
(* One lemma for each action. *)

LEMMA NothingEditedKeeps == IInv /\ NothingEdited => IInv'
BY DEF IInv, Underway, Witnessed, Passed, Justified, NothingEdited, Exit, Running, Edited, Blocks

LEMMA StdinFailsKeeps == IInv /\ StdinFails => IInv'
BY DEF IInv, Underway, Witnessed, Passed, Justified, StdinFails, Exit, Fault, Running, Edited, Blocks

LEMMA PythonEditedKeeps == IInv /\ PythonEdited => IInv'
BY DEF IInv, Underway, Witnessed, Passed, Justified, PythonEdited, Continue, Running, Edited, Blocks

LEMMA LoadConfigKeeps == IInv /\ LoadConfig => IInv'
BY DEF IInv, Underway, Witnessed, Passed, Justified, LoadConfig, Continue, Running, Edited, Blocks

LEMMA ConfigFailsKeeps == IInv /\ ConfigFails => IInv'
BY DEF IInv, Underway, Witnessed, Passed, Justified, ConfigFails, Exit, Running, Edited, Blocks

\* The text read is one the edited file has held since the edit.
LEMMA ReadKeeps == IInv /\ Read => IInv'
BY DEF IInv, Underway, Witnessed, Passed, Justified, Read, Continue, Running, Edited, Blocks

LEMMA ReadFailsKeeps == IInv /\ ReadFails => IInv'
BY DEF IInv, Underway, Witnessed, Passed, Justified, ReadFails, Exit, Fault, Running, Edited, Blocks

LEMMA LintKeeps == IInv /\ Lint => IInv'
<1> SUFFICES ASSUME IInv, Lint PROVE IInv'
  OBVIOUS
<1>1. UNCHANGED <<config, disk, payload, seen, edits, source, failed, faults>>
  BY DEF Lint, Exit
<1>2. Witnessed' /\ Passed' /\ Underway'
  BY <1>1 DEF IInv, Underway, Witnessed, Passed, Lint, Exit, Running, Edited
<1>3. PerFile(payload, source)' = PerFile(payload, source) /\ Blocks' = Blocks
  BY <1>1 DEF PerFile, Blocks
<1>4. Justified'
  BY <1>1, <1>3 DEF IInv, Underway, Passed, Justified, Lint, Exit, Running
<1>5. QED
  BY <1>2, <1>4 DEF IInv

\* A new edit starts over with one text seen.
LEMMA AgentEditsKeeps == IInv /\ AgentEdits => IInv'
<1> SUFFICES ASSUME IInv, AgentEdits PROVE IInv'
  OBVIOUS
<1>1. PICK p \in Spelling \cup {NoPath}, text \in Authored :
        /\ payload' = p
        /\ disk' = [f \in File |-> IF f \in Edited(p) THEN text ELSE disk[f]]
        /\ seen' = {text : f \in Edited(p)}
  BY DEF AgentEdits
<1>2. IsFiniteSet(seen')
  <2>1. seen' \in SUBSET {text}
    BY <1>1
  <2>2. QED
    BY <2>1, FS_Singleton, FS_Subset
<1>3. \A f \in Edited(p) : f \in File
  BY <1>1, PathsAssumption DEF Edited, PathsOK
<1>4. disk' \in [File -> Authored]
  BY <1>1 DEF IInv, Witnessed
<1>5. Witnessed'
  BY <1>1, <1>2, <1>3, <1>4 DEF Witnessed, Edited
<1>6. QED
  BY <1>5 DEF IInv, Underway, Passed, Justified, AgentEdits, Running

\* A save adds to what was seen, and takes nothing from it.
LEMMA SomebodySavesKeeps == ASSUME NEW f \in File PROVE IInv /\ SomebodySaves(f) => IInv'
<1> SUFFICES ASSUME IInv, SomebodySaves(f) PROVE IInv'
  OBVIOUS
<1>1. PICK text \in Authored :
        /\ disk' = [disk EXCEPT ![f] = text]
        /\ seen' = seen \cup {text : g \in Edited(payload) \cap {f}}
  BY DEF SomebodySaves
<1>2. UNCHANGED <<config, payload, pc, source, reported, status, failed, faults>> /\ Running
  BY DEF SomebodySaves
<1>3. IsFiniteSet(seen')
  <2>1. {text : g \in Edited(payload) \cap {f}} \in SUBSET {text}
    OBVIOUS
  <2>2. IsFiniteSet({text : g \in Edited(payload) \cap {f}})
    BY <2>1, FS_Singleton, FS_Subset
  <2>3. QED
    BY <1>1, <2>2, FS_Union DEF IInv, Witnessed
<1>4. Witnessed'
  <2>1. disk' \in [File -> Authored]
    BY <1>1 DEF IInv, Witnessed
  <2>2. \A g \in Edited(payload) : disk'[g] \in seen'
    BY <1>1, PathsAssumption DEF IInv, Witnessed, Edited, PathsOK
  <2>3. QED
    BY <1>2, <1>3, <2>1, <2>2 DEF IInv, Witnessed, Edited
<1>5. seen \subseteq seen'
  BY <1>1
<1>6. QED
  BY <1>2, <1>4, <1>5 DEF IInv, Underway, Passed, Justified, Running

-----------------------------------------------------------------------------
\* The inductive invariant of the hook: a run that is over has a status that
\* rests on a text it read, and one on its way has not said anything yet.
THEOREM Invariance == Spec => []IInv
<1>1. IInv /\ [Next]_vars => IInv'
  <2> SUFFICES ASSUME IInv, [Next]_vars PROVE IInv'
    OBVIOUS
  <2>1. CASE Hook
    BY <2>1, NothingEditedKeeps, StdinFailsKeeps, PythonEditedKeeps, LoadConfigKeeps,
       ConfigFailsKeeps, ReadKeeps, ReadFailsKeeps, LintKeeps DEF Hook
  <2>2. CASE AgentEdits
    BY <2>2, AgentEditsKeeps
  <2>3. CASE \E f \in File : SomebodySaves(f)
    BY <2>3, SomebodySavesKeeps
  <2>4. CASE Quiet \/ UNCHANGED vars
    <3>1. UNCHANGED vars
      BY <2>4 DEF Quiet
    <3>2. QED
      BY <3>1 DEF vars, IInv, Underway, Witnessed, Passed, Justified, Running, Edited, Blocks, PerFile
  <2>5. QED
    BY <2>1, <2>2, <2>3, <2>4 DEF Next
<1>2. QED
  BY InitHolds, <1>1, PTL DEF Spec

\* Whatever fails, is saved or configured, the hook ends with status 2 only if
\* it has findings of a text that the edited file has held since the edit.
THEOREM BlocksAlwaysOnFindings == Spec => []BlocksOnFindingsOnly
<1>1. IInv => BlocksOnFindingsOnly
  BY DEF IInv, Justified, BlocksOnFindingsOnly, Blocks, PerFile
<1>2. QED
  BY Invariance, <1>1, PTL

\* If nobody saved the edited file and no read failed, status 0 means that the
\* text does not parse or has no findings of the rules that are on for it.
THEOREM SilenceAlwaysMeansClean == Spec => []SilentMeansClean
<1>1. IInv => SilentMeansClean
  <2> SUFFICES ASSUME IInv, ~Running, status = 0, ~failed, payload # NoPath, Cardinality(seen) = 1,
                      NEW text \in seen
               PROVE  ~text.parses \/ PerFile(payload, text) = {}
    BY DEF SilentMeansClean
  <2>1. PICK only : seen = {only}
    BY FS_Singleton DEF IInv, Witnessed
  <2>2. source \in seen /\ ~Blocks
    BY DEF IInv, Justified, Running
  <2>3. text = source
    BY <2>1, <2>2
  <2>4. QED
    BY <2>2, <2>3 DEF Blocks
<1>2. QED
  BY Invariance, <1>1, PTL

=============================================================================

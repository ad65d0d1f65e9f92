------------------------------- MODULE HookRun -------------------------------
(***************************************************************************)
(* `check --hook` (run_hook of sloplint/src/main.rs): an AI coding tool    *)
(* runs it after each of its edits, with the edited path in a JSON payload *)
(* on stdin.  The file is linted by the per-file rules alone, and the exit *)
(* status talks to the tool: 2 feeds the findings back to the agent, 0 and *)
(* 1 let the edit pass.                                                    *)
(*                                                                         *)
(* The tool waits for its hook; other people do not, and may save the file *)
(* while the hook runs.                                                    *)
(***************************************************************************)
EXTENDS Selection

CONSTANTS
  File,       \* Python files of the project
  Spelling,   \* how paths are spelled: relative to the root, or absolute
  FileAt,     \* the file a spelling leads to
  NoPath,     \* a payload that carries no path, or that of another kind of file
  Malformed,  \* a configuration that does not parse
  Configs,    \* what sloplint.toml may hold
  Authored,   \* texts: [parses, sites, noqa], sites of [code, line]
  MaxFaults,  \* failed reads per behaviour
  MaxEdits    \* edits per behaviour, the agent's and others'

PathsOK == FileAt \in [Spelling -> File]
BoundsOK == MaxFaults \in Nat /\ MaxEdits \in Nat

ASSUME PathsAssumption == PathsOK
ASSUME BoundsAssumption == BoundsOK

VARIABLES
  config,    \* what sloplint.toml holds
  disk,      \* the text of each file
  payload,   \* the spelling of the edited path, or NoPath
  pc,        \* "payload", "config", "read", "lint" or "exit"
  source,    \* the text the hook read
  reported,  \* what is fed back to the agent
  status,    \* the exit status
  seen,      \* (history) the texts the edited file has held since the edit
  failed,    \* (history) a read of this run failed
  faults, edits

vars == <<config, disk, payload, pc, source, reported, status, seen, failed, faults, edits>>

-----------------------------------------------------------------------------
\* What the per-file rules report of a text, under the path as it is spelled.
PerFile(path, text) == {s \in text.sites : Runs(config, s.code, path)}

Running == pc # "exit"
Fault == faults < MaxFaults /\ faults' = faults + 1 /\ failed' = TRUE

Edited(p) == IF p = NoPath THEN {} ELSE {FileAt[p]}

Init ==
  /\ config \in Configs
  /\ disk \in [File -> Authored]
  /\ payload \in Spelling \cup {NoPath}
  /\ pc = "payload"
  /\ source = NoPath /\ reported = {} /\ status = 0
  /\ seen = {disk[f] : f \in Edited(payload)}
  /\ failed = FALSE /\ faults = 0 /\ edits = 0

\* (Mutant) Every error ends the hook with the status of a tool error.
ExitBlocking(code) ==
  /\ pc' = "exit"
  /\ status' = IF code = 0 THEN 0 ELSE 2
  /\ UNCHANGED <<config, disk, payload, seen, edits>>

Exit(code) ==
  /\ pc' = "exit"
  /\ status' = code
  /\ UNCHANGED <<config, disk, payload, seen, edits>>

Continue(step) ==
  /\ pc' = step
  /\ UNCHANGED <<config, disk, payload, status, seen, edits>>

\* Nothing was edited that the rules are about.
NothingEdited ==
  /\ pc = "payload" /\ payload = NoPath
  /\ Exit(0)
  /\ UNCHANGED <<source, reported, failed, faults>>

StdinFails ==
  /\ pc = "payload"
  /\ Fault
  /\ Exit(1)
  /\ UNCHANGED <<source, reported>>

PythonEdited ==
  /\ pc = "payload" /\ payload # NoPath
  /\ Continue("config")
  /\ UNCHANGED <<source, reported, failed, faults>>

LoadConfig ==
  /\ pc = "config" /\ config # Malformed
  /\ Continue("read")
  /\ UNCHANGED <<source, reported, failed, faults>>

ConfigFails ==
  /\ pc = "config" /\ config = Malformed
  /\ Exit(1)
  /\ UNCHANGED <<source, reported, failed, faults>>

Read ==
  /\ pc = "read"
  /\ source' = disk[FileAt[payload]]
  /\ Continue("lint")
  /\ UNCHANGED <<reported, failed, faults>>

ReadFails ==
  /\ pc = "read"
  /\ Fault
  /\ Exit(0)
  /\ UNCHANGED <<source, reported>>

\* (Mutant) One finding is not enough.
BlocksOnSeveral == source.parses /\ Cardinality(PerFile(payload, source)) > 1

Blocks == source.parses /\ PerFile(payload, source) # {}

Lint ==
  /\ pc = "lint"
  /\ reported' = IF Blocks THEN PerFile(payload, source) ELSE {}
  /\ Exit(IF Blocks THEN 2 ELSE 0)
  /\ UNCHANGED <<source, failed, faults>>

Hook ==
  \/ NothingEdited \/ StdinFails \/ PythonEdited \/ LoadConfig \/ ConfigFails
  \/ Read \/ ReadFails \/ Lint

-----------------------------------------------------------------------------
\* The agent edits again once the hook is over, and the hook runs again.
AgentEdits ==
  /\ ~Running /\ edits < MaxEdits
  /\ edits' = edits + 1
  /\ \E p \in Spelling \cup {NoPath}, text \in Authored :
       /\ payload' = p
       /\ disk' = [f \in File |-> IF f \in Edited(p) THEN text ELSE disk[f]]
       /\ seen' = {text : f \in Edited(p)}
  /\ pc' = "payload"
  /\ source' = NoPath /\ reported' = {} /\ status' = 0 /\ failed' = FALSE
  /\ UNCHANGED <<config, faults>>

SomebodySaves(f) ==
  /\ Running /\ edits < MaxEdits
  /\ edits' = edits + 1
  /\ \E text \in Authored :
       /\ disk' = [disk EXCEPT ![f] = text]
       /\ seen' = seen \cup {text : g \in Edited(payload) \cap {f}}
  /\ UNCHANGED <<config, payload, pc, source, reported, status, failed, faults>>

Quiet == ~Running /\ edits = MaxEdits /\ UNCHANGED vars

Next == Hook \/ AgentEdits \/ (\E f \in File : SomebodySaves(f)) \/ Quiet

Spec == Init /\ [][Next]_vars

-----------------------------------------------------------------------------
(* Properties. *)

\* Status 2 is kept for findings: the hook blocks an edit only with findings in
\* a text the file has held since, never because sloplint itself could not run.
BlocksOnFindingsOnly ==
  status = 2 =>
    /\ config # Malformed /\ ~failed
    /\ reported # {}
    /\ \E text \in seen : text.parses /\ reported \subseteq text.sites

\* Silence means there is nothing to say: where nobody interferes and nothing
\* fails, an edit passes with status 0 only if the file does not parse or every
\* rule that is on for it is content.
SilentMeansClean ==
  ~Running /\ status = 0 /\ ~failed /\ payload # NoPath /\ Cardinality(seen) = 1 =>
    \A text \in seen : ~text.parses \/ PerFile(payload, text) = {}

\* What the documentation says and the code does not hold to.

\* A finding acknowledged by `# noqa` is not reported.
AcknowledgedIsSilent == \A s \in reported : s \notin source.noqa

=============================================================================

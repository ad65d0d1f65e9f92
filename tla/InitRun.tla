------------------------------- MODULE InitRun -------------------------------
(***************************************************************************)
(* The `init` command (run_init of sloplint/src/main.rs with the planning  *)
(* of sloplint/src/init.rs): wire sloplint into the configuration of each  *)
(* AI coding tool, one tool after the other, stopping at the first error.  *)
(*                                                                         *)
(* The configurations are shared with the user and with the tools, which   *)
(* save them at any time.  A read, a mkdir or a write may fail, the        *)
(* process may be killed, and the command may be run again.                *)
(*                                                                         *)
(* A configuration is [exists, valid, entries].  For Claude Code and       *)
(* Cursor the entries are those of the hook list of their edit event, and  *)
(* valid says that the file is a JSON object with room for such a list.    *)
(* For Aider they are the lines of the file, which is never parsed.        *)
(***************************************************************************)
EXTENDS Integers, Sequences, FiniteSetsExt, SequencesExt

CONSTANTS
  Hook,       \* the entry (for Aider the `lint-cmd`) that runs sloplint on each edit
  Banner,     \* the comment at the top of the file written for Aider
  Other,      \* entries that are not about sloplint
  Mention,    \* entries of others that contain the word "sloplint"
  Authored,   \* the configurations others write
  Jobs,       \* command lines, [tools, dryRun]; no tools for detection
  MaxFaults,  \* failed system calls and kills per behaviour
  MaxEdits    \* saves by others per behaviour

ALL == <<"claude", "cursor", "aider">>
Tool == Range(ALL)
JsonTool == {"claude", "cursor"}

Entry == {Hook, Banner} \cup Other \cup Mention
Config == [exists : BOOLEAN, valid : BOOLEAN, entries : Seq(Entry)]

Absent == [exists |-> FALSE, valid |-> FALSE, entries |-> <<>>]
File(entries) == [exists |-> TRUE, valid |-> TRUE, entries |-> entries]
Unparseable(entries) == [exists |-> TRUE, valid |-> FALSE, entries |-> entries]

\* Others do not wire sloplint, and a file that is not there holds nothing.
AuthoredOK ==
  \A c \in Authored : c \in Config /\ Hook \notin Range(c.entries) /\ (~c.exists => c.entries = <<>>)
JobsOK == \A j \in Jobs : j.tools \in Seq(Tool) /\ j.dryRun \in BOOLEAN
BoundsOK == MaxFaults \in Nat /\ MaxEdits \in Nat

\* The comment is not a command.
BannerOK == Banner # Hook

ASSUME AuthoredAssumption == AuthoredOK
ASSUME JobsAssumption == JobsOK
ASSUME BoundsAssumption == BoundsOK
ASSUME BannerAssumption == BannerOK

VARIABLES
  job,       \* the command line
  markers,   \* tools that left a mark other than their configuration's place
  dirs,      \* tools whose configuration directory exists
  config,    \* the configuration of each tool
  pc,        \* "detect", "read", "plan", "mkdir", "open", "write", "exit", "killed"
  targets,   \* the tools to wire, in order
  at,        \* the target being wired
  existing,  \* what was read of its configuration
  said,      \* what was printed of each tool
  ok,        \* whether no error has ended the run
  authored,  \* (history) what others wrote last, and nobody but init since
  saved,     \* (history) tools whose configuration was saved since this run read it
  torn,      \* (history) tools whose configuration was truncated and not finished
  overtaken, \* (history) tools whose configuration init wrote over a save that it
             \* had not read
  faulty,    \* (history) a system call of this run failed
  faults, edits   \* how much of the bounds is used

progress == <<targets, at, existing, said, ok>>
history == <<authored, saved, torn, overtaken, faulty>>
vars == <<job, markers, dirs, config, pc, progress, history, faults, edits>>

-----------------------------------------------------------------------------
(* Tool::detect and Tool::plan. *)

Detected(t) == t \in markers \cup dirs \/ (t = "aider" /\ config[t].exists)

Mentions(c) == \E e \in Range(c.entries) : e \in {Hook, Banner} \cup Mention

\* (Mutant) Whether sloplint is there already is not asked.
NeverThere(t, c) == FALSE

AlreadyThere(t, c) == Mentions(c)

\* A configuration that cannot be merged into, and is not for Aider, is an error.
Unusable(t, c) == t \in JsonTool /\ c.exists /\ ~c.valid

\* (Mutant) Whether Aider is wired is asked after whether it has a configuration.
ManualFirst(t, c) ==
  CASE Unusable(t, c) -> "error"
    [] t = "aider" /\ c.exists -> "manual"
    [] ~Unusable(t, c) /\ t # "aider" /\ AlreadyThere(t, c) -> "already"
    [] OTHER -> IF job.dryRun THEN "would" ELSE "wired"

\* Aider's configuration is written when there is none, and else left to the user.
Plan(t, c) ==
  CASE Unusable(t, c) -> "error"
    [] ~Unusable(t, c) /\ AlreadyThere(t, c) -> "already"
    [] ~Unusable(t, c) /\ ~AlreadyThere(t, c) /\ t = "aider" /\ c.exists -> "manual"
    [] OTHER -> IF job.dryRun THEN "would" ELSE "wired"

\* (Mutant) The hook replaces the list it should be added to.
OnlyHook(t, c) == IF t = "aider" THEN <<Banner, Hook>> ELSE <<Hook>>

Merged(t, c) == IF t = "aider" THEN <<Banner, Hook>> ELSE Append(c.entries, Hook)

\* What is in a file whose writing stopped half way: JSON that does not parse,
\* or the comment without the command.
HalfWritten(t) == Unparseable(IF t = "aider" THEN <<Banner>> ELSE <<>>)

-----------------------------------------------------------------------------
(* The run. *)

NotStarted ==
  /\ targets = <<>> /\ at = 1 /\ existing = Absent
  /\ said = [t \in Tool |-> "nothing"] /\ ok = TRUE

Init ==
  /\ job \in Jobs
  /\ markers \in SUBSET Tool
  /\ config \in [Tool -> Authored \cup {Absent}]
  /\ dirs = {t \in JsonTool : config[t].exists}
  /\ pc = "detect"
  /\ NotStarted
  /\ authored = config /\ saved = {} /\ torn = {} /\ overtaken = {} /\ faulty = FALSE
  /\ faults = 0 /\ edits = 0

Target == targets[at]

\* The wanted tools, each once, in the order of their first mention.
InOrder(wanted, order) ==
  LET First(t) == Min({i \in DOMAIN order : order[i] = t})
  IN  {s \in SeqOf(Tool, 3) :
         Range(s) = wanted /\ \A i, j \in DOMAIN s : i < j => First(s[i]) < First(s[j])}

Wanted == IF job.tools = <<>> THEN {t \in Tool : Detected(t)} ELSE Range(job.tools)

Detect ==
  /\ pc = "detect"
  /\ targets' \in InOrder(Wanted, IF job.tools = <<>> THEN ALL ELSE job.tools)
  /\ pc' = "read"
  /\ UNCHANGED <<job, markers, dirs, config, at, existing, said, ok, history, faults, edits>>

Read ==
  /\ pc = "read"
  /\ at \in DOMAIN targets
  /\ existing' = config[Target]
  /\ saved' = saved \ {Target}
  /\ pc' = "plan"
  /\ UNCHANGED <<job, markers, dirs, config, targets, at, said, ok,
                 authored, torn, overtaken, faulty, faults, edits>>

\* Fail with an error: the run ends, and the tools that follow are not looked at.
Fail ==
  /\ ok' = FALSE
  /\ pc' = "exit"
  /\ UNCHANGED <<job, markers, targets, at, existing, said, authored, saved, edits>>

Fault == faults < MaxFaults /\ faults' = faults + 1 /\ faulty' = TRUE

CallFails ==
  /\ pc \in {"read", "mkdir", "open"}
  /\ at \in DOMAIN targets
  /\ Fault
  /\ Fail
  /\ UNCHANGED <<dirs, config, torn, overtaken>>

PlanFails ==
  /\ pc = "plan"
  /\ Plan(Target, existing) = "error"
  /\ Fail
  /\ UNCHANGED <<dirs, config, torn, overtaken, faulty, faults>>

Say(what) == said' = [said EXCEPT ![Target] = what]

\* (Mutant) The command is done when it finds a tool wired.
DoneWhenWired ==
  /\ pc = "plan"
  /\ Plan(Target, existing) \in {"already", "manual", "would"}
  /\ Say(Plan(Target, existing))
  /\ at' = IF Plan(Target, existing) = "already" THEN Len(targets) + 1 ELSE at + 1
  /\ pc' = "read"
  /\ UNCHANGED <<job, markers, dirs, config, targets, existing, ok, history, faults, edits>>

\* Nothing to write: the loop goes on with the next tool.
LeaveAlone ==
  /\ pc = "plan"
  /\ Plan(Target, existing) \in {"already", "manual", "would"}
  /\ Say(Plan(Target, existing))
  /\ at' = at + 1
  /\ pc' = "read"
  /\ UNCHANGED <<job, markers, dirs, config, targets, existing, ok, history, faults, edits>>

StartWriting ==
  /\ pc = "plan"
  /\ Plan(Target, existing) = "wired"
  /\ pc' = "mkdir"
  /\ UNCHANGED <<job, markers, dirs, config, progress, history, faults, edits>>

MakeDir ==
  /\ pc = "mkdir"
  /\ dirs' = dirs \cup ({Target} \cap JsonTool)
  /\ pc' = "open"
  /\ UNCHANGED <<job, markers, config, progress, history, faults, edits>>

\* fs::write creates or truncates the file, and then writes it.
Open ==
  /\ pc = "open"
  /\ config' = [config EXCEPT ![Target] = Unparseable(<<>>)]
  /\ torn' = torn \cup {Target}
  /\ pc' = "write"
  /\ UNCHANGED <<job, markers, dirs, progress, authored, saved, overtaken, faulty, faults, edits>>

Write ==
  /\ pc = "write"
  /\ config' = [config EXCEPT ![Target] = File(Merged(Target, existing))]
  /\ torn' = torn \ {Target}
  /\ overtaken' = overtaken \cup ({Target} \cap saved)
  /\ Say("wired")
  /\ at' = at + 1
  /\ pc' = "read"
  /\ UNCHANGED <<job, markers, dirs, targets, existing, ok,
                 authored, saved, faulty, faults, edits>>

WriteFails ==
  /\ pc = "write"
  /\ Fault
  /\ config' \in {config, [config EXCEPT ![Target] = HalfWritten(Target)]}
  /\ Fail
  /\ UNCHANGED <<dirs, torn, overtaken>>

Return ==
  /\ pc = "read"
  /\ at \notin DOMAIN targets
  /\ pc' = "exit"
  /\ UNCHANGED <<job, markers, dirs, config, progress, history, faults, edits>>

Run ==
  \/ Detect \/ Read \/ CallFails \/ PlanFails \/ LeaveAlone
  \/ StartWriting \/ MakeDir \/ Open \/ Write \/ WriteFails \/ Return

-----------------------------------------------------------------------------
(* Around the run. *)

Over == pc \in {"exit", "killed"}

Kill ==
  /\ ~Over
  /\ Fault
  /\ pc' = "killed"
  /\ UNCHANGED <<job, markers, dirs, config, progress, authored, saved, torn, overtaken,
                 edits>>

\* The user or the tool saves its configuration; saves are not torn, and none
\* falls between the open and the write of fs::write.
Save(t) ==
  /\ edits < MaxEdits
  /\ ~(pc = "write" /\ t = Target)
  /\ \E c \in Authored : config' = [config EXCEPT ![t] = c] /\ authored' = [authored EXCEPT ![t] = c]
  /\ dirs' = dirs \cup ({t} \cap JsonTool)
  /\ saved' = saved \cup {t}
  /\ torn' = torn \ {t} /\ overtaken' = overtaken \ {t}
  /\ edits' = edits + 1
  /\ UNCHANGED <<job, markers, pc, progress, faulty, faults>>

RunAgain ==
  /\ Over
  /\ pc' = "detect"
  /\ targets' = <<>> /\ at' = 1 /\ existing' = Absent
  /\ said' = [t \in Tool |-> "nothing"] /\ ok' = TRUE
  /\ saved' = {} /\ faulty' = FALSE
  /\ UNCHANGED <<job, markers, dirs, config, authored, torn, overtaken, faults, edits>>

Next == Run \/ Kill \/ (\E t \in Tool : Save(t)) \/ RunAgain

Spec == Init /\ [][Next]_vars

\* One thread that is never left waiting, and a user who runs it again.
FairSpec == Spec /\ WF_vars(Run) /\ WF_vars(RunAgain)

-----------------------------------------------------------------------------
(* Properties. *)

\* What merging may add to a configuration, at its end.
Added == {<<>>, <<Hook>>, <<Banner, Hook>>}

\* What others may have written into a configuration.
Version == Authored \cup {Absent}

\* Merging is additive: whatever is run, fails, is killed or is run again, a
\* configuration is a version such as others write, all of it, in order and
\* first, and all that follows is the hook.  It is the version they wrote last,
\* unless they saved it between the read and the write of a run, which puts back
\* what it read.  Nothing is claimed of a file whose writing was cut short.
NothingLost ==
  \A t \in Tool \ torn :
    \E version \in Version, added \in Added :
      /\ config[t].entries = version.entries \o added
      /\ t \notin overtaken => version = authored[t]

\* Merging is idempotent: however often the command runs, and after whatever
\* interruption, no configuration invokes the hook twice.
AtMostOneHook ==
  \A t \in Tool : \A i, j \in DOMAIN config[t].entries :
    config[t].entries[i] = Hook /\ config[t].entries[j] = Hook => i = j

\* What the run prints of a tool is so, as long as nobody saves over it.
SaidIsSo ==
  \A t \in Tool \ saved :
    /\ said[t] \in {"already", "wired"} => Mentions(config[t])
    /\ said[t] = "manual" => config[t].exists /\ ~Mentions(config[t])
    /\ said[t] = "would" => job.dryRun /\ ~Mentions(config[t]) /\ ~Unusable(t, config[t])

\* Run again after an interruption the command finishes what it left: from some
\* point on every wanted tool is wired or left to the user, unless one of them
\* has a configuration that is no use.
SettlesDown ==
  ~job.dryRun => <>[](\/ \A t \in Wanted : Mentions(config[t]) \/ (t = "aider" /\ config[t].exists)
                      \/ \E t \in Wanted : Unusable(t, config[t]))

=============================================================================

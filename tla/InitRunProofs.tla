---------------------------- MODULE InitRunProofs ----------------------------
(***************************************************************************)
(* Theorems about `init`, for any configurations and command lines, and    *)
(* any number of failed calls, kills, saves by others and further runs: no *)
(* configuration gets the hook twice, and what is printed of a tool is so. *)
(***************************************************************************)
EXTENDS InitRun, SequenceTheorems, WellFoundedInduction, TLAPS

\* A configuration that invokes the hook once at most.
Single(c) ==
  \A i, j \in DOMAIN c.entries : c.entries[i] = Hook /\ c.entries[j] = Hook => i = j

\* There is a configuration for each tool, and each tool is wired once.
Typed ==
  /\ job \in Jobs
  /\ config \in [Tool -> Config]
  /\ existing \in Config
  /\ said \in [Tool -> {"nothing", "already", "manual", "would", "wired"}]
  /\ at \in Nat
  /\ targets \in Seq(Tool)
  /\ \A i, j \in DOMAIN targets : targets[i] = targets[j] => i = j

\* Between the plan and the end of the write the plan is to write.
Decided ==
  /\ pc \in {"plan", "mkdir", "open", "write"} => at \in DOMAIN targets
  /\ pc \in {"mkdir", "open", "write"} => Plan(Target, existing) = "wired"

OneHook == \A t \in Tool : Single(config[t])

\* Nothing is said of a tool before its turn is over.
Unsaid ==
  /\ pc = "detect" => \A t \in Tool : said[t] = "nothing"
  /\ pc \in {"read", "plan", "mkdir", "open", "write"} =>
       \A i \in DOMAIN targets : at <= i => said[targets[i]] = "nothing"

\* The plan is made for the configuration that is there, unless it was saved since.
Fresh == pc = "plan" /\ Target \notin saved => existing = config[Target]

IInv == Typed /\ Decided /\ OneHook /\ Unsaid /\ Fresh /\ SaidIsSo

-----------------------------------------------------------------------------
(* Lemmas on the helpers. *)

\* The tools to wire are tools, and each is there once.
LEMMA EachOnce ==
  ASSUME NEW W, NEW order, DOMAIN order \subseteq Nat, W \subseteq Range(order),
         NEW s \in InOrder(W, order)
  PROVE  /\ s \in Seq(Tool)
         /\ \A i, j \in DOMAIN s : s[i] = s[j] => i = j
<1> DEFINE At(t) == {i \in DOMAIN order : order[i] = t}
           First(t) == Min(At(t))
           Less == OpToRel(<, Nat)
<1>1. /\ s \in SeqOf(Tool, 3) /\ Range(s) = W
      /\ \A i, j \in DOMAIN s : i < j => First(s[i]) < First(s[j])
  BY DEF InOrder
<1>2. PICK m \in 0..3 : s \in [1..m -> Tool]
  BY <1>1 DEF SeqOf
<1>3. ASSUME NEW i \in DOMAIN s PROVE First(s[i]) \in Nat
  <2>1. s[i] \in Range(order)
    BY <1>1 DEF Range
  <2>2. At(s[i]) # {} /\ At(s[i]) \subseteq Nat
    BY <2>1 DEF Range
  <2>3. PICK x \in At(s[i]) : \A y \in At(s[i]) : <<y, x>> \notin Less
    BY <2>2, WFMin, NatLessThanWellFounded
  <2> HIDE DEF At
  <2>4. ASSUME NEW y \in At(s[i]) PROVE x <= y
    <3>1. x \in Nat /\ y \in Nat
      BY <2>2
    <3>2. <<y, x>> \in Less <=> y < x
      BY <3>1 DEF OpToRel
    <3> HIDE DEF Less
    <3>3. <<y, x>> \notin Less
      BY <2>3
    <3>4. QED
      BY <3>1, <3>2, <3>3
  <2>5. QED
    BY <2>2, <2>4 DEF Min
<1> HIDE DEF First
<1>4. ASSUME NEW i \in DOMAIN s, NEW j \in DOMAIN s, i < j PROVE s[i] # s[j]
  BY <1>1, <1>3, <1>4
<1>5. QED
  BY <1>2, <1>4

\* What the plan is to write for has no hook yet, or is Aider's and absent.
LEMMA PlannedIsUnwired ==
  ASSUME NEW t, NEW c, Plan(t, c) = "wired"
  PROVE  ~Unusable(t, c) /\ ~Mentions(c) /\ ~(t = "aider" /\ c.exists) /\ ~job.dryRun
BY DEF Plan, AlreadyThere

\* Merging puts the hook in, once.
LEMMA MergedOnce ==
  ASSUME NEW t \in Tool, NEW c \in Config, ~Mentions(c)
  PROVE  File(Merged(t, c)) \in Config /\ Single(File(Merged(t, c))) /\ Mentions(File(Merged(t, c)))
<1>1. CASE t = "aider"
  <2>1. Merged(t, c) = <<Banner, Hook>>
    BY <1>1 DEF Merged
  <2>2. <<Banner, Hook>> \in Seq(Entry)
    BY DEF Entry
  <2>3. \A i \in 1..2 : <<Banner, Hook>>[i] = Hook => i = 2
    BY BannerAssumption DEF BannerOK
  <2>4. DOMAIN <<Banner, Hook>> = 1..2 /\ <<Banner, Hook>>[2] = Hook
    OBVIOUS
  <2>5. Single(File(Merged(t, c)))
    BY <2>1, <2>3, <2>4 DEF File, Single
  <2>6. Mentions(File(Merged(t, c)))
    BY <2>1, <2>4 DEF File, Mentions, Range
  <2>7. QED
    BY <2>1, <2>2, <2>5, <2>6 DEF File, Config
<1>2. CASE t # "aider"
  <2> DEFINE e == c.entries
             n == Len(e) + 1
  <2>1. e \in Seq(Entry) /\ Hook \in Entry
    BY DEF Config, Entry
  <2>2. Merged(t, c) = Append(e, Hook)
    BY <1>2 DEF Merged
  <2>3. \A i \in 1..Len(e) : e[i] # Hook
    <3>1. ASSUME NEW i \in 1..Len(e) PROVE e[i] \in Range(e)
      BY <2>1 DEF Range
    <3>2. Hook \notin Range(e)
      BY DEF Mentions
    <3>3. QED
      BY <3>1, <3>2
  <2>4. /\ Append(e, Hook) \in Seq(Entry) /\ DOMAIN Append(e, Hook) = 1..n
        /\ Append(e, Hook)[n] = Hook /\ n \in 1..n
        /\ \A i \in 1..n : i # n => Append(e, Hook)[i] # Hook
    BY <2>1, <2>3
  <2> HIDE DEF e, n
  <2>5. QED
    BY <2>2, <2>4 DEF File, Config, Single, Mentions, Range
<1>3. QED
  BY <1>1, <1>2

\* A truncated or half-written configuration has no hook.
LEMMA BrokenHasNone ==
  ASSUME NEW t
  PROVE  /\ Unparseable(<<>>) \in Config /\ Single(Unparseable(<<>>))
         /\ HalfWritten(t) \in Config /\ Single(HalfWritten(t))
<1>1. <<>> \in Seq(Entry) /\ <<Banner>> \in Seq(Entry)
  BY DEF Entry
<1>2. DOMAIN <<>> = {} /\ DOMAIN <<Banner>> = {1}
  OBVIOUS
<1>3. QED
  BY <1>1, <1>2 DEF Unparseable, HalfWritten, Config, Single

\* Nor does one that is absent or that others wrote.
LEMMA AuthoredHasNone ==
  ASSUME NEW c \in Authored \cup {Absent}
  PROVE  c \in Config /\ Single(c)
<1>1. CASE c \in Authored
  BY <1>1, AuthoredAssumption DEF AuthoredOK, Single, Range
<1>2. CASE c = Absent
  <2>1. <<>> \in Seq(Entry) /\ DOMAIN <<>> = {}
    OBVIOUS
  <2>2. QED
    BY <1>2, <2>1 DEF Absent, Config, Single
<1>3. QED
  BY <1>1, <1>2

-----------------------------------------------------------------------------
LEMMA InitHolds == Init => IInv
<1> SUFFICES ASSUME Init PROVE IInv
  OBVIOUS
<1>1. targets \in Seq(Tool) /\ DOMAIN targets = {}
  BY DEF Init, NotStarted
<1>2. Absent \in Config
  BY AuthoredHasNone
<1>3. config \in [Tool -> Config] /\ OneHook
  BY AuthoredHasNone DEF Init, OneHook
<1>4. Typed
  BY <1>1, <1>2, <1>3 DEF Init, NotStarted, Typed
<1>5. QED
  BY <1>3, <1>4 DEF Init, NotStarted, IInv, Decided, Unsaid, Fresh, SaidIsSo

(* One lemma for each action. *)

LEMMA DetectKeeps == IInv /\ Detect => IInv'
<1> SUFFICES ASSUME IInv, Detect PROVE IInv'
  OBVIOUS
<1> DEFINE order == IF job.tools = <<>> THEN ALL ELSE job.tools
<1>1. DOMAIN order \subseteq Nat /\ Wanted \subseteq Range(order)
  <2>1. ALL \in Seq(Tool)
    BY DEF ALL, Tool, Range
  <2>2. job.tools \in Seq(Tool)
    BY JobsAssumption DEF JobsOK, IInv, Typed
  <2>3. Wanted \subseteq Range(order)
    BY DEF Wanted, Tool
  <2>4. QED
    BY <2>1, <2>2, <2>3
<1>2. targets' \in InOrder(Wanted, order)
  BY DEF Detect
<1> HIDE DEF order
<1>3. /\ targets' \in Seq(Tool)
      /\ \A i, j \in DOMAIN targets' : targets'[i] = targets'[j] => i = j
  BY <1>1, <1>2, EachOnce
<1>4. Typed' /\ Decided' /\ OneHook' /\ Fresh'
  BY <1>3 DEF IInv, Typed, Decided, OneHook, Fresh, Detect
<1>5. Unsaid'
  BY <1>3 DEF IInv, Unsaid, Detect
<1>6. SaidIsSo'
  BY DEF IInv, SaidIsSo, Detect, history, Mentions, Unusable
<1>7. QED
  BY <1>4, <1>5, <1>6 DEF IInv

\* A tool that is read counts as not saved again, but nothing is said of it yet.
LEMMA ReadKeeps == IInv /\ Read => IInv'
<1> SUFFICES ASSUME IInv, Read PROVE IInv'
  OBVIOUS
<1>1. Target \in Tool /\ said[Target] = "nothing"
  BY DEF IInv, Typed, Unsaid, Read, Target
<1>2. Typed' /\ Decided' /\ OneHook' /\ Unsaid' /\ Fresh'
  BY <1>1 DEF IInv, Typed, Decided, OneHook, Unsaid, Fresh, Read, Target
<1>3. SaidIsSo'
  BY <1>1 DEF IInv, SaidIsSo, Read, Mentions, Unusable
<1>4. QED
  BY <1>2, <1>3 DEF IInv

\* Nothing that the invariant speaks of changes when the run ends early.
LEMMA EndingKeeps ==
  IInv /\ UNCHANGED <<job, config, targets, at, existing, said, saved>> /\ pc' \in {"exit", "killed"}
    => IInv'
<1> SUFFICES ASSUME IInv, pc' \in {"exit", "killed"},
                    UNCHANGED <<job, config, targets, at, existing, said, saved>>
             PROVE IInv'
  OBVIOUS
<1>1. Typed' /\ Decided' /\ OneHook' /\ Unsaid' /\ Fresh'
  BY DEF IInv, Typed, Decided, OneHook, Unsaid, Fresh
<1>2. SaidIsSo'
  BY DEF IInv, SaidIsSo, Mentions, Unusable
<1>3. QED
  BY <1>1, <1>2 DEF IInv

\* What is said is what the plan says of the configuration that is there.
LEMMA LeaveAloneKeeps == IInv /\ LeaveAlone => IInv'
<1> SUFFICES ASSUME IInv, LeaveAlone PROVE IInv'
  OBVIOUS
<1> DEFINE what == Plan(Target, existing)
<1>1. Target \in Tool /\ at \in DOMAIN targets
  BY DEF IInv, Typed, Decided, LeaveAlone, Target
<1>2. /\ what \in {"already", "manual", "would"}
      /\ said' = [said EXCEPT ![Target] = what]
      /\ UNCHANGED <<job, config, targets, existing, saved>>
      /\ at' = at + 1 /\ pc' = "read"
  BY DEF LeaveAlone, Say, history
<1>3. /\ what = "already" => Mentions(existing)
      /\ what = "manual" => existing.exists /\ ~Mentions(existing)
      /\ what = "would" => job.dryRun /\ ~Mentions(existing) /\ ~Unusable(Target, existing)
  BY DEF Plan, AlreadyThere
<1>4. Target \notin saved => existing = config[Target]
  BY DEF IInv, Fresh, LeaveAlone
<1> HIDE DEF what
<1>5. Typed'
  <2>1. said' \in [Tool -> {"nothing", "already", "manual", "would", "wired"}]
    BY <1>2 DEF IInv, Typed
  <2>2. QED
    BY <1>2, <2>1 DEF IInv, Typed
<1>6. Decided' /\ OneHook' /\ Fresh'
  BY <1>2 DEF IInv, Decided, OneHook, Fresh
<1>7. Unsaid'
  <2> SUFFICES ASSUME NEW i \in DOMAIN targets, at + 1 <= i PROVE said'[targets[i]] = "nothing"
    BY <1>2 DEF Unsaid
  <2>1. i \in Int /\ at \in Int /\ at <= i /\ i # at
    BY DEF IInv, Typed
  <2>2. targets[i] # Target /\ targets[i] \in Tool
    BY <1>1, <2>1 DEF IInv, Typed, Target
  <2>3. said[targets[i]] = "nothing"
    BY <2>1 DEF IInv, Unsaid, LeaveAlone
  <2>4. QED
    BY <1>2, <2>2, <2>3 DEF IInv, Typed
<1>8. SaidIsSo'
  <2> SUFFICES ASSUME NEW t \in Tool \ saved
               PROVE  /\ said'[t] \in {"already", "wired"} => Mentions(config[t])
                      /\ said'[t] = "manual" => config[t].exists /\ ~Mentions(config[t])
                      /\ said'[t] = "would" => job.dryRun /\ ~Mentions(config[t]) /\ ~Unusable(t, config[t])
    BY <1>2 DEF SaidIsSo, Mentions, Unusable
  <2>1. CASE t = Target
    BY <1>1, <1>2, <1>3, <1>4, <2>1 DEF IInv, Typed
  <2>2. CASE t # Target
    BY <1>2, <2>2 DEF IInv, Typed, SaidIsSo
  <2>3. QED
    BY <2>1, <2>2
<1>9. QED
  BY <1>5, <1>6, <1>7, <1>8 DEF IInv

\* Neither the plan nor the directory changes a configuration.
LEMMA StartWritingKeeps == IInv /\ StartWriting => IInv'
<1> SUFFICES ASSUME IInv, StartWriting PROVE IInv'
  OBVIOUS
<1>1. UNCHANGED <<job, config, targets, at, existing, said, saved>> /\ pc = "plan" /\ pc' = "mkdir"
  BY DEF StartWriting, progress, history
<1>2. Plan(Target, existing)' = Plan(Target, existing) /\ Plan(Target, existing) = "wired"
  BY <1>1 DEF Plan, Unusable, AlreadyThere, Mentions, Target, StartWriting
<1>3. Typed' /\ Decided' /\ OneHook' /\ Unsaid' /\ Fresh'
  BY <1>1, <1>2 DEF IInv, Typed, Decided, OneHook, Unsaid, Fresh
<1>4. SaidIsSo'
  BY <1>1 DEF IInv, SaidIsSo, Mentions, Unusable
<1>5. QED
  BY <1>3, <1>4 DEF IInv

LEMMA MakeDirKeeps == IInv /\ MakeDir => IInv'
<1> SUFFICES ASSUME IInv, MakeDir PROVE IInv'
  OBVIOUS
<1>1. UNCHANGED <<job, config, targets, at, existing, said, saved>> /\ pc = "mkdir" /\ pc' = "open"
  BY DEF MakeDir, progress, history
<1>2. Plan(Target, existing)' = Plan(Target, existing)
  BY <1>1 DEF Plan, Unusable, AlreadyThere, Mentions, Target
<1>3. Typed' /\ Decided' /\ OneHook' /\ Unsaid' /\ Fresh'
  BY <1>1, <1>2 DEF IInv, Typed, Decided, OneHook, Unsaid, Fresh
<1>4. SaidIsSo'
  BY <1>1 DEF IInv, SaidIsSo, Mentions, Unusable
<1>5. QED
  BY <1>3, <1>4 DEF IInv

\* A configuration may change under the run's hands, or at its end, to one with
\* at most one hook, when nothing has been said of it.
LEMMA ChangeKeepsSaid ==
  ASSUME Typed, SaidIsSo, NEW t \in Tool, NEW c, said[t] = "nothing",
         config' = [config EXCEPT ![t] = c], UNCHANGED <<job, said, saved>>
  PROVE  SaidIsSo'
<1> SUFFICES ASSUME NEW u \in Tool \ saved
             PROVE  /\ said[u] \in {"already", "wired"} => Mentions(config'[u])
                    /\ said[u] = "manual" => config'[u].exists /\ ~Mentions(config'[u])
                    /\ said[u] = "would" =>
                         job.dryRun /\ ~Mentions(config'[u]) /\ ~Unusable(u, config'[u])
  BY DEF SaidIsSo, Mentions, Unusable
<1>1. CASE u = t
  BY <1>1
<1>2. CASE u # t
  <2>1. config'[u] = config[u]
    BY <1>2 DEF Typed
  <2>2. QED
    BY <2>1 DEF SaidIsSo
<1>3. QED
  BY <1>1, <1>2

LEMMA ChangeKeepsOneHook ==
  ASSUME Typed, OneHook, NEW t \in Tool, NEW c \in Config, Single(c),
         config' = [config EXCEPT ![t] = c]
  PROVE  config' \in [Tool -> Config] /\ OneHook'
<1>1. \A u \in Tool : config'[u] = c \/ config'[u] = config[u]
  BY DEF Typed
<1>2. config' \in [Tool -> Config]
  BY DEF Typed
<1>3. \A u \in Tool : Single(config'[u])
  BY <1>1 DEF OneHook
<1>4. QED
  BY <1>2, <1>3 DEF OneHook, Single

LEMMA OpenKeeps == IInv /\ Open => IInv'
<1> SUFFICES ASSUME IInv, Open PROVE IInv'
  OBVIOUS
<1>1. /\ config' = [config EXCEPT ![Target] = Unparseable(<<>>)]
      /\ UNCHANGED <<job, targets, at, existing, said, saved>>
      /\ pc = "open" /\ pc' = "write"
  BY DEF Open, progress
<1>2. Target \in Tool /\ said[Target] = "nothing"
  BY <1>1 DEF IInv, Typed, Decided, Unsaid, Target
<1>3. SaidIsSo'
  BY <1>1, <1>2, ChangeKeepsSaid DEF IInv
<1>4. config' \in [Tool -> Config] /\ OneHook'
  BY <1>1, <1>2, BrokenHasNone, ChangeKeepsOneHook DEF IInv
<1>5. Plan(Target, existing)' = Plan(Target, existing)
  BY <1>1 DEF Plan, Unusable, AlreadyThere, Mentions, Target
<1>6. Typed' /\ Decided' /\ Unsaid' /\ Fresh'
  BY <1>1, <1>4, <1>5 DEF IInv, Typed, Decided, Unsaid, Fresh
<1>7. QED
  BY <1>3, <1>4, <1>6 DEF IInv

LEMMA WriteFailsKeeps == IInv /\ WriteFails => IInv'
<1> SUFFICES ASSUME IInv, WriteFails PROVE IInv'
  OBVIOUS
<1>1. /\ config' \in {config, [config EXCEPT ![Target] = HalfWritten(Target)]}
      /\ UNCHANGED <<job, targets, at, existing, said, saved>>
      /\ pc = "write" /\ pc' = "exit"
  BY DEF WriteFails, Fail
<1>2. CASE config' = config
  BY <1>1, <1>2, EndingKeeps
<1>3. CASE config' = [config EXCEPT ![Target] = HalfWritten(Target)]
  <2>1. Target \in Tool /\ said[Target] = "nothing"
    BY <1>1 DEF IInv, Typed, Decided, Unsaid, Target
  <2>2. SaidIsSo'
    BY <1>1, <1>3, <2>1, ChangeKeepsSaid DEF IInv
  <2>3. config' \in [Tool -> Config] /\ OneHook'
    BY <1>3, <2>1, BrokenHasNone, ChangeKeepsOneHook DEF IInv
  <2>4. Typed' /\ Decided' /\ Unsaid' /\ Fresh'
    BY <1>1, <2>3 DEF IInv, Typed, Decided, Unsaid, Fresh
  <2>5. QED
    BY <2>2, <2>3, <2>4 DEF IInv
<1>4. QED
  BY <1>1, <1>2, <1>3

\* What is written is what was read with the hook put in, and it had none.
LEMMA WriteKeeps == IInv /\ Write => IInv'
<1> SUFFICES ASSUME IInv, Write PROVE IInv'
  OBVIOUS
<1> DEFINE new == File(Merged(Target, existing))
<1>1. /\ config' = [config EXCEPT ![Target] = new]
      /\ said' = [said EXCEPT ![Target] = "wired"]
      /\ UNCHANGED <<job, targets, existing, saved>>
      /\ at' = at + 1 /\ pc = "write" /\ pc' = "read"
  BY DEF Write, Say
<1>2. at \in DOMAIN targets /\ Target \in Tool
  BY <1>1 DEF IInv, Typed, Decided, Target
<1>3. ~Mentions(existing)
  BY <1>1, PlannedIsUnwired DEF IInv, Decided
<1>4. new \in Config /\ Single(new) /\ Mentions(new)
  BY <1>2, <1>3, MergedOnce DEF IInv, Typed
<1> HIDE DEF new
<1>5. config' \in [Tool -> Config] /\ OneHook'
  BY <1>1, <1>2, <1>4, ChangeKeepsOneHook DEF IInv
<1>6. Typed'
  <2>1. said' \in [Tool -> {"nothing", "already", "manual", "would", "wired"}]
    BY <1>1 DEF IInv, Typed
  <2>2. QED
    BY <1>1, <1>5, <2>1 DEF IInv, Typed
<1>7. Decided' /\ Fresh'
  BY <1>1 DEF Decided, Fresh
<1>8. Unsaid'
  <2> SUFFICES ASSUME NEW i \in DOMAIN targets, at + 1 <= i PROVE said'[targets[i]] = "nothing"
    BY <1>1 DEF Unsaid
  <2>1. i \in Int /\ at \in Int /\ at <= i /\ i # at
    BY DEF IInv, Typed
  <2>2. targets[i] # Target /\ targets[i] \in Tool
    BY <1>2, <2>1 DEF IInv, Typed, Target
  <2>3. said[targets[i]] = "nothing"
    BY <1>1, <2>1 DEF IInv, Unsaid
  <2>4. QED
    BY <1>1, <2>2, <2>3 DEF IInv, Typed
<1>9. SaidIsSo'
  <2> SUFFICES ASSUME NEW t \in Tool \ saved
               PROVE  /\ said'[t] \in {"already", "wired"} => Mentions(config'[t])
                      /\ said'[t] = "manual" => config'[t].exists /\ ~Mentions(config'[t])
                      /\ said'[t] = "would" =>
                           job.dryRun /\ ~Mentions(config'[t]) /\ ~Unusable(t, config'[t])
    BY <1>1 DEF SaidIsSo, Mentions, Unusable
  <2>1. CASE t = Target
    <3>1. said'[t] = "wired" /\ config'[t] = new
      BY <1>1, <2>1 DEF IInv, Typed
    <3>2. QED
      BY <1>4, <3>1
  <2>2. CASE t # Target
    <3>1. said'[t] = said[t] /\ config'[t] = config[t]
      BY <1>1, <2>2 DEF IInv, Typed
    <3>2. QED
      BY <3>1 DEF IInv, SaidIsSo
  <2>3. QED
    BY <2>1, <2>2
<1>10. QED
  BY <1>5, <1>6, <1>7, <1>8, <1>9 DEF IInv

\* Others do not write the hook, and what they save is accounted for as saved.
LEMMA SaveKeeps == ASSUME NEW t \in Tool PROVE IInv /\ Save(t) => IInv'
<1> SUFFICES ASSUME IInv, Save(t) PROVE IInv'
  OBVIOUS
<1>1. PICK c \in Authored : config' = [config EXCEPT ![t] = c]
  BY DEF Save
<1>2. saved' = saved \cup {t} /\ UNCHANGED <<job, pc, targets, at, existing, said>>
  BY DEF Save, progress
<1>3. config' \in [Tool -> Config] /\ OneHook'
  BY <1>1, AuthoredHasNone, ChangeKeepsOneHook DEF IInv
<1>4. \A u \in Tool \ saved' : config'[u] = config[u]
  BY <1>1, <1>2 DEF IInv, Typed
<1>5. Plan(Target, existing)' = Plan(Target, existing)
  BY <1>2 DEF Plan, Unusable, AlreadyThere, Mentions, Target
<1>6. Typed' /\ Decided' /\ Unsaid'
  BY <1>2, <1>3, <1>5 DEF IInv, Typed, Decided, Unsaid
<1>7. Fresh'
  <2>1. pc = "plan" => Target \in Tool
    BY DEF IInv, Typed, Decided, Target
  <2>2. QED
    BY <1>2, <1>4, <2>1 DEF IInv, Fresh, Target
<1>8. SaidIsSo'
  <2> SUFFICES ASSUME NEW u \in Tool \ saved'
               PROVE  /\ said[u] \in {"already", "wired"} => Mentions(config'[u])
                      /\ said[u] = "manual" => config'[u].exists /\ ~Mentions(config'[u])
                      /\ said[u] = "would" =>
                           job.dryRun /\ ~Mentions(config'[u]) /\ ~Unusable(u, config'[u])
    BY <1>2 DEF SaidIsSo, Mentions, Unusable
  <2>1. config'[u] = config[u] /\ u \in Tool \ saved
    BY <1>2, <1>4
  <2>2. QED
    BY <2>1 DEF IInv, SaidIsSo
<1>9. QED
  BY <1>3, <1>6, <1>7, <1>8 DEF IInv

LEMMA RunAgainKeeps == IInv /\ RunAgain => IInv'
<1> SUFFICES ASSUME IInv, RunAgain PROVE IInv'
  OBVIOUS
<1>1. targets' \in Seq(Tool) /\ DOMAIN targets' = {} /\ at' \in Nat
  BY DEF RunAgain
<1>2. existing' \in Config
  BY AuthoredHasNone DEF RunAgain
<1>3. said' = [t \in Tool |-> "nothing"] /\ UNCHANGED <<job, config>> /\ pc' = "detect"
  BY DEF RunAgain
<1>4. Typed'
  BY <1>1, <1>2, <1>3 DEF IInv, Typed
<1>5. Decided' /\ OneHook' /\ Unsaid' /\ Fresh'
  BY <1>1, <1>3 DEF IInv, Decided, OneHook, Unsaid, Fresh
<1>6. SaidIsSo'
  BY <1>3 DEF SaidIsSo
<1>7. QED
  BY <1>4, <1>5, <1>6 DEF IInv

-----------------------------------------------------------------------------
\* The inductive invariant of `init`: each tool is wired once, in a turn in
\* which it had no hook, and nothing is said of it before its turn is over.
THEOREM Invariance == Spec => []IInv
<1>1. IInv /\ [Next]_vars => IInv'
  <2> SUFFICES ASSUME IInv, [Next]_vars PROVE IInv'
    OBVIOUS
  <2>1. CASE CallFails \/ PlanFails \/ Kill \/ Return
    <3>1. UNCHANGED <<job, config, targets, at, existing, said, saved>> /\ pc' \in {"exit", "killed"}
      BY <2>1 DEF CallFails, PlanFails, Kill, Return, Fail, progress, history
    <3>2. QED
      BY <3>1, EndingKeeps
  <2>2. CASE Detect \/ Read \/ LeaveAlone \/ StartWriting
    BY <2>2, DetectKeeps, ReadKeeps, LeaveAloneKeeps, StartWritingKeeps
  <2>3. CASE MakeDir \/ Open \/ Write \/ WriteFails
    BY <2>3, MakeDirKeeps, OpenKeeps, WriteKeeps, WriteFailsKeeps
  <2>4. CASE (\E t \in Tool : Save(t)) \/ RunAgain
    BY <2>4, SaveKeeps, RunAgainKeeps
  <2>5. CASE UNCHANGED vars
    <3>1. UNCHANGED <<job, config, targets, at, existing, said, saved, pc>>
      BY <2>5 DEF vars, progress, history
    <3>2. Plan(Target, existing)' = Plan(Target, existing)
      BY <3>1 DEF Plan, Unusable, AlreadyThere, Mentions, Target
    <3>3. Typed' /\ Decided' /\ OneHook' /\ Unsaid' /\ Fresh'
      BY <3>1, <3>2 DEF IInv, Typed, Decided, OneHook, Unsaid, Fresh, Target
    <3>4. SaidIsSo'
      BY <3>1 DEF IInv, SaidIsSo, Mentions, Unusable
    <3>5. QED
      BY <3>3, <3>4 DEF IInv
  <2>6. QED
    BY <2>1, <2>2, <2>3, <2>4, <2>5 DEF Next, Run
<1>2. QED
  BY InitHolds, <1>1, PTL DEF Spec

\* However often `init` runs, and wherever it was stopped, no configuration
\* invokes the hook twice.
THEOREM HookedOnce == Spec => []AtMostOneHook
<1>1. IInv => AtMostOneHook
  BY DEF IInv, OneHook, Single, AtMostOneHook
<1>2. QED
  BY Invariance, <1>1, PTL

\* What `init` has printed of a tool is so, until somebody saves its configuration.
THEOREM SayingIsTrue == Spec => []SaidIsSo
<1>1. IInv => SaidIsSo
  BY DEF IInv
<1>2. QED
  BY Invariance, <1>1, PTL

-----------------------------------------------------------------------------
(* Merging is additive. *)

\* A configuration holds a version others wrote, all of it, and at most the hook
\* after it.
Intact(c, version) == \E added \in Added : c.entries = version.entries \o added

\* A configuration init will not write: it is no use, has sloplint in it, or is
\* Aider's and there.
Settled(t, c) == Unusable(t, c) \/ Mentions(c) \/ (t = "aider" /\ c.exists)

Shaped ==
  /\ authored \in [Tool -> Version]
  /\ \A t \in Tool : ~config[t].exists => config[t].entries = <<>>
  /\ ~existing.exists => existing.entries = <<>>

\* A configuration that was cut short or put back to an older version is written
\* again only once somebody has saved it.
DamageIsSettled ==
  /\ torn \subseteq Tool /\ overtaken \subseteq Tool
  /\ pc = "write" => Target \in torn
  /\ \A t \in torn \cup overtaken : Settled(t, config[t])

\* What is merged into is a version others wrote, and the last one, unless they
\* have saved since.
ReadWhole ==
  pc \in {"plan", "mkdir", "open", "write"} /\ ~Settled(Target, existing) =>
    \E version \in Version :
      existing.entries = version.entries /\ (Target \notin saved => version = authored[Target])

Kept == Shaped /\ DamageIsSettled /\ ReadWhole /\ NothingLost

LEMMA VersionFacts ==
  Version \subseteq Config /\ \A v \in Version : ~v.exists => v.entries = <<>>
<1>1. Absent \in Config /\ Absent.entries = <<>>
  <2>1. <<>> \in Seq(Entry)
    OBVIOUS
  <2>2. QED
    BY <2>1 DEF Absent, Config
<1>2. QED
  BY <1>1, AuthoredAssumption DEF AuthoredOK, Version

\* A version without the hook after it holds just what others wrote.
LEMMA UnhookedIsVersion ==
  ASSUME NEW version \in Version, NEW d \in Config, Intact(d, version), ~Mentions(d)
  PROVE  d.entries = version.entries
<1> DEFINE e == version.entries
           c == d.entries
<1>1. e \in Seq(Entry) /\ c \in Seq(Entry) /\ Hook \notin Range(c)
  BY VersionFacts DEF Config, Mentions
<1>2. PICK added \in Added : c = e \o added
  BY DEF Intact
<1> HIDE DEF c, e
<1>3. <<Hook>> \in Seq(Entry) /\ <<Banner, Hook>> \in Seq(Entry)
  BY DEF Entry
<1>4. \A i \in 1..Len(c) : c[i] # Hook
  BY <1>1 DEF Range
<1>5. CASE added = <<>>
  BY <1>1, <1>2, <1>5 DEF c, e
<1>6. CASE added = <<Hook>>
  <2>1. Len(e) \in Nat /\ Len(c) = Len(e) + 1 /\ c[Len(e) + 1] = Hook
    BY <1>1, <1>2, <1>3, <1>6
  <2>2. QED
    BY <1>4, <2>1
<1>7. CASE added = <<Banner, Hook>>
  <2>1. Len(e) \in Nat /\ Len(c) = Len(e) + 2 /\ c[Len(e) + 2] = Hook
    BY <1>1, <1>2, <1>3, <1>7
  <2>2. QED
    BY <1>4, <2>1
<1>8. QED
  BY <1>2, <1>5, <1>6, <1>7 DEF Added

\* Steps that change no configuration keep what is known of them.
LEMMA KeptStays ==
  ASSUME Kept, pc' # "write", UNCHANGED <<config, authored, torn, overtaken>>,
         ~existing'.exists => existing'.entries = <<>>,
         ReadWhole'
  PROVE  Kept'
<1>1. Shaped' /\ NothingLost'
  BY DEF Kept, Shaped, NothingLost
<1>2. DamageIsSettled'
  BY DEF Kept, DamageIsSettled, Settled, Unusable, Mentions
<1>3. QED
  BY <1>1, <1>2 DEF Kept

\* A truncated or half-written configuration is settled; so is a merged one.
LEMMA WrittenIsSettled ==
  ASSUME NEW t \in Tool
  PROVE  /\ Unparseable(<<>>).exists /\ Settled(t, Unparseable(<<>>))
         /\ HalfWritten(t).exists /\ Settled(t, HalfWritten(t))
BY DEF Unparseable, HalfWritten, Settled, Unusable, JsonTool, Tool, ALL, Range

LEMMA KeptInit == Init => Kept
<1> SUFFICES ASSUME Init PROVE Kept
  OBVIOUS
<1>1. /\ authored = config /\ config \in [Tool -> Version] /\ torn = {} /\ overtaken = {} /\ pc = "detect"
      /\ existing = Absent
  BY DEF Init, NotStarted, Version
<1>2. Shaped
  BY <1>1, VersionFacts DEF Shaped, Absent
<1>3. ASSUME NEW t \in Tool PROVE config[t].entries = authored[t].entries \o <<>> /\ authored[t] \in Version
  BY <1>1, VersionFacts DEF Config
<1>4. NothingLost
  BY <1>3 DEF NothingLost, Added
<1>5. QED
  BY <1>1, <1>2, <1>4 DEF Kept, DamageIsSettled, ReadWhole

\* What is read and not settled is the version others wrote last.
LEMMA KeptOfRead == IInv /\ Kept /\ Read => Kept'
<1> SUFFICES ASSUME IInv, Kept, Read PROVE Kept'
  OBVIOUS
<1>1. /\ existing' = config[Target] /\ Target' = Target /\ pc' = "plan"
      /\ UNCHANGED <<config, authored, torn, overtaken>>
  BY DEF Read, Target
<1>2. Target \in Tool
  BY DEF Read, IInv, Typed, Target
<1>3. ASSUME ~Settled(Target, config[Target])
      PROVE  \E version \in Version : config[Target].entries = version.entries /\ version = authored[Target]
  <2>1. Target \notin torn /\ Target \notin overtaken /\ ~Mentions(config[Target])
    BY <1>3 DEF Kept, DamageIsSettled, Settled
  <2>2. authored[Target] \in Version /\ Intact(config[Target], authored[Target])
    BY <1>2, <2>1 DEF Kept, NothingLost, Intact
  <2>3. QED
    BY <1>2, <2>1, <2>2, UnhookedIsVersion DEF IInv, Typed
<1>4. Settled(Target, existing)' <=> Settled(Target, config[Target])
  BY <1>1 DEF Settled, Unusable, Mentions
<1>5. ReadWhole'
  BY <1>1, <1>3, <1>4 DEF ReadWhole
<1>6. QED
  BY <1>1, <1>2, <1>5, KeptStays DEF Kept, Shaped

LEMMA KeptOfPlanning ==
  ASSUME Kept, Detect \/ LeaveAlone \/ StartWriting \/ MakeDir \/ Return
  PROVE  Kept'
<1>1. CASE Detect \/ LeaveAlone \/ Return
  <2>1. pc' \in {"read", "exit"} /\ UNCHANGED <<config, authored, torn, overtaken, existing>>
    BY <1>1 DEF Detect, LeaveAlone, Return, progress, history
  <2>2. QED
    BY <2>1, KeptStays DEF Kept, Shaped, ReadWhole
<1>2. CASE StartWriting \/ MakeDir
  <2>1. /\ pc \in {"plan", "mkdir"} /\ pc' \in {"mkdir", "open"} /\ Target' = Target
        /\ UNCHANGED <<config, authored, torn, overtaken, existing, saved>>
    BY <1>2 DEF StartWriting, MakeDir, progress, history, Target
  <2>2. Settled(Target, existing)' <=> Settled(Target, existing)
    BY <2>1 DEF Settled, Unusable, Mentions
  <2>3. ReadWhole'
    BY <2>1, <2>2 DEF Kept, ReadWhole
  <2>4. QED
    BY <2>1, <2>3, KeptStays DEF Kept, Shaped
<1>3. QED
  BY <1>1, <1>2

\* A run that ends early leaves the configurations as they are.
LEMMA KeptOfEnding ==
  ASSUME Kept, CallFails \/ PlanFails \/ Kill
  PROVE  Kept'
<1>1. pc' \in {"exit", "killed"} /\ UNCHANGED <<config, authored, torn, overtaken, existing>>
  BY DEF CallFails, PlanFails, Kill, Fail, progress
<1>2. QED
  BY <1>1, KeptStays DEF Kept, Shaped, ReadWhole

\* One configuration is replaced by one that is there and settled.
LEMMA KeptOfChange ==
  ASSUME Typed, Kept, NEW t \in Tool, NEW c, c.exists, Settled(t, c), config' = [config EXCEPT ![t] = c],
         UNCHANGED <<authored, existing>>,
         torn' \subseteq torn \cup {t}, torn \ {t} \subseteq torn',
         overtaken' \subseteq overtaken \cup {t}, overtaken \ {t} \subseteq overtaken',
         t \notin torn' =>
           \E version \in Version : Intact(c, version) /\ (t \notin overtaken' => version = authored[t])
  PROVE  /\ Shaped' /\ NothingLost'
         /\ torn' \subseteq Tool /\ overtaken' \subseteq Tool
         /\ \A u \in torn' \cup overtaken' : Settled(u, config[u])'
<1>1. \A u \in Tool : config'[u] = IF u = t THEN c ELSE config[u]
  BY DEF Typed
<1>2. Shaped'
  BY <1>1 DEF Kept, Shaped
<1>3. NothingLost'
  <2>1. SUFFICES ASSUME NEW u \in Tool, u \notin torn'
                 PROVE  \E version \in Version, added \in Added :
                          /\ config'[u].entries = version.entries \o added
                          /\ u \notin overtaken' => version = authored[u]
    BY DEF NothingLost, Added, Version
  <2>2. CASE u = t
    BY <1>1, <2>1, <2>2 DEF Intact
  <2>3. CASE u # t
    <3>1. u \notin torn /\ config'[u] = config[u] /\ (u \in overtaken <=> u \in overtaken')
      BY <1>1, <2>1, <2>3
    <3>2. QED
      BY <3>1 DEF Kept, NothingLost
  <2>4. QED
    BY <2>2, <2>3
<1>4. torn' \subseteq Tool /\ overtaken' \subseteq Tool /\ \A u \in torn' \cup overtaken' : Settled(u, config'[u])
  BY <1>1 DEF Kept, DamageIsSettled
<1>5. QED
  BY <1>2, <1>3, <1>4 DEF Settled, Unusable, Mentions

\* Opening a file tears it, and says nothing of what was read of it.
LEMMA KeptOfOpen == IInv /\ Kept /\ Open => Kept'
<1> SUFFICES ASSUME IInv, Kept, Open PROVE Kept'
  OBVIOUS
<1>1. /\ config' = [config EXCEPT ![Target] = Unparseable(<<>>)] /\ torn' = torn \cup {Target}
      /\ UNCHANGED <<authored, existing, saved, overtaken>> /\ Target' = Target
      /\ pc = "open" /\ pc' = "write"
  BY DEF Open, progress, Target
<1>2. Target \in Tool
  BY <1>1 DEF IInv, Typed, Decided, Target
<1>3. /\ Shaped' /\ NothingLost' /\ torn' \subseteq Tool /\ overtaken' \subseteq Tool
      /\ \A u \in torn' \cup overtaken' : Settled(u, config[u])'
  BY <1>1, <1>2, WrittenIsSettled, KeptOfChange DEF IInv
<1>4. Settled(Target, existing)' <=> Settled(Target, existing)
  BY <1>1 DEF Settled, Unusable, Mentions, Open, progress
<1>5. ReadWhole'
  BY <1>1, <1>4 DEF Kept, ReadWhole
<1>6. QED
  BY <1>1, <1>3, <1>5 DEF Kept, DamageIsSettled

\* What is written is the version that was read, and the hook; it is the last
\* version, or the configuration is overtaken.
LEMMA KeptOfWrite == IInv /\ Kept /\ Write => Kept'
<1> SUFFICES ASSUME IInv, Kept, Write PROVE Kept'
  OBVIOUS
<1> DEFINE new == File(Merged(Target, existing))
<1>1. /\ config' = [config EXCEPT ![Target] = new]
      /\ torn' = torn \ {Target} /\ overtaken' = overtaken \cup ({Target} \cap saved)
      /\ UNCHANGED <<authored, existing>> /\ pc = "write" /\ pc' = "read"
  BY DEF Write
<1>2. Target \in Tool
  BY <1>1 DEF IInv, Typed, Decided, Target
<1>3. ~Mentions(existing) /\ ~(Target = "aider" /\ existing.exists) /\ ~Unusable(Target, existing)
  BY <1>1, PlannedIsUnwired DEF IInv, Decided
<1>4. new.exists /\ new.entries = Merged(Target, existing) /\ Settled(Target, new)
  <2>1. Mentions(new)
    BY <1>2, <1>3, MergedOnce DEF IInv, Typed
  <2>2. QED
    BY <2>1 DEF Settled, File
<1>5. PICK version \in Version :
        existing.entries = version.entries /\ (Target \notin saved => version = authored[Target])
  BY <1>1, <1>3 DEF Kept, ReadWhole, Settled
<1>6. Intact(new, version)
  <2>1. existing.entries = version.entries /\ existing.entries \in Seq(Entry)
    BY <1>5 DEF IInv, Typed, Config
  <2>2. CASE Target = "aider"
    <3>1. existing.entries = <<>> /\ Merged(Target, existing) = <<Banner, Hook>>
      BY <1>3, <2>2 DEF Kept, Shaped, Merged
    <3>2. <<>> \o <<Banner, Hook>> = <<Banner, Hook>>
      OBVIOUS
    <3>3. QED
      BY <1>4, <2>1, <3>1, <3>2 DEF Intact, Added
  <2>3. CASE Target # "aider"
    <3>1. Merged(Target, existing) = Append(existing.entries, Hook) /\ Hook \in Entry
      BY <2>3 DEF Merged, Entry
    <3>2. Append(existing.entries, Hook) = existing.entries \o <<Hook>>
      BY <2>1, <3>1, AppendIsConcat
    <3>3. QED
      BY <1>4, <2>1, <3>1, <3>2 DEF Intact, Added
  <2>4. QED
    BY <2>2, <2>3
<1> HIDE DEF new
<1>7. Target \notin overtaken' => version = authored[Target]
  BY <1>1, <1>5
<1>8. /\ Shaped' /\ NothingLost' /\ torn' \subseteq Tool /\ overtaken' \subseteq Tool
      /\ \A u \in torn' \cup overtaken' : Settled(u, config[u])'
  <2>1. \E v \in Version : Intact(new, v) /\ (Target \notin overtaken' => v = authored[Target])
    BY <1>6, <1>7
  <2>2. /\ torn' \subseteq torn \cup {Target} /\ torn \ {Target} \subseteq torn'
        /\ overtaken' \subseteq overtaken \cup {Target} /\ overtaken \ {Target} \subseteq overtaken'
    BY <1>1
  <2>3. QED
    BY <1>1, <1>2, <1>4, <2>1, <2>2, KeptOfChange DEF IInv
<1>9. QED
  BY <1>1, <1>8 DEF Kept, DamageIsSettled, ReadWhole

LEMMA KeptOfWriteFails == IInv /\ Kept /\ WriteFails => Kept'
<1> SUFFICES ASSUME IInv, Kept, WriteFails PROVE Kept'
  OBVIOUS
<1>1. /\ config' \in {config, [config EXCEPT ![Target] = HalfWritten(Target)]}
      /\ UNCHANGED <<authored, existing, torn, overtaken>> /\ pc = "write" /\ pc' = "exit"
  BY DEF WriteFails, Fail
<1>2. Target \in Tool /\ Target \in torn
  BY <1>1 DEF IInv, Typed, Decided, Target, Kept, DamageIsSettled
<1>3. CASE config' = config
  BY <1>1, <1>3, KeptStays DEF Kept, Shaped, ReadWhole
<1>4. CASE config' = [config EXCEPT ![Target] = HalfWritten(Target)]
  <2>1. /\ Shaped' /\ NothingLost' /\ torn' \subseteq Tool /\ overtaken' \subseteq Tool
        /\ \A u \in torn' \cup overtaken' : Settled(u, config[u])'
    BY <1>1, <1>2, <1>4, WrittenIsSettled, KeptOfChange DEF IInv
  <2>2. QED
    BY <1>1, <2>1 DEF Kept, DamageIsSettled, ReadWhole
<1>5. QED
  BY <1>1, <1>3, <1>4

\* What others save is what they wrote, whatever became of it before.
LEMMA KeptOfSave == ASSUME NEW t \in Tool PROVE IInv /\ Kept /\ Save(t) => Kept'
<1> SUFFICES ASSUME IInv, Kept, Save(t) PROVE Kept'
  OBVIOUS
<1>1. PICK c \in Authored : config' = [config EXCEPT ![t] = c] /\ authored' = [authored EXCEPT ![t] = c]
  BY DEF Save
<1>2. /\ c \in Version /\ c \in Config /\ (~c.exists => c.entries = <<>>)
      /\ saved' = saved \cup {t} /\ torn' = torn \ {t} /\ overtaken' = overtaken \ {t}
      /\ ~(pc = "write" /\ t = Target)
      /\ UNCHANGED <<pc, existing>> /\ Target' = Target
  BY VersionFacts DEF Version, Save, progress, Target
<1>3. \A u \in Tool : /\ config'[u] = IF u = t THEN c ELSE config[u]
                      /\ authored'[u] = IF u = t THEN c ELSE authored[u]
  BY <1>1 DEF IInv, Typed, Kept, Shaped
<1>4. Shaped'
  BY <1>1, <1>2, <1>3 DEF Kept, Shaped
<1>5. c.entries = c.entries \o <<>>
  BY <1>2 DEF Config
<1>6. NothingLost'
  <2>1. SUFFICES ASSUME NEW u \in Tool, u \notin torn'
                 PROVE  \E version \in Version, added \in Added :
                          /\ config'[u].entries = version.entries \o added
                          /\ u \notin overtaken' => version = authored'[u]
    BY DEF NothingLost, Added, Version
  <2>2. CASE u = t
    BY <1>2, <1>3, <1>5, <2>2 DEF Added
  <2>3. CASE u # t
    <3>1. u \notin torn /\ config'[u] = config[u] /\ authored'[u] = authored[u]
          /\ (u \in overtaken <=> u \in overtaken')
      BY <1>2, <1>3, <2>1, <2>3
    <3>2. QED
      BY <3>1 DEF Kept, NothingLost
  <2>4. QED
    BY <2>2, <2>3
<1>7. DamageIsSettled'
  BY <1>2, <1>3 DEF Kept, DamageIsSettled, Settled, Unusable, Mentions
<1>8. ReadWhole'
  <2>1. pc \in {"plan", "mkdir", "open", "write"} => Target \in Tool
    BY DEF IInv, Typed, Decided, Target
  <2>2. Settled(Target, existing)' <=> Settled(Target, existing)
    BY <1>2 DEF Settled, Unusable, Mentions, Save, progress
  <2>3. QED
    BY <1>2, <1>3, <2>1, <2>2 DEF Kept, ReadWhole
<1>9. QED
  BY <1>4, <1>6, <1>7, <1>8 DEF Kept

\* THEOREM: `init` is additive: however often it runs, and whatever fails, is
\* killed or is saved by others on the way, a configuration whose writing was not
\* cut short is a version others wrote, all of it, first and in order, with
\* nothing but the hook after it; and it is the version they wrote last, unless
\* they saved between the read and the write of a run.
THEOREM NothingIsLost == Spec => []NothingLost
<1>1. IInv /\ Kept /\ [Next]_vars => Kept'
  <2> SUFFICES ASSUME IInv, Kept, [Next]_vars PROVE Kept'
    OBVIOUS
  <2>1. CASE RunAgain
    <3>1. pc' = "detect" /\ UNCHANGED <<config, authored, torn, overtaken>> /\ existing'.entries = <<>>
      BY <2>1 DEF RunAgain, Absent
    <3>2. ReadWhole'
      BY <3>1 DEF ReadWhole
    <3>3. QED
      BY <3>1, <3>2, KeptStays
  <2>2. CASE UNCHANGED vars
    <3>1. UNCHANGED <<job, pc, config, authored, torn, overtaken, existing, saved, targets, at>>
      BY <2>2 DEF vars, progress, history
    <3>2. QED
      BY <3>1 DEF Kept, Shaped, DamageIsSettled, Settled, Unusable, Mentions, ReadWhole, NothingLost, Target
  <2>3. QED
    BY <2>1, <2>2, KeptOfRead, KeptOfPlanning, KeptOfEnding, KeptOfOpen, KeptOfWrite, KeptOfWriteFails, KeptOfSave
       DEF Next, Run
<1>2. Kept => NothingLost
  BY DEF Kept
<1>3. QED
  BY KeptInit, Invariance, <1>1, <1>2, PTL DEF Spec

=============================================================================

------------------------- MODULE ArchitectureProofs -------------------------
(***************************************************************************)
(* Theorems about the import graph, for every project, whatever its        *)
(* directories, files and imports, and for every choice of profiles: the   *)
(* graph of a profile loses no coupling, and the two views of `metrics`    *)
(* agree on how the modules spread over packages.  The edges are what the  *)
(* imports say, by the directories, and load-time cycles are cycles of     *)
(* statements that run at load time.                                       *)
(*                                                                         *)
(* And about the communities found in it, whatever its size: aggregation   *)
(* keeps the modularity of every partition, and local moving raises that   *)
(* of the import graph with each move.                                     *)
(***************************************************************************)
EXTENDS Architecture, FoldProofs, SequenceTheorems, TLAPS

\* What is in the graph as far as it has been built.
Indexed(i) == inputs[i].name.dotted \in DOMAIN index

EdgesPresent(i) ==
  \A t \in TargetsOf(inputs[i], ModuleSet(inputs)) :
    <<inputs[i].name.dotted, t>> \in Arrows(edges)

\* The index knows a node of every name, and names come from modules.
IndexOK ==
  /\ DOMAIN index \subseteq ModuleSet(inputs)
  /\ \A d \in DOMAIN index : index[d] \in 1..Len(nodes) /\ nodes[index[d]] = d
  /\ \A e \in edges : {e.from, e.to} \subseteq DOMAIN nodes

\* Modules the loops have passed are in the index, and then their imports
\* among the edges.
Progress ==
  /\ stage = "nodes" => \A i \in DOMAIN inputs : i < at => Indexed(i)
  /\ stage # "nodes" => \A i \in DOMAIN inputs : Indexed(i)
  /\ stage = "edges" => \A i \in DOMAIN inputs : i < at => EdgesPresent(i)
  /\ stage = "built" => \A i \in DOMAIN inputs : EdgesPresent(i)

\* File i is the last of its name among those of the scope before `end`.
LastBefore(i, end) ==
  /\ i \in DOMAIN inputs /\ i < end
  /\ \A j \in DOMAIN inputs :
       j < end /\ inputs[j].name.dotted = inputs[i].name.dotted => j <= i

\* A name is a package if the last file that has been added under it is one.
FlagsOK ==
  /\ DOMAIN isPackage = DOMAIN index
  /\ \A d \in DOMAIN index :
       \E i \in DOMAIN inputs :
         /\ LastBefore(i, IF stage = "nodes" THEN at ELSE Len(project) + 1)
         /\ inputs[i].name.dotted = d
         /\ isPackage[d] = inputs[i].name.isPackage

IInv ==
  /\ project \in Projects
  /\ inputs = InputsOf(project, scope)
  /\ stage \in {"nodes", "edges", "built"}
  /\ at \in Nat
  /\ nodes \in Seq(ModuleSet(inputs))
  /\ stage = "nodes" => edges = {}
  /\ IndexOK
  /\ FlagsOK
  /\ Progress

-----------------------------------------------------------------------------
(* Lemmas on resolution. *)

\* What resolves among more modules, to one of the fewer, also does among the
\* fewer: a name that a module of the fewer has is found there, and a name that
\* the more do not have, the fewer do not have either.
LEMMA ResolutionShrinks ==
  ASSUME NEW candidate, NEW more, NEW fewer \in SUBSET more
  PROVE  ResolveInternal(candidate, more) \cap fewer \subseteq ResolveInternal(candidate, fewer)
BY DEF ResolveInternal

\* The same for all imports of a module.
LEMMA TargetsShrink ==
  ASSUME NEW input, NEW more, NEW fewer \in SUBSET more
  PROVE  TargetsOf(input, more) \cap fewer \subseteq TargetsOf(input, fewer)
<1>1. ASSUME NEW i \in input.imports,
             NEW t \in Targets(input.name, i, more) \cap fewer
      PROVE  t \in Targets(input.name, i, fewer)
  <2>1. PICK c \in CandidateNames(input.name, i) : t \in ResolveInternal(c, more)
    BY DEF Targets
  <2>2. t \in ResolveInternal(c, fewer)
    BY <2>1, ResolutionShrinks
  <2>3. t # input.name.dotted
    BY DEF Targets
  <2>4. QED
    BY <2>2, <2>3 DEF Targets
<1>2. QED
  BY <1>1 DEF TargetsOf

\* Imports lead to modules of the set they are resolved in.
LEMMA TargetsAreModules ==
  ASSUME NEW input, NEW modules
  PROVE  TargetsOf(input, modules) \subseteq modules
<1>1. ASSUME NEW c PROVE ResolveInternal(c, modules) \subseteq modules
  BY DEF ResolveInternal
<1>2. QED
  BY <1>1 DEF TargetsOf, Targets

\* The modules of a scope are among those of the whole tree.
LEMMA ScopesShrink ==
  ASSUME NEW files, NEW s
  PROVE  ModuleSet(InputsOf(files, s)) \subseteq ModuleSet(InputsOf(files, AllFiles))
BY DEF ModuleSet, InputsOf, InScope

-----------------------------------------------------------------------------
(* The invariant. *)

LEMMA InitEstablishes == Init => IInv
<1> SUFFICES ASSUME Init PROVE IInv
  OBVIOUS
<1>1. /\ project \in Projects /\ inputs = InputsOf(project, scope)
      /\ stage = "nodes" /\ at = 1 /\ nodes = <<>> /\ index = <<>> /\ edges = {}
      /\ isPackage = <<>>
  BY DEF Init, GraphInit
<1>2. project \in Seq(ToSet(project))
  BY <1>1, ProjectsAreSequences
<1>3. DOMAIN inputs \subseteq 1..Len(project)
  BY <1>1, <1>2 DEF InputsOf
<1>4. IndexOK
  BY <1>1 DEF IndexOK
<1>5. Progress
  BY <1>1, <1>3 DEF Progress
<1>6. FlagsOK
  BY <1>1 DEF FlagsOK
<1>7. QED
  BY <1>1, <1>4, <1>5, <1>6 DEF IInv

LEMMA DomainOfInputs ==
  ASSUME IInv
  PROVE  /\ DOMAIN inputs \subseteq DOMAIN project
         /\ DOMAIN project = 1..Len(project) /\ Len(project) \in Nat
BY ProjectsAreSequences DEF IInv, InputsOf

LEMMA AddNodePreserves ==
  ASSUME IInv, AddNode PROVE IInv'
<1> DEFINE name == inputs[at].name
<1>1. /\ stage = "nodes" /\ stage' = stage /\ at \in DOMAIN inputs /\ at' = at + 1
      /\ nodes' = Append(nodes, name.dotted)
      /\ index' = Inserted(index, name.dotted, Len(nodes) + 1)
      /\ isPackage' = Inserted(isPackage, name.dotted, name.isPackage)
      /\ UNCHANGED <<project, scope, inputs, edges>>
  BY DEF AddNode
<1>2. name.dotted \in ModuleSet(inputs)
  BY <1>1 DEF ModuleSet
<1>3. /\ nodes' \in Seq(ModuleSet(inputs)) /\ Len(nodes') = Len(nodes) + 1
      /\ \A n \in 1..Len(nodes) : nodes'[n] = nodes[n]
      /\ nodes'[Len(nodes) + 1] = name.dotted
  BY <1>1, <1>2 DEF IInv
<1>4. /\ DOMAIN index' = DOMAIN index \cup {name.dotted}
      /\ index'[name.dotted] = Len(nodes) + 1
      /\ \A d \in DOMAIN index : d # name.dotted => index'[d] = index[d]
  BY <1>1 DEF Inserted
<1>5. IndexOK'
  <2>1. DOMAIN index' \subseteq ModuleSet(inputs')
    BY <1>1, <1>2, <1>4 DEF IInv, IndexOK
  <2>2. ASSUME NEW d \in DOMAIN index'
        PROVE  index'[d] \in 1..Len(nodes') /\ nodes'[index'[d]] = d
    <3>1. CASE d = name.dotted
      BY <3>1, <1>3, <1>4 DEF IInv
    <3>2. CASE d # name.dotted
      <4>1. d \in DOMAIN index /\ index'[d] = index[d]
        BY <3>2, <1>4
      <4>2. index[d] \in 1..Len(nodes) /\ nodes[index[d]] = d
        BY <4>1 DEF IInv, IndexOK
      <4>3. QED
        BY <4>1, <4>2, <1>3 DEF IInv
    <3>3. QED
      BY <3>1, <3>2
  <2>3. QED
    BY <2>1, <2>2, <1>1 DEF IndexOK, IInv
<1>6. Progress'
  <2>1. ASSUME NEW i \in DOMAIN inputs, i < at + 1 PROVE Indexed(i)'
    <3>1. DOMAIN inputs \subseteq Nat /\ at \in Nat
      BY DomainOfInputs DEF IInv
    <3>2. CASE i = at
      BY <3>2, <1>1, <1>4 DEF Indexed
    <3>3. CASE i < at
      <4>1. Indexed(i)
        BY <3>3, <1>1 DEF IInv, Progress
      <4>2. QED
        BY <4>1, <1>1, <1>4 DEF Indexed
    <3>4. QED
      BY <2>1, <3>1, <3>2, <3>3
  <2>2. QED
    BY <2>1, <1>1 DEF Progress
<1>7. FlagsOK'
  <2>1. DOMAIN isPackage' = DOMAIN index'
    BY <1>1 DEF Inserted, IInv, FlagsOK
  <2>2. DOMAIN inputs \subseteq Nat /\ at \in Nat
    BY DomainOfInputs DEF IInv
  <2>3. ASSUME NEW d \in DOMAIN index'
        PROVE  \E i \in DOMAIN inputs :
                 /\ LastBefore(i, at + 1)
                 /\ inputs[i].name.dotted = d
                 /\ isPackage'[d] = inputs[i].name.isPackage
    <3>1. CASE d = name.dotted
      <4>1. isPackage'[d] = name.isPackage
        BY <3>1, <1>1 DEF Inserted
      <4>2. LastBefore(at, at + 1)
        BY <1>1, <2>2 DEF LastBefore
      <4>3. QED
        BY <4>1, <4>2, <3>1, <1>1
    <3>2. CASE d # name.dotted
      <4>1. d \in DOMAIN index /\ isPackage'[d] = isPackage[d]
        BY <3>2, <1>1, <1>4 DEF Inserted, IInv, FlagsOK
      <4>2. PICK i \in DOMAIN inputs :
              /\ LastBefore(i, at)
              /\ inputs[i].name.dotted = d
              /\ isPackage[d] = inputs[i].name.isPackage
        BY <4>1, <1>1 DEF IInv, FlagsOK
      <4>3. LastBefore(i, at + 1)
        <5>1. i < at /\ i < at + 1
          BY <4>2, <2>2 DEF LastBefore
        <5>2. ASSUME NEW j \in DOMAIN inputs, j < at + 1, inputs[j].name.dotted = d
              PROVE  j <= i
          <6>1. j < at
            BY <5>2, <3>2, <2>2
          <6>2. QED
            BY <6>1, <5>2, <4>2 DEF LastBefore
        <5>3. QED
          BY <5>1, <5>2, <4>2 DEF LastBefore
      <4>4. QED
        BY <4>1, <4>2, <4>3
    <3>3. QED
      BY <3>1, <3>2
  <2>4. QED
    BY <2>1, <2>3, <1>1 DEF FlagsOK, LastBefore
<1>8. QED
  BY <1>1, <1>3, <1>5, <1>6, <1>7 DEF IInv

LEMMA SkipPreserves ==
  ASSUME IInv, Skip PROVE IInv'
<1>1. /\ stage \in {"nodes", "edges"} /\ at \notin DOMAIN inputs /\ at' = at + 1
      /\ UNCHANGED <<project, scope, inputs, stage, nodes, index, isPackage, edges>>
  BY DEF Skip
<1>2. \A i \in DOMAIN inputs : i < at + 1 => i < at
  BY <1>1, DomainOfInputs DEF IInv
<1>3. IndexOK'
  BY <1>1 DEF IInv, IndexOK, ModuleSet
<1>4. Progress'
  BY <1>1, <1>2 DEF IInv, Progress, Indexed, EdgesPresent, Arrows, ModuleSet
<1>5. FlagsOK'
  <2>1. at \in Nat /\ DOMAIN inputs \subseteq Nat
    BY DomainOfInputs DEF IInv
  <2>2. \A i \in DOMAIN inputs : LastBefore(i, at) => LastBefore(i, at + 1)
    BY <2>1, <1>2 DEF LastBefore
  <2>3. QED
    BY <2>2, <1>1 DEF IInv, FlagsOK, LastBefore
<1>6. QED
  BY <1>1, <1>3, <1>4, <1>5 DEF IInv, ModuleSet

LEMMA NodesDonePreserves ==
  ASSUME IInv, NodesDone PROVE IInv'
<1>1. /\ stage = "nodes" /\ stage' = "edges" /\ at > Len(project) /\ at' = 1
      /\ UNCHANGED <<project, scope, inputs, nodes, index, isPackage, edges>>
  BY DEF NodesDone
<1>2. \A i \in DOMAIN inputs : i < at /\ ~ i < 1
  BY <1>1, DomainOfInputs DEF IInv
<1>3. IndexOK'
  BY <1>1 DEF IInv, IndexOK, ModuleSet
<1>4. Progress'
  BY <1>1, <1>2 DEF IInv, Progress, Indexed
<1>5. FlagsOK'
  <2>1. \A i \in DOMAIN inputs : i < Len(project) + 1
    BY DomainOfInputs
  <2>2. \A i \in DOMAIN inputs : LastBefore(i, at) => LastBefore(i, Len(project) + 1)
    BY <2>1, <1>2 DEF LastBefore
  <2>3. QED
    BY <2>2, <1>1 DEF IInv, FlagsOK, LastBefore
<1>6. QED
  BY <1>1, <1>3, <1>4, <1>5 DEF IInv, ModuleSet

LEMMA AddEdgesPreserves ==
  ASSUME IInv, AddEdges PROVE IInv'
<1> DEFINE input == inputs[at]
           modules == ModuleSet(inputs)
           Edge(t) == [by |-> at, from |-> index[input.name.dotted], to |-> index[t],
                       kind |-> Merged(Leading(input, t, modules))]
<1>1. /\ stage = "edges" /\ stage' = stage /\ at \in DOMAIN inputs /\ at' = at + 1
      /\ edges' = edges \cup {Edge(t) : t \in TargetsOf(input, modules)}
      /\ UNCHANGED <<project, scope, inputs, nodes, index, isPackage>>
  BY DEF AddEdges
<1>2. \A d \in modules : index[d] \in 1..Len(nodes) /\ nodes[index[d]] = d
  BY <1>1 DEF IInv, IndexOK, Progress, Indexed, ModuleSet
<1>3. input.name.dotted \in modules
  BY <1>1 DEF ModuleSet
<1>4. TargetsOf(input, modules) \subseteq modules
  BY TargetsAreModules
<1>5. DOMAIN nodes = 1..Len(nodes)
  BY DEF IInv
<1>6. IndexOK'
  <2>1. \A e \in edges' : {e.from, e.to} \subseteq DOMAIN nodes
    BY <1>1, <1>2, <1>3, <1>4, <1>5 DEF IInv, IndexOK
  <2>2. ModuleSet(inputs') = ModuleSet(inputs)
    BY <1>1
  <2>3. IndexOK
    BY DEF IInv
  <2> HIDE DEF Edge, modules
  <2>4. QED
    BY <2>1, <2>2, <2>3, <1>1 DEF IndexOK
<1>7. Arrows(edges) \subseteq Arrows(edges')
  BY <1>1 DEF Arrows
<1>8. ASSUME NEW t \in TargetsOf(input, modules)
      PROVE  <<input.name.dotted, t>> \in Arrows(edges')
  <2>1. Edge(t) \in edges'
    BY <1>1
  <2>2. nodes[Edge(t).from] = input.name.dotted /\ nodes[Edge(t).to] = t
    BY <1>2, <1>3, <1>4
  <2>3. QED
    BY <2>1, <2>2 DEF Arrows
<1>9. Progress'
  <2>1. ASSUME NEW i \in DOMAIN inputs, i < at + 1 PROVE EdgesPresent(i)'
    <3>1. DOMAIN inputs \subseteq Nat /\ at \in Nat
      BY DomainOfInputs DEF IInv
    <3>2. CASE i = at
      <4>1. inputs'[i] = input /\ ModuleSet(inputs') = modules
        BY <3>2, <1>1
      <4>2. Arrows(edges)' = Arrows(edges')
        BY <1>1 DEF Arrows
      <4> HIDE DEF input, modules
      <4>3. QED
        BY <4>1, <4>2, <1>8 DEF EdgesPresent
    <3>3. CASE i < at
      <4>1. EdgesPresent(i)
        BY <3>3, <1>1 DEF IInv, Progress
      <4>2. QED
        BY <4>1, <1>1, <1>7 DEF EdgesPresent, Arrows, ModuleSet
    <3>4. QED
      BY <2>1, <3>1, <3>2, <3>3
  <2>2. QED
    BY <2>1, <1>1 DEF IInv, Progress, Indexed
<1>10. FlagsOK'
  BY <1>1 DEF IInv, FlagsOK, LastBefore
<1>11. QED
  BY <1>1, <1>6, <1>9, <1>10 DEF IInv, ModuleSet

LEMMA BuiltPreserves ==
  ASSUME IInv, Built PROVE IInv'
<1>1. /\ stage = "edges" /\ stage' = "built" /\ at > Len(project)
      /\ UNCHANGED <<project, scope, inputs, at, nodes, index, isPackage, edges>>
  BY DEF Built
<1>2. \A i \in DOMAIN inputs : i < at
  BY <1>1, DomainOfInputs DEF IInv
<1>3. IndexOK'
  BY <1>1 DEF IInv, IndexOK, ModuleSet
<1>4. Progress'
  BY <1>1, <1>2 DEF IInv, Progress, Indexed, EdgesPresent, Arrows, ModuleSet
<1>5. FlagsOK'
  BY <1>1 DEF IInv, FlagsOK, LastBefore
<1>6. QED
  BY <1>1, <1>3, <1>4, <1>5 DEF IInv, ModuleSet

LEMMA StutterPreserves ==
  ASSUME IInv, UNCHANGED graphVars PROVE IInv'
<1>1. UNCHANGED <<project, scope, inputs, stage, at, nodes, index, isPackage, edges>>
  BY DEF graphVars
<1>2. IndexOK'
  BY <1>1 DEF IInv, IndexOK, ModuleSet
<1>3. FlagsOK'
  BY <1>1 DEF IInv, FlagsOK, LastBefore
<1>4. Progress'
  BY <1>1 DEF IInv, Progress, Indexed, EdgesPresent, Arrows, ModuleSet
<1>5. QED
  BY <1>1, <1>2, <1>3, <1>4 DEF IInv, ModuleSet

LEMMA StepsPreserve == IInv /\ [Next]_vars => IInv'
<1> SUFFICES ASSUME IInv, [Next]_vars PROVE IInv'
  OBVIOUS
<1>1. CASE GraphNext
  BY <1>1, AddNodePreserves, SkipPreserves, NodesDonePreserves, AddEdgesPreserves,
     BuiltPreserves DEF GraphNext
<1>2. CASE UNCHANGED graphVars
  BY <1>2, StutterPreserves
<1>3. QED
  BY <1>1, <1>2 DEF Next, Analyze, Finished, vars

LEMMA Invariance == Spec => []IInv
BY InitEstablishes, StepsPreserve, PTL DEF Spec

-----------------------------------------------------------------------------
(* A profile's graph loses no coupling: when it is handed over, every edge   *)
(* of the whole tree between two modules of the profile is in it, although   *)
(* each import was resolved against the profile's modules alone.             *)
THEOREM ProfilesLoseNoCoupling == Spec => []NoCouplingLost
<1>1. ASSUME IInv PROVE NoCouplingLost
  <2> DEFINE whole == ModuleSet(InputsOf(project, AllFiles))
             modules == ModuleSet(inputs)
  <2> SUFFICES ASSUME GraphReady, NEW i \in DOMAIN inputs,
                      NEW to \in TargetsOf(inputs[i], whole) \cap modules
               PROVE  <<inputs[i].name.dotted, to>> \in Arrows(edges)
    BY DEF NoCouplingLost
  <2>1. modules \in SUBSET whole
    BY <1>1, ScopesShrink DEF IInv
  <2>2. to \in TargetsOf(inputs[i], modules)
    BY <2>1, TargetsShrink
  <2>3. EdgesPresent(i)
    BY <1>1 DEF IInv, Progress, GraphReady
  <2>4. QED
    BY <2>2, <2>3 DEF EdgesPresent
<1>2. QED
  BY Invariance, <1>1, PTL

(* The text view and the JSON feed agree on the spread of modules over       *)
(* packages: `last writer wins' in the map of the one as in the node index   *)
(* of the other.                                                             *)
THEOREM TextAlwaysMatchesJson == Spec => []TextMatchesJson
<1>1. ASSUME IInv, GraphReady PROVE TextConcentration = GraphConcentration
  <2> DEFINE Text(d) == PackageOf(d, inputs[LastWriter(d)].name.isPackage)
             D == DOMAIN index
  <2>1. stage = "built" /\ DOMAIN inputs \subseteq 1..Len(project) /\ Len(project) \in Nat
    BY <1>1, DomainOfInputs DEF GraphReady
  <2>2. ModuleSet(inputs) = D
    <3>1. D \subseteq ModuleSet(inputs)
      BY <1>1 DEF IInv, IndexOK
    <3>2. \A i \in DOMAIN inputs : inputs[i].name.dotted \in D
      BY <1>1, <2>1 DEF IInv, Progress, Indexed
    <3>3. QED
      BY <3>1, <3>2 DEF ModuleSet
  <2>3. ASSUME NEW d \in D PROVE Text(d) = PackageOfNode(d)
    <3>1. PICK i \in DOMAIN inputs :
            /\ LastBefore(i, Len(project) + 1)
            /\ inputs[i].name.dotted = d
            /\ isPackage[d] = inputs[i].name.isPackage
      BY <1>1, <2>1 DEF IInv, FlagsOK
    <3> DEFINE Writers == {j \in DOMAIN inputs : inputs[j].name.dotted = d}
    <3>2. i \in Writers /\ Writers \subseteq Int /\ \A j \in Writers : i >= j
      BY <3>1, <2>1 DEF LastBefore
    <3>3. \A x \in Writers : (\A j \in Writers : x >= j) => x = i
      BY <3>2
    <3>4. Max(Writers) = i
      <4> HIDE DEF Writers
      <4>1. QED
        BY <3>2, <3>3 DEF Max
    <3>5. LastWriter(d) = i
      BY <3>4 DEF LastWriter
    <3>6. QED
      BY <3>1, <3>5 DEF PackageOfNode
  <2>4. [d \in ModuleSet(inputs) |-> Text(d)] = [d \in DOMAIN index |-> PackageOfNode(d)]
    BY <2>2, <2>3
  <2>5. QED
    BY <2>4 DEF TextConcentration, GraphConcentration
<1>2. IInv => TextMatchesJson
  BY <1>1 DEF TextMatchesJson
<1>3. QED
  BY Invariance, <1>2, PTL

-----------------------------------------------------------------------------
(* The edges are the imports.  First names: a file's dotted name is its      *)
(* location without its source root, so a search through directories and one *)
(* through names find the same files.                                        *)

\* Where a file is, as the components of its path, and what of it is below the
\* source root.
Location(f) == f.dir \o (IF IsInit(f) THEN <<>> ELSE <<f.stem>>)
RootLen(f) == SourceRoot(project, f.dir)
Path(f) == SubSeq(Location(f), RootLen(f) + 1, Len(Location(f)))

\* The directories below the root n of `dir` are packages, and the root is none.
IsRoot(n, dir) ==
  /\ n \in 0..Len(dir)
  /\ n = 0 \/ Prefix(dir, n) \notin PackageDirs(project)
  /\ \A m \in (n + 1)..Len(dir) : Prefix(dir, m) \in PackageDirs(project)

\* A prefix has the length asked for and the elements of the whole.
LEMMA PrefixFacts ==
  ASSUME NEW s \in Seq(STRING), NEW n \in 0..Len(s)
  PROVE  /\ Prefix(s, n) \in Seq(STRING) /\ Len(Prefix(s, n)) = n
         /\ \A i \in 1..n : Prefix(s, n)[i] = s[i]
<1>1. Len(s) \in Nat /\ \A i \in 1..Len(s) : s[i] \in STRING
  BY LenProperties, ElementOfSeq
<1>2. \A i \in 1..n : s[i] \in STRING
  BY <1>1
<1>3. /\ SubSeq(s, 1, n) \in Seq(STRING) /\ Len(SubSeq(s, 1, n)) = IF 1 <= n THEN n - 1 + 1 ELSE 0
      /\ \A i \in 1..(n - 1 + 1) : SubSeq(s, 1, n)[i] = s[1 + i - 1]
  BY <1>2, SubSeqProperties
<1>4. QED
  BY <1>1, <1>3 DEF Prefix

\* Sequences that agree on their first n elements have the same prefix.
LEMMA PrefixesEqual ==
  ASSUME NEW s \in Seq(STRING), NEW t \in Seq(STRING), NEW n \in 0..Len(s), n <= Len(t),
         \A i \in 1..n : s[i] = t[i]
  PROVE  Prefix(s, n) = Prefix(t, n)
<1>1. Len(s) \in Nat /\ Len(t) \in Nat /\ n \in 0..Len(t)
  BY LenProperties
<1>2. /\ Prefix(s, n) \in Seq(STRING) /\ Len(Prefix(s, n)) = n
      /\ \A i \in 1..n : Prefix(s, n)[i] = s[i]
  BY PrefixFacts
<1>3. /\ Prefix(t, n) \in Seq(STRING) /\ Len(Prefix(t, n)) = n
      /\ \A i \in 1..n : Prefix(t, n)[i] = t[i]
  BY <1>1, PrefixFacts
<1>4. QED
  BY <1>2, <1>3, SeqEqual

\* What SourceRoot finds is the root: all directories below it are packages.
LEMMA RootFacts ==
  ASSUME NEW dir \in Seq(STRING) PROVE IsRoot(SourceRoot(project, dir), dir)
<1> DEFINE S == {0} \cup {n \in 0..Len(dir) : Prefix(dir, n) \notin PackageDirs(project)}
           r == Max(S)
<1>1. Len(dir) \in Nat
  BY LenProperties
<1>2. S \subseteq 0..Len(dir) /\ 0 \in S
  BY <1>1
<1>3. r \in S /\ \A y \in S : y <= r
  <2> HIDE DEF S
  <2>1. S \subseteq 0..Len(dir) /\ S # {}
    BY <1>2
  <2>2. QED
    BY <1>1, <2>1, MaxIsGreatest
<1>4. \A m \in (r + 1)..Len(dir) : Prefix(dir, m) \in PackageDirs(project)
  BY <1>1, <1>2, <1>3
<1>5. SourceRoot(project, dir) = r
  BY DEF SourceRoot
<1>6. QED
  BY <1>2, <1>3, <1>4, <1>5 DEF IsRoot

\* There is one root only on the way to a directory.
LEMMA RootIsUnique ==
  ASSUME NEW dir \in Seq(STRING), NEW n, IsRoot(n, dir)
  PROVE  SourceRoot(project, dir) = n
<1> DEFINE r == SourceRoot(project, dir)
<1>1. IsRoot(r, dir)
  BY RootFacts
<1> HIDE DEF r
<1>2. Len(dir) \in Nat
  BY LenProperties
<1>3. r = n
  BY <1>1, <1>2 DEF IsRoot
<1>4. QED
  BY <1>3 DEF r

\* What is assumed of the files of a project.
LEMMA FilesFacts ==
  ASSUME project \in Projects, NEW f \in ToSet(project)
  PROVE  /\ f.dir \in Seq(STRING) /\ f.stem \in STRING /\ Len(f.dir) \in Nat
         /\ \A k \in DOMAIN f.imports : StatementOK(f.imports[k])
         /\ ToSet(f.imports) = {f.imports[k] : k \in DOMAIN f.imports}
<1>1. FileOK(f)
  BY FilesAssumption
<1>2. \A k \in DOMAIN f.imports : f.imports[k] \in ToSet(f.imports)
  BY DEF ToSet
<1>3. QED
  BY <1>1, <1>2, LenProperties DEF FileOK, ToSet

\* The root, the location and the name of a file, element by element.
LEMMA PathFacts ==
  ASSUME project \in Projects, NEW f \in ToSet(project)
  PROVE  LET n == RootLen(f)
             len == Len(Location(f))
         IN  /\ IsRoot(n, f.dir)
             /\ Location(f) \in Seq(STRING)
             /\ len = Len(f.dir) + (IF IsInit(f) THEN 0 ELSE 1)
             /\ \A i \in 1..Len(f.dir) : Location(f)[i] = f.dir[i]
             /\ ~IsInit(f) => Location(f)[len] = f.stem
             /\ RootOf(f) \in Seq(STRING) /\ Len(RootOf(f)) = n
             /\ \A i \in 1..n : RootOf(f)[i] = f.dir[i]
             /\ Path(f) \in Seq(STRING) /\ Len(Path(f)) = len - n
             /\ \A i \in 1..(len - n) : Path(f)[i] = Location(f)[n + i]
<1> DEFINE n == RootLen(f)
           L == Location(f)
           last == IF IsInit(f) THEN <<>> ELSE <<f.stem>>
<1>1. f.dir \in Seq(STRING) /\ f.stem \in STRING /\ Len(f.dir) \in Nat
  BY FilesFacts
<1>2. last \in Seq(STRING) /\ Len(last) = (IF IsInit(f) THEN 0 ELSE 1) /\ (~IsInit(f) => last[1] = f.stem)
  <2>1. CASE IsInit(f)
    BY <2>1
  <2>2. CASE ~IsInit(f)
    <3>1. last = <<f.stem>>
      BY <2>2
    <3> HIDE DEF last
    <3>2. QED
      BY <1>1, <2>2, <3>1
  <2>3. QED
    BY <2>1, <2>2
<1>3. /\ f.dir \o last \in Seq(STRING) /\ Len(f.dir \o last) = Len(f.dir) + Len(last)
      /\ \A i \in 1..(Len(f.dir) + Len(last)) :
           (f.dir \o last)[i] = IF i <= Len(f.dir) THEN f.dir[i] ELSE last[i - Len(f.dir)]
  <2> HIDE DEF last
  <2>1. QED
    BY <1>1, <1>2, ConcatProperties
<1>4. L = f.dir \o last
  BY DEF Location
<1> HIDE DEF last, L
<1>5. /\ L \in Seq(STRING) /\ Len(L) = Len(f.dir) + (IF IsInit(f) THEN 0 ELSE 1)
      /\ \A i \in 1..Len(f.dir) : L[i] = f.dir[i]
      /\ ~IsInit(f) => L[Len(L)] = f.stem
  <2>1. L \in Seq(STRING) /\ Len(L) = Len(f.dir) + (IF IsInit(f) THEN 0 ELSE 1)
    BY <1>2, <1>3, <1>4
  <2>2. \A i \in 1..Len(f.dir) : L[i] = f.dir[i]
    BY <1>1, <1>2, <1>3, <1>4
  <2>3. ~IsInit(f) => L[Len(L)] = f.stem
    <3> SUFFICES ASSUME ~IsInit(f) PROVE L[Len(f.dir) + 1] = last[1]
      BY <1>2, <2>1
    <3>1. Len(f.dir) + 1 \in 1..(Len(f.dir) + Len(last)) /\ Len(f.dir) + 1 - Len(f.dir) = 1 /\ ~(Len(f.dir) + 1 <= Len(f.dir))
      BY <1>1, <1>2
    <3>2. QED
      BY <1>3, <1>4, <3>1
  <2>4. QED
    BY <2>1, <2>2, <2>3
<1> DEFINE len == Len(L)
<1>len. len \in Nat /\ Len(f.dir) <= len
  <2>1. CASE IsInit(f)
    BY <1>1, <1>5, <2>1
  <2>2. CASE ~IsInit(f)
    BY <1>1, <1>5, <2>2
  <2>3. QED
    BY <2>1, <2>2
<1>6. IsRoot(n, f.dir)
  BY <1>1, RootFacts DEF RootLen
<1>7. n \in 0..Len(f.dir)
  BY <1>6 DEF IsRoot
<1> HIDE DEF n
<1>8. /\ Prefix(f.dir, n) \in Seq(STRING) /\ Len(Prefix(f.dir, n)) = n
      /\ \A i \in 1..n : Prefix(f.dir, n)[i] = f.dir[i]
  BY <1>1, <1>7, PrefixFacts
<1>9. RootOf(f) = Prefix(f.dir, n)
  BY DEF RootOf, n, RootLen
<1>10. \A i \in (n + 1)..Len(L) : L[i] \in STRING
  <2>1. \A i \in 1..Len(L) : L[i] \in STRING
    BY <1>5, ElementOfSeq
  <2>2. (n + 1)..Len(L) \subseteq 1..Len(L)
    <3> HIDE DEF len
    <3>1. (n + 1)..len \subseteq 1..len
      BY <1>1, <1>len, <1>7
    <3>2. QED
      BY <3>1 DEF len
  <2>3. QED
    BY <2>1, <2>2
<1>11. /\ SubSeq(L, n + 1, Len(L)) \in Seq(STRING)
       /\ Len(SubSeq(L, n + 1, Len(L))) = IF n + 1 <= Len(L) THEN Len(L) - (n + 1) + 1 ELSE 0
       /\ \A i \in 1..(Len(L) - (n + 1) + 1) : SubSeq(L, n + 1, Len(L))[i] = L[n + 1 + i - 1]
  <2>1. n + 1 \in Int /\ Len(L) \in Int
    BY <1>1, <1>5, <1>7
  <2>2. QED
    BY <1>10, <2>1, SubSeqProperties
<1>12. Path(f) = SubSeq(L, n + 1, Len(L))
  BY DEF Path, n, L
<1>13. /\ Path(f) \in Seq(STRING) /\ Len(Path(f)) = Len(L) - n
       /\ \A i \in 1..(Len(L) - n) : Path(f)[i] = L[n + i]
  <2>1. \A i \in 1..(Len(L) - n) : n + 1 + i - 1 = n + i
    BY <1>1, <1>5, <1>7
  <2>2. /\ Len(L) - (n + 1) + 1 = Len(L) - n
        /\ (IF n + 1 <= Len(L) THEN Len(L) - (n + 1) + 1 ELSE 0) = Len(L) - n
    <3> HIDE DEF len
    <3>1. /\ len - (n + 1) + 1 = len - n
          /\ (IF n + 1 <= len THEN len - (n + 1) + 1 ELSE 0) = len - n
      BY <1>1, <1>len, <1>7
    <3>2. QED
      BY <3>1 DEF len
  <2>3. QED
    BY <1>11, <1>12, <2>1, <2>2, Zenon
<1>14. QED
  BY <1>5, <1>6, <1>8, <1>9, <1>13 DEF n, L

\* The location of g is what `path` leads to from the first k directories of f.
Leads(f, k, path, g) ==
  /\ Len(Location(g)) = k + Len(path)
  /\ \A i \in 1..k : Location(g)[i] = f.dir[i]
  /\ \A i \in 1..Len(path) : Location(g)[k + i] = path[i]

\* The locations FoundAt compares, element by element.
LEMMA LeadsIsLocation ==
  ASSUME project \in Projects, NEW f \in ToSet(project), NEW g \in ToSet(project),
         NEW k \in 0..Len(f.dir), NEW path \in Seq(STRING)
  PROVE  Location(g) = Prefix(f.dir, k) \o path <=> Leads(f, k, path, g)
<1> DEFINE start == Prefix(f.dir, k)
           whole == start \o path
           L == Location(g)
<1>1. f.dir \in Seq(STRING) /\ Len(f.dir) \in Nat /\ Len(path) \in Nat /\ k \in Nat
  BY FilesFacts, LenProperties
<1>2. L \in Seq(STRING)
  BY PathFacts
<1>3. start \in Seq(STRING) /\ Len(start) = k /\ \A i \in 1..k : start[i] = f.dir[i]
  BY <1>1, PrefixFacts
<1> HIDE DEF start, L
<1>4. /\ whole \in Seq(STRING) /\ Len(whole) = k + Len(path)
      /\ \A i \in 1..(k + Len(path)) : whole[i] = IF i <= k THEN start[i] ELSE path[i - k]
  BY <1>3, ConcatProperties
<1> HIDE DEF whole
<1>5. /\ \A i \in 1..k : whole[i] = f.dir[i]
      /\ \A i \in 1..Len(path) : whole[k + i] = path[i]
  <2>1. \A i \in 1..k : i \in 1..(k + Len(path)) /\ i <= k
    BY <1>1
  <2>2. \A i \in 1..Len(path) : k + i \in 1..(k + Len(path)) /\ ~(k + i <= k) /\ k + i - k = i
    BY <1>1
  <2>3. ASSUME NEW i \in 1..k PROVE whole[i] = f.dir[i]
    BY <1>3, <1>4, <2>1
  <2>4. ASSUME NEW i \in 1..Len(path) PROVE whole[k + i] = path[i]
    <3> DEFINE m == k + i
    <3>1. m \in 1..(k + Len(path)) /\ ~(m <= k) /\ m - k = i
      BY <2>2
    <3> HIDE DEF m
    <3>2. whole[m] = path[i]
      BY <1>4, <3>1
    <3>3. QED
      BY <3>2 DEF m
  <2>5. QED
    BY <2>3, <2>4
<1>6. ASSUME Leads(f, k, path, g) PROVE L = whole
  <2>1. Len(L) = Len(whole)
    BY <1>4, <1>6 DEF Leads, L
  <2>2. ASSUME NEW i \in 1..Len(L) PROVE L[i] = whole[i]
    <3>1. CASE i <= k
      <4>1. i \in 1..k
        BY <1>1, <3>1, <1>4, <2>1
      <4>2. QED
        BY <4>1, <1>5, <1>6 DEF Leads, L
    <3>2. CASE i > k
      <4>1. i - k \in 1..Len(path) /\ k + (i - k) = i
        BY <1>1, <3>2, <1>4, <2>1
      <4>2. whole[k + (i - k)] = path[i - k] /\ L[k + (i - k)] = path[i - k]
        BY <4>1, <1>5, <1>6 DEF Leads, L
      <4>3. QED
        BY <4>1, <4>2
    <3>3. QED
      BY <3>1, <3>2, <1>1, <1>4, <2>1
  <2>3. QED
    BY <1>2, <1>4, <2>1, <2>2, SeqEqual
<1>7. ASSUME L = whole PROVE Leads(f, k, path, g)
  BY <1>4, <1>5, <1>7 DEF Leads, L
<1>8. QED
  BY <1>6, <1>7 DEF L, whole, start

\* What lies in a package of f, by way of packages, has the source root of f.
LEMMA SameRoot ==
  ASSUME project \in Projects, NEW f \in ToSet(project), NEW g \in ToSet(project),
         NEW k \in RootLen(f)..Len(f.dir), NEW path \in Seq(STRING),
         Leads(f, k, path, g), IsInit(g) \/ path # <<>>,
         \A j \in 1..(Len(path) - 1) : Prefix(f.dir, k) \o Prefix(path, j) \in PackageDirs(project)
  PROVE  RootLen(g) = RootLen(f)
<1> DEFINE n == RootLen(f)
<1>1. /\ f.dir \in Seq(STRING) /\ Len(f.dir) \in Nat /\ g.dir \in Seq(STRING) /\ Len(g.dir) \in Nat
      /\ Len(path) \in Nat /\ (path # <<>> => Len(path) > 0)
  BY FilesFacts, LenProperties, EmptySeq
<1>2. /\ IsRoot(n, f.dir) /\ n \in 0..Len(f.dir) /\ n \in Nat /\ k \in Nat
  <2>1. IsRoot(n, f.dir)
    BY PathFacts
  <2> HIDE DEF n
  <2>2. n \in 0..Len(f.dir) /\ n \in Nat
    BY <1>1, <2>1 DEF IsRoot
  <2>3. k \in n..Len(f.dir)
    BY DEF n
  <2>4. QED
    BY <1>1, <2>1, <2>2, <2>3
<1>3. /\ Len(Location(g)) = Len(g.dir) + (IF IsInit(g) THEN 0 ELSE 1)
      /\ \A i \in 1..Len(g.dir) : Location(g)[i] = g.dir[i]
  BY PathFacts
<1> HIDE DEF n
<1>4. /\ k <= Len(g.dir)
      /\ Len(g.dir) <= k + Len(path)
      /\ Len(g.dir) = k + Len(path) => IsInit(g)
  <2>1. CASE IsInit(g)
    BY <1>1, <1>2, <1>3, <2>1 DEF Leads
  <2>2. CASE ~IsInit(g)
    BY <1>1, <1>2, <1>3, <2>2 DEF Leads
  <2>3. QED
    BY <2>1, <2>2
<1>5. \A i \in 1..k : g.dir[i] = f.dir[i]
  BY <1>1, <1>2, <1>3, <1>4 DEF Leads
<1>6. ASSUME NEW m \in 0..k PROVE Prefix(g.dir, m) = Prefix(f.dir, m)
  <2>1. m \in 0..Len(g.dir) /\ m <= Len(f.dir) /\ \A i \in 1..m : g.dir[i] = f.dir[i]
    BY <1>1, <1>2, <1>4, <1>5, <1>6
  <2>2. QED
    BY <1>1, <2>1, PrefixesEqual
<1>7. ASSUME NEW m \in (n + 1)..Len(g.dir) PROVE Prefix(g.dir, m) \in PackageDirs(project)
  <2>1. CASE m <= k
    <3>1. m \in 0..k /\ m \in (n + 1)..Len(f.dir)
      BY <1>1, <1>2, <2>1
    <3>2. QED
      BY <3>1, <1>2, <1>6 DEF IsRoot
  <2>2. CASE m > k /\ m < k + Len(path)
    <3> DEFINE j == m - k
    <3>1. j \in 1..(Len(path) - 1) /\ k + j = m /\ j \in 0..Len(path)
      BY <1>1, <1>2, <2>2
    <3> HIDE DEF j
    <3>2. /\ Prefix(f.dir, k) \in Seq(STRING) /\ Len(Prefix(f.dir, k)) = k
          /\ \A i \in 1..k : Prefix(f.dir, k)[i] = f.dir[i]
      <4>1. k \in 0..Len(f.dir)
        BY <1>1, <1>2
      <4>2. QED
        BY <1>1, <4>1, PrefixFacts
    <3>3. /\ Prefix(path, j) \in Seq(STRING) /\ Len(Prefix(path, j)) = j
          /\ \A i \in 1..j : Prefix(path, j)[i] = path[i]
      BY <3>1, PrefixFacts
    <3>4. /\ Prefix(g.dir, m) \in Seq(STRING) /\ Len(Prefix(g.dir, m)) = m
          /\ \A i \in 1..m : Prefix(g.dir, m)[i] = g.dir[i]
      <4>1. m \in 0..Len(g.dir)
        BY <1>1, <1>2
      <4>2. QED
        BY <1>1, <4>1, PrefixFacts
    <3> DEFINE s == Prefix(f.dir, k)
               t == Prefix(path, j)
    <3> HIDE DEF s, t
    <3>5. /\ s \o t \in Seq(STRING) /\ Len(s \o t) = k + j
          /\ \A i \in 1..(k + j) : (s \o t)[i] = IF i <= k THEN s[i] ELSE t[i - k]
      <4>1. s \in Seq(STRING) /\ Len(s) = k /\ t \in Seq(STRING) /\ Len(t) = j
        BY <3>2, <3>3 DEF s, t
      <4>2. QED
        BY <4>1, ConcatProperties
    <3>6. ASSUME NEW i \in 1..m PROVE (s \o t)[i] = Prefix(g.dir, m)[i]
      <4>1. CASE i <= k
        <5>1. i \in 1..k /\ i \in 1..(k + j)
          BY <1>2, <3>1, <4>1
        <5>2. QED
          BY <5>1, <4>1, <1>5, <3>2, <3>4, <3>5 DEF s
      <4>2. CASE i > k
        <5>1. i - k \in 1..j /\ i - k \in 1..Len(path) /\ i \in 1..(k + j) /\ ~(i <= k) /\ k + (i - k) = i /\ i \in 1..Len(g.dir)
          BY <1>1, <1>2, <3>1, <4>2
        <5>2. Location(g)[k + (i - k)] = path[i - k]
          BY <5>1 DEF Leads
        <5>3. Location(g)[i] = g.dir[i]
          BY <5>1, <1>3
        <5>4. QED
          BY <5>1, <5>2, <5>3, <3>3, <3>4, <3>5 DEF t
      <4>3. i <= k \/ i > k
        BY <1>2, <3>1
      <4>4. QED
        BY <4>1, <4>2, <4>3
    <3>7. s \o t = Prefix(g.dir, m)
      <4>1. Len(s \o t) = Len(Prefix(g.dir, m)) /\ \A i \in 1..Len(s \o t) : (s \o t)[i] = Prefix(g.dir, m)[i]
        BY <3>1, <3>4, <3>5, <3>6
      <4>2. QED
        BY <3>4, <3>5, <4>1, SeqEqual
    <3>8. QED
      BY <3>1, <3>7 DEF s, t
  <2>3. CASE m = k + Len(path)
    <3>1. m = Len(g.dir) /\ IsInit(g)
      BY <1>1, <1>2, <1>4, <2>3
    <3>2. Prefix(g.dir, m) = g.dir
      BY <1>1, <3>1, SubSeqFull DEF Prefix
    <3>3. QED
      BY <3>1, <3>2 DEF PackageDirs
  <2>4. m <= k \/ (m > k /\ m < k + Len(path)) \/ m = k + Len(path)
    <3>1. m \in Int /\ m <= Len(g.dir)
      BY <1>1, <1>2
    <3> DEFINE a == Len(g.dir)
               b == Len(path)
    <3>2. a \in Nat /\ b \in Nat /\ a <= k + b /\ m <= a /\ k \in Nat
      BY <1>1, <1>2, <1>4, <3>1
    <3> HIDE DEF a, b
    <3>3. m <= k \/ (m > k /\ m < k + b) \/ m = k + b
      BY <3>1, <3>2
    <3>4. QED
      BY <3>3 DEF b
  <2>5. QED
    BY <2>1, <2>2, <2>3, <2>4
<1>8. n = 0 \/ Prefix(g.dir, n) \notin PackageDirs(project)
  <2>1. n \in 0..k
    BY <1>2 DEF n
  <2>2. QED
    BY <2>1, <1>2, <1>6 DEF IsRoot
<1>9. n \in 0..Len(g.dir)
  BY <1>1, <1>2, <1>4 DEF n
<1>10. IsRoot(n, g.dir)
  BY <1>7, <1>8, <1>9 DEF IsRoot
<1>11. QED
  BY <1>1, <1>10, RootIsUnique DEF n, RootLen

\* The name of the package of f that is found k directories down.
Anchor(f, k) == SubSeq(f.dir, RootLen(f) + 1, k)

\* A package below the root of f, element by element.
LEMMA AnchorFacts ==
  ASSUME project \in Projects, NEW f \in ToSet(project), NEW k \in RootLen(f)..Len(f.dir)
  PROVE  /\ k \in Nat /\ RootLen(f) \in Nat /\ k \in 0..Len(f.dir)
         /\ Anchor(f, k) \in Seq(STRING) /\ Len(Anchor(f, k)) = k - RootLen(f)
         /\ \A i \in 1..(k - RootLen(f)) : Anchor(f, k)[i] = f.dir[RootLen(f) + i]
<1> DEFINE n == RootLen(f)
<1>1. f.dir \in Seq(STRING) /\ Len(f.dir) \in Nat
  BY FilesFacts
<1>2. IsRoot(n, f.dir)
  BY PathFacts
<1>3. k \in n..Len(f.dir)
  OBVIOUS
<1> HIDE DEF n
<1>4. n \in Nat /\ k \in Nat /\ n <= k /\ k \in 0..Len(f.dir)
  BY <1>1, <1>2, <1>3 DEF IsRoot
<1>5. \A i \in (n + 1)..k : f.dir[i] \in STRING
  <2>1. (n + 1)..k \subseteq 1..Len(f.dir)
    BY <1>1, <1>4
  <2>2. QED
    BY <1>1, <2>1, ElementOfSeq
<1>6. /\ SubSeq(f.dir, n + 1, k) \in Seq(STRING)
      /\ Len(SubSeq(f.dir, n + 1, k)) = IF n + 1 <= k THEN k - (n + 1) + 1 ELSE 0
      /\ \A i \in 1..(k - (n + 1) + 1) : SubSeq(f.dir, n + 1, k)[i] = f.dir[n + 1 + i - 1]
  <2>1. n + 1 \in Int /\ k \in Int
    BY <1>4
  <2>2. QED
    BY <1>5, <2>1, SubSeqProperties
<1>7. /\ k - (n + 1) + 1 = k - n /\ (IF n + 1 <= k THEN k - (n + 1) + 1 ELSE 0) = k - n
      /\ \A i \in 1..(k - n) : n + 1 + i - 1 = n + i
  BY <1>4
<1>8. Anchor(f, k) = SubSeq(f.dir, n + 1, k)
  BY DEF Anchor, n
<1>9. /\ Anchor(f, k) \in Seq(STRING) /\ Len(Anchor(f, k)) = k - n
      /\ \A i \in 1..(k - n) : Anchor(f, k)[i] = f.dir[n + i]
  BY <1>6, <1>7, <1>8, Zenon
<1>10. QED
  BY <1>4, <1>9 DEF n

\* In terms of names: g is reached from the first k directories of f if it has
\* the root of f and its name is the one put together.
LEMMA LeadsIsName ==
  ASSUME project \in Projects, NEW f \in ToSet(project), NEW g \in ToSet(project),
         NEW k \in RootLen(f)..Len(f.dir), NEW path \in Seq(STRING), RootLen(g) = RootLen(f)
  PROVE  Leads(f, k, path, g) <=> RootOf(g) = RootOf(f) /\ Path(g) = Anchor(f, k) \o path
<1> DEFINE n == RootLen(f)
           a == Anchor(f, k)
           name == a \o path
           len == Len(Location(g))
<1>1. /\ k \in Nat /\ n \in Nat /\ a \in Seq(STRING) /\ Len(a) = k - n /\ n <= k /\ k <= Len(f.dir)
      /\ \A i \in 1..(k - n) : a[i] = f.dir[n + i]
      /\ Len(path) \in Nat
  BY AnchorFacts, LenProperties
<1>2. /\ RootOf(g) \in Seq(STRING) /\ Len(RootOf(g)) = n
      /\ \A i \in 1..n : RootOf(g)[i] = g.dir[i]
      /\ Path(g) \in Seq(STRING) /\ Len(Path(g)) = len - n
      /\ \A i \in 1..(len - n) : Path(g)[i] = Location(g)[n + i]
      /\ \A i \in 1..Len(g.dir) : Location(g)[i] = g.dir[i]
      /\ IsRoot(n, g.dir)
  <2> DEFINE r == RootLen(g)
  <2>1. /\ RootOf(g) \in Seq(STRING) /\ Len(RootOf(g)) = r
        /\ \A i \in 1..r : RootOf(g)[i] = g.dir[i]
        /\ Path(g) \in Seq(STRING) /\ Len(Path(g)) = len - r
        /\ \A i \in 1..(len - r) : Path(g)[i] = Location(g)[r + i]
        /\ \A i \in 1..Len(g.dir) : Location(g)[i] = g.dir[i]
        /\ IsRoot(r, g.dir)
    BY PathFacts
  <2>2. r = n
    OBVIOUS
  <2> HIDE DEF r, n, len
  <2>3. QED
    BY <2>1, <2>2
<1>3. /\ RootOf(f) \in Seq(STRING) /\ Len(RootOf(f)) = n
      /\ \A i \in 1..n : RootOf(f)[i] = f.dir[i]
  BY PathFacts
<1>4. len \in Nat /\ Len(g.dir) \in Nat /\ n <= Len(g.dir) /\ Len(g.dir) <= len
  <2>1. len = Len(g.dir) + (IF IsInit(g) THEN 0 ELSE 1) /\ Len(g.dir) \in Nat
    BY PathFacts, FilesFacts
  <2>2. CASE IsInit(g)
    BY <1>1, <1>2, <2>1, <2>2 DEF IsRoot
  <2>3. CASE ~IsInit(g)
    BY <1>1, <1>2, <2>1, <2>3 DEF IsRoot
  <2>4. QED
    BY <2>2, <2>3
<1> HIDE DEF n, a, len
<1>5. /\ name \in Seq(STRING) /\ Len(name) = k - n + Len(path)
      /\ \A i \in 1..(k - n + Len(path)) : name[i] = IF i <= k - n THEN a[i] ELSE path[i - (k - n)]
  <2>1. /\ a \o path \in Seq(STRING) /\ Len(a \o path) = Len(a) + Len(path)
        /\ \A i \in 1..(Len(a) + Len(path)) : (a \o path)[i] = IF i <= Len(a) THEN a[i] ELSE path[i - Len(a)]
    BY <1>1, ConcatProperties
  <2>2. QED
    BY <1>1, <2>1
<1> HIDE DEF name
<1>6. ASSUME Leads(f, k, path, g) PROVE RootOf(g) = RootOf(f) /\ Path(g) = name
  <2>1. /\ len = k + Len(path)
        /\ \A i \in 1..k : Location(g)[i] = f.dir[i]
        /\ \A i \in 1..Len(path) : Location(g)[k + i] = path[i]
    BY <1>6 DEF Leads, len
  <2>2. RootOf(g) = RootOf(f)
    <3>1. ASSUME NEW i \in 1..n PROVE RootOf(g)[i] = RootOf(f)[i]
      <4>1. i \in 1..k /\ i \in 1..Len(g.dir)
        BY <1>1, <1>4
      <4>2. QED
        BY <4>1, <1>2, <1>3, <2>1
    <3>2. QED
      BY <3>1, <1>2, <1>3, SeqEqual
  <2>3. ASSUME NEW i \in 1..(len - n) PROVE Path(g)[i] = name[i]
    <3>1. i \in Nat /\ Path(g)[i] = Location(g)[n + i] /\ i \in 1..(k - n + Len(path))
      BY <1>1, <1>2, <1>4, <2>1
    <3>2. CASE i <= k - n
      <4>1. n + i \in 1..k /\ i \in 1..(k - n)
        BY <1>1, <3>1, <3>2
      <4>2. Location(g)[n + i] = f.dir[n + i] /\ a[i] = f.dir[n + i] /\ name[i] = a[i]
        BY <4>1, <1>1, <1>5, <2>1, <3>1, <3>2
      <4>3. QED
        BY <3>1, <4>2
    <3>3. CASE i > k - n
      <4> DEFINE j == i - (k - n)
      <4>1. j \in 1..Len(path) /\ k + j = n + i /\ ~(i <= k - n)
        BY <1>1, <3>1, <3>3
      <4> HIDE DEF j
      <4>2. Location(g)[k + j] = path[j]
        BY <4>1, <2>1
      <4>3. name[i] = path[j]
        BY <3>1, <4>1, <1>5 DEF j
      <4>4. QED
        BY <3>1, <4>1, <4>2, <4>3
    <3>4. i <= k - n \/ i > k - n
      BY <1>1, <3>1
    <3>5. QED
      BY <3>2, <3>3, <3>4
  <2>4. Len(Path(g)) = Len(name) /\ Len(Path(g)) = len - n
    BY <1>1, <1>2, <1>5, <2>1
  <2>5. QED
    BY <1>2, <1>5, <2>2, <2>3, <2>4, SeqEqual
<1>7. ASSUME RootOf(g) = RootOf(f), Path(g) = name PROVE Leads(f, k, path, g)
  <2>1. len = k + Len(path)
    <3>1. len - n = k - n + Len(path)
      BY <1>2, <1>5, <1>7
    <3> DEFINE l == Len(path)
    <3>2. n \in Nat /\ k \in Nat /\ len \in Nat /\ l \in Nat /\ len - n = k - n + l
      BY <1>1, <1>4, <3>1
    <3> HIDE DEF l
    <3>3. len = k + l
      BY <3>2
    <3>4. QED
      BY <3>3 DEF l
  <2>2. ASSUME NEW i \in 1..k PROVE Location(g)[i] = f.dir[i]
    <3>1. CASE i <= n
      <4>1. i \in 1..n /\ i \in 1..Len(g.dir)
        BY <1>1, <1>4, <3>1
      <4>2. QED
        BY <4>1, <1>2, <1>3, <1>7
    <3>2. CASE i > n
      <4> DEFINE j == i - n
      <4>1. j \in 1..(k - n) /\ j \in 1..(len - n) /\ n + j = i /\ j \in 1..(k - n + Len(path)) /\ j <= k - n
        BY <1>1, <1>4, <2>1, <3>2
      <4> HIDE DEF j
      <4>2. Path(g)[j] = Location(g)[i] /\ name[j] = a[j] /\ a[j] = f.dir[i]
        BY <4>1, <1>1, <1>2, <1>5
      <4>3. QED
        BY <4>2, <1>7
    <3>3. i <= n \/ i > n
      BY <1>1
    <3>4. QED
      BY <3>1, <3>2, <3>3
  <2>3. ASSUME NEW i \in 1..Len(path) PROVE Location(g)[k + i] = path[i]
    <3> DEFINE j == k - n + i
    <3>1. /\ j \in 1..(len - n) /\ n + j = k + i /\ j \in 1..(k - n + Len(path)) /\ ~(j <= k - n)
          /\ j - (k - n) = i
      BY <1>1, <1>4, <2>1
    <3> HIDE DEF j
    <3>2. Path(g)[j] = Location(g)[k + i] /\ name[j] = path[i]
      BY <3>1, <1>2, <1>5
    <3>3. QED
      BY <3>2, <1>7
  <2>4. QED
    BY <2>1, <2>2, <2>3 DEF Leads, len
<1>8. QED
  BY <1>6, <1>7 DEF name, a

\* A directory search from a package of f, or from its source root, finds exactly the
\* files below that root with the name put together.
LEMMA FoundIff ==
  ASSUME project \in Projects, NEW f \in ToSet(project), NEW g \in ToSet(project),
         NEW k \in RootLen(f)..Len(f.dir), NEW path \in Seq(STRING)
  PROVE  g \in FoundAt(Prefix(f.dir, k), path)
           <=> /\ RootOf(g) = RootOf(f) /\ Path(g) = Anchor(f, k) \o path
               /\ IsInit(g) \/ path # <<>>
<1> DEFINE start == Prefix(f.dir, k)
           Through == \A j \in 1..(Len(path) - 1) : start \o Prefix(path, j) \in PackageDirs(project)
<1>1. /\ f.dir \in Seq(STRING) /\ Len(f.dir) \in Nat /\ g.dir \in Seq(STRING) /\ Len(g.dir) \in Nat
      /\ Len(path) \in Nat
  BY FilesFacts, LenProperties
<1>2. k \in Nat /\ RootLen(f) \in Nat /\ k \in 0..Len(f.dir)
  BY AnchorFacts
<1>3. g \in FoundAt(start, path) <=> Location(g) = start \o path /\ (IsInit(g) \/ path # <<>>) /\ Through
  <2> HIDE DEF start
  <2>1. QED
    BY DEF FoundAt, Location
<1>4. Location(g) = start \o path <=> Leads(f, k, path, g)
  BY <1>2, LeadsIsLocation
<1>5. ASSUME Leads(f, k, path, g), IsInit(g) \/ path # <<>>, Through
      PROVE  RootOf(g) = RootOf(f) /\ Path(g) = Anchor(f, k) \o path
  BY <1>5, SameRoot, LeadsIsName
<1>6. ASSUME RootOf(g) = RootOf(f), Path(g) = Anchor(f, k) \o path
      PROVE  Leads(f, k, path, g) /\ Through
  <2>1. RootLen(g) = RootLen(f)
    <3>1. Len(RootOf(g)) = RootLen(g) /\ Len(RootOf(f)) = RootLen(f)
      BY PathFacts
    <3>2. QED
      BY <3>1, <1>6
  <2>2. Leads(f, k, path, g)
    BY <1>6, <2>1, LeadsIsName
  <2>3. ASSUME NEW j \in 1..(Len(path) - 1) PROVE start \o Prefix(path, j) \in PackageDirs(project)
    <3>1. IsRoot(RootLen(f), g.dir)
      <4>1. IsRoot(RootLen(g), g.dir)
        BY PathFacts
      <4>2. QED
        BY <4>1, <2>1
    <3>2. j \in 0..Len(path) /\ j \in Nat
      BY <1>1
    <3>3. /\ Prefix(path, j) \in Seq(STRING) /\ Len(Prefix(path, j)) = j
          /\ \A i \in 1..j : Prefix(path, j)[i] = path[i]
      BY <3>2, PrefixFacts
    <3>4. k + j <= Len(g.dir)
      <4>1. Len(Location(g)) = Len(g.dir) + (IF IsInit(g) THEN 0 ELSE 1) /\ Len(Location(g)) = k + Len(path)
        BY <2>2, PathFacts DEF Leads
      <4>2. CASE IsInit(g)
        BY <1>1, <1>2, <4>1, <4>2
      <4>3. CASE ~IsInit(g)
        BY <1>1, <1>2, <4>1, <4>3
      <4>4. QED
        BY <4>2, <4>3
    <3>5. Prefix(g.dir, k + j) \in PackageDirs(project)
      <4>1. k + j \in (RootLen(f) + 1)..Len(g.dir)
        BY <1>1, <1>2, <3>2, <3>4
      <4>2. QED
        BY <3>1, <4>1 DEF IsRoot
    <3>6. Prefix(g.dir, k + j) = start \o Prefix(path, j)
      <4> DEFINE m == k + j
                 t == Prefix(path, j)
      <4>1. m \in Nat /\ m \in 0..Len(g.dir) /\ m = k + j
        BY <1>1, <1>2, <3>2, <3>4
      <4> HIDE DEF m
      <4>2. /\ Prefix(g.dir, m) \in Seq(STRING) /\ Len(Prefix(g.dir, m)) = m
            /\ \A i \in 1..m : Prefix(g.dir, m)[i] = g.dir[i]
        BY <1>1, <4>1, PrefixFacts
      <4>3. /\ start \in Seq(STRING) /\ Len(start) = k /\ \A i \in 1..k : start[i] = f.dir[i]
        BY <1>1, <1>2, PrefixFacts
      <4> HIDE DEF start, t
      <4>4. t \in Seq(STRING) /\ Len(t) = j /\ \A i \in 1..j : t[i] = path[i]
        BY <3>3 DEF t
      <4>5. /\ start \o t \in Seq(STRING) /\ Len(start \o t) = m
            /\ \A i \in 1..m : (start \o t)[i] = IF i <= k THEN start[i] ELSE t[i - k]
        BY <4>1, <4>3, <4>4, ConcatProperties
      <4>6. ASSUME NEW i \in 1..m PROVE Prefix(g.dir, m)[i] = (start \o t)[i]
        <5>1. Location(g)[i] = g.dir[i]
          <6>1. i \in 1..Len(g.dir)
            BY <1>1, <4>1
          <6>2. QED
            BY <6>1, PathFacts
        <5>2. CASE i <= k
          <6>1. i \in 1..k
            BY <1>2, <5>2
          <6>2. Location(g)[i] = f.dir[i]
            BY <6>1, <2>2 DEF Leads
          <6>3. QED
            BY <6>1, <6>2, <5>1, <5>2, <4>2, <4>3, <4>5
        <5>3. CASE i > k
          <6> DEFINE x == i - k
          <6>1. x \in 1..j /\ x \in 1..Len(path) /\ k + x = i /\ ~(i <= k)
            BY <1>1, <1>2, <3>2, <4>1, <5>3
          <6>2. (start \o t)[i] = t[x]
            BY <4>5, <6>1
          <6> HIDE DEF x
          <6>3. Location(g)[k + x] = path[x] /\ t[x] = path[x]
            BY <6>1, <2>2, <4>4 DEF Leads
          <6>4. QED
            BY <6>1, <6>2, <6>3, <5>1, <4>2
        <5>4. i <= k \/ i > k
          BY <1>2, <4>1
        <5>5. QED
          BY <5>2, <5>3, <5>4
      <4>7. Prefix(g.dir, m) = start \o t
        BY <4>2, <4>5, <4>6, SeqEqual
      <4>8. QED
        BY <4>7 DEF m, t
    <3>7. QED
      BY <3>5, <3>6
  <2>4. QED
    BY <2>2, <2>3
<1> HIDE DEF Through
<1>7. QED
  BY <1>3, <1>4, <1>5, <1>6

-----------------------------------------------------------------------------
\* The names of the modules.
Modules == {Path(g) : g \in ToSet(project)} \ {<<>>}

\* A name that is not the empty one makes one record.
LEMMA NamedOnce ==
  ASSUME NEW p, NEW e, p # e PROVE {[dotted |-> d, isPackage |-> FALSE] : d \in {p} \ {e}} = {[dotted |-> p, isPackage |-> FALSE]}
OBVIOUS

\* In a regular project the name of a file is its path below the root, and only
\* the `__init__.py` of a source root has none.
LEMMA DottedFacts ==
  ASSUME project \in Projects, Regular, NEW f \in ToSet(project)
  PROVE  /\ Names(project, f) = {[dotted |-> d, isPackage |-> IsInit(f)] : d \in {Path(f)} \ {<<>>}}
         /\ DottedOf(f) = {Path(f)} \ {<<>>}
<1> DEFINE n == RootLen(f)
           below == SubSeq(f.dir, n + 1, Len(f.dir))
<1>1. f.dir \in Seq(STRING) /\ Len(f.dir) \in Nat /\ f.stem \in STRING
  BY FilesFacts
<1>2. n \in 0..Len(f.dir)
  BY PathFacts DEF IsRoot
<1>3. WithoutSrc(below) = below
  <2>1. Len(RootOf(f)) = n
    BY PathFacts
  <2>2. QED
    BY <2>1 DEF Regular
<1>4. SourceRoot(project, f.dir) = n
  BY DEF RootLen
<1>5. Len(f.dir) \in n..Len(f.dir) /\ below = Anchor(f, Len(f.dir))
  <2> HIDE DEF n
  <2>1. Len(f.dir) \in n..Len(f.dir)
    BY <1>1, <1>2
  <2>2. QED
    BY <2>1 DEF Anchor, n
<1>6. /\ below \in Seq(STRING) /\ Len(below) = Len(f.dir) - n
      /\ \A i \in 1..(Len(f.dir) - n) : below[i] = f.dir[n + i]
  BY <1>5, AnchorFacts
<1>7. CASE IsInit(f)
  <2>1. Location(f) = f.dir
    BY <1>1, <1>7, ConcatEmptySeq DEF Location
  <2>2. Path(f) = below
    BY <2>1 DEF Path
  <2> HIDE DEF below, n
  <2>3. Names(project, f) = {[dotted |-> d, isPackage |-> IsInit(f)] : d \in {Path(f)} \ {<<>>}}
    BY <1>3, <1>4, <1>7, <2>2 DEF Names, below
  <2>4. DottedOf(f) = {Path(f)} \ {<<>>}
    <3>1. {m.dotted : m \in Names(project, f)} = {Path(f)} \ {<<>>}
      <4> DEFINE D == {Path(f)} \ {<<>>}
      <4>1. Names(project, f) = {[dotted |-> d, isPackage |-> IsInit(f)] : d \in D}
        BY <2>3
      <4> DEFINE R(d) == [dotted |-> d, isPackage |-> IsInit(f)]
      <4>2. (\A d : R(d).dotted = d) /\ Names(project, f) = {R(d) : d \in D}
        BY <4>1
      <4> HIDE DEF D, R
      <4>3. {m.dotted : m \in Names(project, f)} = D
        BY <4>2
      <4>4. QED
        BY <4>3 DEF D
    <3>2. QED
      BY <3>1, Zenon DEF DottedOf
  <2>5. QED
    BY <2>3, <2>4
<1>8. CASE ~IsInit(f)
  <2> DEFINE a == Append(below, f.stem)
             len == Len(f.dir) - n
  <2>1. /\ Path(f) \in Seq(STRING) /\ Len(Path(f)) = len + 1
        /\ \A i \in 1..(len + 1) : Path(f)[i] = Location(f)[n + i]
        /\ Location(f)[Len(f.dir) + 1] = f.stem
        /\ \A i \in 1..Len(f.dir) : Location(f)[i] = f.dir[i]
    <3>1. LET l == Len(Location(f))
          IN  /\ l = Len(f.dir) + 1
              /\ Path(f) \in Seq(STRING) /\ Len(Path(f)) = l - n
              /\ \A i \in 1..(l - n) : Path(f)[i] = Location(f)[n + i]
              /\ Location(f)[l] = f.stem
              /\ \A i \in 1..Len(f.dir) : Location(f)[i] = f.dir[i]
      BY <1>8, PathFacts
    <3> HIDE DEF n
    <3>2. Len(f.dir) + 1 - n = len + 1
      BY <1>1, <1>2
    <3> DEFINE l == Len(Location(f))
    <3>3. /\ l = Len(f.dir) + 1
          /\ Path(f) \in Seq(STRING) /\ Len(Path(f)) = l - n
          /\ \A i \in 1..(l - n) : Path(f)[i] = Location(f)[n + i]
          /\ Location(f)[l] = f.stem
          /\ \A i \in 1..Len(f.dir) : Location(f)[i] = f.dir[i]
      BY <3>1
    <3> HIDE DEF len, l
    <3>4. l - n = len + 1
      BY <1>1, <1>2, <3>2, <3>3
    <3>5. QED
      BY <3>3, <3>4
  <2> HIDE DEF n, below
  <2>2. len \in Nat /\ n + (len + 1) = Len(f.dir) + 1 /\ Len(below) = len /\ n \in Nat
    BY <1>1, <1>2, <1>6
  <2>3. /\ a \in Seq(STRING) /\ Len(a) = len + 1
        /\ \A i \in 1..len : a[i] = below[i]
        /\ a[len + 1] = f.stem
    BY <1>1, <1>6, <2>2, AppendProperties
  <2>4. ASSUME NEW i \in 1..(len + 1) PROVE Path(f)[i] = a[i]
    <3>1. CASE i = len + 1
      BY <2>1, <2>2, <2>3, <3>1
    <3>2. CASE i # len + 1
      <4>1. i \in 1..len /\ n + i \in 1..Len(f.dir)
        BY <1>1, <2>2, <3>2
      <4>2. QED
        BY <4>1, <1>6, <2>1, <2>3
    <3>3. QED
      BY <3>1, <3>2
  <2>5. Path(f) = a
    <3> HIDE DEF a, len
    <3>1. Len(Path(f)) = Len(a) /\ \A i \in 1..Len(Path(f)) : Path(f)[i] = a[i]
      BY <2>1, <2>3, <2>4
    <3>2. QED
      BY <2>1, <2>3, <3>1, SeqEqual
  <2>6. Path(f) # <<>>
    <3>1. Len(Path(f)) > 0
      BY <2>1, <2>2
    <3>2. QED
      BY <3>1
  <2>7. Names(project, f) = {[dotted |-> Path(f), isPackage |-> FALSE]}
    BY <1>3, <1>4, <1>8, <2>5 DEF Names, below
  <2>8. Names(project, f) = {[dotted |-> d, isPackage |-> IsInit(f)] : d \in {Path(f)} \ {<<>>}}
    <3>1. {[dotted |-> d, isPackage |-> FALSE] : d \in {Path(f)} \ {<<>>}} = {[dotted |-> Path(f), isPackage |-> FALSE]}
      BY <2>6, NamedOnce
    <3>2. IsInit(f) = FALSE
      BY <1>8 DEF IsInit
    <3>3. QED
      BY <2>7, <3>1, <3>2
  <2>9. DottedOf(f) = {Path(f)} \ {<<>>}
    <3>1. {m.dotted : m \in Names(project, f)} = {Path(f)} \ {<<>>}
      <4> DEFINE D == {Path(f)} \ {<<>>}
      <4>1. Names(project, f) = {[dotted |-> d, isPackage |-> IsInit(f)] : d \in D}
        BY <2>8
      <4> DEFINE R(d) == [dotted |-> d, isPackage |-> IsInit(f)]
      <4>2. (\A d : R(d).dotted = d) /\ Names(project, f) = {R(d) : d \in D}
        BY <4>1
      <4> HIDE DEF D, R
      <4>3. {m.dotted : m \in Names(project, f)} = D
        BY <4>2
      <4>4. QED
        BY <4>3 DEF D
    <3>2. QED
      BY <3>1, Zenon DEF DottedOf
  <2>10. QED
    BY <2>8, <2>9
<1>9. QED
  BY <1>7, <1>8

\* Every package of f has its __init__.py, under the name of the package.
LEMMA PackagesHaveFiles ==
  ASSUME project \in Projects, NEW f \in ToSet(project), NEW k \in (RootLen(f) + 1)..Len(f.dir)
  PROVE  \E e \in FoundAt(Prefix(f.dir, k), <<>>) : IsInit(e) /\ RootOf(e) = RootOf(f) /\ Path(e) = Anchor(f, k)
<1>1. f.dir \in Seq(STRING) /\ Len(f.dir) \in Nat /\ IsRoot(RootLen(f), f.dir)
  BY FilesFacts, PathFacts
<1>2. RootLen(f) \in Nat /\ k \in RootLen(f)..Len(f.dir)
  BY <1>1 DEF IsRoot
<1>3. Prefix(f.dir, k) \in PackageDirs(project)
  BY <1>1 DEF IsRoot
<1>4. PICK e \in ToSet(project) : IsInit(e) /\ e.dir = Prefix(f.dir, k)
  BY <1>3 DEF PackageDirs
<1>5. e \in FoundAt(Prefix(f.dir, k), <<>>)
  <2>1. \A j \in 1..(Len(<<>>) - 1) : Prefix(f.dir, k) \o Prefix(<<>>, j) \in PackageDirs(project)
    OBVIOUS
  <2>2. e.dir \o (IF IsInit(e) THEN <<>> ELSE <<e.stem>>) = Prefix(f.dir, k) \o <<>>
    BY <1>4
  <2>3. QED
    BY <1>4, <2>1, <2>2 DEF FoundAt
<1>6. <<>> \in Seq(STRING)
  OBVIOUS
<1>7. RootOf(e) = RootOf(f) /\ Path(e) = Anchor(f, k) \o <<>>
  BY <1>2, <1>5, <1>6, FoundIff
<1>8. Anchor(f, k) \o <<>> = Anchor(f, k)
  BY <1>2, AnchorFacts, ConcatEmptySeq
<1>9. QED
  BY <1>4, <1>5, <1>7, <1>8

\* The outermost package of f is the directory below its root.
LEMMA FirstPackage ==
  ASSUME project \in Projects, NEW f \in ToSet(project), NEW r \in Nat, r = RootLen(f), r + 1 <= Len(f.dir)
  PROVE  /\ Anchor(f, r + 1) \in Seq(STRING) /\ Len(Anchor(f, r + 1)) = 1
         /\ Anchor(f, r + 1)[1] = f.dir[r + 1]
<1>1. Len(f.dir) \in Nat
  BY FilesFacts
<1>2. r + 1 \in r..Len(f.dir) /\ (r + 1) - r = 1 /\ 1 \in 1..1
  BY <1>1
<1>3. /\ Anchor(f, r + 1) \in Seq(STRING) /\ Len(Anchor(f, r + 1)) = (r + 1) - r
      /\ \A i \in 1..((r + 1) - r) : Anchor(f, r + 1)[i] = f.dir[r + i]
  BY <1>2, AnchorFacts
<1> DEFINE a == Anchor(f, r + 1)
<1> HIDE DEF a
<1>4. a \in Seq(STRING) /\ Len(a) = (r + 1) - r /\ \A i \in 1..((r + 1) - r) : a[i] = f.dir[r + i]
  BY <1>3 DEF a
<1>5. a \in Seq(STRING) /\ Len(a) = 1 /\ a[1] = f.dir[r + 1]
  BY <1>2, <1>4
<1>6. QED
  BY <1>5 DEF a

\* Who has a name that starts with a package of f has the source root of f: the
\* outermost package is called like that in one root only.
LEMMA SamePackage ==
  ASSUME project \in Projects, Regular, NamesUnique, NEW f \in ToSet(project), NEW g \in ToSet(project),
         NEW k \in (RootLen(f) + 1)..Len(f.dir), NEW path \in Seq(STRING), path # <<>>,
         Path(g) = Anchor(f, k) \o path
  PROVE  RootOf(g) = RootOf(f)
<1> DEFINE n == RootLen(f)
           r == RootLen(g)
<1>1. /\ Len(f.dir) \in Nat /\ n \in Nat /\ k \in n..Len(f.dir) /\ k \in Nat /\ n + 1 <= k /\ k <= Len(f.dir)
  <2>1. IsRoot(n, f.dir) /\ Len(f.dir) \in Nat
    BY PathFacts, FilesFacts
  <2>2. k \in (n + 1)..Len(f.dir)
    OBVIOUS
  <2> HIDE DEF n
  <2>3. QED
    BY <2>1, <2>2 DEF IsRoot
<1>2. /\ Anchor(f, k) \in Seq(STRING) /\ Len(Anchor(f, k)) = k - n
      /\ \A i \in 1..(k - n) : Anchor(f, k)[i] = f.dir[n + i]
  BY <1>1, AnchorFacts
<1>3. Len(path) \in Nat /\ Len(path) > 0
  BY LenProperties, EmptySeq
<1>4. /\ Len(Anchor(f, k) \o path) = (k - n) + Len(path)
      /\ \A i \in 1..((k - n) + Len(path)) :
           (Anchor(f, k) \o path)[i] = IF i <= k - n THEN Anchor(f, k)[i] ELSE path[i - (k - n)]
  <2> DEFINE a == Anchor(f, k)
  <2>1. a \in Seq(STRING) /\ Len(a) = k - n
    BY <1>2
  <2> HIDE DEF a, n
  <2>2. /\ Len(a \o path) = Len(a) + Len(path)
        /\ \A i \in 1..(Len(a) + Len(path)) : (a \o path)[i] = IF i <= Len(a) THEN a[i] ELSE path[i - Len(a)]
    BY <2>1, ConcatProperties
  <2>3. QED
    BY <2>1, <2>2 DEF a
<1> HIDE DEF n
<1>5. Path(g)[1] = f.dir[n + 1] /\ Len(Path(g)) >= 2
  <2>1. 1 \in 1..(k - n) /\ 1 \in 1..((k - n) + Len(path)) /\ 1 <= k - n
    BY <1>1, <1>3
  <2>2. Len(Path(g)) >= 2
    BY <1>1, <1>3, <1>4
  <2>3. QED
    BY <1>2, <1>4, <2>1, <2>2
<1>6. /\ r \in Nat /\ Len(g.dir) \in Nat /\ r + 1 <= Len(g.dir) /\ Path(g)[1] = g.dir[r + 1]
      /\ r + 1 \in (r + 1)..Len(g.dir)
  <2> DEFINE len == Len(Location(g))
  <2>1. /\ IsRoot(r, g.dir) /\ Len(g.dir) \in Nat
        /\ len = Len(g.dir) + (IF IsInit(g) THEN 0 ELSE 1)
        /\ Len(Path(g)) = len - r /\ \A i \in 1..(len - r) : Path(g)[i] = Location(g)[r + i]
        /\ \A i \in 1..Len(g.dir) : Location(g)[i] = g.dir[i]
    BY PathFacts, FilesFacts
  <2> HIDE DEF r, len
  <2>2. r \in Nat /\ len \in Nat /\ len <= Len(g.dir) + 1
    <3>1. CASE IsInit(g)
      BY <2>1, <3>1 DEF IsRoot
    <3>2. CASE ~IsInit(g)
      BY <2>1, <3>2 DEF IsRoot
    <3>3. QED
      BY <3>1, <3>2
  <2>3. r + 1 <= Len(g.dir) /\ 1 \in 1..(len - r)
    <3> DEFINE d == Len(g.dir)
               l == Len(Path(g))
    <3>1. l >= 2 /\ l = len - r /\ d \in Nat /\ len <= d + 1
      BY <1>5, <2>1, <2>2
    <3> HIDE DEF d, l
    <3>2. r + 1 <= d /\ 1 \in 1..(len - r)
      BY <2>2, <3>1
    <3>3. QED
      BY <3>2 DEF d
  <2>4. r + 1 \in 1..Len(g.dir) /\ r + 1 \in (r + 1)..Len(g.dir)
    BY <2>1, <2>2, <2>3
  <2>5. Path(g)[1] = Location(g)[r + 1] /\ Location(g)[r + 1] = g.dir[r + 1]
    BY <2>1, <2>3, <2>4
  <2>6. QED
    BY <2>1, <2>2, <2>3, <2>4, <2>5
<1>7. PICK e \in ToSet(project) : IsInit(e) /\ RootOf(e) = RootOf(f) /\ Path(e) = Anchor(f, n + 1)
  <2>1. n + 1 \in (n + 1)..Len(f.dir)
    BY <1>1
  <2>2. \E e \in FoundAt(Prefix(f.dir, n + 1), <<>>) : IsInit(e) /\ RootOf(e) = RootOf(f) /\ Path(e) = Anchor(f, n + 1)
    BY <2>1, PackagesHaveFiles DEF n
  <2>3. QED
    BY <2>2 DEF FoundAt
<1>8. PICK h \in ToSet(project) : IsInit(h) /\ RootOf(h) = RootOf(g) /\ Path(h) = Anchor(g, r + 1)
  <2>1. \E h \in FoundAt(Prefix(g.dir, r + 1), <<>>) : IsInit(h) /\ RootOf(h) = RootOf(g) /\ Path(h) = Anchor(g, r + 1)
    BY <1>6, PackagesHaveFiles DEF r
  <2>2. QED
    BY <2>1 DEF FoundAt
<1> HIDE DEF r
<1>9. Anchor(f, n + 1) = Anchor(g, r + 1) /\ Anchor(f, n + 1) # <<>>
  <2>1. /\ Anchor(f, n + 1) \in Seq(STRING) /\ Len(Anchor(f, n + 1)) = 1
        /\ Anchor(f, n + 1)[1] = f.dir[n + 1]
    BY <1>1, FirstPackage DEF n
  <2>2. /\ Anchor(g, r + 1) \in Seq(STRING) /\ Len(Anchor(g, r + 1)) = 1
        /\ Anchor(g, r + 1)[1] = g.dir[r + 1]
    BY <1>6, FirstPackage DEF r
  <2>3. \A i \in 1..Len(Anchor(f, n + 1)) : Anchor(f, n + 1)[i] = Anchor(g, r + 1)[i]
    BY <2>1, <2>2, <1>5, <1>6
  <2>4. Anchor(f, n + 1) = Anchor(g, r + 1)
    BY <2>1, <2>2, <2>3, SeqEqual
  <2>5. QED
    BY <2>1, <2>4, EmptySeq
<1>10. e = h
  <2>1. Names(project, e) = {[dotted |-> d, isPackage |-> IsInit(e)] : d \in {Path(e)} \ {<<>>}}
    BY DottedFacts
  <2>2. Names(project, h) = {[dotted |-> d, isPackage |-> IsInit(h)] : d \in {Path(h)} \ {<<>>}}
    BY DottedFacts
  <2>3. Path(e) = Path(h) /\ Path(e) # <<>> /\ IsInit(e) = TRUE /\ IsInit(h) = TRUE
    BY <1>7, <1>8, <1>9 DEF IsInit
  <2>4. Names(project, e) = Names(project, h) /\ Names(project, e) # {}
    BY <2>1, <2>2, <2>3
  <2>5. QED
    BY <2>4 DEF NamesUnique
<1>11. QED
  BY <1>7, <1>8, <1>10

-----------------------------------------------------------------------------
\* Where the statement starts, as a number of directories of f; its dots may lead out
\* of the source root.  The name of that directory, and what lies below it.
Start(f, stmt) == Len(f.dir) - stmt.level + 1
StaysInside(f, stmt) == stmt.level = 0 \/ RootLen(f) <= Start(f, stmt)
Base(f, stmt) == IF stmt.level = 0 THEN <<>> ELSE Anchor(f, Start(f, stmt))
Below(f, stmt, path) == UNION {FoundAt(s, path) : s \in StartsOf(f, stmt)}

\* The dots of an import lead to one directory, if they stay below the root.
LEMMA StartFacts ==
  ASSUME project \in Projects, NEW f \in ToSet(project), NEW stmt \in ToSet(f.imports), stmt.level # 0
  PROVE  /\ StaysInside(f, stmt) => /\ Start(f, stmt) \in RootLen(f)..Len(f.dir)
                                    /\ StartsOf(f, stmt) = {Prefix(f.dir, Start(f, stmt))}
         /\ ~StaysInside(f, stmt) => StartsOf(f, stmt) = {}
<1> DEFINE n == RootLen(f)
           k == Start(f, stmt)
<1>1. IsRoot(n, f.dir) /\ Len(RootOf(f)) = n /\ Len(f.dir) \in Nat /\ stmt.level \in Nat
  BY PathFacts, FilesFacts DEF ToSet, StatementOK
<1>2. StartsOf(f, stmt) = {Prefix(f.dir, i) : i \in {k} \cap (n..Len(f.dir))}
  BY <1>1 DEF StartsOf, Start
<1>3. k = Len(f.dir) - stmt.level + 1
  BY DEF Start
<1>4. StaysInside(f, stmt) <=> n <= k
  BY DEF StaysInside
<1> HIDE DEF n, k
<1>5. k \in Int /\ k <= Len(f.dir) /\ n \in Nat
  BY <1>1, <1>3 DEF IsRoot
<1>6. ASSUME n <= k PROVE k \in n..Len(f.dir) /\ StartsOf(f, stmt) = {Prefix(f.dir, k)}
  BY <1>1, <1>2, <1>5, <1>6
<1>7. ASSUME ~(n <= k) PROVE StartsOf(f, stmt) = {}
  BY <1>1, <1>2, <1>5, <1>7
<1>8. QED
  BY <1>4, <1>6, <1>7 DEF n, k

\* Below the base of a statement, directories and names agree: what is found
\* has the name put together, and if a module has that name, something is found.
LEMMA BelowIsNamed ==
  ASSUME project \in Projects, Regular, NamesUnique, NEW f \in ToSet(project), NEW stmt \in ToSet(f.imports),
         StaysInside(f, stmt), NEW path \in Seq(STRING)
  PROVE  /\ \A g \in Below(f, stmt, path) : g \in ToSet(project) /\ Path(g) = Base(f, stmt) \o path
         /\ Base(f, stmt) \o path \in Modules => Below(f, stmt, path) # {}
<1>1. \A s : FoundAt(s, path) \subseteq ToSet(project)
  BY DEF FoundAt
<1>2. \A g \in Below(f, stmt, path) : g \in ToSet(project) /\ \E s \in StartsOf(f, stmt) : g \in FoundAt(s, path)
  BY <1>1 DEF Below
<1>3. CASE stmt.level = 0
  <2>1. Base(f, stmt) \o path = path /\ StartsOf(f, stmt) = Roots
    <3>1. <<>> \o path = path
      BY ConcatEmptySeq
    <3>2. QED
      BY <1>3, <3>1 DEF Base, StartsOf
  <2>2. ASSUME NEW h \in ToSet(project), NEW g \in ToSet(project)
        PROVE  g \in FoundAt(RootOf(h), path)
                 <=> RootOf(g) = RootOf(h) /\ Path(g) = path /\ (IsInit(g) \/ path # <<>>)
    <3> DEFINE k == RootLen(h)
    <3>1. IsRoot(k, h.dir) /\ Len(h.dir) \in Nat /\ RootOf(h) = Prefix(h.dir, k)
      BY PathFacts, FilesFacts DEF RootOf, RootLen
    <3>2. k \in RootLen(h)..Len(h.dir)
      <4> HIDE DEF k
      <4>1. k \in k..Len(h.dir)
        BY <3>1 DEF IsRoot
      <4>2. QED
        BY <4>1 DEF k
    <3>3. Anchor(h, k) = <<>>
      <4>1. k \in Int
        BY <3>1 DEF IsRoot
      <4> HIDE DEF k
      <4>2. SubSeq(h.dir, k + 1, k) = <<>>
        BY <4>1, SubSeqEmpty
      <4>3. QED
        BY <4>2 DEF Anchor, k
    <3>4. Anchor(h, k) \o path = path
      BY <3>3, ConcatEmptySeq
    <3> HIDE DEF k
    <3>5. g \in FoundAt(Prefix(h.dir, k), path)
            <=> RootOf(g) = RootOf(h) /\ Path(g) = Anchor(h, k) \o path /\ (IsInit(g) \/ path # <<>>)
      BY <3>2, FoundIff
    <3>6. QED
      BY <3>1, <3>4, <3>5
  <2>3. ASSUME NEW g \in Below(f, stmt, path) PROVE Path(g) = path
    <3>1. PICK s \in Roots : g \in FoundAt(s, path)
      BY <1>2, <2>1
    <3>2. PICK h \in ToSet(project) : s = RootOf(h)
      BY <3>1 DEF Roots
    <3>3. QED
      BY <1>2, <2>2, <3>1, <3>2
  <2>4. ASSUME path \in Modules PROVE Below(f, stmt, path) # {}
    <3>1. PICK g \in ToSet(project) : Path(g) = path /\ path # <<>>
      BY <2>4 DEF Modules
    <3>2. g \in FoundAt(RootOf(g), path)
      BY <3>1, <2>2
    <3>3. RootOf(g) \in Roots
      BY DEF Roots
    <3>4. QED
      BY <2>1, <3>2, <3>3 DEF Below
  <2>5. QED
    BY <1>2, <2>1, <2>3, <2>4
<1>4. CASE stmt.level # 0
  <2> DEFINE k == Start(f, stmt)
             q == Anchor(f, k) \o path
  <2>1. k \in RootLen(f)..Len(f.dir) /\ StartsOf(f, stmt) = {Prefix(f.dir, k)} /\ Base(f, stmt) \o path = q
    BY <1>4, StartFacts DEF Base
  <2> HIDE DEF k
  <2>2. Below(f, stmt, path) = FoundAt(Prefix(f.dir, k), path)
    BY <2>1 DEF Below
  <2>3. \A g \in ToSet(project) :
          g \in Below(f, stmt, path) <=> RootOf(g) = RootOf(f) /\ Path(g) = q /\ (IsInit(g) \/ path # <<>>)
    BY <2>1, <2>2, FoundIff
  <2> HIDE DEF q
  <2>4. ASSUME q \in Modules PROVE Below(f, stmt, path) # {}
    <3>1. PICK g \in ToSet(project) : Path(g) = q /\ q # <<>>
      BY <2>4 DEF Modules
    <3>2. CASE k = RootLen(f)
      <4>1. q = path
        <5>1. RootLen(f) \in Int
          BY <2>1, AnchorFacts
        <5>2. Anchor(f, k) = <<>>
          BY <3>2, <5>1, SubSeqEmpty DEF Anchor
        <5>3. QED
          BY <5>2, ConcatEmptySeq DEF q
      <4>2. Roots = {RootOf(f)}
        <5>1. Len(RootOf(f)) = RootLen(f) /\ Len(f.dir) \in Nat /\ RootLen(f) \in Nat /\ stmt.level \in Nat
          BY <2>1, AnchorFacts, PathFacts, FilesFacts DEF ToSet, StatementOK
        <5>2. Len(f.dir) - stmt.level + 1 = RootLen(f) /\ RootLen(f) <= Len(f.dir)
          BY <2>1, <3>2, <5>1 DEF k, Start
        <5>3. Len(SubSeq(f.dir, RootLen(f) + 1, Len(f.dir))) = Len(f.dir) - RootLen(f)
          <6>1. Len(f.dir) \in RootLen(f)..Len(f.dir)
            BY <5>1, <5>2
          <6>2. QED
            BY <6>1, AnchorFacts DEF Anchor
        <5>4. stmt.level = Len(f.dir) - RootLen(f) + 1
          BY <5>1, <5>2
        <5>5. QED
          BY <5>1, <5>3, <5>4 DEF Regular
      <4>3. RootOf(g) = RootOf(f)
        BY <4>2 DEF Roots
      <4>4. QED
        BY <2>3, <3>1, <4>1, <4>3
    <3>3. CASE k # RootLen(f)
      <4>1. k \in (RootLen(f) + 1)..Len(f.dir)
        <5> DEFINE n == RootLen(f)
        <5>1. k \in n..Len(f.dir) /\ n \in Nat /\ k # n /\ Len(f.dir) \in Nat
          BY <2>1, <3>3, AnchorFacts, FilesFacts
        <5> HIDE DEF n
        <5>2. k \in (n + 1)..Len(f.dir)
          BY <5>1
        <5>3. QED
          BY <5>2 DEF n
      <4>2. CASE path = <<>>
        BY <4>1, <4>2, <2>2, PackagesHaveFiles
      <4>3. CASE path # <<>>
        <5>1. RootOf(g) = RootOf(f)
          BY <3>1, <4>1, <4>3, SamePackage DEF q
        <5>2. QED
          BY <2>3, <3>1, <4>3, <5>1
      <4>4. QED
        BY <4>2, <4>3
    <3>4. QED
      BY <3>2, <3>3
  <2>5. QED
    BY <1>2, <2>1, <2>3, <2>4
<1>5. QED
  BY <1>3, <1>4

-----------------------------------------------------------------------------
\* The paths a statement names, and what each leads to.
PathsOf(stmt) == IF stmt.names = {} THEN {stmt.module} ELSE {Append(stmt.module, n) : n \in stmt.names}

\* The files a path leads to, or the part before its last name.
Reached(f, stmt, path) ==
  IF Below(f, stmt, path) # {} THEN Below(f, stmt, path)
  ELSE IF path = <<>> THEN {} ELSE Below(f, stmt, Front(path))

\* A file as the resolver knows it.
Importer(f) == [dotted |-> Path(f), isPackage |-> IsInit(f)]

\* A statement names non-empty paths, and is handed on as it is.
LEMMA StatementFacts ==
  ASSUME project \in Projects, NEW f \in ToSet(project), NEW stmt \in ToSet(f.imports)
  PROVE  /\ StatementOK(stmt)
         /\ \A p \in PathsOf(stmt) : p \in Seq(STRING) /\ p # <<>> /\ Len(p) \in Nat \ {0}
         /\ Raw(stmt).level = stmt.level /\ Raw(stmt).module = stmt.module /\ Raw(stmt).names = stmt.names
<1>1. StatementOK(stmt)
  BY FilesFacts DEF ToSet
<1>2. ASSUME NEW p \in PathsOf(stmt) PROVE p \in Seq(STRING) /\ p # <<>>
  <2>1. CASE stmt.names = {}
    BY <1>1, <2>1 DEF PathsOf, StatementOK
  <2>2. CASE stmt.names # {}
    <3>1. PICK n \in stmt.names : p = Append(stmt.module, n)
      BY <2>2 DEF PathsOf
    <3>2. n \in STRING /\ stmt.module \in Seq(STRING)
      BY <1>1 DEF StatementOK
    <3>3. Append(stmt.module, n) \in Seq(STRING) /\ Append(stmt.module, n) # <<>>
      BY <3>2, AppendProperties
    <3>4. QED
      BY <3>1, <3>3
  <2>3. QED
    BY <2>1, <2>2
<1>3. QED
  BY <1>1, <1>2, EmptySeq DEF Raw

\* The base of a statement is a name.
LEMMA BaseFacts ==
  ASSUME project \in Projects, NEW f \in ToSet(project), NEW stmt \in ToSet(f.imports), StaysInside(f, stmt)
  PROVE  Base(f, stmt) \in Seq(STRING)
<1>1. CASE stmt.level = 0
  BY <1>1 DEF Base
<1>2. CASE stmt.level # 0
  BY <1>2, StartFacts, AnchorFacts DEF Base
<1>3. QED
  BY <1>1, <1>2

\* The dots of a statement, read off the name of the importer, lead where they lead
\* from its directory.
LEMMA BasesAre ==
  ASSUME project \in Projects, NEW f \in ToSet(project), NEW stmt \in ToSet(f.imports)
  PROVE  /\ StaysInside(f, stmt) => Bases(Importer(f), Raw(stmt)) = {Base(f, stmt) \o stmt.module}
         /\ ~StaysInside(f, stmt) => Bases(Importer(f), Raw(stmt)) = {}
<1>1. /\ Raw(stmt).level = stmt.level /\ Raw(stmt).module = stmt.module
      /\ stmt.level \in Nat
  BY StatementFacts DEF StatementOK
<1>2. CASE stmt.level = 0
  BY <1>1, <1>2 DEF Bases, Base, StaysInside
<1>3. CASE stmt.level # 0
  <2> DEFINE n == RootLen(f)
             k == Start(f, stmt)
             len == Len(Location(f))
             own == IF IsInit(f) THEN Len(Path(f)) ELSE Len(Path(f)) - 1
             keep == own - (stmt.level - 1)
  <2>1. /\ IsRoot(n, f.dir) /\ Len(f.dir) \in Nat
        /\ len = Len(f.dir) + (IF IsInit(f) THEN 0 ELSE 1)
        /\ \A i \in 1..Len(f.dir) : Location(f)[i] = f.dir[i]
        /\ Path(f) \in Seq(STRING) /\ Len(Path(f)) = len - n
        /\ \A i \in 1..(len - n) : Path(f)[i] = Location(f)[n + i]
    BY PathFacts, FilesFacts
  <2>2. RelativeAnchor(Importer(f), stmt.level) = IF keep >= 0 THEN {Prefix(Path(f), keep)} ELSE {}
    BY DEF RelativeAnchor, Importer
  <2>3. k = Len(f.dir) - stmt.level + 1 /\ (StaysInside(f, stmt) <=> n <= k)
    BY <1>3 DEF Start, StaysInside
  <2> HIDE DEF n, len
  <2>4. n \in Nat /\ n <= Len(f.dir)
    BY <2>1 DEF IsRoot
  <2>5. len \in Nat /\ Len(f.dir) <= len /\ own = Len(f.dir) - n
    <3> DEFINE d == Len(f.dir)
               l == Len(Path(f))
    <3>1. CASE IsInit(f)
      <4>1. own = l /\ d \in Nat /\ len = d /\ l = len - n
        BY <2>1, <3>1
      <4> HIDE DEF d, l, own
      <4>2. len \in Nat /\ d <= len /\ own = d - n
        BY <4>1, <2>4
      <4>3. QED
        BY <4>2 DEF d
    <3>2. CASE ~IsInit(f)
      <4>1. own = l - 1 /\ d \in Nat /\ len = d + 1 /\ l = len - n
        BY <2>1, <3>2
      <4> HIDE DEF d, l, own
      <4>2. len \in Nat /\ d <= len /\ own = d - n
        BY <4>1, <2>4
      <4>3. QED
        BY <4>2 DEF d
    <3>3. QED
      BY <3>1, <3>2
  <2> DEFINE d == Len(f.dir)
             l == Len(Path(f))
             s == stmt.level
  <2>6. /\ keep = k - n /\ k \in Int /\ k <= d
        /\ d \in Nat /\ n <= d /\ d <= len /\ len - n = l /\ l \in Nat
    <3>1. /\ d \in Nat /\ s \in Nat /\ s # 0 /\ k = d - s + 1 /\ n \in Nat /\ n <= d /\ own = d - n
          /\ keep = own - (s - 1) /\ len \in Nat /\ d <= len /\ l = len - n
      BY <1>1, <1>3, <2>1, <2>3, <2>4, <2>5
    <3> HIDE DEF own, k, keep, d, l, s
    <3>2. QED
      BY <3>1
  <2> HIDE DEF own, k, keep, s
  <2>7. ASSUME n <= k PROVE Prefix(Path(f), keep) = Anchor(f, k)
    <3>1. /\ Anchor(f, k) \in Seq(STRING) /\ Len(Anchor(f, k)) = k - n
          /\ \A i \in 1..(k - n) : Anchor(f, k)[i] = f.dir[n + i]
      <4>1. k \in n..Len(f.dir)
        <5> HIDE DEF d
        <5>1. k \in n..d
          BY <2>4, <2>6, <2>7
        <5>2. QED
          BY <5>1 DEF d
      <4>2. k \in RootLen(f)..Len(f.dir)
        BY <4>1 DEF n
      <4>3. QED
        BY <4>2, AnchorFacts DEF n
    <3>2. keep \in 0..Len(Path(f))
      <4> HIDE DEF d, l
      <4>1. keep \in 0..l
        BY <2>4, <2>5, <2>6, <2>7
      <4>2. QED
        BY <4>1 DEF l
    <3>3. /\ Prefix(Path(f), keep) \in Seq(STRING) /\ Len(Prefix(Path(f), keep)) = keep
          /\ \A i \in 1..keep : Prefix(Path(f), keep)[i] = Path(f)[i]
      BY <2>1, <3>2, PrefixFacts
    <3>4. ASSUME NEW i \in 1..keep PROVE Prefix(Path(f), keep)[i] = Anchor(f, k)[i]
      <4>1. i \in 1..(k - n) /\ i \in 1..(len - n) /\ n + i \in 1..Len(f.dir)
        <5> HIDE DEF d, l
        <5>1. i \in 1..(k - n) /\ i \in 1..(len - n) /\ n + i \in 1..d
          BY <2>4, <2>5, <2>6, <2>7
        <5>2. QED
          BY <5>1 DEF d
      <4>2. QED
        BY <4>1, <2>1, <3>1, <3>3
    <3>5. QED
      BY <2>6, <3>1, <3>3, <3>4, SeqEqual
  <2>8. n <= k <=> keep >= 0
    BY <2>4, <2>6
  <2>9. /\ n <= k => RelativeAnchor(Importer(f), stmt.level) = {Anchor(f, k)}
        /\ ~(n <= k) => RelativeAnchor(Importer(f), stmt.level) = {}
    BY <2>2, <2>7, <2>8
  <2>10. Base(f, stmt) = Anchor(f, k)
    BY <1>3 DEF Base, k
  <2>11. Bases(Importer(f), Raw(stmt)) = {anchor \o stmt.module : anchor \in RelativeAnchor(Importer(f), stmt.level)}
    BY <1>1, <1>3 DEF Bases
  <2>12. QED
    BY <2>3, <2>9, <2>10, <2>11
<1>4. QED
  BY <1>2, <1>3

\* The candidates of an import are its paths, put behind its base.
LEMMA CandidatesAre ==
  ASSUME project \in Projects, NEW f \in ToSet(project), NEW stmt \in ToSet(f.imports)
  PROVE  /\ StaysInside(f, stmt) =>
              CandidateNames(Importer(f), Raw(stmt)) = {Base(f, stmt) \o p : p \in PathsOf(stmt)}
         /\ ~StaysInside(f, stmt) => CandidateNames(Importer(f), Raw(stmt)) = {}
<1>1. StatementOK(stmt) /\ Raw(stmt).names = stmt.names
  BY StatementFacts
<1> DEFINE a == Base(f, stmt)
           bases == Bases(Importer(f), Raw(stmt))
<1>2. CandidateNames(Importer(f), Raw(stmt)) =
        IF stmt.names = {} THEN bases \ {<<>>} ELSE {Append(b, n) : b \in bases, n \in stmt.names}
  BY <1>1 DEF CandidateNames
<1>3. /\ StaysInside(f, stmt) => bases = {a \o stmt.module}
      /\ ~StaysInside(f, stmt) => bases = {}
  BY BasesAre
<1>4. StaysInside(f, stmt) => a \in Seq(STRING)
  BY BaseFacts
<1>5. stmt.module \in Seq(STRING) /\ stmt.names \subseteq STRING
  BY <1>1 DEF StatementOK
<1>6. stmt.names = {} => a \o stmt.module = stmt.module /\ stmt.module # <<>>
  <2>1. stmt.names = {} => a = <<>> /\ stmt.module # <<>>
    BY <1>1 DEF StatementOK, Base
  <2>2. <<>> \o stmt.module = stmt.module
    BY <1>5, ConcatEmptySeq
  <2> HIDE DEF a
  <2>3. QED
    BY <2>1, <2>2
<1> HIDE DEF a, bases
<1>7. ASSUME StaysInside(f, stmt), NEW n \in stmt.names
      PROVE  Append(a \o stmt.module, n) = a \o Append(stmt.module, n)
  <2>1. n \in STRING /\ <<n>> \in Seq(STRING) /\ a \o stmt.module \in Seq(STRING)
    BY <1>4, <1>5, <1>7, ConcatProperties
  <2>2. Append(a \o stmt.module, n) = (a \o stmt.module) \o <<n>>
    BY <2>1, AppendIsConcat
  <2>3. Append(stmt.module, n) = stmt.module \o <<n>>
    BY <1>5, <2>1, AppendIsConcat
  <2>4. (a \o stmt.module) \o <<n>> = a \o (stmt.module \o <<n>>)
    <3> DEFINE u == <<n>>
               m == stmt.module
    <3>1. a \in Seq(STRING) /\ m \in Seq(STRING) /\ u \in Seq(STRING)
      BY <1>4, <1>5, <1>7, <2>1
    <3> HIDE DEF u, m
    <3>2. (a \o m) \o u = a \o (m \o u)
      BY <3>1, ConcatAssociative
    <3>3. QED
      BY <3>2 DEF u, m
  <2>5. QED
    BY <2>2, <2>3, <2>4
<1>8. CASE stmt.names = {}
  BY <1>2, <1>3, <1>6, <1>8 DEF PathsOf, a
<1>9. CASE stmt.names # {}
  <2>1. PathsOf(stmt) = {Append(stmt.module, n) : n \in stmt.names}
    BY <1>9 DEF PathsOf
  <2>2. \A x : x \in CandidateNames(Importer(f), Raw(stmt))
                <=> \E b \in bases, n \in stmt.names : x = Append(b, n)
    BY <1>1, <1>9 DEF CandidateNames, bases
  <2>3. ASSUME StaysInside(f, stmt)
        PROVE  CandidateNames(Importer(f), Raw(stmt)) = {a \o p : p \in PathsOf(stmt)}
    <3> DEFINE m == stmt.module
               ns == stmt.names
               whole == a \o m
               c == CandidateNames(Importer(f), Raw(stmt))
    <3>1. bases = {whole}
      BY <1>3, <2>3
    <3>2. \A n \in ns : Append(whole, n) = a \o Append(m, n)
      BY <1>7, <2>3
    <3>3. \A x : x \in c <=> \E b \in bases, n \in ns : x = Append(b, n)
      BY <2>2
    <3>4. PathsOf(stmt) = {Append(m, n) : n \in ns}
      BY <2>1
    <3> DEFINE A(b, n) == Append(b, n)
               C(p) == a \o p
               P == PathsOf(stmt)
               R == {C(p) : p \in P}
    <3>5. P = {A(m, n) : n \in ns} /\ \A n \in ns : A(whole, n) = C(A(m, n))
      BY <3>2, <3>4
    <3>6. \A x : x \in c <=> \E n \in ns : x = A(whole, n)
      <4> HIDE DEF m, ns, whole, c, A
      <4>1. \A x : x \in c <=> \E b \in bases, n \in ns : x = A(b, n)
        BY <3>3 DEF A
      <4>2. QED
        BY <3>1, <4>1
    <3> HIDE DEF m, ns, whole, c, A, C, P
    <3>7. /\ \A n \in ns : A(m, n) \in P
          /\ \A p \in P : \E n \in ns : p = A(m, n)
      BY <3>5
    <3>8. (\A p \in P : C(p) \in R) /\ \A x \in R : \E p \in P : x = C(p)
      OBVIOUS
    <3> HIDE DEF R
    <3>9. ASSUME NEW x \in c PROVE x \in R
      <4>1. PICK n \in ns : x = A(whole, n)
        BY <3>6
      <4>2. x = C(A(m, n)) /\ A(m, n) \in P
        BY <3>5, <3>7, <4>1
      <4>3. QED
        BY <3>8, <4>2
    <3>10. ASSUME NEW x \in R PROVE x \in c
      <4>1. PICK p \in P : x = C(p)
        BY <3>8
      <4>2. PICK n \in ns : p = A(m, n)
        BY <3>7
      <4>3. x = A(whole, n)
        BY <3>5, <4>1, <4>2
      <4>4. QED
        BY <3>6, <4>3
    <3>11. c = R
      BY <3>9, <3>10
    <3>12. QED
      BY <3>11 DEF c, R, C, P
  <2>4. ~StaysInside(f, stmt) => CandidateNames(Importer(f), Raw(stmt)) = {}
    BY <1>3, <2>2
  <2>5. QED
    BY <2>3, <2>4 DEF a
<1>10. QED
  BY <1>8, <1>9

\* A path resolves, by names, to the modules it leads to, by directories.
LEMMA PathResolves ==
  ASSUME project \in Projects, Regular, NamesUnique, NEW f \in ToSet(project), NEW stmt \in ToSet(f.imports),
         StaysInside(f, stmt), NEW p \in PathsOf(stmt)
  PROVE  UNION {DottedOf(g) : g \in Reached(f, stmt, p)} = ResolveInternal(Base(f, stmt) \o p, Modules)
<1> DEFINE a == Base(f, stmt)
           q == a \o p
           parent == Front(p)
           B(path) == Below(f, stmt, path)
<1>1. a \in Seq(STRING) /\ p \in Seq(STRING) /\ p # <<>> /\ Len(p) \in Nat \ {0}
  BY BaseFacts, StatementFacts
<1>2. Len(a) \in Nat
  BY <1>1, LenProperties
<1>3. /\ q \in Seq(STRING) /\ Len(q) = Len(a) + Len(p)
      /\ \A i \in 1..(Len(a) + Len(p)) : q[i] = IF i <= Len(a) THEN a[i] ELSE p[i - Len(a)]
  <2> HIDE DEF a
  <2>1. QED
    BY <1>1, ConcatProperties
<1>4. /\ parent \in Seq(STRING) /\ Len(parent) = Len(p) - 1
      /\ \A i \in 1..(Len(p) - 1) : parent[i] = p[i]
  <2>1. Len(p) - 1 \in 0..Len(p)
    BY <1>1
  <2>2. Front(p) = Prefix(p, Len(p) - 1)
    BY DEF Front, Prefix
  <2>3. /\ Prefix(p, Len(p) - 1) \in Seq(STRING) /\ Len(Prefix(p, Len(p) - 1)) = Len(p) - 1
        /\ \A i \in 1..(Len(p) - 1) : Prefix(p, Len(p) - 1)[i] = p[i]
    BY <1>1, <2>1, PrefixFacts
  <2>4. QED
    BY <2>2, <2>3
<1> HIDE DEF a, parent
<1>5. a \o parent = Front(q) /\ (Front(q) = <<>> <=> ~(Len(q) > 1))
  <2> DEFINE r == a \o parent
             len == Len(q)
  <2>1. /\ r \in Seq(STRING) /\ Len(r) = Len(a) + Len(parent)
        /\ \A i \in 1..(Len(a) + Len(parent)) : r[i] = IF i <= Len(a) THEN a[i] ELSE parent[i - Len(a)]
    BY <1>1, <1>4, ConcatProperties
  <2>2. len \in Nat \ {0} /\ len - 1 = Len(a) + Len(parent) /\ len = Len(a) + Len(p) /\ Len(r) = len - 1
    BY <1>1, <1>2, <1>3, <1>4, <2>1
  <2>3. /\ Front(q) \in Seq(STRING) /\ Len(Front(q)) = len - 1
        /\ \A i \in 1..(len - 1) : Front(q)[i] = q[i]
    <3>1. len - 1 \in 0..Len(q)
      BY <2>2
    <3>2. Front(q) = Prefix(q, len - 1)
      BY DEF Front, Prefix
    <3> HIDE DEF q, len
    <3>3. QED
      BY <1>3, <3>1, <3>2, PrefixFacts
  <2> HIDE DEF r, q, len
  <2>4. ASSUME NEW i \in 1..(len - 1) PROVE r[i] = Front(q)[i]
    <3>1. i \in 1..(Len(a) + Len(parent)) /\ i \in 1..(Len(a) + Len(p))
      BY <1>1, <1>2, <2>2
    <3>2. CASE i <= Len(a)
      BY <1>3, <2>1, <2>3, <3>1, <3>2
    <3>3. CASE ~(i <= Len(a))
      <4>1. i - Len(a) \in 1..(Len(p) - 1)
        BY <1>1, <1>2, <2>2, <3>3
      <4>2. QED
        BY <4>1, <1>3, <1>4, <2>1, <2>3, <3>1, <3>3
    <3>4. QED
      BY <3>2, <3>3
  <2>5. r = Front(q)
    BY <2>1, <2>2, <2>3, <2>4, SeqEqual
  <2>6. Front(q) = <<>> <=> len - 1 = 0
    BY <2>3, EmptySeq
  <2>7. QED
    BY <2>2, <2>5, <2>6 DEF r, len
<1>6. q # <<>>
  <2>1. Len(q) > 0
    BY <1>1, <1>2, <1>3
  <2> HIDE DEF q
  <2>2. QED
    BY <2>1, EmptySeq
<1>7. /\ \A g \in B(p) : g \in ToSet(project) /\ Path(g) = q
      /\ q \in Modules => B(p) # {}
  BY <1>1, BelowIsNamed DEF a
<1>8. /\ \A g \in B(parent) : g \in ToSet(project) /\ Path(g) = Front(q)
      /\ Front(q) \in Modules => B(parent) # {}
  <2>1. /\ \A g \in B(parent) : g \in ToSet(project) /\ Path(g) = a \o parent
        /\ a \o parent \in Modules => B(parent) # {}
    BY <1>4, BelowIsNamed DEF a
  <2>2. QED
    BY <1>5, <2>1
<1>9. Reached(f, stmt, p) = IF B(p) # {} THEN B(p) ELSE B(parent)
  BY <1>1 DEF Reached, parent
<1>10. \A g \in ToSet(project) : /\ DottedOf(g) = {Path(g)} \ {<<>>}
                                 /\ Path(g) # <<>> => Path(g) \in Modules
  BY DottedFacts DEF Modules
<1>11. <<>> \notin Modules
  BY DEF Modules
<1> HIDE DEF q, B
<1>12. CASE q \in Modules
  <2>1. ResolveInternal(q, Modules) = {q}
    BY <1>12 DEF ResolveInternal
  <2>2. Reached(f, stmt, p) # {} /\ \A g \in Reached(f, stmt, p) : DottedOf(g) = {q}
    BY <1>6, <1>7, <1>9, <1>10, <1>12
  <2>3. QED
    BY <2>1, <2>2 DEF q, a
<1>13. CASE q \notin Modules
  <2>1. B(p) = {}
    BY <1>6, <1>7, <1>10, <1>13
  <2>2. ResolveInternal(q, Modules) = {x \in Modules : Len(q) > 1 /\ x = Front(q)}
    BY <1>13 DEF ResolveInternal
  <2>3. CASE Front(q) \in Modules
    <3>1. ResolveInternal(q, Modules) = {Front(q)}
      BY <1>5, <1>11, <2>2, <2>3
    <3>2. Reached(f, stmt, p) # {} /\ \A g \in Reached(f, stmt, p) : DottedOf(g) = {Front(q)}
      BY <1>8, <1>9, <1>10, <1>11, <2>1, <2>3
    <3>3. QED
      BY <3>1, <3>2 DEF q, a
  <2>4. CASE Front(q) \notin Modules
    <3>1. ResolveInternal(q, Modules) = {}
      BY <2>2, <2>4
    <3>2. \A g \in Reached(f, stmt, p) : DottedOf(g) = {}
      BY <1>8, <1>9, <1>10, <2>1, <2>4
    <3>3. QED
      BY <3>1, <3>2 DEF q, a
  <2>5. QED
    BY <2>3, <2>4
<1>14. QED
  BY <1>12, <1>13

\* What a statement binds, path by path.
LEMMA BindsAre ==
  ASSUME NEW f, NEW stmt
  PROVE  Binds(f, stmt) = UNION {Reached(f, stmt, p) : p \in PathsOf(stmt)}
BY DEF Binds, Reached, Below, PathsOf

\* So a statement resolves to the modules whose files it binds.
LEMMA TargetsAreBound ==
  ASSUME project \in Projects, Regular, NamesUnique, NEW f \in ToSet(project), NEW stmt \in ToSet(f.imports)
  PROVE  UNION {ResolveInternal(c, Modules) : c \in CandidateNames(Importer(f), Raw(stmt))}
           = UNION {DottedOf(g) : g \in Binds(f, stmt)}
<1> DEFINE a == Base(f, stmt)
           P == PathsOf(stmt)
           R(p) == Reached(f, stmt, p)
           I(c) == ResolveInternal(c, Modules)
           C == CandidateNames(Importer(f), Raw(stmt))
<1>1. Binds(f, stmt) = UNION {R(p) : p \in P}
  BY BindsAre
<1>2. CASE StaysInside(f, stmt)
  <2>1. C = {a \o p : p \in P}
    BY <1>2, CandidatesAre
  <2>2. \A p \in P : UNION {DottedOf(g) : g \in R(p)} = I(a \o p)
    BY <1>2, PathResolves
  <2> HIDE DEF a, P, R, I, C
  <2>3. UNION {I(c) : c \in C} = UNION {I(a \o p) : p \in P}
    BY <2>1
  <2>4. UNION {DottedOf(g) : g \in Binds(f, stmt)} = UNION {UNION {DottedOf(g) : g \in R(p)} : p \in P}
    BY <1>1
  <2>5. QED
    BY <2>2, <2>3, <2>4 DEF I, C
<1>3. CASE ~StaysInside(f, stmt)
  <2>1. C = {}
    BY <1>3, CandidatesAre
  <2>2. StartsOf(f, stmt) = {}
    BY <1>3, StartFacts DEF StaysInside
  <2>3. \A p : R(p) = {}
    BY <2>2 DEF Reached, Below
  <2>4. Binds(f, stmt) = {}
    BY <1>1, <2>3
  <2>5. QED
    BY <2>1, <2>4
<1>4. QED
  BY <1>2, <1>3

\* The modules handed to the graph of the whole tree: the files that have a name.
LEMMA InputFacts ==
  ASSUME project \in Projects, Regular, inputs = InputsOf(project, AllFiles)
  PROVE  /\ DOMAIN inputs = {i \in DOMAIN project : Path(project[i]) # <<>>}
         /\ \A i \in DOMAIN inputs :
              /\ project[i] \in ToSet(project)
              /\ inputs[i].name = Importer(project[i])
              /\ inputs[i].imports = {Raw(stmt) : stmt \in ToSet(project[i].imports)}
         /\ ModuleSet(inputs) = Modules
<1>1. \A i \in DOMAIN project : project[i] \in ToSet(project)
  BY DEF ToSet
<1>2. ASSUME NEW i \in DOMAIN project
      PROVE  /\ Names(project, project[i]) # {} <=> Path(project[i]) # <<>>
             /\ Path(project[i]) # <<>> => Names(project, project[i]) = {Importer(project[i])}
  <2> DEFINE f == project[i]
             I(d) == [dotted |-> d, isPackage |-> IsInit(f)]
  <2>1. Names(project, f) = {I(d) : d \in {Path(f)} \ {<<>>}}
    BY <1>1, DottedFacts
  <2>2. Importer(f) = I(Path(f))
    BY DEF Importer
  <2> HIDE DEF f, I
  <2>3. (Names(project, f) # {} <=> Path(f) # <<>>) /\ (Path(f) # <<>> => Names(project, f) = {Importer(f)})
    BY <2>1, <2>2
  <2>4. QED
    BY <2>3 DEF f
<1>3. inputs = [i \in {j \in DOMAIN project : Names(project, project[j]) # {}} |->
                  [name |-> CHOOSE n \in Names(project, project[i]) : TRUE,
                   imports |-> {Raw(stmt) : stmt \in ToSet(project[i].imports)}]]
  BY DEF InputsOf, InScope
<1>4. DOMAIN inputs = {i \in DOMAIN project : Path(project[i]) # <<>>}
  BY <1>2, <1>3
<1>5. ASSUME NEW i \in DOMAIN inputs
      PROVE  /\ project[i] \in ToSet(project)
             /\ inputs[i].name = Importer(project[i])
             /\ inputs[i].imports = {Raw(stmt) : stmt \in ToSet(project[i].imports)}
  <2>1. i \in DOMAIN project /\ Names(project, project[i]) = {Importer(project[i])}
    BY <1>2, <1>4
  <2>2. (CHOOSE n \in Names(project, project[i]) : TRUE) = Importer(project[i])
    BY <2>1
  <2>3. QED
    BY <1>1, <1>3, <2>1, <2>2
<1>6. ModuleSet(inputs) = Modules
  <2>1. \A i \in DOMAIN inputs : inputs[i].name.dotted = Path(project[i])
    <3>1. \A f : Importer(f).dotted = Path(f)
      BY DEF Importer
    <3>2. QED
      BY <1>5, <3>1
  <2>2. ToSet(project) = {project[i] : i \in DOMAIN project}
    BY DEF ToSet
  <2>3. QED
    BY <1>4, <2>1, <2>2 DEF ModuleSet, Modules
<1>7. QED
  BY <1>4, <1>5, <1>6

\* The statements and the edges that count, those of load time if `hard`.
Counted(hard, stmt) == hard => ToSet(stmt.inside) \subseteq {"else", "block"}
CountedEdges(hard) == {e \in edges : hard => e.kind.runtime}

\* A dependency is a target of a statement that counts.
LEMMA DependsOn ==
  ASSUME project \in Projects, Regular, NamesUnique, NEW hard \in BOOLEAN
  PROVE  \A d : d \in Depends(LAMBDA stmt : Counted(hard, stmt)) <=>
           \E f \in ToSet(project) : \E stmt \in ToSet(f.imports) :
             /\ Counted(hard, stmt) /\ Path(f) # <<>>
             /\ \E t \in Targets(Importer(f), Raw(stmt), Modules) : d = <<Path(f), t>>
<1> DEFINE D == Depends(LAMBDA stmt : Counted(hard, stmt))
           H(f) == UNION {Binds(f, f.imports[k]) : k \in {j \in DOMAIN f.imports : Counted(hard, f.imports[j])}}
<1>1. ASSUME NEW d
      PROVE  d \in D <=> \E f \in ToSet(project) : \E g \in H(f) : d \in DottedOf(f) \X DottedOf(g) /\ d[1] # d[2]
  BY DEF Depends
<1>2. ASSUME NEW f \in ToSet(project), NEW g
      PROVE  g \in H(f) <=> \E stmt \in ToSet(f.imports) : Counted(hard, stmt) /\ g \in Binds(f, stmt)
  BY DEF ToSet
<1>3. ASSUME NEW f \in ToSet(project), NEW stmt \in ToSet(f.imports), NEW t
      PROVE  t \in Targets(Importer(f), Raw(stmt), Modules)
               <=> t # Path(f) /\ \E g \in Binds(f, stmt) : t \in DottedOf(g)
  <2>1. Targets(Importer(f), Raw(stmt), Modules)
          = (UNION {DottedOf(g) : g \in Binds(f, stmt)}) \ {Path(f)}
    BY TargetsAreBound DEF Targets, Importer
  <2>2. QED
    BY <2>1
<1>4. \A f \in ToSet(project) : DottedOf(f) = {Path(f)} \ {<<>>}
  BY DottedFacts
<1> HIDE DEF D, H
<1>5. ASSUME NEW d \in D
      PROVE  \E f \in ToSet(project) : \E stmt \in ToSet(f.imports) :
             /\ Counted(hard, stmt) /\ Path(f) # <<>>
             /\ \E t \in Targets(Importer(f), Raw(stmt), Modules) : d = <<Path(f), t>>
  <2>0. PICK f \in ToSet(project) : \E g \in H(f) : d \in DottedOf(f) \X DottedOf(g) /\ d[1] # d[2]
    BY <1>1
  <2>1. PICK g \in H(f) : d \in DottedOf(f) \X DottedOf(g) /\ d[1] # d[2]
    BY <2>0
  <2>2. PICK stmt \in ToSet(f.imports) : Counted(hard, stmt) /\ g \in Binds(f, stmt)
    BY <1>2, <2>1
  <2>3. d = <<d[1], d[2]>> /\ d[1] \in DottedOf(f) /\ d[2] \in DottedOf(g)
    BY <2>1
  <2>4. d[1] = Path(f) /\ Path(f) # <<>>
    BY <1>4, <2>3
  <2>5. d[2] \in Targets(Importer(f), Raw(stmt), Modules)
    BY <1>3, <2>1, <2>2, <2>3, <2>4
  <2>6. QED
    BY <2>2, <2>3, <2>4, <2>5
<1>6. ASSUME NEW f \in ToSet(project), NEW stmt \in ToSet(f.imports), Counted(hard, stmt), Path(f) # <<>>,
             NEW t \in Targets(Importer(f), Raw(stmt), Modules)
      PROVE  <<Path(f), t>> \in D
  <2>1. PICK g \in Binds(f, stmt) : t \in DottedOf(g)
    BY <1>3
  <2>2. t # Path(f) /\ Path(f) \in DottedOf(f)
    BY <1>3, <1>4, <1>6
  <2>3. g \in H(f)
    BY <1>2, <1>6, <2>1
  <2>4. QED
    BY <1>1, <2>1, <2>2, <2>3
<1>7. QED
  BY <1>5, <1>6 DEF D

-----------------------------------------------------------------------------
\* An edge that the module at i makes to t, by the names the index has.
EdgeOf(i, t) ==
  [by |-> i, from |-> index[inputs[i].name.dotted], to |-> index[t],
   kind |-> Merged(Leading(inputs[i], t, ModuleSet(inputs)))]

\* What the module at i imports.
Aims(i) == TargetsOf(inputs[i], ModuleSet(inputs))

\* The edges are those that modules make, all of the modules the loop has passed.
EdgesOK ==
  /\ \A e \in edges : \E i \in DOMAIN inputs : \E t \in Aims(i) : e = EdgeOf(i, t)
  /\ stage \in {"edges", "built"} =>
       \A i \in DOMAIN inputs : stage = "built" \/ i < at => \A t \in Aims(i) : EdgeOf(i, t) \in edges

EInv == IInv /\ EdgesOK

\* There are no edges to begin with.
LEMMA InitMakesEdges == ASSUME Init PROVE EdgesOK
BY DEF Init, GraphInit, EdgesOK

\* An edge depends on the modules and the index only.
LEMMA EdgesOfSame ==
  ASSUME inputs' = inputs, index' = index
  PROVE  \A i, t : EdgeOf(i, t)' = EdgeOf(i, t) /\ Aims(i)' = Aims(i)
BY DEF EdgeOf, Aims, ModuleSet

\* The loop over the modules adds exactly the edges of the next one; the index it
\* reads does not change any more.
LEMMA StepsKeepEdges == ASSUME EInv, [Next]_vars PROVE EdgesOK'
<1>1. /\ edges = {} <=> ~ \E e \in edges : TRUE
      /\ DOMAIN inputs \subseteq Nat /\ at \in Nat
      /\ \A i \in DOMAIN inputs : i <= Len(project)
      /\ Len(project) \in Nat
  BY DomainOfInputs DEF EInv, IInv
<1>2. CASE AddNode
  <2>1. stage = "nodes" /\ stage' = "nodes" /\ edges' = edges /\ edges = {}
    BY <1>2 DEF AddNode, EInv, IInv
  <2>2. QED
    BY <2>1 DEF EdgesOK
<1>3. CASE Skip
  <2>1. /\ at \notin DOMAIN inputs /\ at' = at + 1
        /\ UNCHANGED <<inputs, index, edges, stage>>
    BY <1>3 DEF Skip
  <2>2. \A i \in DOMAIN inputs : i < at + 1 => i < at
    BY <1>1, <2>1
  <2>3. \A i, t : EdgeOf(i, t)' = EdgeOf(i, t) /\ Aims(i)' = Aims(i)
    BY <2>1, EdgesOfSame
  <2>4. QED
    BY <2>1, <2>2, <2>3 DEF EdgesOK, EInv
<1>4. CASE NodesDone
  <2>1. /\ stage = "nodes" /\ stage' = "edges" /\ edges' = edges /\ edges = {} /\ at' = 1 /\ at > Len(project)
        /\ inputs' = inputs
    BY <1>4 DEF NodesDone, EInv, IInv
  <2>2. \A i \in DOMAIN inputs : ~(i < 1)
    BY DomainOfInputs DEF EInv
  <2>3. QED
    BY <2>1, <2>2 DEF EdgesOK
<1>5. CASE AddEdges
  <2>1. /\ stage = "edges" /\ stage' = stage /\ at \in DOMAIN inputs /\ at' = at + 1
        /\ edges' = edges \cup {EdgeOf(at, t) : t \in Aims(at)}
        /\ UNCHANGED <<inputs, index>>
    BY <1>5 DEF AddEdges, EdgeOf, Aims
  <2>2. \A i \in DOMAIN inputs : i < at + 1 => i < at \/ i = at
    BY <1>1
  <2>3. \A i, t : EdgeOf(i, t)' = EdgeOf(i, t) /\ Aims(i)' = Aims(i)
    BY <2>1, EdgesOfSame
  <2>4. QED
    BY <2>1, <2>2, <2>3 DEF EdgesOK, EInv
<1>6. CASE Built
  <2>1. /\ stage = "edges" /\ stage' = "built" /\ at > Len(project)
        /\ UNCHANGED <<inputs, index, edges>>
    BY <1>6 DEF Built
  <2>2. \A i \in DOMAIN inputs : i < at
    BY <1>1, <2>1
  <2>3. \A i, t : EdgeOf(i, t)' = EdgeOf(i, t) /\ Aims(i)' = Aims(i)
    BY <2>1, EdgesOfSame
  <2>4. QED
    BY <2>1, <2>2, <2>3 DEF EdgesOK, EInv
<1>7. CASE UNCHANGED graphVars
  <2>1. UNCHANGED <<inputs, index, edges, stage, at>>
    BY <1>7 DEF graphVars
  <2>2. \A i, t : EdgeOf(i, t)' = EdgeOf(i, t) /\ Aims(i)' = Aims(i)
    BY <2>1, EdgesOfSame
  <2>3. QED
    BY <2>1, <2>2 DEF EdgesOK, EInv
<1>8. QED
  BY <1>2, <1>3, <1>4, <1>5, <1>6, <1>7 DEF Next, GraphNext, Analyze, Finished, vars

\* So each edge is one that a module makes, and all are there in the end.
LEMMA EdgesInvariance == Spec => []EInv
<1>1. Init => EInv
  BY InitEstablishes, InitMakesEdges DEF EInv
<1>2. EInv /\ [Next]_vars => EInv'
  BY StepsPreserve, StepsKeepEdges DEF EInv
<1>3. QED
  BY <1>1, <1>2, PTL DEF Spec

\* The flags of a statement say whether it counts at load time.
LEMMA FlagsSay ==
  ASSUME NEW stmt, StatementOK(stmt)
  PROVE  ~Raw(stmt).typeChecking /\ ~Raw(stmt).local <=> ToSet(stmt.inside) \subseteq {"else", "block"}
<1> DEFINE inside == stmt.inside
<1>1. inside \in Seq({"def", "if TYPE_CHECKING", "else", "block"})
  BY DEF StatementOK
<1>2. /\ Raw(stmt).local = Contains(inside, "def")
      /\ Raw(stmt).typeChecking = Contains(inside, "if TYPE_CHECKING")
  BY DEF Raw
<1> HIDE DEF inside
<1>3. /\ ToSet(inside) \subseteq {"def", "if TYPE_CHECKING", "else", "block"}
      /\ \A c : Contains(inside, c) <=> c \in ToSet(inside)
  <2> DEFINE constructs == {"def", "if TYPE_CHECKING", "else", "block"}
  <2>1. inside \in Seq(constructs)
    BY <1>1
  <2> HIDE DEF constructs
  <2>2. DOMAIN inside = 1..Len(inside) /\ \A i \in DOMAIN inside : inside[i] \in constructs
    BY <2>1
  <2>3. ToSet(inside) \subseteq constructs /\ \A c : Contains(inside, c) <=> c \in ToSet(inside)
    BY <2>2 DEF ToSet, Contains
  <2>4. QED
    BY <2>3 DEF constructs
<1>4. ToSet(inside) \subseteq {"else", "block"} <=> "def" \notin ToSet(inside) /\ "if TYPE_CHECKING" \notin ToSet(inside)
  BY <1>3
<1>5. QED
  BY <1>2, <1>3, <1>4 DEF inside

\* An arrow of the graph is a target of a statement that counts.
LEMMA ArrowsAre ==
  ASSUME EInv, stage = "built", scope = AllFiles, Regular, NEW hard \in BOOLEAN
  PROVE  \A d : d \in Arrows(CountedEdges(hard)) <=>
           \E f \in ToSet(project) : \E stmt \in ToSet(f.imports) :
             /\ Counted(hard, stmt) /\ Path(f) # <<>>
             /\ \E t \in Targets(Importer(f), Raw(stmt), Modules) : d = <<Path(f), t>>
<1>1. /\ project \in Projects /\ inputs = InputsOf(project, AllFiles)
      /\ \A d \in DOMAIN index : index[d] \in 1..Len(nodes) /\ nodes[index[d]] = d
      /\ \A i \in DOMAIN inputs : inputs[i].name.dotted \in DOMAIN index
  BY DEF EInv, IInv, IndexOK, Progress, Indexed
<1>2. /\ DOMAIN inputs = {i \in DOMAIN project : Path(project[i]) # <<>>}
      /\ \A i \in DOMAIN inputs :
           /\ project[i] \in ToSet(project)
           /\ inputs[i].name = Importer(project[i])
           /\ inputs[i].imports = {Raw(stmt) : stmt \in ToSet(project[i].imports)}
      /\ ModuleSet(inputs) = Modules
  BY <1>1, InputFacts
<1>3. /\ \A d \in Modules : d \in DOMAIN index
      /\ \A f : Importer(f).dotted = Path(f)
  BY <1>1, <1>2 DEF ModuleSet, Importer
<1>4. ASSUME NEW i \in DOMAIN inputs, NEW t \in Aims(i)
      PROVE  /\ nodes[EdgeOf(i, t).from] = Path(project[i]) /\ nodes[EdgeOf(i, t).to] = t
             /\ EdgeOf(i, t).kind.runtime <=>
                  \E stmt \in ToSet(project[i].imports) :
                    /\ Counted(TRUE, stmt)
                    /\ t \in Targets(Importer(project[i]), Raw(stmt), Modules)
  <2>1. t \in Modules
    BY <1>2, TargetsAreModules DEF Aims
  <2>2. EdgeOf(i, t).from = index[Path(project[i])] /\ EdgeOf(i, t).to = index[t]
    BY <1>2, <1>3 DEF EdgeOf
  <2>3. nodes[EdgeOf(i, t).from] = Path(project[i]) /\ nodes[EdgeOf(i, t).to] = t
    BY <1>1, <1>2, <1>3, <2>1, <2>2
  <2>4. EdgeOf(i, t).kind.runtime
          <=> \E m \in inputs[i].imports :
                t \in Targets(Importer(project[i]), m, Modules) /\ ~m.typeChecking /\ ~m.local
    BY <1>2 DEF EdgeOf, Merged, Leading
  <2>5. \A stmt \in ToSet(project[i].imports) :
          ~Raw(stmt).typeChecking /\ ~Raw(stmt).local <=> Counted(TRUE, stmt)
    BY <1>1, <1>2, StatementFacts, FlagsSay DEF Counted
  <2> DEFINE runs == EdgeOf(i, t).kind.runtime
             R(m) == ~m.typeChecking /\ ~m.local
             S == ToSet(project[i].imports)
             L(m) == t \in Targets(Importer(project[i]), m, Modules)
  <2>6. inputs[i].imports = {Raw(stmt) : stmt \in S}
    BY <1>2
  <2>7. (runs <=> \E m \in inputs[i].imports : L(m) /\ R(m)) /\ \A stmt \in S : R(Raw(stmt)) <=> Counted(TRUE, stmt)
    BY <2>4, <2>5
  <2> HIDE DEF runs, R, S, L
  <2>8. runs <=> \E stmt \in S : Counted(TRUE, stmt) /\ L(Raw(stmt))
    BY <2>6, <2>7
  <2>9. QED
    BY <2>3, <2>8 DEF runs, S, L
<1>5. ASSUME NEW i \in DOMAIN inputs, NEW t
      PROVE  t \in Aims(i) <=> \E stmt \in ToSet(project[i].imports) : t \in Targets(Importer(project[i]), Raw(stmt), Modules)
  BY <1>2 DEF Aims, TargetsOf
<1>6. ASSUME NEW d \in Arrows(CountedEdges(hard))
      PROVE  \E f \in ToSet(project) : \E stmt \in ToSet(f.imports) :
             /\ Counted(hard, stmt) /\ Path(f) # <<>>
             /\ \E t \in Targets(Importer(f), Raw(stmt), Modules) : d = <<Path(f), t>>
  <2>1. PICK e \in CountedEdges(hard) : d = <<nodes[e.from], nodes[e.to]>>
    BY DEF Arrows
  <2>2. e \in edges /\ (hard => e.kind.runtime)
    BY DEF CountedEdges
  <2>3. PICK i \in DOMAIN inputs : \E t \in Aims(i) : e = EdgeOf(i, t)
    BY <2>2 DEF EInv, EdgesOK
  <2>4. PICK t \in Aims(i) : e = EdgeOf(i, t)
    BY <2>3
  <2>5. d = <<Path(project[i]), t>>
    BY <1>4, <2>1, <2>4
  <2>6. \E stmt \in ToSet(project[i].imports) :
          Counted(hard, stmt) /\ t \in Targets(Importer(project[i]), Raw(stmt), Modules)
    <3>1. CASE hard
      BY <1>4, <2>2, <2>4, <3>1
    <3>2. CASE ~hard
      BY <1>5, <3>2 DEF Counted
    <3>3. QED
      BY <3>1, <3>2
  <2>7. project[i] \in ToSet(project) /\ Path(project[i]) # <<>>
    BY <1>2
  <2>8. QED
    BY <2>5, <2>6, <2>7
<1>7. ASSUME NEW f \in ToSet(project), NEW stmt \in ToSet(f.imports), Counted(hard, stmt), Path(f) # <<>>,
             NEW t \in Targets(Importer(f), Raw(stmt), Modules)
      PROVE  <<Path(f), t>> \in Arrows(CountedEdges(hard))
  <2>1. PICK i \in DOMAIN project : f = project[i]
    BY DEF ToSet
  <2>2. i \in DOMAIN inputs /\ t \in Aims(i)
    BY <1>2, <1>5, <1>7, <2>1
  <2>3. EdgeOf(i, t) \in edges
    <3>1. \A j \in DOMAIN inputs : \A u \in Aims(j) : EdgeOf(j, u) \in edges
      BY DEF EInv, EdgesOK
    <3>2. QED
      BY <2>2, <3>1
  <2>4. hard => EdgeOf(i, t).kind.runtime
    BY <1>4, <1>7, <2>1, <2>2
  <2>5. EdgeOf(i, t) \in CountedEdges(hard)
    BY <2>3, <2>4 DEF CountedEdges
  <2>6. <<nodes[EdgeOf(i, t).from], nodes[EdgeOf(i, t).to]>> \in Arrows(CountedEdges(hard))
    BY <2>5 DEF Arrows
  <2>7. nodes[EdgeOf(i, t).from] = Path(f) /\ nodes[EdgeOf(i, t).to] = t
    BY <1>4, <2>1, <2>2
  <2>8. QED
    BY <2>6, <2>7
<1>8. QED
  BY <1>6, <1>7

\* Hence the arrows are the dependencies, all of them or those of load time.
LEMMA ArrowsAreImports ==
  ASSUME EInv, stage = "built", scope = AllFiles, Regular, NamesUnique, NEW hard \in BOOLEAN
  PROVE  Arrows(CountedEdges(hard)) = Depends(LAMBDA stmt : Counted(hard, stmt))
<1>1. project \in Projects
  BY DEF EInv, IInv
<1> DEFINE A == Arrows(CountedEdges(hard))
           D == Depends(LAMBDA stmt : Counted(hard, stmt))
           Q(d) == \E f \in ToSet(project) : \E stmt \in ToSet(f.imports) :
                     /\ Counted(hard, stmt) /\ Path(f) # <<>>
                     /\ \E t \in Targets(Importer(f), Raw(stmt), Modules) : d = <<Path(f), t>>
<1>2. \A d : d \in A <=> Q(d)
  BY ArrowsAre
<1>3. \A d : d \in D <=> Q(d)
  BY <1>1, DependsOn
<1> HIDE DEF A, D, Q
<1>4. A = D
  BY <1>2, <1>3
<1>5. QED
  BY <1>4 DEF A, D

(* The graph of the whole tree has an edge for exactly those pairs of        *)
(* modules of which one imports the other, by the directories: resolving an  *)
(* import by names (dots, attributes, source roots) does what a search       *)
(* through the directories does, in every regular project without two files  *)
(* of one name.                                                              *)
THEOREM EdgesAreAlwaysImports == Spec => [](Regular => EdgesAreImports)
<1>1. ASSUME EInv, Regular, GraphReady, scope = AllFiles, NamesUnique
      PROVE  Arrows(edges) = Depends(LAMBDA stmt : TRUE)
  <2>1. Arrows(CountedEdges(FALSE)) = Depends(LAMBDA stmt : Counted(FALSE, stmt))
    BY <1>1, ArrowsAreImports DEF GraphReady
  <2>2. CountedEdges(FALSE) = edges
    BY DEF CountedEdges
  <2>3. Depends(LAMBDA stmt : Counted(FALSE, stmt)) = Depends(LAMBDA stmt : TRUE)
    BY DEF Counted, Depends
  <2>4. QED
    BY <2>1, <2>2, <2>3
<1>2. EInv => (Regular => EdgesAreImports)
  BY <1>1 DEF EdgesAreImports
<1>3. QED
  BY EdgesInvariance, <1>2, PTL

(* What is reported as a load-time cycle is one: the kinds merged onto an    *)
(* edge keep apart what runs when a module is loaded, and no such import is  *)
(* lost in the merging.                                                      *)
THEOREM HardCyclesAreAlwaysHard == Spec => [](Regular => HardCyclesAreHard)
<1>1. ASSUME EInv, Regular, GraphReady, scope = AllFiles, NamesUnique
      PROVE  LoadBearingCycles =
               Tangles(Depends(LAMBDA stmt : ToSet(stmt.inside) \subseteq {"else", "block"}), DOMAIN index)
  <2>1. Arrows(CountedEdges(TRUE)) = Depends(LAMBDA stmt : Counted(TRUE, stmt))
    BY <1>1, ArrowsAreImports DEF GraphReady
  <2>2. CountedEdges(TRUE) = {e \in edges : e.kind.runtime}
    BY DEF CountedEdges
  <2>3. Depends(LAMBDA stmt : Counted(TRUE, stmt))
          = Depends(LAMBDA stmt : ToSet(stmt.inside) \subseteq {"else", "block"})
    BY DEF Counted, Depends
  <2>4. QED
    BY <2>1, <2>2, <2>3 DEF LoadBearingCycles
<1>2. EInv => (Regular => HardCyclesAreHard)
  BY <1>1 DEF HardCyclesAreHard
<1>3. QED
  BY EdgesInvariance, <1>2, PTL

-----------------------------------------------------------------------------
(* Modularity as a sum over pairs of nodes. *)

\* Weights of a graph over the first numbers, the same from both ends.
WeightOK(w) ==
  \E n \in Nat : /\ w \in [(1..n) \X (1..n) -> Nat]
                 /\ \A u, v \in 1..n : At(w, u, v) = At(w, v, u)

Square(w) == AllPairs(Nodes(w), Nodes(w))

\* The weight between two nodes, where a self-loop is met from both its ends.
Ends(w) == [p \in Square(w) |-> w[p] + (IF p[1] = p[2] THEN w[p] ELSE 0)]

Degrees(w) == [u \in Nodes(w) |-> Degree(w, u)]

\* What two nodes in one community add to modularity.
Bond(w) == [p \in Square(w) |-> M2(w) * Ends(w)[p] - Degree(w, p[1]) * Degree(w, p[2])]

Together(w, part) == {p \in Square(w) : part[p[1]] = part[p[2]]}

LEMMA WeightFacts ==
  ASSUME NEW w, WeightOK(w)
  PROVE  /\ Size(w) \in Nat /\ Nodes(w) = 1..Size(w) /\ IsFiniteSet(Nodes(w)) /\ IsFiniteSet(Square(w))
         /\ w \in [Square(w) -> Nat]
         /\ \A u, v \in Nodes(w) : At(w, u, v) \in Nat /\ At(w, u, v) = At(w, v, u)
<1>1. PICK n \in Nat : /\ w \in [(1..n) \X (1..n) -> Nat]
                       /\ \A u, v \in 1..n : At(w, u, v) = At(w, v, u)
  BY DEF WeightOK
<1>2. Nodes(w) = 1..n
  <2>1. DOMAIN w = (1..n) \X (1..n)
    BY <1>1
  <2>2. ASSUME NEW u \in 1..n PROVE u \in Nodes(w)
    <3>1. <<u, u>> \in DOMAIN w /\ <<u, u>>[1] = u
      BY <2>1
    <3>2. QED
      BY <3>1 DEF Nodes
  <2>3. QED
    BY <2>1, <2>2 DEF Nodes
<1>3. IsFiniteSet(1..n) /\ Cardinality(1..n) = n
  BY FS_Interval
<1>4. Size(w) = n
  BY <1>2, <1>3 DEF Size
<1>5. IsFiniteSet(Square(w))
  BY <1>2, <1>3, PairsFacts DEF Square
<1>6. w \in [Square(w) -> Nat]
  BY <1>1, <1>2, Zenon DEF Square, AllPairs
<1>7. ASSUME NEW u \in Nodes(w), NEW v \in Nodes(w)
      PROVE  At(w, u, v) \in Nat /\ At(w, u, v) = At(w, v, u)
  <2>1. <<u, v>> \in Square(w)
    BY Zenon DEF Square, AllPairs
  <2>2. w[<<u, v>>] \in Nat
    BY <1>6, <2>1, Zenon
  <2>3. QED
    BY <1>1, <1>2, <2>1, <2>2, Zenon DEF At
<1>8. QED
  BY <1>2, <1>3, <1>4, <1>5, <1>6, <1>7

LEMMA SubsetFacts ==
  ASSUME NEW w, WeightOK(w), NEW S \in SUBSET Nodes(w)
  PROVE  IsFiniteSet(S)
BY WeightFacts, FS_Subset

LEMMA EndsAt ==
  ASSUME NEW w, NEW u \in Nodes(w), NEW v \in Nodes(w)
  PROVE  At(Ends(w), u, v) = At(w, u, v) + (IF u = v THEN At(w, u, v) ELSE 0)
<1> DEFINE p == <<u, v>>
<1>1. p \in Square(w)
  BY Zenon DEF Square, AllPairs
<1>2. p[1] = u /\ p[2] = v
  OBVIOUS
<1>3. At(Ends(w), u, v) = Ends(w)[p] /\ At(w, u, v) = w[p]
  BY Zenon DEF At
<1> HIDE DEF p
<1>4. Ends(w)[p] = w[p] + (IF p[1] = p[2] THEN w[p] ELSE 0)
  BY <1>1, Zenon DEF Ends
<1>5. QED
  BY <1>2, <1>3, <1>4, Zenon

LEMMA EndsFacts ==
  ASSUME NEW w, WeightOK(w), NEW u \in Nodes(w), NEW v \in Nodes(w)
  PROVE  /\ At(w, u, v) \in Nat
         /\ At(Ends(w), u, v) = At(w, u, v) + (IF u = v THEN At(w, u, v) ELSE 0)
         /\ At(Ends(w), u, v) \in Int /\ At(Ends(w), u, v) = At(Ends(w), v, u)
<1>1. /\ At(Ends(w), u, v) = At(w, u, v) + (IF u = v THEN At(w, u, v) ELSE 0)
      /\ At(Ends(w), v, u) = At(w, v, u) + (IF v = u THEN At(w, v, u) ELSE 0)
  BY EndsAt
<1>2. At(w, u, v) \in Nat /\ At(w, u, v) = At(w, v, u)
  BY WeightFacts
<1>3. QED
  BY <1>1, <1>2

\* The sum of the weights between a node and the nodes of a set, the self-loop
\* of the node itself counting twice.
LEMMA RowOfEnds ==
  ASSUME NEW w, WeightOK(w), NEW S \in SUBSET Nodes(w), NEW u \in S,
         NEW row, \A v \in S : row[v] = At(Ends(w), u, v)
  PROVE  w[<<u, u>>] + SumOf([v \in S |-> w[<<u, v>>]]) = Over(row, S)
<1> DEFINE f == [v \in S |-> At(w, u, v)]
           e == [v \in S |-> IF u = v THEN At(w, u, v) ELSE 0]
<1>1. IsFiniteSet(S) /\ IsFiniteSet({u}) /\ {u} \in SUBSET S
  BY SubsetFacts, FS_Singleton
<1>2. ASSUME NEW v \in S PROVE f[v] \in Int /\ e[v] \in Int /\ row[v] = f[v] + e[v]
  <2>1. /\ At(w, u, v) \in Nat
        /\ At(Ends(w), u, v) = At(w, u, v) + (IF u = v THEN At(w, u, v) ELSE 0)
    BY EndsFacts
  <2>2. f[v] = At(w, u, v) /\ e[v] = (IF u = v THEN At(w, u, v) ELSE 0) /\ row[v] = At(Ends(w), u, v)
    OBVIOUS
  <2>3. QED
    BY <2>1, <2>2
<1>3. SumOf([v \in S |-> w[<<u, v>>]]) = Over(f, S)
  <2>1. [v \in S |-> f[v]] = [v \in S |-> At(w, u, v)]
    OBVIOUS
  <2>2. [v \in S |-> At(w, u, v)] = [v \in S |-> w[<<u, v>>]]
    BY Zenon DEF At
  <2>3. QED
    BY <2>1, <2>2, Zenon DEF Over
<1>4. e[u] = At(w, u, u) /\ \A v \in S \ {u} : e[v] = 0
  OBVIOUS
<1>5. w[<<u, u>>] = At(w, u, u)
  BY Zenon DEF At
<1> HIDE DEF f, e
<1>6. Over(row, S) = Over(f, S) + Over(e, S)
  BY <1>1, <1>2, OverPlus
<1>7. Over(e, S) = Over(e, {u}) /\ Over(e, {u}) = e[u]
  BY <1>1, <1>2, <1>4, OverPart, OverOne
<1>8. Over(f, S) \in Int /\ e[u] \in Int
  BY <1>1, <1>2, OverInt
<1>9. QED
  BY <1>3, <1>4, <1>5, <1>6, <1>7, <1>8

LEMMA DegreeIsRow ==
  ASSUME NEW w, WeightOK(w), NEW u \in Nodes(w),
         NEW row, \A v \in Nodes(w) : row[v] = At(Ends(w), u, v)
  PROVE  Degree(w, u) = Over(row, Nodes(w))
BY RowOfEnds DEF Degree

LEMMA DegreeFacts ==
  ASSUME NEW w, WeightOK(w)
  PROVE  /\ \A u \in Nodes(w) : Degree(w, u) \in Int /\ Degrees(w)[u] = Degree(w, u)
         /\ M2(w) = Over(Degrees(w), Nodes(w)) /\ M2(w) \in Int
<1>2. ASSUME NEW u \in Nodes(w) PROVE Degree(w, u) \in Int
  <2> DEFINE row == [v \in Nodes(w) |-> At(Ends(w), u, v)]
  <2>1. \A v \in Nodes(w) : row[v] = At(Ends(w), u, v) /\ row[v] \in Int
    BY EndsFacts
  <2> HIDE DEF row
  <2>2. Degree(w, u) = Over(row, Nodes(w))
    BY <2>1, DegreeIsRow
  <2>3. Over(row, Nodes(w)) \in Int
    BY <2>1, WeightFacts, OverInt
  <2>4. QED
    BY <2>2, <2>3
<1>3. \A u \in Nodes(w) : Degrees(w)[u] = Degree(w, u)
  BY DEF Degrees
<1>4. M2(w) = Over(Degrees(w), Nodes(w))
  <2>1. [u \in Nodes(w) |-> Degrees(w)[u]] = [u \in Nodes(w) |-> Degree(w, u)]
    BY <1>3
  <2>2. QED
    BY <2>1, Zenon DEF M2, Over
<1>5. M2(w) \in Int
  BY <1>2, <1>3, <1>4, WeightFacts, OverInt
<1>6. QED
  BY <1>2, <1>3, <1>4, <1>5

LEMMA BondAt ==
  ASSUME NEW w, WeightOK(w), NEW u \in Nodes(w), NEW v \in Nodes(w)
  PROVE  /\ At(Bond(w), u, v) = M2(w) * At(Ends(w), u, v) - Degree(w, u) * Degree(w, v)
         /\ At(Bond(w), u, v) \in Int /\ At(Bond(w), u, v) = At(Bond(w), v, u)
<1>1. ASSUME NEW x \in Nodes(w), NEW y \in Nodes(w)
      PROVE  At(Bond(w), x, y) = M2(w) * At(Ends(w), x, y) - Degree(w, x) * Degree(w, y)
  <2> DEFINE p == <<x, y>>
  <2>1. p \in Square(w)
    BY Zenon DEF Square, AllPairs
  <2>2. p[1] = x /\ p[2] = y
    OBVIOUS
  <2>3. At(Bond(w), x, y) = Bond(w)[p] /\ At(Ends(w), x, y) = Ends(w)[p]
    BY Zenon DEF At
  <2> HIDE DEF p
  <2>4. Bond(w)[p] = M2(w) * Ends(w)[p] - Degree(w, p[1]) * Degree(w, p[2])
    BY <2>1, Zenon DEF Bond
  <2>5. QED
    BY <2>2, <2>3, <2>4, Zenon
<1>2. At(Ends(w), u, v) \in Int /\ At(Ends(w), u, v) = At(Ends(w), v, u)
  BY EndsFacts
<1>3. M2(w) \in Int /\ Degree(w, u) \in Int /\ Degree(w, v) \in Int
  BY DegreeFacts
<1>4. /\ M2(w) * At(Ends(w), u, v) \in Int /\ Degree(w, u) * Degree(w, v) \in Int
      /\ Degree(w, u) * Degree(w, v) = Degree(w, v) * Degree(w, u)
  BY <1>2, <1>3, Distributes
<1>5. QED
  BY <1>1, <1>2, <1>4

\* What the bonds between two sets of nodes add up to.
LEMMA BondsBetween ==
  ASSUME NEW w, WeightOK(w), NEW S \in SUBSET Nodes(w), NEW T \in SUBSET Nodes(w)
  PROVE  /\ Over(Bond(w), AllPairs(S, T)) =
              M2(w) * Over(Ends(w), AllPairs(S, T)) - Over(Degrees(w), S) * Over(Degrees(w), T)
         /\ \A p \in AllPairs(S, T) : Bond(w)[p] \in Int /\ Ends(w)[p] \in Int
         /\ IsFiniteSet(AllPairs(S, T)) /\ Over(Ends(w), AllPairs(S, T)) \in Int
<1> DEFINE D == AllPairs(S, T)
           d == Degrees(w)
           e == [p \in D |-> M2(w) * Ends(w)[p]]
           g == [p \in D |-> d[p[1]] * d[p[2]]]
<1>1. IsFiniteSet(S) /\ IsFiniteSet(T) /\ IsFiniteSet(D)
  BY SubsetFacts, PairsFacts
<1>2. (\A u \in S \cup T : d[u] \in Int /\ d[u] = Degree(w, u)) /\ M2(w) \in Int
  BY DegreeFacts
<1>3. ASSUME NEW u \in S, NEW v \in T
      PROVE  /\ At(g, u, v) = d[u] * d[v] /\ At(Ends(w), u, v) \in Int /\ At(Bond(w), u, v) \in Int
             /\ At(Bond(w), u, v) = M2(w) * At(Ends(w), u, v) - d[u] * d[v]
  <2> DEFINE p == <<u, v>>
  <2>1. p \in D
    BY Zenon DEF AllPairs
  <2>2. p[1] = u /\ p[2] = v
    OBVIOUS
  <2>3. At(g, u, v) = g[p]
    BY Zenon DEF At
  <2> HIDE DEF p
  <2>4. At(g, u, v) = d[u] * d[v]
    BY <2>1, <2>2, <2>3, Zenon
  <2>5. d[u] = Degree(w, u) /\ d[v] = Degree(w, v)
    BY <1>2
  <2>6. /\ At(Bond(w), u, v) \in Int
        /\ At(Bond(w), u, v) = M2(w) * At(Ends(w), u, v) - Degree(w, u) * Degree(w, v)
    BY BondAt
  <2>7. At(Ends(w), u, v) \in Int
    BY EndsFacts
  <2>8. QED
    BY <2>4, <2>5, <2>6, <2>7, Zenon
<1>4. Over(g, D) = Over(d, S) * Over(d, T) /\ \A u \in S : \A v \in T : At(g, u, v) \in Int
  BY <1>1, <1>2, <1>3, ProductOfSums
<1>5. \A p \in D : Bond(w)[p] \in Int /\ Ends(w)[p] \in Int /\ g[p] \in Int
  BY <1>3, <1>4, PairsInt
<1>6. ASSUME NEW p \in D
      PROVE  /\ Ends(w)[p] \in Int /\ e[p] = M2(w) * Ends(w)[p] /\ e[p] \in Int /\ g[p] \in Int
             /\ Bond(w)[p] = e[p] - g[p]
  <2>1. p[1] \in S /\ p[2] \in T /\ p = <<p[1], p[2]>>
    BY PairsFacts
  <2>2. /\ At(Bond(w), p[1], p[2]) = Bond(w)[p] /\ At(Ends(w), p[1], p[2]) = Ends(w)[p]
        /\ At(g, p[1], p[2]) = g[p]
    BY <2>1, Zenon DEF At
  <2>3. Bond(w)[p] = M2(w) * Ends(w)[p] - g[p]
    BY <1>3, <2>1, <2>2
  <2>4. e[p] = M2(w) * Ends(w)[p] /\ Ends(w)[p] \in Int
    BY <1>5
  <2>5. e[p] \in Int
    BY <1>2, <2>4, Distributes
  <2>6. QED
    BY <1>5, <2>3, <2>4, <2>5
<1> HIDE DEF D, d, e, g
<1>7. Over(e, D) = M2(w) * Over(Ends(w), D)
  BY <1>1, <1>2, <1>6, OverTimes
<1>8. Over(Bond(w), D) = Over(e, D) - Over(g, D)
  BY <1>1, <1>6, OverMinus
<1>9. Over(Ends(w), D) \in Int
  BY <1>1, <1>6, OverInt
<1>10. QED
  BY <1>1, <1>4, <1>5, <1>7, <1>8, <1>9 DEF D, d
LEMMA TogetherFacts ==
  ASSUME NEW w, WeightOK(w), NEW part
  PROVE  /\ IsFiniteSet(Together(w, part)) /\ Together(w, part) \subseteq Square(w)
         /\ \A p \in Square(w) : Bond(w)[p] \in Int
<1>1. Nodes(w) \in SUBSET Nodes(w)
  OBVIOUS
<1>2. \A p \in AllPairs(Nodes(w), Nodes(w)) : Bond(w)[p] \in Int
  BY <1>1, BondsBetween
<1>3. Together(w, part) \subseteq Square(w) /\ IsFiniteSet(Square(w))
  BY WeightFacts DEF Together
<1>4. QED
  BY <1>2, <1>3, FS_Subset DEF Square

\* The pairs of one community.
LEMMA CommunityPairs ==
  ASSUME NEW w, NEW part, NEW h, \A p \in Together(w, part) : h[p] = part[p[1]], NEW c
  PROVE  LET M == {u \in Nodes(w) : part[u] = c} IN Fiber(Together(w, part), h, c) = AllPairs(M, M)
<1> DEFINE M == {u \in Nodes(w) : part[u] = c}
<1>1. ASSUME NEW p \in Fiber(Together(w, part), h, c) PROVE p \in AllPairs(M, M)
  <2>1. p \in Square(w) /\ part[p[1]] = part[p[2]] /\ h[p] = c /\ h[p] = part[p[1]]
    BY DEF Fiber, Together
  <2>2. p[1] \in Nodes(w) /\ p[2] \in Nodes(w) /\ p = <<p[1], p[2]>>
    BY <2>1, PairsFacts DEF Square
  <2>3. p[1] \in M /\ p[2] \in M
    BY <2>1, <2>2
  <2>4. QED
    BY <2>2, <2>3, PairIn
<1>2. ASSUME NEW p \in AllPairs(M, M) PROVE p \in Fiber(Together(w, part), h, c)
  <2>1. p[1] \in M /\ p[2] \in M /\ p = <<p[1], p[2]>>
    BY PairsFacts
  <2>2. p \in Square(w)
    BY <2>1, PairIn DEF Square
  <2>3. p \in Together(w, part)
    BY <2>1, <2>2 DEF Together
  <2>4. h[p] = c
    BY <2>1, <2>3
  <2>5. QED
    BY <2>3, <2>4 DEF Fiber
<1>3. QED
  BY <1>1, <1>2

\* Modularity adds up what the nodes of one community share.
LEMMA QAsBonds ==
  ASSUME NEW w, WeightOK(w), NEW part
  PROVE  ScaledQ(w, part) = Over(Bond(w), Together(w, part))
<1> DEFINE communities == {part[u] : u \in Nodes(w)}
           Members(c) == {u \in Nodes(w) : part[u] = c}
           Internal(c) == SumOf([u \in Members(c) |-> w[<<u, u>>] + SumOf([v \in Members(c) |-> w[<<u, v>>]])])
           Total(c) == SumOf([u \in Members(c) |-> Degree(w, u)])
           F == [c \in communities |-> M2(w) * Internal(c) - Total(c) * Total(c)]
           D == Together(w, part)
           h == [p \in D |-> part[p[1]]]
<1>1. ScaledQ(w, part) = Over(F, communities)
  <2>1. [c \in communities |-> F[c]] = [c \in communities |-> M2(w) * Internal(c) - Total(c) * Total(c)]
    OBVIOUS
  <2>2. QED
    BY <2>1, Zenon DEF ScaledQ, Over
<1>2. IsFiniteSet(communities)
  BY WeightFacts, ImageFacts
<1>3. ASSUME NEW c \in communities PROVE F[c] = Over(Bond(w), Fiber(D, h, c))
  <2> DEFINE M == Members(c)
             row == [u \in M |-> [v \in M |-> At(Ends(w), u, v)]]
             R == [u \in M |-> Over(row[u], M)]
  <2>1. M \in SUBSET Nodes(w) /\ IsFiniteSet(M)
    BY SubsetFacts
  <2>2. \A u \in M : \A v \in M : row[u][v] = At(Ends(w), u, v)
    OBVIOUS
  <2>3. \A u \in M : R[u] = Over(row[u], M)
    OBVIOUS
  <2>4. \A p \in D : h[p] = part[p[1]]
    OBVIOUS
  <2>5. F[c] = M2(w) * Internal(c) - Total(c) * Total(c)
    OBVIOUS
  <2>6. Fiber(D, h, c) = AllPairs(M, M)
    BY <2>4, CommunityPairs
  <2> HIDE DEF row, R, F, D, h
  <2>7. Internal(c) = Over(R, M)
    <3> HIDE DEF Members
    <3>1. ASSUME NEW u \in M PROVE R[u] = w[<<u, u>>] + SumOf([v \in M |-> w[<<u, v>>]])
      <4>1. \A v \in M : row[u][v] = At(Ends(w), u, v)
        BY <2>2
      <4>2. QED
        BY <2>1, <2>3, <4>1, RowOfEnds
    <3>2. [u \in M |-> R[u]] = [u \in M |-> w[<<u, u>>] + SumOf([v \in M |-> w[<<u, v>>]])]
      BY <3>1, Zenon
    <3>3. QED
      BY <3>2, Zenon DEF Over
  <2>8. Over(Ends(w), AllPairs(M, M)) = Over(R, M)
    <3> HIDE DEF Members
    <3>1. \A u \in M : \A v \in M : At(Ends(w), u, v) \in Int
      BY <2>1, EndsFacts
    <3>2. QED
      BY <2>1, <2>2, <2>3, <3>1, OverPairs
  <2>9. Total(c) = Over(Degrees(w), M)
    <3>1. \A u \in M : Degrees(w)[u] = Degree(w, u)
      BY DegreeFacts
    <3>2. [u \in M |-> Degrees(w)[u]] = [u \in M |-> Degree(w, u)]
      BY <3>1, Zenon
    <3>3. QED
      BY <3>2, Zenon DEF Over
  <2>10. Over(Bond(w), AllPairs(M, M)) =
           M2(w) * Over(Ends(w), AllPairs(M, M)) - Over(Degrees(w), M) * Over(Degrees(w), M)
    <3> HIDE DEF Members
    <3>1. QED
      BY <2>1, BondsBetween, Zenon
  <2> HIDE DEF Members, Internal, Total
  <2>11. QED
    BY <2>5, <2>6, <2>7, <2>8, <2>9, <2>10, Zenon
<1>4. ASSUME NEW p \in D PROVE h[p] \in communities /\ Bond(w)[p] \in Int
  <2>1. p \in Square(w) /\ Bond(w)[p] \in Int
    BY TogetherFacts
  <2>2. p[1] \in Nodes(w)
    BY <2>1, PairsFacts DEF Square
  <2>3. QED
    BY <2>1, <2>2
<1>5. IsFiniteSet(D)
  BY TogetherFacts
<1> HIDE DEF communities, Members, Internal, Total, F, D, h
<1>6. Over(Bond(w), D) = Over(F, communities)
  BY <1>2, <1>3, <1>4, <1>5, OverFibers
<1>7. QED
  BY <1>1, <1>6 DEF D

-----------------------------------------------------------------------------
(* What a move changes. *)

\* What u shares with each node of S.
Shares(w, u, S, row) == \A v \in S : row[v] = At(Bond(w), u, v)

\* The pairs of u with the nodes of M, from both ends.
Star(u, M) == AllPairs({u}, M) \cup AllPairs(M, {u})

LEMMA StarSum ==
  ASSUME NEW w, WeightOK(w), NEW u \in Nodes(w), NEW M \in SUBSET (Nodes(w) \ {u}),
         NEW row, Shares(w, u, M, row)
  PROVE  /\ IsFiniteSet(Star(u, M)) /\ Over(Bond(w), Star(u, M)) = 2 * Over(row, M)
         /\ Over(row, M) \in Int
<1> DEFINE U == {u}
           A == AllPairs(U, M)
           B == AllPairs(M, U)
           b == Bond(w)
           rows == [x \in U |-> row]
           F == [x \in U |-> Over(row, M)]
           cols == [x \in M |-> [y \in U |-> row[x]]]
           G == [x \in M |-> row[x]]
<1>1. IsFiniteSet(U) /\ U \in SUBSET Nodes(w) /\ M \in SUBSET Nodes(w) /\ IsFiniteSet(M)
  BY SubsetFacts, FS_Singleton
<1>2. ASSUME NEW v \in M
      PROVE  /\ At(b, u, v) \in Int /\ row[v] = At(b, u, v)
             /\ At(b, v, u) \in Int /\ row[v] = At(b, v, u)
  <2>1. v \in Nodes(w)
    OBVIOUS
  <2>2. QED
    BY <2>1, BondAt DEF Shares
<1>3. IsFiniteSet(A) /\ IsFiniteSet(B) /\ \A p \in A \cup B : b[p] \in Int
  BY <1>1, BondsBetween
<1>4. A \cap B = {}
  <2>1. ASSUME NEW p \in A, p \in B PROVE FALSE
    <3>1. p[1] \in U /\ p[1] \in M
      BY <2>1, PairsFacts
    <3>2. QED
      BY <3>1
  <2>2. QED
    BY <2>1
<1>5. Over(row, M) \in Int
  BY <1>1, <1>2, OverInt
<1>6. Over(b, A) = Over(row, M)
  <2>1. ASSUME NEW x \in U, NEW y \in M PROVE At(b, x, y) \in Int /\ rows[x][y] = At(b, x, y)
    BY <1>2
  <2>2. \A x \in U : F[x] = Over(rows[x], M)
    OBVIOUS
  <2>3. F[u] = Over(row, M)
    OBVIOUS
  <2> HIDE DEF b, rows, F
  <2>4. Over(b, A) = Over(F, U)
    BY <1>1, <2>1, <2>2, OverPairs
  <2>5. Over(F, U) = F[u]
    BY <1>5, <2>3, OverOne
  <2>6. QED
    BY <2>3, <2>4, <2>5
<1>7. Over(b, B) = Over(row, M)
  <2>1. ASSUME NEW x \in M, NEW y \in U PROVE At(b, x, y) \in Int /\ cols[x][y] = At(b, x, y)
    BY <1>2
  <2>2. ASSUME NEW x \in M PROVE G[x] = Over(cols[x], U)
    <3>1. cols[x][u] = row[x] /\ row[x] \in Int /\ G[x] = row[x]
      BY <1>2
    <3> HIDE DEF cols, G
    <3>2. QED
      BY <3>1, OverOne
  <2>3. \A x \in M : row[x] = G[x]
    OBVIOUS
  <2> HIDE DEF b, cols, G, U
  <2>4. Over(b, B) = Over(G, M)
    BY <1>1, <2>1, <2>2, OverPairs
  <2>5. QED
    BY <2>3, <2>4, OverSame
<1> HIDE DEF A, B, b
<1>8. Over(b, A \cup B) = Over(b, A) + Over(b, B)
  BY <1>3, <1>4, OverUnion
<1>9. IsFiniteSet(A \cup B)
  BY <1>3, FS_Union
<1>10. Star(u, M) = A \cup B
  BY DEF Star, A, B
<1>11. QED
  BY <1>5, <1>6, <1>7, <1>8, <1>9, <1>10 DEF b
\* The other nodes of a community.
Others(w, part, u, c) == {v \in Nodes(w) \ {u} : part[v] = c}

LEMMA StarIn ==
  ASSUME NEW w, NEW u \in Nodes(w), NEW M \in SUBSET Nodes(w)
  PROVE  /\ Star(u, M) \subseteq Square(w)
         /\ \A p \in Square(w) :
              p \in Star(u, M) <=> (p[1] = u /\ p[2] \in M) \/ (p[1] \in M /\ p[2] = u)
<1>1. ASSUME NEW p \in Star(u, M)
      PROVE  p \in Square(w) /\ ((p[1] = u /\ p[2] \in M) \/ (p[1] \in M /\ p[2] = u))
  <2>1. p \in AllPairs({u}, M) \/ p \in AllPairs(M, {u})
    BY DEF Star
  <2>2. p = <<p[1], p[2]>> /\ ((p[1] = u /\ p[2] \in M) \/ (p[1] \in M /\ p[2] = u))
    BY <2>1, PairsFacts
  <2>3. p \in AllPairs(Nodes(w), Nodes(w))
    BY <2>2, PairIn
  <2>4. QED
    BY <2>2, <2>3 DEF Square
<1>2. ASSUME NEW p \in Square(w), (p[1] = u /\ p[2] \in M) \/ (p[1] \in M /\ p[2] = u)
      PROVE  p \in Star(u, M)
  <2>1. p = <<p[1], p[2]>>
    BY PairsFacts DEF Square
  <2>2. p[1] \in {u} /\ p[2] \in M => p \in AllPairs({u}, M)
    BY <2>1, PairIn
  <2>3. p[1] \in M /\ p[2] \in {u} => p \in AllPairs(M, {u})
    BY <2>1, PairIn
  <2>4. QED
    BY <1>2, <2>2, <2>3 DEF Star
<1>3. QED
  BY <1>1, <1>2

\* The partition after u has moved to c.
Moves(w, part, u, c, part2) == \A v \in Nodes(w) : part2[v] = IF v = u THEN c ELSE part[v]

\* When u moves to c, modularity gains what u shares with the nodes there and
\* loses what it shared with those it leaves.
LEMMA MoveChangesQ ==
  ASSUME NEW w, WeightOK(w), NEW part, NEW u \in Nodes(w), NEW c, c # part[u],
         NEW part2, Moves(w, part, u, c, part2), NEW row, Shares(w, u, Nodes(w), row)
  PROVE  /\ Over(row, Others(w, part, u, c)) \in Int /\ Over(row, Others(w, part, u, part[u])) \in Int
         /\ ScaledQ(w, part) \in Int
         /\ ScaledQ(w, part2) =
              ScaledQ(w, part)
                + 2 * (Over(row, Others(w, part, u, c)) - Over(row, Others(w, part, u, part[u])))
<1> DEFINE P == Together(w, part)
           Q == Together(w, part2)
           R == P \cap Q
           Left == Others(w, part, u, part[u])
           Joined == Others(w, part, u, c)
           b == Bond(w)
<1>1. Left \in SUBSET (Nodes(w) \ {u}) /\ Joined \in SUBSET (Nodes(w) \ {u})
  BY DEF Others
<1>2. IsFiniteSet(P) /\ IsFiniteSet(Q) /\ P \subseteq Square(w) /\ Q \subseteq Square(w) /\ \A p \in Square(w) : b[p] \in Int
  BY TogetherFacts
<1>3. IsFiniteSet(R) /\ R \subseteq Square(w)
  BY <1>2, FS_Subset
<1>4. ASSUME NEW p \in Square(w)
      PROVE  /\ p \in P <=> p \in R \/ p \in Star(u, Left)
             /\ p \in Q <=> p \in R \/ p \in Star(u, Joined)
             /\ p \in R => p \notin Star(u, Left) /\ p \notin Star(u, Joined)
  <2>1. p[1] \in Nodes(w) /\ p[2] \in Nodes(w)
    BY PairsFacts DEF Square
  <2>2. /\ p \in P <=> part[p[1]] = part[p[2]]
        /\ p \in Q <=> part2[p[1]] = part2[p[2]]
    BY DEF Together
  <2>3. \A x \in Nodes(w) : /\ x \in Left <=> x # u /\ part[x] = part[u]
                            /\ x \in Joined <=> x # u /\ part[x] = c
    BY DEF Others
  <2>4. /\ p \in Star(u, Left) <=> (p[1] = u /\ p[2] \in Left) \/ (p[1] \in Left /\ p[2] = u)
        /\ p \in Star(u, Joined) <=> (p[1] = u /\ p[2] \in Joined) \/ (p[1] \in Joined /\ p[2] = u)
    BY <1>1, StarIn
  <2>5. part2[p[1]] = (IF p[1] = u THEN c ELSE part[p[1]]) /\ part2[p[2]] = IF p[2] = u THEN c ELSE part[p[2]]
    BY <2>1 DEF Moves
  <2> HIDE DEF P, Q, Left, Joined
  <2>6. QED
    BY <2>1, <2>2, <2>3, <2>4, <2>5
<1>5. Star(u, Left) \subseteq Square(w) /\ Star(u, Joined) \subseteq Square(w)
  BY <1>1, StarIn
<1>7. Shares(w, u, Left, row) /\ Shares(w, u, Joined, row)
  BY <1>1 DEF Shares
<1>8. ScaledQ(w, part) = Over(b, P) /\ ScaledQ(w, part2) = Over(b, Q)
  BY QAsBonds
<1> HIDE DEF P, Q, R, Left, Joined
<1>9. /\ IsFiniteSet(Star(u, Left)) /\ Over(b, Star(u, Left)) = 2 * Over(row, Left) /\ Over(row, Left) \in Int
      /\ IsFiniteSet(Star(u, Joined)) /\ Over(b, Star(u, Joined)) = 2 * Over(row, Joined) /\ Over(row, Joined) \in Int
  BY <1>1, <1>7, StarSum
<1> HIDE DEF b
<1>10. P = R \cup Star(u, Left) /\ R \cap Star(u, Left) = {} /\ Q = R \cup Star(u, Joined) /\ R \cap Star(u, Joined) = {}
  BY <1>2, <1>3, <1>4, <1>5
<1>11. Over(b, P) = Over(b, R) + Over(b, Star(u, Left))
  BY <1>2, <1>3, <1>5, <1>9, <1>10, OverUnion
<1>12. Over(b, Q) = Over(b, R) + Over(b, Star(u, Joined))
  BY <1>2, <1>3, <1>5, <1>9, <1>10, OverUnion
<1>13. Over(b, R) \in Int
  BY <1>2, <1>3, OverInt
<1>14. QED
  BY <1>8, <1>9, <1>11, <1>12, <1>13 DEF Left, Joined
LEMMA MovePays ==
  ASSUME NEW w, WeightOK(w), NEW part, NEW u \in Nodes(w), NEW c, c # part[u],
         NEW part2, Moves(w, part, u, c, part2), NEW row, Shares(w, u, Nodes(w), row),
         Over(row, Others(w, part, u, c)) > Over(row, Others(w, part, u, part[u]))
  PROVE  ScaledQ(w, part2) > ScaledQ(w, part)
<1>1. /\ Over(row, Others(w, part, u, c)) \in Int /\ Over(row, Others(w, part, u, part[u])) \in Int
      /\ ScaledQ(w, part) \in Int
      /\ ScaledQ(w, part2) =
           ScaledQ(w, part)
             + 2 * (Over(row, Others(w, part, u, c)) - Over(row, Others(w, part, u, part[u])))
  BY MoveChangesQ
<1>2. QED
  BY <1>1

-----------------------------------------------------------------------------
(* What aggregation keeps. *)

\* Half of the pairs: those in ascending order, and those in descending order.
Up(w) == [p \in Square(w) |-> IF p[2] >= p[1] THEN w[p] ELSE 0]
Down(w) == [p \in Square(w) |-> IF p[1] >= p[2] THEN w[p] ELSE 0]

LEMMA HalvesAt ==
  ASSUME NEW w, WeightOK(w), NEW u \in Nodes(w), NEW v \in Nodes(w)
  PROVE  /\ At(Up(w), u, v) = (IF v >= u THEN At(w, u, v) ELSE 0)
         /\ At(Up(w), u, v) \in Nat /\ At(Down(w), u, v) \in Nat
         /\ At(Down(w), v, u) = At(Up(w), u, v)
         /\ At(Ends(w), u, v) = At(Up(w), u, v) + At(Down(w), u, v)
<1>1. ASSUME NEW x \in Nodes(w), NEW y \in Nodes(w)
      PROVE  /\ At(Up(w), x, y) = IF y >= x THEN At(w, x, y) ELSE 0
             /\ At(Down(w), x, y) = IF x >= y THEN At(w, x, y) ELSE 0
  <2> DEFINE p == <<x, y>>
  <2>1. p \in Square(w)
    BY Zenon DEF Square, AllPairs
  <2>2. p[1] = x /\ p[2] = y
    OBVIOUS
  <2>3. At(Up(w), x, y) = Up(w)[p] /\ At(Down(w), x, y) = Down(w)[p] /\ At(w, x, y) = w[p]
    BY Zenon DEF At
  <2> HIDE DEF p
  <2>4. Up(w)[p] = (IF p[2] >= p[1] THEN w[p] ELSE 0) /\ Down(w)[p] = IF p[1] >= p[2] THEN w[p] ELSE 0
    BY <2>1, Zenon DEF Up, Down
  <2>5. QED
    BY <2>2, <2>3, <2>4, Zenon
<1>2. u \in Int /\ v \in Int
  BY WeightFacts
<1>3. At(w, u, v) \in Nat /\ At(w, u, v) = At(w, v, u)
  BY WeightFacts
<1>4. At(Ends(w), u, v) = At(w, u, v) + (IF u = v THEN At(w, u, v) ELSE 0)
  BY EndsFacts
<1>5. /\ At(Up(w), u, v) = IF v >= u THEN At(w, u, v) ELSE 0
      /\ At(Down(w), u, v) = IF u >= v THEN At(w, u, v) ELSE 0
      /\ At(Down(w), v, u) = IF v >= u THEN At(w, v, u) ELSE 0
  BY <1>1
<1>6. QED
  BY <1>2, <1>3, <1>4, <1>5

\* The edges inside a set, each met once, and those between two sets.
InsideSum(w, S) == SumOf([u \in S |-> SumOf([v \in {v \in S : v >= u} |-> w[<<u, v>>]])])
BetweenSum(w, S, T) == SumOf([u \in S |-> SumOf([v \in T |-> w[<<u, v>>]])])

\* Each edge inside a set met once, the weights between its nodes are met twice.
LEMMA InsideIsHalf ==
  ASSUME NEW w, WeightOK(w), NEW S \in SUBSET Nodes(w)
  PROVE  InsideSum(w, S) \in Nat /\ Over(Ends(w), AllPairs(S, S)) = 2 * InsideSum(w, S)
<1> DEFINE T(u) == {v \in S : v >= u}
           inner(u) == SumOf([v \in T(u) |-> w[<<u, v>>]])
           inside == SumOf([u \in S |-> inner(u)])
           row == [u \in S |-> [v \in S |-> At(Up(w), u, v)]]
           F == [u \in S |-> Over(row[u], S)]
           D == AllPairs(S, S)
           up == Up(w)
           down == Down(w)
           e == Ends(w)
<1>1. IsFiniteSet(S) /\ IsFiniteSet(D)
  BY SubsetFacts, PairsFacts
<1>2. ASSUME NEW u \in S, NEW v \in S
      PROVE  /\ At(up, u, v) = (IF v >= u THEN At(w, u, v) ELSE 0)
             /\ At(up, u, v) \in Nat /\ At(up, u, v) \in Int
             /\ At(down, u, v) \in Int /\ At(down, v, u) = At(up, u, v)
             /\ At(e, u, v) = At(up, u, v) + At(down, u, v)
             /\ row[u][v] = At(up, u, v)
  <2>1. u \in Nodes(w) /\ v \in Nodes(w)
    OBVIOUS
  <2>2. row[u][v] = At(up, u, v)
    OBVIOUS
  <2>3. /\ At(up, u, v) = (IF v >= u THEN At(w, u, v) ELSE 0)
        /\ At(up, u, v) \in Nat
        /\ At(down, u, v) \in Nat /\ At(down, v, u) = At(up, u, v)
        /\ At(e, u, v) = At(up, u, v) + At(down, u, v)
    BY <2>1, HalvesAt
  <2> HIDE DEF row, up, down, e
  <2>4. QED
    BY <2>2, <2>3
<1>3. ASSUME NEW u \in S PROVE inner(u) = Over(row[u], S)
  <2> DEFINE r == row[u]
  <2>1. \A v \in S : r[v] \in Int /\ (v >= u => r[v] = At(w, u, v)) /\ (~ v >= u => r[v] = 0)
    <3> HIDE DEF up, row
    <3>1. QED
      BY <1>2
  <2>2. [v \in T(u) |-> r[v]] = [v \in T(u) |-> At(w, u, v)]
    <3> HIDE DEF row
    <3>1. QED
      BY <2>1
  <2>3. [v \in T(u) |-> At(w, u, v)] = [v \in T(u) |-> w[<<u, v>>]]
    BY Zenon DEF At
  <2>4. T(u) \in SUBSET S /\ \A v \in S \ T(u) : r[v] = 0
    <3> HIDE DEF row
    <3>1. QED
      BY <2>1
  <2> HIDE DEF T, r
  <2>5. Over(r, T(u)) = Over(r, S)
    BY <1>1, <2>1, <2>4, OverPart
  <2>6. inner(u) = Over(r, T(u))
    BY <2>2, <2>3, Zenon DEF Over
  <2>7. QED
    BY <2>5, <2>6 DEF r
<1>4. \A u \in S : F[u] = Over(row[u], S)
  OBVIOUS
<1>5. [u \in S |-> F[u]] = [u \in S |-> inner(u)]
  <2> HIDE DEF inner, row
  <2>1. QED
    BY <1>3, <1>4, Zenon
<1> HIDE DEF row, F, inner, up, down, e
<1>6. Over(up, D) = Over(F, S)
  BY <1>1, <1>2, <1>4, OverPairs
<1>7. inside = Over(up, D)
  BY <1>5, <1>6, Zenon DEF Over
<1>8. Over(up, D) = Over(down, D)
  BY <1>1, <1>2, OverSwapped
<1>9. ASSUME NEW p \in D PROVE up[p] \in Nat /\ up[p] \in Int /\ down[p] \in Int /\ e[p] = up[p] + down[p]
  <2>1. p[1] \in S /\ p[2] \in S /\ p = <<p[1], p[2]>>
    BY PairsFacts
  <2>2. /\ At(up, p[1], p[2]) = up[p] /\ At(down, p[1], p[2]) = down[p]
        /\ At(e, p[1], p[2]) = e[p]
    BY <2>1, Zenon DEF At
  <2>3. QED
    BY <1>2, <2>1, <2>2
<1> HIDE DEF D
<1>10. Over(e, D) = Over(up, D) + Over(down, D)
  BY <1>1, <1>9, OverPlus
<1>11. Over(up, D) \in Nat
  BY <1>1, <1>9, OverNat
<1>12. inside \in Nat /\ Over(e, D) = 2 * inside
  BY <1>7, <1>8, <1>10, <1>11
<1>13. QED
  BY <1>12, Zenon DEF InsideSum, D, e, inner, T
\* The nodes that become one.
Block(w, dense, c) == Fiber(Nodes(w), dense, c)

LEMMA BetweenBlocks ==
  ASSUME NEW w, WeightOK(w), NEW S \in SUBSET Nodes(w), NEW T \in SUBSET Nodes(w), S \cap T = {}
  PROVE  /\ BetweenSum(w, S, T) \in Nat /\ BetweenSum(w, S, T) = BetweenSum(w, T, S)
         /\ Over(Ends(w), AllPairs(S, T)) = BetweenSum(w, S, T)
<1> DEFINE e == Ends(w)
           D == AllPairs(S, T)
<1>1. IsFiniteSet(S) /\ IsFiniteSet(T) /\ IsFiniteSet(D)
  BY SubsetFacts, PairsFacts
<1>2. ASSUME NEW u \in S, NEW v \in T
      PROVE  /\ At(w, u, v) \in Nat /\ At(w, u, v) \in Int /\ At(w, v, u) = At(w, u, v)
             /\ At(w, v, u) \in Int /\ At(e, u, v) = At(w, u, v)
  <2>1. u \in Nodes(w) /\ v \in Nodes(w) /\ u # v
    OBVIOUS
  <2>2. At(w, u, v) \in Nat /\ At(e, u, v) = At(w, u, v) + (IF u = v THEN At(w, u, v) ELSE 0)
    BY <2>1, EndsFacts
  <2>3. At(w, v, u) = At(w, u, v)
    BY <2>1, WeightFacts
  <2> HIDE DEF e
  <2>4. QED
    BY <2>1, <2>2, <2>3
<1> HIDE DEF e
<1>3. BetweenSum(w, S, T) = Over(w, D)
  BY <1>1, <1>2, SumOfSums, Zenon DEF BetweenSum
<1>4. BetweenSum(w, T, S) = Over(w, AllPairs(T, S))
  <2>1. \A u \in T : \A v \in S : At(w, u, v) \in Int
    BY <1>2
  <2>2. QED
    BY <1>1, <2>1, SumOfSums, Zenon DEF BetweenSum
<1>5. Over(w, D) = Over(w, AllPairs(T, S))
  BY <1>1, <1>2, OverSwapped
<1>6. ASSUME NEW p \in D PROVE w[p] \in Nat /\ w[p] = e[p]
  <2>1. p[1] \in S /\ p[2] \in T /\ p = <<p[1], p[2]>>
    BY PairsFacts
  <2>2. At(w, p[1], p[2]) = w[p] /\ At(e, p[1], p[2]) = e[p]
    BY <2>1, Zenon DEF At
  <2>3. QED
    BY <1>2, <2>1, <2>2
<1> HIDE DEF D
<1>7. Over(w, D) = Over(e, D)
  BY <1>6, OverSame
<1>8. Over(w, D) \in Nat
  BY <1>1, <1>6, OverNat
<1>9. QED
  BY <1>3, <1>4, <1>5, <1>7, <1>8, Zenon DEF D, e

LEMMA AggregateAt ==
  ASSUME NEW w, WeightOK(w), NEW dense,
         NEW c \in {dense[u] : u \in Nodes(w)}, NEW d \in {dense[u] : u \in Nodes(w)}
  PROVE  LET W == Aggregate(w, dense)
         IN  /\ At(W, c, d) \in Nat /\ At(W, c, d) = At(W, d, c)
             /\ At(W, c, d) + (IF c = d THEN At(W, c, d) ELSE 0)
                  = Over(Ends(w), AllPairs(Block(w, dense, c), Block(w, dense, d)))
<1> DEFINE K == {dense[u] : u \in Nodes(w)}
           B(x) == {u \in Nodes(w) : dense[u] = x}
           Between(x, y) == BetweenSum(w, B(x), B(y))
           Inside(x) == InsideSum(w, B(x))
           W == Aggregate(w, dense)
<1>1. W = [p \in K \X K |-> IF p[1] = p[2] THEN Inside(p[1]) ELSE Between(p[1], p[2])]
  BY Zenon DEF Aggregate, InsideSum, BetweenSum
<1>2. \A x : B(x) = Block(w, dense, x) /\ B(x) \in SUBSET Nodes(w)
  BY DEF Block, Fiber
<1>3. ASSUME NEW x \in K, NEW y \in K PROVE At(W, x, y) = IF x = y THEN Inside(x) ELSE Between(x, y)
  <2> DEFINE p == <<x, y>>
  <2> HIDE DEF Inside, Between, K, W
  <2>1. p \in K \X K
    BY Zenon
  <2>2. p[1] = x /\ p[2] = y
    OBVIOUS
  <2>3. At(W, x, y) = W[p]
    BY Zenon DEF At
  <2> HIDE DEF p
  <2>4. W[p] = IF p[1] = p[2] THEN Inside(p[1]) ELSE Between(p[1], p[2])
    BY <1>1, <2>1, Zenon
  <2>5. QED
    BY <2>2, <2>3, <2>4, Zenon
<1>4. CASE c = d
  <2>1. Inside(c) \in Nat /\ Over(Ends(w), AllPairs(B(c), B(c))) = 2 * Inside(c)
    <3> HIDE DEF B
    <3>1. QED
      BY <1>2, InsideIsHalf
  <2>2. At(W, c, d) = Inside(c)
    BY <1>3, <1>4, Zenon
  <2> HIDE DEF B, Inside, Between, W, K
  <2>3. QED
    BY <1>2, <1>4, <2>1, <2>2 DEF W
<1>5. CASE c # d
  <2>1. B(c) \cap B(d) = {}
    BY <1>5
  <2>2. /\ Between(c, d) \in Nat /\ Over(Ends(w), AllPairs(B(c), B(d))) = Between(c, d)
        /\ Between(c, d) = Between(d, c)
    <3> HIDE DEF B
    <3>1. QED
      BY <1>2, <2>1, BetweenBlocks
  <2>3. At(W, c, d) = Between(c, d) /\ At(W, d, c) = Between(d, c)
    BY <1>3, <1>5, Zenon
  <2> HIDE DEF B, Inside, Between, W, K
  <2>4. QED
    BY <1>2, <1>5, <2>2, <2>3 DEF W
<1>6. QED
  BY <1>4, <1>5
\* The blocks are numbered from 1 on.
Onto(w, dense, k) == {dense[u] : u \in Nodes(w)} = 1..k

LEMMA OntoFacts ==
  ASSUME NEW w, NEW dense, NEW k, Onto(w, dense, k)
  PROVE  \A u \in Nodes(w) : dense[u] \in 1..k
BY DEF Onto

LEMMA AggregateOK ==
  ASSUME NEW w, WeightOK(w), NEW dense, NEW k \in Nat, Onto(w, dense, k)
  PROVE  LET W == Aggregate(w, dense)
         IN  /\ WeightOK(W) /\ Nodes(W) = 1..k
             /\ \A c, d \in 1..k :
                  At(Ends(W), c, d) = Over(Ends(w), AllPairs(Block(w, dense, c), Block(w, dense, d)))
<1> DEFINE W == Aggregate(w, dense)
           K == 1..k
<1>1. ASSUME NEW c \in K, NEW d \in K
      PROVE  /\ At(W, c, d) \in Nat /\ At(W, c, d) = At(W, d, c)
             /\ At(W, c, d) + (IF c = d THEN At(W, c, d) ELSE 0)
                  = Over(Ends(w), AllPairs(Block(w, dense, c), Block(w, dense, d)))
  <2>1. c \in {dense[u] : u \in Nodes(w)} /\ d \in {dense[u] : u \in Nodes(w)}
    BY DEF Onto
  <2> HIDE DEF K
  <2>2. QED
    BY <2>1, AggregateAt, Zenon
<1>2. DOMAIN W = K \X K /\ W = [p \in K \X K |-> W[p]]
  BY DEF Aggregate, Onto
<1> HIDE DEF W
<1>3. ASSUME NEW p \in K \X K PROVE W[p] \in Nat
  <2>1. p[1] \in K /\ p[2] \in K /\ p = <<p[1], p[2]>>
    OBVIOUS
  <2>2. At(W, p[1], p[2]) = W[p]
    BY <2>1, Zenon DEF At
  <2>3. QED
    BY <1>1, <2>1, <2>2
<1>4. W \in [K \X K -> Nat]
  BY <1>2, <1>3
<1>5. WeightOK(W)
  BY <1>1, <1>4, Zenon DEF WeightOK, K
<1>6. Nodes(W) = K
  <2>1. ASSUME NEW c \in K PROVE c \in Nodes(W)
    <3>1. <<c, c>> \in DOMAIN W /\ <<c, c>>[1] = c
      BY <1>2
    <3>2. QED
      BY <3>1 DEF Nodes
  <2>2. QED
    BY <1>2, <2>1 DEF Nodes
<1>7. ASSUME NEW c \in K, NEW d \in K
      PROVE  At(Ends(W), c, d) = Over(Ends(w), AllPairs(Block(w, dense, c), Block(w, dense, d)))
  <2>1. At(Ends(W), c, d) = At(W, c, d) + (IF c = d THEN At(W, c, d) ELSE 0)
    <3>1. c \in Nodes(W) /\ d \in Nodes(W)
      BY <1>6
    <3>2. QED
      BY <3>1, EndsAt
  <2>2. QED
    BY <1>1, <2>1
<1>8. QED
  BY <1>5, <1>6, <1>7 DEF W

LEMMA BlockFacts ==
  ASSUME NEW w, WeightOK(w), NEW dense, NEW c
  PROVE  Block(w, dense, c) \in SUBSET Nodes(w) /\ IsFiniteSet(Block(w, dense, c))
<1>1. Block(w, dense, c) \in SUBSET Nodes(w)
  BY DEF Block, Fiber
<1>2. QED
  BY <1>1, SubsetFacts

LEMMA AggregateDegree ==
  ASSUME NEW w, WeightOK(w), NEW dense, NEW k \in Nat, Onto(w, dense, k),
         NEW c \in 1..k
  PROVE  Degree(Aggregate(w, dense), c) = Over(Degrees(w), Block(w, dense, c))
<1> DEFINE W == Aggregate(w, dense)
           K == 1..k
           N == Nodes(w)
           B == Block(w, dense, c)
           D == AllPairs(B, N)
           e == Ends(w)
           h == [p \in D |-> dense[p[2]]]
           F == [d \in K |-> At(Ends(W), c, d)]
           row == [u \in B |-> [v \in N |-> At(e, u, v)]]
           R == [u \in B |-> Over(row[u], N)]
<1>1. /\ WeightOK(W) /\ Nodes(W) = K
      /\ \A d \in K : F[d] = Over(e, AllPairs(B, Block(w, dense, d)))
  BY AggregateOK
<1>2. B \in SUBSET N /\ IsFiniteSet(B) /\ IsFiniteSet(N) /\ IsFiniteSet(D) /\ IsFiniteSet(K)
  BY BlockFacts, WeightFacts, PairsFacts, FS_Interval
<1>3. ASSUME NEW u \in B, NEW v \in N PROVE At(e, u, v) \in Int /\ row[u][v] = At(e, u, v)
  <2>1. At(e, u, v) \in Int
    BY <1>2, EndsFacts
  <2>2. QED
    BY <2>1
<1>4. ASSUME NEW p \in D PROVE e[p] \in Int /\ h[p] \in K
  <2>1. e[p] \in Int
    <3> HIDE DEF e, B
    <3>1. QED
      BY <1>3, PairsInt
  <2>2. p[2] \in N
    BY PairsFacts
  <2>3. QED
    BY <2>1, <2>2, OntoFacts
<1>5. ASSUME NEW d \in K PROVE F[d] = Over(e, Fiber(D, h, d))
  <2> DEFINE A == AllPairs(B, Block(w, dense, d))
  <2>1. ASSUME NEW p \in A PROVE p \in Fiber(D, h, d)
    <3>1. p[1] \in B /\ p[2] \in Block(w, dense, d) /\ p = <<p[1], p[2]>>
      BY PairsFacts
    <3>2. p[2] \in N /\ dense[p[2]] = d
      BY <3>1 DEF Block, Fiber
    <3>3. p \in D
      BY <3>1, <3>2, PairIn
    <3>4. QED
      BY <3>2, <3>3 DEF Fiber
  <2>2. ASSUME NEW p \in Fiber(D, h, d) PROVE p \in A
    <3>1. p \in D /\ dense[p[2]] = d
      BY DEF Fiber
    <3>2. p[1] \in B /\ p[2] \in N /\ p = <<p[1], p[2]>>
      BY <3>1, PairsFacts
    <3>3. p[2] \in Block(w, dense, d)
      BY <3>1, <3>2 DEF Block, Fiber
    <3>4. QED
      BY <3>2, <3>3, PairIn
  <2>3. A = Fiber(D, h, d)
    BY <2>1, <2>2
  <2> HIDE DEF h, D, F
  <2>4. QED
    BY <1>1, <2>3
<1>6. \A u \in B : R[u] = Over(row[u], N)
  OBVIOUS
<1>7. Degree(W, c) = Over(F, K)
  <2>1. \A d \in Nodes(W) : F[d] = At(Ends(W), c, d)
    BY <1>1
  <2> HIDE DEF W, F
  <2>2. QED
    BY <1>1, <2>1, DegreeIsRow
<1>8. ASSUME NEW u \in B PROVE R[u] = Degrees(w)[u]
  <2>1. \A v \in N : row[u][v] = At(Ends(w), u, v)
    OBVIOUS
  <2>2. u \in Nodes(w)
    BY <1>2
  <2>3. R[u] = Over(row[u], N)
    OBVIOUS
  <2> HIDE DEF row, R, B
  <2>4. Degree(w, u) = Over(row[u], N)
    BY <2>1, <2>2, DegreeIsRow
  <2>5. QED
    BY <2>2, <2>3, <2>4, DegreeFacts
<1> HIDE DEF W, K, N, B, D, e, h, F, row, R
<1>9. Over(e, D) = Over(F, K)
  BY <1>2, <1>4, <1>5, OverFibers
<1>10. Over(e, D) = Over(R, B)
  BY <1>2, <1>3, <1>6, OverPairs DEF D
<1>11. Over(R, B) = Over(Degrees(w), B)
  BY <1>8, OverSame
<1>12. QED
  BY <1>7, <1>9, <1>10, <1>11 DEF W, B

LEMMA AggregateM2 ==
  ASSUME NEW w, WeightOK(w), NEW dense, NEW k \in Nat, Onto(w, dense, k)
  PROVE  M2(Aggregate(w, dense)) = M2(w)
<1> DEFINE W == Aggregate(w, dense)
           K == 1..k
           N == Nodes(w)
           d == Degrees(w)
           F == Degrees(W)
<1>1. WeightOK(W) /\ Nodes(W) = K
  BY AggregateOK
<1>2. IsFiniteSet(N) /\ IsFiniteSet(K)
  BY WeightFacts, FS_Interval
<1>3. ASSUME NEW c \in K PROVE F[c] = Over(d, Fiber(N, dense, c))
  <2>1. Degree(W, c) = Over(d, Block(w, dense, c))
    BY AggregateDegree
  <2>2. F[c] = Degree(W, c)
    BY <1>1, DegreeFacts
  <2>3. QED
    BY <2>1, <2>2 DEF Block
<1>4. (\A u \in N : d[u] \in Int) /\ M2(w) = Over(d, N)
  BY DegreeFacts
<1>5. M2(W) = Over(F, K)
  BY <1>1, DegreeFacts
<1>6. \A u \in N : dense[u] \in K
  BY OntoFacts
<1> HIDE DEF W, K, N, d, F
<1>7. Over(d, N) = Over(F, K)
  BY <1>2, <1>3, <1>4, <1>6, OverFibers
<1>8. QED
  BY <1>4, <1>5, <1>7 DEF W
LEMMA AggregateBond ==
  ASSUME NEW w, WeightOK(w), NEW dense, NEW k \in Nat, Onto(w, dense, k),
         NEW c \in 1..k, NEW d \in 1..k
  PROVE  At(Bond(Aggregate(w, dense)), c, d) =
           Over(Bond(w), AllPairs(Block(w, dense, c), Block(w, dense, d)))
<1> DEFINE W == Aggregate(w, dense)
           B == Block(w, dense, c)
           C == Block(w, dense, d)
<1>1. /\ WeightOK(W) /\ c \in Nodes(W) /\ d \in Nodes(W)
      /\ At(Ends(W), c, d) = Over(Ends(w), AllPairs(B, C))
  BY AggregateOK
<1>2. M2(W) = M2(w)
  BY AggregateM2
<1>3. Degree(W, c) = Over(Degrees(w), B) /\ Degree(W, d) = Over(Degrees(w), C)
  BY AggregateDegree
<1>4. B \in SUBSET Nodes(w) /\ C \in SUBSET Nodes(w)
  BY BlockFacts
<1> HIDE DEF W, B, C
<1>5. At(Bond(W), c, d) = M2(W) * At(Ends(W), c, d) - Degree(W, c) * Degree(W, d)
  BY <1>1, BondAt
<1>6. Over(Bond(w), AllPairs(B, C)) =
        M2(w) * Over(Ends(w), AllPairs(B, C)) - Over(Degrees(w), B) * Over(Degrees(w), C)
  BY <1>4, BondsBetween
<1>7. QED
  BY <1>1, <1>2, <1>3, <1>5, <1>6, Zenon DEF W, B, C

\* A partition of the communities has the modularity of the partition of the
\* nodes that it stands for.
LEMMA AggregateKeepsQ ==
  ASSUME NEW w, WeightOK(w), NEW dense, NEW k \in Nat, Onto(w, dense, k),
         NEW q, NEW part, \A u \in Nodes(w) : part[u] = q[dense[u]]
  PROVE  ScaledQ(Aggregate(w, dense), q) = ScaledQ(w, part)
<1> DEFINE W == Aggregate(w, dense)
           K == Together(W, q)
           D == Together(w, part)
           h == [p \in D |-> <<dense[p[1]], dense[p[2]]>>]
           b == Bond(w)
           F == Bond(W)
<1>1. WeightOK(W) /\ Nodes(W) = 1..k
  BY AggregateOK
<1>2. IsFiniteSet(K) /\ IsFiniteSet(D) /\ D \subseteq Square(w) /\ K \subseteq Square(W)
  BY <1>1, TogetherFacts
<1>3. ASSUME NEW p \in D PROVE b[p] \in Int /\ h[p] \in K
  <2>1. p \in Square(w) /\ b[p] \in Int /\ part[p[1]] = part[p[2]]
    BY TogetherFacts DEF Together
  <2>2. p[1] \in Nodes(w) /\ p[2] \in Nodes(w)
    BY <2>1, PairsFacts DEF Square
  <2>3. dense[p[1]] \in Nodes(W) /\ dense[p[2]] \in Nodes(W) /\ q[dense[p[1]]] = q[dense[p[2]]]
    BY <1>1, <2>1, <2>2, OntoFacts
  <2> DEFINE r == <<dense[p[1]], dense[p[2]]>>
  <2>4. r \in Square(W) /\ r[1] = dense[p[1]] /\ r[2] = dense[p[2]]
    BY <2>3, PairsFacts DEF Square
  <2>5. h[p] = r
    OBVIOUS
  <2> HIDE DEF r, W, h, D, b
  <2>6. r \in K
    BY <2>3, <2>4 DEF Together
  <2>7. QED
    BY <2>1, <2>5, <2>6
<1>4. ASSUME NEW r \in K PROVE F[r] = Over(b, Fiber(D, h, r))
  <2> DEFINE c == r[1]
             d == r[2]
             A == AllPairs(Block(w, dense, c), Block(w, dense, d))
  <2>1. r \in Square(W) /\ q[c] = q[d]
    BY DEF Together
  <2>2. c \in 1..k /\ d \in 1..k /\ r = <<c, d>>
    BY <1>1, <2>1, PairsFacts DEF Square
  <2>3. F[r] = At(F, c, d)
    BY <2>2, Zenon DEF At
  <2>4. At(F, c, d) = Over(b, A)
    BY <2>2, AggregateBond
  <2>5. ASSUME NEW p \in A PROVE p \in Fiber(D, h, r)
    <3>1. p[1] \in Block(w, dense, c) /\ p[2] \in Block(w, dense, d) /\ p = <<p[1], p[2]>>
      BY PairsFacts
    <3>2. p[1] \in Nodes(w) /\ dense[p[1]] = c /\ p[2] \in Nodes(w) /\ dense[p[2]] = d
      BY <3>1 DEF Block, Fiber
    <3>3. p \in Square(w)
      BY <3>1, <3>2, PairIn DEF Square
    <3>4. part[p[1]] = part[p[2]]
      BY <2>1, <3>2
    <3>5. p \in D
      BY <3>3, <3>4 DEF Together
    <3>6. h[p] = r
      BY <2>2, <3>2, <3>5
    <3>7. QED
      BY <3>5, <3>6 DEF Fiber
  <2>6. ASSUME NEW p \in Fiber(D, h, r) PROVE p \in A
    <3>1. p \in D /\ <<dense[p[1]], dense[p[2]]>> = r
      BY DEF Fiber
    <3>2. p \in Square(w)
      BY <3>1 DEF Together
    <3>3. p[1] \in Nodes(w) /\ p[2] \in Nodes(w) /\ p = <<p[1], p[2]>>
      BY <3>2, PairsFacts DEF Square
    <3>4. dense[p[1]] = c /\ dense[p[2]] = d
      BY <3>1
    <3>5. p[1] \in Block(w, dense, c) /\ p[2] \in Block(w, dense, d)
      BY <3>3, <3>4 DEF Block, Fiber
    <3>6. QED
      BY <3>3, <3>5, PairIn
  <2>7. A = Fiber(D, h, r)
    BY <2>5, <2>6
  <2> HIDE DEF A, D, h, F, b
  <2>8. QED
    BY <2>3, <2>4, <2>7
<1>5. ScaledQ(W, q) = Over(F, K) /\ ScaledQ(w, part) = Over(b, D)
  BY <1>1, QAsBonds
<1> HIDE DEF W, K, D, h, b, F
<1>6. Over(b, D) = Over(F, K)
  BY <1>2, <1>3, <1>4, OverFibers
<1>7. QED
  BY <1>5, <1>6 DEF W
-----------------------------------------------------------------------------
(* Renumbering. *)

\* The first node of a node's community.
First(part, n, u) == Min({x \in 1..n : part[x] = part[u]})

\* The first nodes of the communities, those up to g, and how many there are.
Firsts(part, n) == {First(part, n, u) : u \in 1..n}
FirstsUpTo(part, n, g) == {f \in Firsts(part, n) : f <= g}
Rank(part, n, g) == Cardinality(FirstsUpTo(part, n, g))

LEMMA FirstFacts ==
  ASSUME NEW n \in Nat, NEW part
  PROVE  /\ \A u \in 1..n : First(part, n, u) \in 1..n /\ part[First(part, n, u)] = part[u]
         /\ \A u, v \in 1..n : First(part, n, u) = First(part, n, v) <=> part[u] = part[v]
<1>1. ASSUME NEW u \in 1..n
      PROVE  First(part, n, u) \in 1..n /\ part[First(part, n, u)] = part[u]
  <2> DEFINE S == {x \in 1..n : part[x] = part[u]}
  <2>1. S \subseteq Nat /\ u \in S
    OBVIOUS
  <2>2. Min(S) \in S
    <3> HIDE DEF S
    <3>1. QED
      BY <2>1, MinIsLeast
  <2>3. QED
    BY <2>2 DEF First
<1>2. ASSUME NEW u \in 1..n, NEW v \in 1..n, part[u] = part[v]
      PROVE  First(part, n, u) = First(part, n, v)
  BY <1>2 DEF First
<1>3. QED
  BY <1>1, <1>2

LEMMA RankFacts ==
  ASSUME NEW n \in Nat, NEW part
  PROVE  /\ IsFiniteSet(Firsts(part, n)) /\ Cardinality(Firsts(part, n)) \in Nat
         /\ \A g \in Firsts(part, n) : Rank(part, n, g) \in 1..Cardinality(Firsts(part, n))
         /\ \A f, g \in Firsts(part, n) : Rank(part, n, f) = Rank(part, n, g) => f = g
<1> DEFINE F == Firsts(part, n)
<1>1. F \in SUBSET (1..n)
  BY FirstFacts DEF Firsts
<1>2. IsFiniteSet(F) /\ Cardinality(F) \in Nat
  <2>1. IsFiniteSet(1..n)
    BY FS_Interval
  <2> HIDE DEF F
  <2>2. QED
    BY <1>1, <2>1, FS_Subset, FS_CardinalityType
<1>3. F \subseteq Nat /\ \A g \in F : Rank(part, n, g) = Place(F, g)
  BY <1>1 DEF Rank, FirstsUpTo, Place
<1> HIDE DEF F
<1>4. /\ \A g \in F : Place(F, g) \in 1..Cardinality(F)
      /\ \A f, g \in F : Place(F, f) = Place(F, g) => f = g
  BY <1>2, <1>3, PlaceFacts
<1>5. QED
  BY <1>2, <1>3, <1>4 DEF F

\* Communities get the numbers from 1 on, each one of its own.
Renumbers(dense, part, n) ==
  /\ DOMAIN dense = 1..n
  /\ \E k \in Nat : {dense[u] : u \in 1..n} = 1..k
  /\ \A u, v \in 1..n : dense[u] = dense[v] <=> part[u] = part[v]

LEMMA RenumberFacts ==
  ASSUME NEW n \in Nat, NEW part
  PROVE  Renumbers(Renumber(part, n), part, n)
<1> DEFINE dense == Renumber(part, n)
           f(u) == First(part, n, u)
           F == Firsts(part, n)
           k == Cardinality(F)
           R(g) == Rank(part, n, g)
           K == {R(g) : g \in F}
           rank == [g \in F |-> R(g)]
<1>1. dense = [u \in 1..n |-> Cardinality({f(v) : v \in {x \in 1..n : f(x) <= f(u)}})]
  BY Zenon DEF Renumber, First
<1>2. ASSUME NEW u \in 1..n PROVE f(u) \in F /\ dense[u] = R(f(u))
  <2>1. {f(v) : v \in {x \in 1..n : f(x) <= f(u)}} = FirstsUpTo(part, n, f(u))
    BY DEF FirstsUpTo, Firsts
  <2>2. f(u) \in F
    BY DEF Firsts
  <2>3. dense[u] = Cardinality({f(v) : v \in {x \in 1..n : f(x) <= f(u)}})
    <3> HIDE DEF dense, f
    <3>1. QED
      BY <1>1
  <2>4. QED
    BY <2>1, <2>2, <2>3 DEF Rank
<1>3. IsFiniteSet(F) /\ k \in Nat /\ \A g \in F : R(g) \in 1..k
  BY RankFacts
<1>4. \A g, h \in F : R(g) = R(h) => g = h
  BY RankFacts
<1>5. \A g \in F : \E u \in 1..n : g = f(u)
  BY DEF Firsts
<1>6. DOMAIN dense = 1..n
  BY <1>1
<1> HIDE DEF dense, f, F, R
<1>7. IsFiniteSet(1..k) /\ Cardinality(1..k) = k /\ K \in SUBSET (1..k)
  BY <1>3, FS_Interval
<1>8. IsFiniteSet(K) /\ Cardinality(K) <= k /\ Cardinality(K) \in Nat
  <2> HIDE DEF K
  <2>1. QED
    BY <1>7, FS_Subset, FS_CardinalityType
<1>9. rank \in Injection(F, K)
  BY <1>4 DEF Injection, IsInjective
<1>10. k <= Cardinality(K)
  <2> HIDE DEF K, rank
  <2>1. QED
    BY <1>8, <1>9, FS_Injection
<1>11. K = 1..k
  <2> HIDE DEF K, k
  <2>1. Cardinality(K) = k
    BY <1>3, <1>8, <1>10
  <2>2. QED
    BY <1>7, <2>1, FS_Subset
<1>12. {dense[u] : u \in 1..n} = K
  <2>1. ASSUME NEW u \in 1..n PROVE dense[u] \in K
    BY <1>2
  <2>2. ASSUME NEW c \in K PROVE \E u \in 1..n : c = dense[u]
    <3>1. PICK g \in F : c = R(g)
      OBVIOUS
    <3>2. PICK u \in 1..n : g = f(u)
      BY <1>5
    <3>3. QED
      BY <1>2, <3>1, <3>2
  <2> HIDE DEF K
  <2>3. QED
    BY <2>1, <2>2
<1>13. \A u, v \in 1..n : f(u) = f(v) <=> part[u] = part[v]
  BY FirstFacts DEF f
<1>14. ASSUME NEW u \in 1..n, NEW v \in 1..n PROVE dense[u] = dense[v] <=> part[u] = part[v]
  <2>1. f(u) \in F /\ f(v) \in F /\ dense[u] = R(f(u)) /\ dense[v] = R(f(v))
    BY <1>2
  <2>2. f(u) = f(v) <=> part[u] = part[v]
    BY <1>13
  <2>3. QED
    BY <1>4, <2>1, <2>2
<1>15. QED
  BY <1>3, <1>6, <1>11, <1>12, <1>14 DEF Renumbers, dense
-----------------------------------------------------------------------------
(* What a visit compares. *)

\* The totals of the communities are those of their members' degrees.
TotalsKept ==
  /\ degree = Degrees(weight)
  /\ DOMAIN tot = Nodes(weight)
  /\ \A c \in Nodes(weight) : tot[c] = Over(degree, Fiber(Nodes(weight), comm, c))

LEMMA OthersFacts ==
  ASSUME NEW w, WeightOK(w), NEW part, NEW u \in Nodes(w), NEW c
  PROVE  /\ Others(w, part, u, c) \in SUBSET Nodes(w) /\ IsFiniteSet(Others(w, part, u, c))
         /\ u \notin Others(w, part, u, c)
         /\ Fiber(Nodes(w), part, c) =
              IF part[u] = c THEN Others(w, part, u, c) \cup {u} ELSE Others(w, part, u, c)
<1>1. Others(w, part, u, c) \in SUBSET Nodes(w) /\ u \notin Others(w, part, u, c)
  BY DEF Others
<1>2. Fiber(Nodes(w), part, c) =
        IF part[u] = c THEN Others(w, part, u, c) \cup {u} ELSE Others(w, part, u, c)
  BY DEF Others, Fiber
<1>3. QED
  BY <1>1, <1>2, SubsetFacts

LEMMA TotWithoutFacts ==
  ASSUME WeightOK(weight), TotalsKept, NEW u \in Nodes(weight), NEW c \in Nodes(weight)
  PROVE  TotWithout(u, c) = Over(degree, Others(weight, comm, u, c)) /\ TotWithout(u, c) \in Int
<1> DEFINE M == Others(weight, comm, u, c)
<1>1. \A v \in Nodes(weight) : degree[v] \in Int
  BY DegreeFacts DEF TotalsKept
<1>2. M \in SUBSET Nodes(weight) /\ IsFiniteSet(M) /\ u \notin M
  BY OthersFacts
<1>3. tot[c] = Over(degree, IF comm[u] = c THEN M \cup {u} ELSE M)
  <2>1. tot[c] = Over(degree, Fiber(Nodes(weight), comm, c))
    BY DEF TotalsKept
  <2>2. Fiber(Nodes(weight), comm, c) = IF comm[u] = c THEN M \cup {u} ELSE M
    BY OthersFacts
  <2>3. QED
    BY <2>1, <2>2, Zenon
<1> HIDE DEF M
<1>4. Over(degree, M) \in Int /\ Over(degree, M \cup {u}) = Over(degree, M) + degree[u]
  BY <1>1, <1>2, OverAdd
<1>5. degree[u] \in Int
  BY <1>1
<1>6. CASE comm[u] = c
  <2>1. tot[c] = Over(degree, M) + degree[u]
    BY <1>3, <1>4, <1>6
  <2>2. TotWithout(u, c) = tot[c] - degree[u]
    BY <1>6 DEF TotWithout
  <2>3. QED
    BY <1>4, <1>5, <2>1, <2>2 DEF M
<1>7. CASE comm[u] # c
  <2>1. tot[c] = Over(degree, M) /\ TotWithout(u, c) = tot[c]
    BY <1>3, <1>7 DEF TotWithout
  <2>2. QED
    BY <1>4, <2>1 DEF M
<1>8. QED
  BY <1>6, <1>7

LEMMA WeightToFacts ==
  ASSUME WeightOK(weight), NEW u \in Nodes(weight), NEW c,
         NEW r, \A v \in Nodes(weight) : r[v] = At(weight, u, v)
  PROVE  WeightTo(u, c) = Over(r, Others(weight, comm, u, c))
<1> DEFINE M == Others(weight, comm, u, c)
           T == {v \in Neighbours(weight, u) : comm[v] = c}
<1>1. M \in SUBSET Nodes(weight) /\ IsFiniteSet(M)
  BY OthersFacts
<1>2. \A v \in Nodes(weight) : At(weight, u, v) \in Nat
  BY WeightFacts
<1>3. \A v \in Nodes(weight) \ {u} : v \in Neighbours(weight, u) <=> At(weight, u, v) > 0
  <2>1. Neighbours(weight, u) = {v \in Nodes(weight) \ {u} : At(weight, u, v) > 0}
    BY Zenon DEF Neighbours, At
  <2>2. QED
    BY <2>1
<1>4. Neighbours(weight, u) \subseteq Nodes(weight) \ {u}
  BY DEF Neighbours
<1>5. T \in SUBSET M
  BY <1>4 DEF Others
<1>6. \A v \in M \ T : At(weight, u, v) = 0
  BY <1>2, <1>3 DEF Others
<1>7. \A v \in M : r[v] = At(weight, u, v) /\ r[v] \in Int
  BY <1>1, <1>2
<1>8. [v \in T |-> r[v]] = [v \in T |-> At(weight, u, v)]
  <2> HIDE DEF M, T
  <2>1. QED
    BY <1>5, <1>7
<1>9. [v \in T |-> At(weight, u, v)] = [v \in T |-> weight[<<u, v>>]]
  BY Zenon DEF At
<1>10. WeightTo(u, c) = Over(r, T)
  BY <1>8, <1>9, Zenon DEF WeightTo, Over
<1>11. \A v \in M \ T : r[v] = 0
  <2> HIDE DEF M, T
  <2>1. QED
    BY <1>6, <1>7
<1> HIDE DEF M, T
<1>12. Over(r, T) = Over(r, M)
  BY <1>1, <1>5, <1>7, <1>11, OverPart
<1>13. QED
  BY <1>10, <1>12 DEF M

\* The gain that a visit reckons with is what the node shares with the other
\* nodes of the community.
LEMMA GainIsBonds ==
  ASSUME WeightOK(weight), M2(weight) = m2, TotalsKept,
         NEW u \in Nodes(weight), NEW c \in Nodes(weight),
         NEW row, Shares(weight, u, Nodes(weight), row)
  PROVE  Gain(u, c) = Over(row, Others(weight, comm, u, c)) /\ Gain(u, c) \in Int
<1> DEFINE M == Others(weight, comm, u, c)
           d == degree
           r == [v \in Nodes(weight) |-> At(weight, u, v)]
           e == [v \in M |-> m2 * r[v]]
           g == [v \in M |-> d[u] * d[v]]
<1>1. M \in SUBSET Nodes(weight) /\ IsFiniteSet(M) /\ u \notin M
  BY OthersFacts
<1>2. m2 \in Int /\ d[u] \in Int /\ \A v \in Nodes(weight) : d[v] \in Int /\ d[v] = Degree(weight, v)
  BY DegreeFacts DEF TotalsKept
<1>3. \A v \in Nodes(weight) : r[v] = At(weight, u, v)
  OBVIOUS
<1>4. WeightTo(u, c) = Over(r, M)
  <2> HIDE DEF r
  <2>1. QED
    BY <1>3, WeightToFacts
<1>5. TotWithout(u, c) = Over(d, M)
  BY TotWithoutFacts
<1>6. ASSUME NEW v \in M
      PROVE  /\ r[v] \in Int /\ e[v] = m2 * r[v] /\ e[v] \in Int
             /\ d[v] \in Int /\ g[v] = d[u] * d[v] /\ g[v] \in Int
             /\ row[v] = e[v] - g[v] /\ row[v] \in Int
  <2>1. v \in Nodes(weight) /\ v # u
    BY <1>1
  <2>2. /\ At(weight, u, v) \in Nat
        /\ At(Ends(weight), u, v) = At(weight, u, v) + (IF u = v THEN At(weight, u, v) ELSE 0)
    BY <2>1, EndsFacts
  <2>3. row[v] = m2 * At(Ends(weight), u, v) - Degree(weight, u) * Degree(weight, v)
    BY <2>1, BondAt DEF Shares
  <2>4. r[v] = At(weight, u, v) /\ e[v] = m2 * r[v] /\ g[v] = d[u] * d[v]
    BY <2>1
  <2> HIDE DEF r, e, g, M
  <2>5. At(Ends(weight), u, v) = r[v] /\ r[v] \in Int
    BY <2>1, <2>2, <2>4
  <2>6. d[v] \in Int /\ d[v] = Degree(weight, v) /\ d[u] = Degree(weight, u)
    BY <1>2, <2>1
  <2>7. row[v] = e[v] - g[v]
    BY <2>3, <2>4, <2>5, <2>6
  <2>8. e[v] \in Int /\ g[v] \in Int
    BY <1>2, <2>4, <2>5, <2>6, Distributes
  <2>9. QED
    BY <2>4, <2>5, <2>6, <2>7, <2>8
<1>7. Gain(u, c) = Over(r, M) * m2 - Over(d, M) * d[u]
  BY <1>4, <1>5, Zenon DEF Gain
<1> HIDE DEF M, d, r, e, g
<1>8. Over(e, M) = m2 * Over(r, M) /\ Over(r, M) \in Int
  BY <1>1, <1>2, <1>6, OverTimes, OverInt
<1>9. Over(g, M) = d[u] * Over(d, M) /\ Over(d, M) \in Int
  BY <1>1, <1>2, <1>6, OverTimes, OverInt
<1>10. Over(row, M) = Over(e, M) - Over(g, M)
  BY <1>1, <1>6, OverMinus
<1>11. Over(row, M) \in Int
  BY <1>1, <1>6, OverInt
<1>12. Over(r, M) * m2 = m2 * Over(r, M) /\ Over(d, M) * d[u] = d[u] * Over(d, M)
  BY <1>2, <1>8, <1>9
<1>13. QED
  BY <1>7, <1>8, <1>9, <1>10, <1>11, <1>12 DEF M
\* A visit takes the node to a community, and to another one only for a gain.
LEMMA BestPays ==
  ASSUME WeightOK(weight), comm \in [Nodes(weight) -> Nodes(weight)], NEW u \in Nodes(weight),
         \A c \in Nodes(weight) : Gain(u, c) \in Int
  PROVE  /\ BestCommunity(u) \in Nodes(weight)
         /\ BestCommunity(u) # comm[u] => Gain(u, BestCommunity(u)) > Gain(u, comm[u])
<1> DEFINE around == {comm[v] : v \in Neighbours(weight, u)} \cup {comm[u]}
           gain == [c \in around |-> Gain(u, c)]
           best == {c \in around : \A d \in around : gain[c] >= gain[d]}
<1>1. BestCommunity(u) = IF comm[u] \in best THEN comm[u] ELSE Min(best)
  BY Zenon DEF BestCommunity
<1>2. around \in SUBSET Nodes(weight) /\ comm[u] \in around
  BY DEF Neighbours
<1>3. IsFiniteSet(around) /\ around \subseteq Nat
  <2> HIDE DEF around
  <2>1. QED
    BY <1>2, WeightFacts, FS_Subset
<1>4. \A c \in around : gain[c] = Gain(u, c) /\ gain[c] \in Int
  <2> HIDE DEF around
  <2>1. QED
    BY <1>2
<1> HIDE DEF around, gain
<1>5. \E c \in around : \A d \in around : gain[c] >= gain[d]
  BY <1>2, <1>3, <1>4, GreatestValue
<1>6. best # {} /\ best \subseteq Nat /\ best \subseteq around
  BY <1>3, <1>5
<1>7. Min(best) \in best
  <2> HIDE DEF best
  <2>1. QED
    BY <1>6, MinIsLeast
<1>8. CASE comm[u] \in best
  BY <1>1, <1>2, <1>8
<1>9. CASE comm[u] \notin best
  <2>1. BestCommunity(u) \in best
    BY <1>1, <1>7, <1>9
  <2>2. PICK d \in around : ~ (gain[comm[u]] >= gain[d])
    BY <1>2, <1>9
  <2>3. gain[BestCommunity(u)] >= gain[d] /\ BestCommunity(u) \in around
    BY <2>1, <2>2
  <2>4. gain[BestCommunity(u)] > gain[comm[u]]
    BY <1>2, <1>4, <2>2, <2>3
  <2>5. QED
    BY <1>2, <1>4, <2>3, <2>4
<1>10. QED
  BY <1>8, <1>9

-----------------------------------------------------------------------------
(* The inductive invariant. *)

\* A partition of the level's nodes and the one that it stands for have one
\* modularity.
Faithful ==
  \A q : ScaledQ(weight, q) = ScaledQ(base, [x \in Nodes(base) |-> q[origin[x]]])

LevelOK ==
  /\ WeightOK(base) /\ m2 = M2(base)
  /\ DOMAIN origin = Nodes(base)
  /\ phase # "found" =>
       /\ WeightOK(weight) /\ M2(weight) = m2
       /\ \A x \in Nodes(base) : origin[x] \in Nodes(weight)
       /\ Faithful
       /\ comm \in [Nodes(weight) -> Nodes(weight)]
  /\ phase = "move" => TotalsKept /\ visit \in Nat \ {0}

LouvainOK ==
  /\ phase \in {"idle", "move", "grow", "found"}
  /\ phase # "idle" => LevelOK

LEMMA LiftedQ ==
  ASSUME LouvainOK, phase \in {"move", "grow"}
  PROVE  ScaledQ(weight, comm) = ScaledQ(base, Lifted)
<1>1. LevelOK /\ phase # "found"
  BY DEF LouvainOK
<1>2. Lifted = [x \in Nodes(base) |-> comm[origin[x]]]
  BY <1>1 DEF Lifted, LevelOK
<1>3. Faithful
  BY <1>1 DEF LevelOK
<1>4. QED
  BY <1>2, <1>3, Zenon DEF Faithful

\* What a visit does to the totals.
LEMMA VisitKeepsTotals ==
  ASSUME WeightOK(weight), comm \in [Nodes(weight) -> Nodes(weight)], TotalsKept,
         NEW u \in Nodes(weight), NEW c \in Nodes(weight),
         UNCHANGED <<weight, degree>>, comm' = [comm EXCEPT ![u] = c],
         tot' = [d \in DOMAIN tot |-> TotWithout(u, d) + (IF d = c THEN degree[u] ELSE 0)]
  PROVE  TotalsKept'
<1>1. degree' = Degrees(weight)' /\ DOMAIN tot' = Nodes(weight)'
  BY DEF TotalsKept, Degrees, Degree, Nodes
<1>2. Nodes(weight') = Nodes(weight)
  OBVIOUS
<1>3. ASSUME NEW d \in Nodes(weight)
      PROVE  tot'[d] = Over(degree', Fiber(Nodes(weight'), comm', d))
  <2> DEFINE M == Others(weight, comm, u, d)
  <2>1. M = Others(weight, comm', u, d)
    BY DEF Others
  <2>2. M \in SUBSET Nodes(weight) /\ IsFiniteSet(M) /\ u \notin M
    BY OthersFacts
  <2>3. Fiber(Nodes(weight), comm', d) = IF comm'[u] = d THEN M \cup {u} ELSE M
    <3> DEFINE part == comm'
    <3>1. M = Others(weight, part, u, d)
      BY <2>1
    <3> HIDE DEF M, part
    <3>2. Fiber(Nodes(weight), part, d) =
            IF part[u] = d THEN Others(weight, part, u, d) \cup {u} ELSE Others(weight, part, u, d)
      BY OthersFacts
    <3>3. QED
      BY <3>1, <3>2, Zenon DEF part
  <2>4. comm'[u] = c
    OBVIOUS
  <2>5. TotWithout(u, d) = Over(degree, M) /\ TotWithout(u, d) \in Int
    BY TotWithoutFacts
  <2>6. tot'[d] = TotWithout(u, d) + (IF d = c THEN degree[u] ELSE 0)
    BY DEF TotalsKept
  <2>7. \A v \in Nodes(weight) : degree[v] \in Int
    BY DegreeFacts DEF TotalsKept
  <2> HIDE DEF M
  <2>8. Over(degree, M \cup {u}) = Over(degree, M) + degree[u]
    BY <2>2, <2>7, OverAdd
  <2>9. Fiber(Nodes(weight'), comm', d) = Fiber(Nodes(weight), comm', d) /\ degree' = degree
    BY <1>2
  <2>10. CASE d = c
    <3>1. Fiber(Nodes(weight'), comm', d) = M \cup {u}
      BY <2>3, <2>4, <2>9, <2>10
    <3>2. QED
      BY <2>5, <2>6, <2>8, <2>9, <2>10, <3>1
  <2>11. CASE d # c
    <3>1. Fiber(Nodes(weight'), comm', d) = M
      BY <2>3, <2>4, <2>9, <2>11
    <3>2. QED
      BY <2>5, <2>6, <2>9, <2>11, <3>1
  <2>12. QED
    BY <2>10, <2>11
<1>4. QED
  BY <1>1, <1>2, <1>3 DEF TotalsKept
\* Modularity depends on which nodes are together, and on nothing else.
LEMMA SameCommunities ==
  ASSUME NEW w, WeightOK(w), NEW p, NEW q, \A u, v \in Nodes(w) : p[u] = p[v] <=> q[u] = q[v]
  PROVE  ScaledQ(w, p) = ScaledQ(w, q)
<1>1. ASSUME NEW r \in Square(w) PROVE p[r[1]] = p[r[2]] <=> q[r[1]] = q[r[2]]
  <2>1. r[1] \in Nodes(w) /\ r[2] \in Nodes(w)
    BY PairsFacts DEF Square
  <2>2. QED
    BY <2>1
<1>2. Together(w, p) = Together(w, q)
  BY <1>1 DEF Together
<1>3. QED
  BY <1>2, QAsBonds, Zenon

LEMMA LevelStarts ==
  ASSUME NEW w, WeightOK(w), NEW sum, StartLevel(w, sum)
  PROVE  /\ weight' = w /\ comm' = [u \in Nodes(w) |-> u] /\ visit' = 1
         /\ phase' \in {"move", "grow"} /\ TotalsKept'
<1>1. weight' = w /\ comm' = [u \in Nodes(w) |-> u] /\ visit' = 1 /\ phase' \in {"move", "grow"}
  BY DEF StartLevel
<1>2. degree' = Degrees(weight') /\ tot' = degree'
  BY DEF StartLevel, Degrees
<1>3. ASSUME NEW c \in Nodes(weight')
      PROVE  tot'[c] = Over(degree', Fiber(Nodes(weight'), comm', c))
  <2>1. Fiber(Nodes(weight'), comm', c) = {c}
    BY <1>1 DEF Fiber
  <2>2. degree'[c] \in Int
    BY <1>1, <1>2, DegreeFacts
  <2>3. Over(degree', {c}) = degree'[c]
    BY <2>2, OverOne
  <2>4. QED
    BY <1>2, <2>1, <2>3
<1>4. DOMAIN tot' = Nodes(weight')
  BY <1>2 DEF Degrees
<1>5. QED
  BY <1>1, <1>2, <1>3, <1>4 DEF TotalsKept

LEMMA VisitFacts ==
  ASSUME LouvainOK, Visit
  PROVE  /\ LouvainOK'
         /\ comm' # comm => ScaledQ(base, Lifted)' > ScaledQ(base, Lifted)
<1> DEFINE u == visit
           c == BestCommunity(visit)
           own == comm[visit]
           row == [v \in Nodes(weight) |-> At(Bond(weight), visit, v)]
<1>1. phase = "move" /\ phase' = phase /\ visit <= Size(weight) /\ visit' = visit + 1
  BY DEF Visit
<1>2. /\ WeightOK(base) /\ m2 = M2(base) /\ DOMAIN origin = Nodes(base)
      /\ WeightOK(weight) /\ M2(weight) = m2
      /\ \A x \in Nodes(base) : origin[x] \in Nodes(weight)
      /\ Faithful
      /\ comm \in [Nodes(weight) -> Nodes(weight)]
      /\ TotalsKept /\ visit \in Nat \ {0}
  BY <1>1 DEF LouvainOK, LevelOK
<1>3. base' = base /\ m2' = m2 /\ weight' = weight /\ degree' = degree /\ origin' = origin
  BY DEF Visit
<1>4. u \in Nodes(weight)
  BY <1>1, <1>2, WeightFacts
<1>5. Shares(weight, u, Nodes(weight), row)
  BY DEF Shares
<1>6. \A x \in Nodes(weight) : Gain(u, x) = Over(row, Others(weight, comm, u, x)) /\ Gain(u, x) \in Int
  <2> HIDE DEF row, u
  <2>1. QED
    BY <1>2, <1>4, <1>5, GainIsBonds
<1>7. c \in Nodes(weight) /\ (c # own => Gain(u, c) > Gain(u, own))
  <2>1. \A x \in Nodes(weight) : Gain(u, x) \in Int
    BY <1>6
  <2>2. QED
    BY <1>2, <1>4, <2>1, BestPays
<1>8. /\ comm' = [comm EXCEPT ![u] = c]
      /\ tot' = [d \in DOMAIN tot |-> TotWithout(u, d) + (IF d = c THEN degree[u] ELSE 0)]
  BY DEF Visit
<1> HIDE DEF u, c, row
<1>9. TotalsKept'
  BY <1>2, <1>3, <1>4, <1>7, <1>8, VisitKeepsTotals
<1>10. comm' \in [Nodes(weight) -> Nodes(weight)]
  BY <1>2, <1>4, <1>7, <1>8
<1>11. Faithful'
  BY <1>2, <1>3 DEF Faithful
<1>12. LevelOK'
  BY <1>1, <1>2, <1>3, <1>9, <1>10, <1>11 DEF LevelOK
<1>13. LouvainOK'
  BY <1>1, <1>12 DEF LouvainOK
<1>14. Lifted' = [x \in Nodes(base) |-> comm'[origin[x]]] /\ Lifted = [x \in Nodes(base) |-> comm[origin[x]]]
  BY <1>1, <1>2, <1>3 DEF Lifted
<1>15. ScaledQ(base', Lifted') = ScaledQ(weight, comm') /\ ScaledQ(base, Lifted) = ScaledQ(weight, comm)
  BY <1>2, <1>3, <1>14, Zenon DEF Faithful
<1>16. ASSUME comm' # comm PROVE ScaledQ(weight, comm') > ScaledQ(weight, comm)
  <2>1. c # own
    BY <1>2, <1>4, <1>8, <1>16 DEF u
  <2>2. \A v \in Nodes(weight) : comm'[v] = IF v = u THEN c ELSE comm[v]
    BY <1>2, <1>8
  <2>3. own = comm[u] /\ own \in Nodes(weight)
    BY <1>2, <1>4 DEF u
  <2> DEFINE part == comm'
  <2>4. Moves(weight, comm, u, c, part)
    BY <2>2 DEF Moves
  <2> HIDE DEF part, own
  <2>6. Over(row, Others(weight, comm, u, c)) = Gain(u, c) /\ Gain(u, c) \in Int
    BY <1>6, <1>7
  <2>7. Over(row, Others(weight, comm, u, comm[u])) = Gain(u, own) /\ Gain(u, own) \in Int
    BY <1>6, <2>3
  <2>8. Gain(u, c) > Gain(u, own)
    BY <1>7, <2>1
  <2>9. ScaledQ(weight, part) > ScaledQ(weight, comm)
    <3>1. WeightOK(weight) /\ u \in Nodes(weight) /\ c # comm[u]
      BY <1>2, <1>4, <2>1, <2>3
    <3>2. Over(row, Others(weight, comm, u, c)) > Over(row, Others(weight, comm, u, comm[u]))
      BY <2>6, <2>7, <2>8
    <3>3. QED
      BY <1>5, <2>4, <3>1, <3>2, MovePays
  <2>10. QED
    BY <2>9 DEF part
<1>17. QED
  BY <1>13, <1>15, <1>16

LEMMA EndPassFacts ==
  ASSUME LouvainOK, EndPass
  PROVE  LouvainOK' /\ comm' = comm
<1>1. /\ base' = base /\ m2' = m2 /\ weight' = weight /\ degree' = degree
      /\ origin' = origin /\ comm' = comm /\ tot' = tot
  BY DEF EndPass
<1>2. phase = "move" /\ phase' \in {"move", "grow"} /\ (phase' = "move" => visit' = 1)
  BY DEF EndPass
<1>3. LevelOK /\ TotalsKept
  BY <1>2 DEF LouvainOK, LevelOK
<1>4. TotalsKept'
  BY <1>1, <1>3 DEF TotalsKept
<1>5. Faithful'
  BY <1>1, <1>2, <1>3 DEF LevelOK, Faithful
<1>6. LevelOK'
  BY <1>1, <1>2, <1>3, <1>4, <1>5 DEF LevelOK
<1>7. QED
  BY <1>1, <1>2, <1>6 DEF LouvainOK
LEMMA GrowFacts ==
  ASSUME LouvainOK, Grow
  PROVE  LouvainOK' /\ ScaledQ(base, Lifted)' = ScaledQ(base, Lifted)
<1> DEFINE dense == Renumber(comm, Size(weight))
           W == Aggregate(weight, dense)
           N == Nodes(weight)
<1>1. phase = "grow" /\ base' = base /\ m2' = m2
  BY DEF Grow
<1>2. /\ WeightOK(base) /\ m2 = M2(base) /\ DOMAIN origin = Nodes(base)
      /\ WeightOK(weight) /\ M2(weight) = m2
      /\ \A x \in Nodes(base) : origin[x] \in N
      /\ Faithful /\ comm \in [N -> N]
  BY <1>1 DEF LouvainOK, LevelOK
<1>3. N = 1..Size(weight) /\ Size(weight) \in Nat
  BY <1>2, WeightFacts
<1>4. /\ \E k \in Nat : {dense[u] : u \in N} = 1..k
      /\ \A u, v \in N : dense[u] = dense[v] <=> comm[u] = comm[v]
  <2>1. Renumbers(dense, comm, Size(weight))
    BY <1>3, RenumberFacts
  <2> HIDE DEF dense
  <2>2. QED
    BY <1>3, <2>1 DEF Renumbers
<1>5. PICK k \in Nat : Onto(weight, dense, k)
  BY <1>4 DEF Onto
<1>6. /\ origin' = [x \in Nodes(base) |-> dense[origin[x]]]
      /\ phase' = "found" \/ StartLevel(W, m2)
  BY <1>2 DEF Grow
<1> HIDE DEF dense, W
<1>7. WeightOK(W) /\ Nodes(W) = 1..k /\ M2(W) = m2
  BY <1>2, <1>5, AggregateOK, AggregateM2 DEF W
<1>8. \A x \in Nodes(base) : origin'[x] \in Nodes(W)
  BY <1>2, <1>5, <1>6, <1>7, OntoFacts
<1>9. ASSUME StartLevel(W, m2)
      PROVE  /\ LevelOK' /\ phase' \in {"move", "grow"}
             /\ Lifted' = [x \in Nodes(base) |-> dense[origin[x]]]
  <2>1. /\ weight' = W /\ comm' = [u \in Nodes(W) |-> u] /\ visit' = 1
        /\ phase' \in {"move", "grow"} /\ TotalsKept'
    BY <1>7, <1>9, LevelStarts
  <2>2. ASSUME NEW q PROVE ScaledQ(W, q) = ScaledQ(base, [x \in Nodes(base) |-> q[origin'[x]]])
    <3> DEFINE part == [u \in N |-> q[dense[u]]]
    <3>1. \A u \in Nodes(weight) : part[u] = q[dense[u]]
      OBVIOUS
    <3>2. [x \in Nodes(base) |-> part[origin[x]]] = [x \in Nodes(base) |-> q[origin'[x]]]
      BY <1>2, <1>6
    <3> HIDE DEF part
    <3>3. ScaledQ(W, q) = ScaledQ(weight, part)
      BY <1>2, <1>5, <3>1, AggregateKeepsQ DEF W
    <3>4. ScaledQ(weight, part) = ScaledQ(base, [x \in Nodes(base) |-> part[origin[x]]])
      BY <1>2, Zenon DEF Faithful
    <3>5. QED
      BY <3>2, <3>3, <3>4, Zenon
  <2>3. Faithful'
    BY <1>1, <2>1, <2>2, Zenon DEF Faithful
  <2>4. DOMAIN origin' = Nodes(base)
    BY <1>6
  <2>5. LevelOK'
    BY <1>1, <1>2, <1>7, <1>8, <2>1, <2>3, <2>4 DEF LevelOK
  <2>6. Lifted' = [x \in Nodes(base) |-> dense[origin[x]]]
    <3>1. Lifted' = [x \in DOMAIN origin' |-> comm'[origin'[x]]]
      BY <2>1 DEF Lifted
    <3>2. \A x \in Nodes(base) : comm'[origin'[x]] = dense[origin[x]]
      BY <1>6, <1>8, <2>1
    <3>3. QED
      BY <2>4, <3>1, <3>2
  <2>7. QED
    BY <2>1, <2>5, <2>6
<1>10. ASSUME phase' = "found"
       PROVE  LevelOK' /\ Lifted' = [x \in Nodes(base) |-> dense[origin[x]]]
  <2>1. LevelOK'
    BY <1>1, <1>2, <1>6, <1>10 DEF LevelOK
  <2>2. Lifted' = origin'
    BY <1>10 DEF Lifted
  <2>3. QED
    BY <1>6, <2>1, <2>2
<1>11. LouvainOK' /\ Lifted' = [x \in Nodes(base) |-> dense[origin[x]]]
  BY <1>6, <1>9, <1>10 DEF LouvainOK
<1>12. Lifted = [x \in Nodes(base) |-> comm[origin[x]]]
  BY <1>1, <1>2 DEF Lifted
<1>13. \A x, y \in Nodes(base) : Lifted'[x] = Lifted'[y] <=> Lifted[x] = Lifted[y]
  BY <1>2, <1>4, <1>11, <1>12
<1>14. ScaledQ(base, Lifted') = ScaledQ(base, Lifted)
  <2> DEFINE p == Lifted'
             q == Lifted
  <2>1. \A x, y \in Nodes(base) : p[x] = p[y] <=> q[x] = q[y]
    BY <1>13
  <2> HIDE DEF p, q
  <2>2. ScaledQ(base, p) = ScaledQ(base, q)
    BY <1>2, <2>1, SameCommunities
  <2>3. QED
    BY <2>2 DEF p, q
<1>15. QED
  BY <1>1, <1>11, <1>14
-----------------------------------------------------------------------------
(* The invariant of graph and communities together. *)

LInv == IInv /\ IsFiniteSet(edges) /\ LouvainOK

LEMMA InitEstablishesLevels == Init => LInv
<1>1. Init => IInv
  BY InitEstablishes
<1>2. Init => IsFiniteSet(edges) /\ LouvainOK
  BY FS_EmptySet DEF Init, GraphInit, LouvainInit, LouvainOK
<1>3. QED
  BY <1>1, <1>2 DEF LInv

\* An import statement makes a handful of edges, and files are finitely many.
LEMMA ModulesFinite == ASSUME IInv PROVE IsFiniteSet(ModuleSet(inputs))
<1> DEFINE name == [i \in DOMAIN inputs |-> inputs[i].name.dotted]
<1>1. DOMAIN inputs \in SUBSET (1..Len(project)) /\ Len(project) \in Nat
  BY DomainOfInputs DEF IInv
<1>2. IsFiniteSet(1..Len(project))
  BY <1>1, FS_Interval
<1>3. IsFiniteSet(DOMAIN inputs)
  BY <1>1, <1>2, FS_Subset
<1>4. ModuleSet(inputs) = {name[i] : i \in DOMAIN inputs}
  BY DEF ModuleSet
<1> HIDE DEF name
<1>5. QED
  BY <1>3, <1>4, ImageFacts

LEMMA EdgesStayFinite ==
  ASSUME IInv, IsFiniteSet(edges), GraphNext
  PROVE  IsFiniteSet(edges')
<1>1. CASE AddEdges
  <2> DEFINE modules == ModuleSet(inputs)
             T == TargetsOf(inputs[at], modules)
             made == [t \in T |-> [by |-> at, from |-> index[inputs[at].name.dotted], to |-> index[t],
                                   kind |-> Merged(Leading(inputs[at], t, modules))]]
  <2>1. T \in SUBSET modules
    BY TargetsAreModules
  <2>2. IsFiniteSet(T)
    <3> HIDE DEF T
    <3>1. QED
      BY <2>1, ModulesFinite, FS_Subset
  <2>3. edges' = edges \cup {made[t] : t \in T}
    BY <1>1 DEF AddEdges
  <2> HIDE DEF made, T
  <2>4. IsFiniteSet({made[t] : t \in T})
    BY <2>2, ImageFacts
  <2>5. QED
    BY <2>3, <2>4, FS_Union
<1>2. CASE ~ AddEdges
  <2>1. edges' = edges
    BY <1>2 DEF GraphNext, AddNode, Skip, NodesDone, Built
  <2>2. QED
    BY <2>1
<1>3. QED
  BY <1>1, <1>2

\* The weights handed over are those of a graph.
LEMMA WeightsHandedOver ==
  ASSUME IInv, IsFiniteSet(edges)
  PROVE  WeightOK(Undirected(Len(nodes), EdgeCount))
<1> DEFINE n == Len(nodes)
           w == Undirected(n, EdgeCount)
<1>1. n \in Nat /\ DOMAIN nodes = 1..n
  BY DEF IInv
<1>2. ASSUME NEW u \in 1..n, NEW v \in 1..n PROVE At(EdgeCount, u, v) \in Nat
  <2> DEFINE p == <<u, v>>
             E == {e \in edges : e.from = u /\ e.to = v}
  <2>1. p \in (DOMAIN nodes) \X (DOMAIN nodes) /\ p[1] = u /\ p[2] = v
    BY <1>1
  <2>2. At(EdgeCount, u, v) = EdgeCount[p]
    BY Zenon DEF At
  <2>3. E \in SUBSET edges
    OBVIOUS
  <2> HIDE DEF p
  <2>4. EdgeCount[p] = Cardinality({e \in edges : e.from = p[1] /\ e.to = p[2]})
    BY <2>1, Zenon DEF EdgeCount
  <2>5. At(EdgeCount, u, v) = Cardinality(E)
    BY <2>1, <2>2, <2>4, Zenon
  <2> HIDE DEF E
  <2>6. QED
    BY <2>3, <2>5, FS_Subset, FS_CardinalityType
<1>3. ASSUME NEW u \in 1..n, NEW v \in 1..n
      PROVE  At(w, u, v) = IF u = v THEN 0 ELSE At(EdgeCount, u, v) + At(EdgeCount, v, u)
  <2> DEFINE p == <<u, v>>
  <2>1. p \in (1..n) \X (1..n) /\ p[1] = u /\ p[2] = v
    OBVIOUS
  <2>2. At(w, u, v) = w[p]
    BY Zenon DEF At
  <2> HIDE DEF p, n
  <2>3. w[p] = IF p[1] = p[2] THEN 0 ELSE EdgeCount[<<p[1], p[2]>>] + EdgeCount[<<p[2], p[1]>>]
    BY <2>1, Zenon DEF Undirected
  <2>4. QED
    BY <2>1, <2>2, <2>3, Zenon DEF At
<1>4. ASSUME NEW u \in 1..n, NEW v \in 1..n
      PROVE  At(w, u, v) \in Nat /\ At(w, u, v) = At(w, v, u)
  <2>1. /\ At(w, u, v) = IF u = v THEN 0 ELSE At(EdgeCount, u, v) + At(EdgeCount, v, u)
        /\ At(w, v, u) = IF v = u THEN 0 ELSE At(EdgeCount, v, u) + At(EdgeCount, u, v)
    BY <1>3
  <2>2. At(EdgeCount, u, v) \in Nat /\ At(EdgeCount, v, u) \in Nat
    BY <1>2
  <2> HIDE DEF w
  <2>3. QED
    BY <2>1, <2>2
<1>5. DOMAIN w = (1..n) \X (1..n) /\ w = [p \in (1..n) \X (1..n) |-> w[p]]
  BY DEF Undirected
<1> HIDE DEF w, n
<1>6. ASSUME NEW p \in (1..n) \X (1..n) PROVE w[p] \in Nat
  <2>1. p[1] \in 1..n /\ p[2] \in 1..n /\ p = <<p[1], p[2]>>
    OBVIOUS
  <2>2. At(w, p[1], p[2]) = w[p]
    BY <2>1, Zenon DEF At
  <2>3. QED
    BY <1>4, <2>1, <2>2
<1>7. w \in [(1..n) \X (1..n) -> Nat]
  BY <1>5, <1>6
<1>8. WeightOK(w)
  BY <1>1, <1>4, <1>7, Zenon DEF WeightOK
<1>9. QED
  BY <1>8 DEF w, n

LEMMA AnalyzeFacts ==
  ASSUME IInv, IsFiniteSet(edges), Analyze
  PROVE  LouvainOK'
<1> DEFINE w == Undirected(Len(nodes), EdgeCount)
<1>1. WeightOK(w)
  BY WeightsHandedOver
<1> HIDE DEF w
<1>2. /\ base' = w /\ m2' = M2(base') /\ origin' = [u \in Nodes(base') |-> u]
      /\ StartLevel(base', m2')
  BY DEF Analyze, Begin, w
<1>3. /\ weight' = w /\ comm' = [u \in Nodes(w) |-> u] /\ visit' = 1
      /\ phase' \in {"move", "grow"} /\ TotalsKept'
  <2>1. StartLevel(w, m2')
    BY <1>2
  <2>2. QED
    BY <1>1, <2>1, LevelStarts
<1>4. ASSUME NEW q PROVE ScaledQ(w, q) = ScaledQ(w, [x \in Nodes(w) |-> q[origin'[x]]])
  <2> DEFINE p == [x \in Nodes(w) |-> q[origin'[x]]]
  <2>1. \A x \in Nodes(w) : p[x] = q[x]
    BY <1>2
  <2> HIDE DEF p
  <2>2. \A u, v \in Nodes(w) : q[u] = q[v] <=> p[u] = p[v]
    BY <2>1
  <2>3. ScaledQ(w, q) = ScaledQ(w, p)
    BY <1>1, <2>2, SameCommunities
  <2>4. QED
    BY <2>3 DEF p
<1>5. Faithful'
  BY <1>2, <1>3, <1>4, Zenon DEF Faithful
<1>6. LevelOK'
  BY <1>1, <1>2, <1>3, <1>5 DEF LevelOK
<1>7. QED
  BY <1>3, <1>6 DEF LouvainOK
LEMMA NothingChanges ==
  ASSUME LouvainOK, UNCHANGED louvainVars
  PROVE  LouvainOK' /\ comm' = comm /\ phase' = phase
<1>1. /\ phase' = phase /\ base' = base /\ m2' = m2 /\ weight' = weight /\ degree' = degree
      /\ origin' = origin /\ comm' = comm /\ tot' = tot /\ visit' = visit
  BY DEF louvainVars
<1>2. TotalsKept => TotalsKept'
  BY <1>1 DEF TotalsKept
<1>3. Faithful => Faithful'
  BY <1>1 DEF Faithful
<1>4. LevelOK => LevelOK'
  BY <1>1, <1>2, <1>3 DEF LevelOK
<1>5. QED
  BY <1>1, <1>4 DEF LouvainOK

\* What a step does to the partition and to its modularity.
StepPays ==
  /\ phase = "move" /\ comm' # comm => ScaledQ(base, Lifted)' > ScaledQ(base, Lifted)
  /\ phase = "grow" => ScaledQ(base, Lifted)' = ScaledQ(base, Lifted)

LEMMA LevelsStep == ASSUME LInv, [Next]_vars PROVE LInv' /\ [StepPays]_vars
<1>1. IInv /\ IsFiniteSet(edges) /\ LouvainOK /\ IInv'
  BY StepsPreserve DEF LInv
<1>2. CASE UNCHANGED vars
  <2>1. LouvainOK' /\ edges' = edges
    BY <1>1, <1>2, NothingChanges DEF vars, graphVars
  <2>2. QED
    BY <1>1, <1>2, <2>1 DEF LInv
<1>3. CASE GraphNext /\ UNCHANGED louvainVars
  <2>1. LouvainOK' /\ comm' = comm
    BY <1>1, <1>3, NothingChanges
  <2>2. IsFiniteSet(edges')
    BY <1>1, <1>3, EdgesStayFinite
  <2>3. ASSUME phase = "grow" PROVE ScaledQ(base, Lifted)' = ScaledQ(base, Lifted)
    <3>1. base' = base /\ Lifted' = Lifted
      BY <1>3 DEF louvainVars, Lifted
    <3>2. QED
      BY <3>1
  <2>4. QED
    BY <1>1, <2>1, <2>2, <2>3 DEF LInv, StepPays
<1>4. CASE Analyze
  <2>1. LouvainOK' /\ phase = "idle" /\ edges' = edges
    BY <1>1, <1>4, AnalyzeFacts DEF Analyze, Begin, graphVars
  <2>2. QED
    BY <1>1, <2>1 DEF LInv, StepPays
<1>5. CASE Visit /\ UNCHANGED graphVars
  <2>1. /\ LouvainOK' /\ edges' = edges /\ phase = "move"
        /\ comm' # comm => ScaledQ(base, Lifted)' > ScaledQ(base, Lifted)
    BY <1>1, <1>5, VisitFacts DEF Visit, graphVars
  <2>2. QED
    BY <1>1, <2>1 DEF LInv, StepPays
<1>6. CASE EndPass /\ UNCHANGED graphVars
  <2>1. LouvainOK' /\ edges' = edges /\ phase = "move" /\ comm' = comm
    BY <1>1, <1>6, EndPassFacts DEF EndPass, graphVars
  <2>2. QED
    BY <1>1, <2>1 DEF LInv, StepPays
<1>7. CASE Grow /\ UNCHANGED graphVars
  <2>1. /\ LouvainOK' /\ edges' = edges /\ phase = "grow"
        /\ ScaledQ(base, Lifted)' = ScaledQ(base, Lifted)
    BY <1>1, <1>7, GrowFacts DEF Grow, graphVars
  <2>2. QED
    BY <1>1, <2>1 DEF LInv, StepPays
<1>8. QED
  BY <1>2, <1>3, <1>4, <1>5, <1>6, <1>7 DEF Next, LouvainNext, Finished

LEMMA LevelsInvariance == Spec => []LInv
<1>1. LInv /\ [Next]_vars => LInv'
  BY LevelsStep
<1>2. QED
  BY InitEstablishesLevels, <1>1, PTL DEF Spec

(* What a level's graph says of its communities is what the import graph     *)
(* says of the partition that they lift to: aggregation, with every edge     *)
(* inside a community and every self-loop counted as Modularity::aggregate   *)
(* counts them, keeps the total weight and the modularity of every partition.*)
THEOREM LevelsAlwaysAgree == Spec => []LevelsAgree
<1>1. ASSUME LInv PROVE LevelsAgree
  <2> SUFFICES ASSUME phase \in {"move", "grow"}
               PROVE  M2(weight) = m2 /\ ScaledQ(weight, comm) = ScaledQ(base, Lifted)
    BY DEF LevelsAgree
  <2>1. M2(weight) = m2
    BY <1>1 DEF LInv, LouvainOK, LevelOK
  <2>2. ScaledQ(weight, comm) = ScaledQ(base, Lifted)
    BY <1>1, LiftedQ DEF LInv
  <2>3. QED
    BY <2>1, <2>2
<1>2. QED
  BY LevelsInvariance, <1>1, PTL

(* Every move raises the modularity of the import graph's partition, by the  *)
(* gain that the visit reckoned with, and a new level keeps it: local moving *)
(* never makes a partition worse, for every graph of imports.                *)
THEOREM MovesAlwaysPay == Spec => MovesPay
<1>1. LInv /\ [Next]_vars => [StepPays]_vars
  BY LevelsStep
<1>2. Spec => [][StepPays]_vars
  BY LevelsInvariance, <1>1, PTL DEF Spec
<1>3. QED
  BY <1>2 DEF MovesPay, StepPays

=============================================================================

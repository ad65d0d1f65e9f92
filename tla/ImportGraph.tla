----------------------------- MODULE ImportGraph -----------------------------
(***************************************************************************)
(* The first-party import graph of `metrics`: ImportGraph::build over the  *)
(* modules of one profile or of the whole tree, the cycles, and the spread *)
(* of modules over packages as the two views of `metrics` compute it.      *)
(*                                                                         *)
(* Files whose dotted name is the same make a node each; the index by name *)
(* knows the last, from and to which all edges of that name run.           *)
(***************************************************************************)
EXTENDS ImportNames

CONSTANTS
  Projects,   \* sequences of files, in the order discovery sorts them into
  Profiles    \* the names of the configured profiles

ASSUME ProjectsAreSequences == \A p \in Projects : p \in Seq(ToSet(p))

\* What the parser lets through: a statement without dots names a module, and
\* one without imported names (`import a.b`) has no dots.
StatementOK(stmt) ==
  /\ stmt.level \in Nat /\ stmt.module \in Seq(STRING) /\ stmt.names \subseteq STRING
  /\ stmt.inside \in Seq({"def", "if TYPE_CHECKING", "else", "block"})
  /\ stmt.level = 0 => stmt.module # <<>>
  /\ stmt.names = {} => stmt.level = 0

FileOK(f) ==
  /\ f.dir \in Seq(STRING) /\ f.stem \in STRING
  /\ f.imports \in Seq(ToSet(f.imports))
  /\ \A stmt \in ToSet(f.imports) : StatementOK(stmt)

ASSUME FilesAssumption == \A p \in Projects : \A f \in ToSet(p) : FileOK(f)

\* The `--scope` that stands for the whole tree.
AllFiles == "all"
Scopes == Profiles \cup {AllFiles}

VARIABLES
  project,    \* the files discovered
  scope,      \* the profile the graph is built for, or AllFiles
  inputs,     \* the modules of the scope, by the place of their file
  stage,      \* "nodes", "edges" or "built"
  at,         \* the place in `project` that is next
  nodes,      \* the dotted name of each node
  index,      \* dotted name -> node
  isPackage,  \* dotted name -> whether it is a package
  edges       \* [by, from, to, kind]: the module whose imports made the edge

graphVars == <<project, scope, inputs, stage, at, nodes, index, isPackage, edges>>

-----------------------------------------------------------------------------
InScope(f, s) == s = AllFiles \/ s \in f.profiles

\* The module inputs of measure_files and graph_of: files of the scope that
\* have a name.
InputsOf(files, s) ==
  [i \in {j \in DOMAIN files : InScope(files[j], s) /\ Names(files, files[j]) # {}} |->
     [name |-> CHOOSE n \in Names(files, files[i]) : TRUE,
      imports |-> {Raw(stmt) : stmt \in ToSet(files[i].imports)}]]

ModuleSet(ins) == {ins[i].name.dotted : i \in DOMAIN ins}

\* (Mutant) Whatever is not for type checking runs when the module is loaded.
LoadedUnlessTyping(imports) ==
  [runtime |-> \E i \in imports : ~i.typeChecking,
   typeChecking |-> \E i \in imports : i.typeChecking,
   local |-> \E i \in imports : i.local]

\* The kind of an edge: EdgeKind::merge over all imports that lead to it.
Merged(imports) ==
  [runtime |-> \E i \in imports : ~i.typeChecking /\ ~i.local,
   typeChecking |-> \E i \in imports : i.typeChecking,
   local |-> \E i \in imports : i.local]

\* The imports of a module that resolve to `target`, and the targets there are.
Leading(input, target, modules) ==
  {i \in input.imports : target \in Targets(input.name, i, modules)}

TargetsOf(input, modules) ==
  UNION {Targets(input.name, i, modules) : i \in input.imports}

-----------------------------------------------------------------------------
\* HashMap::insert.
Inserted(map, key, value) ==
  [k \in DOMAIN map \cup {key} |-> IF k = key THEN value ELSE map[k]]

GraphInit ==
  /\ project \in Projects
  /\ scope \in Scopes
  /\ inputs = InputsOf(project, scope)
  /\ stage = "nodes"
  /\ at = 1
  /\ nodes = <<>>
  /\ index = <<>>
  /\ isPackage = <<>>
  /\ edges = {}

AddNode ==
  /\ stage = "nodes"
  /\ at \in DOMAIN inputs
  /\ LET name == inputs[at].name
     IN  /\ nodes' = Append(nodes, name.dotted)
         /\ index' = Inserted(index, name.dotted, Len(nodes) + 1)
         /\ isPackage' = Inserted(isPackage, name.dotted, name.isPackage)
  /\ at' = at + 1
  /\ UNCHANGED <<project, scope, inputs, stage, edges>>

\* A file that is not in the scope, or has no name.
Skip ==
  /\ stage \in {"nodes", "edges"}
  /\ at \in DOMAIN project \ DOMAIN inputs
  /\ at' = at + 1
  /\ UNCHANGED <<project, scope, inputs, stage, nodes, index, isPackage, edges>>

NodesDone ==
  /\ stage = "nodes"
  /\ at > Len(project)
  /\ stage' = "edges"
  /\ at' = 1
  /\ UNCHANGED <<project, scope, inputs, nodes, index, isPackage, edges>>

\* (Mutant) Imports are resolved against the modules met so far.
AddEdgesSoFar ==
  /\ stage = "edges"
  /\ at \in DOMAIN inputs
  /\ LET input == inputs[at]
         modules == {inputs[i].name.dotted : i \in {j \in DOMAIN inputs : j <= at}}
     IN  edges' = edges \cup
           {[by |-> at, from |-> index[input.name.dotted], to |-> index[t],
             kind |-> Merged(Leading(input, t, modules))] : t \in TargetsOf(input, modules)}
  /\ at' = at + 1
  /\ UNCHANGED <<project, scope, inputs, stage, nodes, index, isPackage>>

AddEdges ==
  /\ stage = "edges"
  /\ at \in DOMAIN inputs
  /\ LET input == inputs[at]
         modules == ModuleSet(inputs)
     IN  edges' = edges \cup
           {[by |-> at, from |-> index[input.name.dotted], to |-> index[t],
             kind |-> Merged(Leading(input, t, modules))] : t \in TargetsOf(input, modules)}
  /\ at' = at + 1
  /\ UNCHANGED <<project, scope, inputs, stage, nodes, index, isPackage>>

Built ==
  /\ stage = "edges"
  /\ at > Len(project)
  /\ stage' = "built"
  /\ UNCHANGED <<project, scope, inputs, at, nodes, index, isPackage, edges>>

GraphNext == AddNode \/ Skip \/ NodesDone \/ AddEdges \/ Built

-----------------------------------------------------------------------------
(* What is read off the graph. *)

PackageOfNode(dotted) == PackageOf(dotted, isPackage[dotted])

\* The transitive closure of a relation, one intermediate point at a time.
Closure(rel, points) ==
  FoldSet(LAMBDA k, r : r \cup {p \in points \X points : <<p[1], k>> \in r /\ <<k, p[2]>> \in r},
          rel, points)

\* The strongly connected components of more than one point.
Tangles(rel, points) ==
  LET reach == Closure(rel, points)
  IN  {{q \in points : q = p \/ (<<p, q>> \in reach /\ <<q, p>> \in reach)} :
         p \in {x \in points : \E y \in points \ {x} : <<x, y>> \in reach /\ <<y, x>> \in reach}}

Arrows(es) == {<<nodes[e.from], nodes[e.to]>> : e \in es}

\* cycles, runtime_cycles and load_bearing_cycles.
Cycles == Tangles(Arrows(edges), DOMAIN index)
RuntimeCycles ==
  Tangles(Arrows({e \in edges : e.kind.runtime \/ e.kind.local}), DOMAIN index)
LoadBearingCycles == Tangles(Arrows({e \in edges : e.kind.runtime}), DOMAIN index)

\* Modules per package, given the package of each dotted name.
Spread(package) ==
  [p \in {package[d] : d \in DOMAIN package} |->
     Cardinality({d \in DOMAIN package : package[d] = p})]

\* The JSON feed: ImportGraph::concentration, over the keys of the index.
GraphConcentration == Spread([d \in DOMAIN index |-> PackageOfNode(d)])

\* (Mutant) The first file of a name decides whether it is a package.
FirstWriter(dotted) ==
  Min({i \in DOMAIN inputs : inputs[i].name.dotted = dotted})

\* The last one that inserts a name into the map.
LastWriter(dotted) ==
  Max({i \in DOMAIN inputs : inputs[i].name.dotted = dotted})

\* The text view: concentration_for, over the files of a profile.
TextConcentration ==
  Spread([d \in ModuleSet(inputs) |-> PackageOf(d, inputs[LastWriter(d)].name.isPackage)])

=============================================================================

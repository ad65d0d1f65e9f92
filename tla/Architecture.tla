---------------------------- MODULE Architecture ----------------------------
(***************************************************************************)
(* The architecture part of `metrics`: the import graph of a scope, and    *)
(* ImportGraph::modularity, which hands it to community detection.         *)
(***************************************************************************)
EXTENDS ImportGraph, Modularity

vars == <<graphVars, louvainVars>>

Init == GraphInit /\ LouvainInit

\* The weights handed over: parallel edges count each.
EdgeCount ==
  [p \in (DOMAIN nodes) \X (DOMAIN nodes) |->
     Cardinality({e \in edges : e.from = p[1] /\ e.to = p[2]})]

Analyze ==
  /\ stage = "built"
  /\ Begin(Undirected(Len(nodes), EdgeCount))
  /\ UNCHANGED graphVars

Finished == phase = "found" /\ UNCHANGED vars

Next ==
  \/ GraphNext /\ UNCHANGED louvainVars
  \/ Analyze
  \/ LouvainNext /\ UNCHANGED graphVars
  \/ Finished

Spec == Init /\ [][Next]_vars

\* One thread computes the figures and waits for nobody.
FairSpec == Spec /\ WF_vars(Next)

-----------------------------------------------------------------------------
(* What the imports of a project say, read off its directories. *)

\* A file that Python finds when it looks for `path` below the directory
\* `root`: a module, or a package by its `__init__.py`.
FoundAt(root, path) ==
  {f \in ToSet(project) :
     /\ f.dir \o (IF IsInit(f) THEN <<>> ELSE <<f.stem>>) = root \o path
     /\ IsInit(f) \/ path # <<>>
     /\ \A n \in 1..(Len(path) - 1) : root \o Prefix(path, n) \in PackageDirs(project)}

RootOf(f) == Prefix(f.dir, SourceRoot(project, f.dir))
Roots == {RootOf(f) : f \in ToSet(project)}

\* The directories an import starts from: the source roots, or the file's own
\* directory, one up for every dot after the first, but not above its root.
StartsOf(f, stmt) ==
  IF stmt.level = 0 THEN Roots
  ELSE {Prefix(f.dir, n) : n \in {Len(f.dir) - stmt.level + 1} \cap (Len(RootOf(f))..Len(f.dir))}

\* The files an import statement binds: what each name leads to, or else,
\* when the name is an attribute, what the part before it leads to.
Binds(f, stmt) ==
  LET Paths == IF stmt.names = {} THEN {stmt.module} ELSE {Append(stmt.module, n) : n \in stmt.names}
      Below(path) == UNION {FoundAt(s, path) : s \in StartsOf(f, stmt)}
  IN  UNION {IF Below(p) # {} THEN Below(p)
             ELSE IF p = <<>> THEN {} ELSE Below(Front(p)) : p \in Paths}

\* No two modules, and no two packages, have one dotted name.
NamesUnique ==
  \A f, g \in ToSet(project) : f # g => Names(project, f) \cap Names(project, g) = {}

\* Projects whose names lead back to their files: no package below a source root
\* is called src (module_from_path drops it), and the dots of an import stay
\* inside the outermost package, as Python wants them to, unless there is one
\* source root only.
Regular ==
  \A f \in ToSet(project) :
    LET below == SubSeq(f.dir, Len(RootOf(f)) + 1, Len(f.dir))
    IN  /\ WithoutSrc(below) = below
        /\ \A stmt \in ToSet(f.imports) :
             stmt.level = Len(below) + 1 => Roots = {RootOf(f)}

DottedOf(f) == {n.dotted : n \in Names(project, f)}

\* The dependencies between modules that those statements of files make for
\* which Counts holds.
Depends(Counts(_)) ==
  {d \in UNION {UNION {DottedOf(f) \X DottedOf(g) :
                          g \in UNION {Binds(f, f.imports[k]) :
                                         k \in {j \in DOMAIN f.imports : Counts(f.imports[j])}}} :
                       f \in ToSet(project)} : d[1] # d[2]}

-----------------------------------------------------------------------------
(* Properties. *)

\* The graph has been built and is handed over next.
GraphReady == stage = "built" /\ phase = "idle"

(* The graph of the whole tree has an edge for exactly those pairs of        *)
(* modules of which one imports the other, as the directories say; names,    *)
(* source roots, dots and attributes are resolved to that effect.            *)
EdgesAreImports ==
  GraphReady /\ scope = AllFiles /\ NamesUnique
    => Arrows(edges) = Depends(LAMBDA stmt : TRUE)

(* What is reported as a cycle at load time is one: the modules of a load-   *)
(* bearing tangle import each other with statements that run when the module *)
(* is loaded, outside functions and TYPE_CHECKING, and all such are found.   *)
HardCyclesAreHard ==
  GraphReady /\ scope = AllFiles /\ NamesUnique
    => LoadBearingCycles =
         Tangles(Depends(LAMBDA stmt : ToSet(stmt.inside) \subseteq {"else", "block"}),
                 DOMAIN index)

(* The text view and the JSON feed agree on how the modules spread over the  *)
(* packages, also when several files have one dotted name.                   *)
TextMatchesJson == GraphReady => TextConcentration = GraphConcentration

(* A profile's graph loses no coupling: an edge of the whole tree between    *)
(* two modules of the profile is in the profile's graph as well.             *)
NoCouplingLost ==
  GraphReady =>
    LET whole == ModuleSet(InputsOf(project, AllFiles))
    IN  \A i \in DOMAIN inputs :
          \A to \in TargetsOf(inputs[i], whole) \cap ModuleSet(inputs) :
            <<inputs[i].name.dotted, to>> \in Arrows(edges)

(* Aggregation keeps modularity: what the level's graph says of its          *)
(* communities is what the import graph says of the partition they lift to.  *)
LevelsAgree ==
  (phase = "move" /\ visit = 1) \/ phase = "grow" =>
    /\ M2(weight) = m2
    /\ ScaledQ(weight, comm) = ScaledQ(base, Lifted)

(* A node moves only for a gain: whenever the partition changes, modularity  *)
(* grows, although each visit compares totals that are kept up to date by    *)
(* hand; and the step to a new level leaves it as it is.                     *)
MovesPay ==
  [][/\ phase = "move" /\ comm' # comm => ScaledQ(base, Lifted)' > ScaledQ(base, Lifted)
     /\ phase = "grow" => ScaledQ(base, Lifted)' = ScaledQ(base, Lifted)]_vars

(* Local moving and aggregation come to an end.                              *)
Terminates == <>(phase = "found")

=============================================================================

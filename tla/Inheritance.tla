----------------------------- MODULE Inheritance -----------------------------
(***************************************************************************)
(* The pass over the measured files that relates the classes of a project  *)
(* to each other (resolve_inheritance of sloplint_metrics): depth and      *)
(* breadth of inheritance, coupling, static calls.                         *)
(*                                                                         *)
(* Classes are told apart by name alone.  The recursion for the depth is   *)
(* carried out call by call: a frame is a call of dit_of.                  *)
(***************************************************************************)
EXTENDS ClassMeasures

CONSTANTS
  NameOrder,  \* the class names that occur, in the order they are sorted
  Projects    \* sequences of files, as they are discovered

\* The definitions of classes, each by its file and its number there.
Definitions(measured) == UNION {{i} \X DOMAIN measured[i].classes : i \in DOMAIN measured}
ClassAt(measured, d) == measured[d[1]].classes[d[2]]
ClassNames(measured) == {ClassAt(measured, d).name : d \in Definitions(measured)}

ASSUME NamesAreOrdered ==
  /\ NameOrder \in Seq(ToSet(NameOrder))
  /\ \A p \in Projects :
       LET measured == [i \in DOMAIN p |-> FileMetrics(p[i])]
       IN  IsFiniteSet(Definitions(measured)) /\ ClassNames(measured) \subseteq ToSet(NameOrder)

\* What the parser hands over.
ASSUME TreesAreTrees == \A p \in Projects : \A i \in DOMAIN p : IsTree(p[i].tree)

VARIABLES
  files,    \* the files: [tree, tokens, test]
  metrics,  \* what was measured of each of them
  pc,       \* "index", "depth", "count" or "done"
  basesOf,  \* the bases of each class name
  queue,    \* places in NameOrder of the names whose depth is still to be asked for
  cache,    \* the depths found
  path      \* the calls under way: [name, todo, best], todo the places of bases

vars == <<files, metrics, pc, basesOf, queue, cache, path>>

Init ==
  /\ files \in Projects
  /\ metrics = [i \in DOMAIN files |-> FileMetrics(files[i])]
  /\ pc = "index"
  /\ basesOf = <<>>
  /\ queue = {}
  /\ cache = <<>>
  /\ path = <<>>

Classes == Definitions(metrics)
ClassOf(d) == ClassAt(metrics, d)
Named(name) == {d \in Classes : ClassOf(d).name = name}

\* The first definition of a name, in the order of discovery, gives its bases.
First(name) ==
  CHOOSE d \in Named(name) : \A e \in Named(name) : d[1] < e[1] \/ (d[1] = e[1] /\ d[2] <= e[2])

Index ==
  /\ pc = "index"
  /\ pc' = "depth"
  /\ basesOf' = [name \in ClassNames(metrics) |-> ClassOf(First(name)).bases]
  /\ queue' = {i \in DOMAIN NameOrder : NameOrder[i] \in ClassNames(metrics)}
  /\ UNCHANGED <<files, metrics, cache, path>>

Frame(name) == [name |-> name, todo |-> DOMAIN basesOf[name], best |-> 0]

\* The depth of the next name, unless it is known already.
Ask(i) ==
  /\ pc = "depth" /\ path = <<>>
  /\ i \in queue /\ \A k \in queue : i <= k
  /\ path' = IF NameOrder[i] \in DOMAIN cache THEN <<>> ELSE <<Frame(NameOrder[i])>>
  /\ queue' = queue \ {i}
  /\ UNCHANGED <<files, metrics, pc, basesOf, cache>>

OnPath(name) == \E i \in DOMAIN path : path[i].name = name

\* The call under way comes to its next base, the one at the place p.
Top == path[Len(path)]
Taking(p, base) ==
  /\ path # <<>>
  /\ p \in Top.todo /\ \A q \in Top.todo : p <= q
  /\ base = basesOf[Top.name][p]
Taken(p) == [path EXCEPT ![Len(path)].todo = @ \ {p}]

\* (Mutant) The last base decides, not the deepest.
DeeperByLast(frames, depth) == [frames EXCEPT ![Len(frames)].best = 1 + depth]

\* The innermost call has found a base of some depth.
Deeper(frames, depth) ==
  [frames EXCEPT ![Len(frames)].best = IF @ >= 1 + depth THEN @ ELSE 1 + depth]

\* Bases that no class of the project has the name of are not seen.
External(p) ==
  \E base \in {basesOf[Top.name][p]} \ DOMAIN basesOf :
    /\ Taking(p, base)
    /\ path' = Taken(p)
    /\ UNCHANGED <<files, metrics, pc, basesOf, queue, cache>>

Known(p) ==
  \E base \in DOMAIN cache :
    /\ Taking(p, base)
    /\ path' = Deeper(Taken(p), cache[base])
    /\ UNCHANGED <<files, metrics, pc, basesOf, queue, cache>>

\* (Mutant) The call that would go round in a circle is made again and again.
CutAndRetry(p) ==
  \E base \in DOMAIN basesOf \ DOMAIN cache :
    /\ Taking(p, base) /\ OnPath(base)
    /\ UNCHANGED vars

\* A name that is being resolved ends the chain.
Cut(p) ==
  \E base \in DOMAIN basesOf \ DOMAIN cache :
    /\ Taking(p, base) /\ OnPath(base)
    /\ path' = Deeper(Taken(p), 0)
    /\ UNCHANGED <<files, metrics, pc, basesOf, queue, cache>>

Descend(p) ==
  \E base \in DOMAIN basesOf \ DOMAIN cache :
    /\ Taking(p, base) /\ ~OnPath(base)
    /\ path' = Append(Taken(p), Frame(base))
    /\ UNCHANGED <<files, metrics, pc, basesOf, queue, cache>>

TakeBase == path # <<>> /\ \E p \in Top.todo : External(p) \/ Known(p) \/ Cut(p) \/ Descend(p)

\* All bases are done: the depth is remembered and handed to the caller.
Answer ==
  /\ path # <<>> /\ Top.todo = {}
  /\ cache' = [n \in DOMAIN cache \cup {Top.name} |-> IF n = Top.name THEN Top.best ELSE cache[n]]
  /\ LET callers == SubSeq(path, 1, Len(path) - 1)
     IN  path' = IF callers = <<>> THEN <<>> ELSE Deeper(callers, Top.best)
  /\ UNCHANGED <<files, metrics, pc, basesOf, queue>>

Resolved ==
  /\ pc = "depth" /\ path = <<>> /\ queue = {}
  /\ pc' = "count"
  /\ UNCHANGED <<files, metrics, basesOf, queue, cache, path>>

-----------------------------------------------------------------------------
\* How many definitions name the class as a base.
Children(name) == Cardinality({d \in Classes : name \in Range(ClassOf(d).bases)})

\* (Mutant) A class that refers to itself is one of them.
ReferencersAndSelf(name) == {ClassOf(d).name : d \in {e \in Classes : name \in ClassOf(e).coupled}}

\* The other classes that refer to the name.
Referencers(name) == {ClassOf(d).name : d \in {e \in Classes : name \in ClassOf(e).coupled}} \ {name}

\* The other classes of the project that a definition refers to.
OutNames(class) == (class.coupled \cap DOMAIN basesOf) \ {class.name}

WithFigures(class) ==
  [class EXCEPT
     !.dit = cache[class.name],
     !.noc = Children(class.name),
     !.fanOut = Cardinality(OutNames(class)),
     !.fanIn = Cardinality(Referencers(class.name)),
     !.cboModified = Cardinality(OutNames(class) \cup Referencers(class.name)),
     !.nosi = Cardinality({c \in DOMAIN class.calls : class.calls[c] \in DOMAIN basesOf})]

WriteBack ==
  /\ pc = "count"
  /\ pc' = "done"
  /\ metrics' = [i \in DOMAIN metrics |->
                   [metrics[i] EXCEPT !.classes = [k \in DOMAIN @ |-> WithFigures(@[k])]]]
  /\ UNCHANGED <<files, basesOf, queue, cache, path>>

Finished == pc = "done" /\ UNCHANGED vars

Next ==
  \/ Index \/ (\E i \in queue : Ask(i)) \/ TakeBase \/ Answer \/ Resolved \/ WriteBack
  \/ Finished

Spec == Init /\ [][Next]_vars

-----------------------------------------------------------------------------
(* Properties. *)

\* The names with at least k levels of inheritance above them.
Deep[k \in 0..Cardinality(DOMAIN basesOf)] ==
  IF k = 0 THEN DOMAIN basesOf
  ELSE {name \in DOMAIN basesOf : Range(basesOf[name]) \cap Deep[k - 1] # {}}

\* More levels than there are names: the bases lead into a cycle.
Endless(name) == name \in Deep[Cardinality(DOMAIN basesOf)]
LongestChain(name) ==
  Max({k \in 0..Cardinality(DOMAIN basesOf) : name \in Deep[k]})

\* A name whose bases lead into no cycle has the depth of its longest chain of
\* bases, whatever cycles were cut elsewhere before; and no call is made for a
\* name that is being resolved, so that the recursion ends.
DepthsAreChains ==
  /\ \A name \in DOMAIN cache : ~Endless(name) => cache[name] = LongestChain(name)
  /\ \A i, k \in DOMAIN path : path[i].name = path[k].name => i = k
  /\ pc = "done" => DOMAIN cache = DOMAIN basesOf

NamesUnique == \A d, e \in Classes : ClassOf(d).name = ClassOf(e).name => d = e

\* Coupling is mutual: every reference from one class to another is counted at
\* both of them, and neither a reference both ways nor one to itself twice.
CouplingIsMutual ==
  pc = "done" =>
    /\ NamesUnique =>
         SumOf([d \in Classes |-> ClassOf(d).fanOut]) = SumOf([d \in Classes |-> ClassOf(d).fanIn])
    /\ \A d \in Classes :
         LET class == ClassOf(d)
         IN  /\ class.cboModified \in Max({class.fanIn, class.fanOut})..(class.fanIn + class.fanOut)
             /\ class.cboModified < Cardinality(DOMAIN basesOf)

\* The scope a node is in: the function or class next above it, or the module.
Home(tree, n) == Max({0} \cup (Above(tree, n) \cap OfKind(tree, Scopes)))

\* Measures of functions are of what is their own: every branch of a file is
\* counted for the one function it belongs to, a class weighs what its methods
\* do in the table of functions, no statement is counted both at top level and
\* in a function, or in two functions, and no assertion for two tests.
NothingCountedTwice == pc = "index" =>
  \A i \in DOMAIN files :
    LET tree == files[i].tree
        file == metrics[i]
        functions == InOrder(CollectFunctions(tree, 0))
        classes == InOrder(CollectClasses(tree, 0))
        Branches(nodes) == SumOf([n \in nodes |-> BranchTokens(tree, n)])
        Outside == {n \in DOMAIN tree : Above(tree, n) \cap ToSet(functions) = {}}
        statements == OfKind(tree, Compound \cup Simple)
        InFunction == {s \in statements : Home(tree, s) \in ToSet(functions)}
    IN  /\ SumOf([f \in DOMAIN functions |-> file.functions[f].cyclomatic - 1])
             + Branches(Outside) = Branches(DOMAIN tree)
        /\ \A c \in DOMAIN classes :
             file.classes[c].wmc =
               SumOf([f \in {g \in DOMAIN functions : /\ tree[functions[g]].up = classes[c]
                                                    /\ tree[functions[g]].slot = "body"}
                      |-> file.functions[f].cyclomatic])
        /\ file.inFunctions = Cardinality(InFunction)
        /\ files[i].test =>
             file.tests.assertions
               <= Cardinality({n \in DOMAIN tree : tree[n].kind = "Assert" \/ IsAssertionCall(tree, n)})
        /\ file.topLevel <= Cardinality({s \in statements : Home(tree, s) = 0})

\* Methods are linked that use the same attribute, and a method to one it calls.
Mentions(tree, method) == SelfAccess(tree, method) \ Constructors
Mentioning(tree, class, name) == {m \in Cohering(tree, class) : name \in Mentions(tree, m)}
MethodNames(tree, class) == {tree[m].name : m \in Cohering(tree, class)}
AttributeLinks(tree, class) ==
  LET mentioned == UNION {Mentions(tree, m) : m \in Cohering(tree, class)}
      Users(f) == Mentioning(tree, class, f)
  IN  UNION {Users(f) \X Users(f) : f \in mentioned \ MethodNames(tree, class)}
Calls(tree, class) ==
  UNION {Mentioning(tree, class, c) \X {MethodNamed(tree, class, c)} : c \in MethodNames(tree, class)}

\* The figures of cohesion, computed from union-find forests, agree with what
\* is linked and with each other: LCOM4 counts the groups of methods, LCC the
\* pairs within a group, TCC is never above it, and LCOM* is a share.
CohesionAgrees == pc = "index" =>
  \A i \in DOMAIN files : \A c \in DOMAIN metrics[i].classes :
    LET tree == files[i].tree
        class == InOrder(CollectClasses(tree, 0))[c]
        figures == metrics[i].classes[c].cohesion
        nodes == Cohering(tree, class)
        sharing == AttributeLinks(tree, class)
        linked == sharing \cup Calls(tree, class)
        within == {p \in nodes \X nodes : p[1] < p[2] /\ p[2] \in Group(sharing, nodes, p[1])}
    IN  /\ figures.lcom4 = Cardinality({Group(linked, nodes, m) : m \in nodes})
        /\ figures.lcc[1] = Cardinality(within)
        /\ figures.tcc[1] <= figures.lcc[1]
        /\ figures.lcomStar[1] \in 0..figures.lcomStar[2]

=============================================================================

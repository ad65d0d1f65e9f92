---------------------------- MODULE ClassMeasures ----------------------------
(***************************************************************************)
(* What is measured of one class within its file (sloplint_metrics:        *)
(* cohesion, response, the candidates of inheritance), and the measures of *)
(* a file (file).                                                          *)
(***************************************************************************)
EXTENDS FunctionMeasures, Dsu, SequencesExt

CONSTANT AbstractNames  \* names that start with `abstract`

Methods(tree, class) == Body(tree, class) \cap OfKind(tree, {"FunctionDef"})

-----------------------------------------------------------------------------
(* Cohesion: which methods use which attributes of the receiver. *)

Constructors == {"__init__", "__new__", "__post_init__"}

\* The first parameter, unless the method is static: the set of its name.
ReceiverName(tree, method) ==
  IF IsStaticMethod(tree, method) THEN {} ELSE {tree[p].name : p \in Positional(tree, method)}

Binds(tree, scope, names) == \E p \in Params(tree, scope) : tree[p].name \in names

\* The attributes of the receiver that a method mentions, closures included,
\* but not where the receiver's name is bound anew.
SelfAccess(tree, method) ==
  LET receiver == ReceiverName(tree, method)
      rebinding == {s \in OfKind(tree, {"FunctionDef", "Lambda"}) : Binds(tree, s, receiver)}
      seen == Visited(tree, Body(tree, method), OfKind(tree, {"ClassDef"}) \cup rebinding)
  IN  {tree[a].name : a \in {b \in seen \cap OfKind(tree, {"Attribute"}) :
         \E v \in Kids(tree, b, "value") : tree[v].kind = "Name" /\ tree[v].name \in receiver}}

\* The nodes of the cohesion graph.
Cohering(tree, class) == {m \in Methods(tree, class) : tree[m].name \notin Constructors}

\* A name stands for the last of several methods that have it.
MethodNamed(tree, class, name) == Max({m \in Cohering(tree, class) : tree[m].name = name})

ClassCohesion(tree, class) ==
  LET nodes == Cohering(tree, class)
      n == Cardinality(nodes)
      named == {tree[m].name : m \in nodes}
      accesses == [m \in nodes |-> SelfAccess(tree, m) \ Constructors]
      attributes == [m \in nodes |-> accesses[m] \ named]
      fields == UNION {attributes[m] : m \in nodes}
      users == [f \in fields |-> {m \in nodes : f \in attributes[m]}]
      callers == [c \in named |-> {m \in nodes : c \in accesses[m]}]
      links == UNION {{<<m, MethodNamed(tree, class, c)>> : m \in callers[c]} : c \in named}
      Later(f, m) == {k \in users[f] : k > m}
      inTurn == UNION {{<<m, Min(Later(f, m))>> : m \in users[f] \ {Max(users[f])}} : f \in fields}
      alone == [m \in nodes |-> m]
      Joined(pairs) == FoldSet(LAMBDA p, parent : Union(parent, p), alone, pairs)
      Roots(parent) == {DsuFind(parent, m) : m \in nodes}
      sharing == {p \in nodes \X nodes : p[1] < p[2] /\ attributes[p[1]] \cap attributes[p[2]] # {}}
      shared == Joined(sharing)
      Size(root) == Cardinality({m \in nodes : DsuFind(shared, m) = root})
      Pairs(k) == (k * (k - 1)) \div 2
      uses == SumOf([f \in fields |-> Cardinality(users[f])])
  IN  IF n <= 1 THEN [lcom4 |-> n, tcc |-> <<0, 1>>, lcc |-> <<0, 1>>, lcomStar |-> <<0, 1>>]
      ELSE [lcom4 |-> Cardinality(Roots(Joined(links \cup inTurn))),
            tcc |-> <<Cardinality(sharing), Pairs(n)>>,
            lcc |-> <<SumOf([r \in Roots(shared) |-> Pairs(Size(r))]), Pairs(n)>>,
            lcomStar |-> IF fields = {} THEN <<0, 1>>
                         ELSE <<n * Cardinality(fields) - uses, (n - 1) * Cardinality(fields)>>]

ClassAttributeCount(tree, class) ==
  LET methods == Methods(tree, class)
  IN  Cardinality((UNION {SelfAccess(tree, m) : m \in methods}) \ {tree[m].name : m \in methods})

-----------------------------------------------------------------------------
(* The calls and types of a class, by the last names they are written with. *)

\* Own methods and whatever their bodies call, outside nested classes.
ClassRfc(tree, class) ==
  LET methods == Methods(tree, class)
      bodies == UNION {Body(tree, m) : m \in methods}
      calls == Visited(tree, bodies, OfKind(tree, {"ClassDef"})) \cap OfKind(tree, {"Call"})
  IN  Cardinality({tree[m].name : m \in methods}
                    \cup TrailingNames(tree, UNION {Kids(tree, c, "func") : c \in calls}))

\* Every type named in an annotation, also inside subscripts, tuples, lists
\* and unions, but not in strings.
CollectTypeNames(tree, expr) ==
  LET inner == OfKind(tree, {"Subscript", "Tuple", "List", "BinOp"})
  IN  {tree[e].name : e \in Visited(tree, {expr}, DOMAIN tree \ inner) \cap OfKind(tree, {"Name", "Attribute"})}

\* What a class may be coupled to: bases, annotated types, callees, and what
\* isinstance and issubclass check for; outside nested classes.
CouplingCandidates(tree, class) ==
  LET seen == Visited(tree, Body(tree, class), OfKind(tree, {"ClassDef"}))
      functions == seen \cap OfKind(tree, {"FunctionDef"})
      annotations ==
        (UNION {Kids(tree, f, "returns") \cup UNION {Kids(tree, p, "annotation") : p \in Params(tree, f)} :
                  f \in functions})
        \cup UNION {Kids(tree, s, "annotation") : s \in seen \cap OfKind(tree, {"AnnAssign"})}
      calls == seen \cap OfKind(tree, {"Call"})
      callees == UNION {Kids(tree, c, "func") : c \in calls}
      Second(args) == IF Cardinality(args) < 2 THEN {} ELSE {Min(args \ {Min(args)})}
      checked == UNION {Second(Kids(tree, c, "args")) :
                          c \in {d \in calls : TrailingNames(tree, Kids(tree, d, "func"))
                                                 \cap {"isinstance", "issubclass"} # {}}}
  IN  TrailingNames(tree, Kids(tree, class, "bases") \cup callees)
        \cup UNION {CollectTypeNames(tree, e) : e \in annotations \cup checked}

\* The qualifiers of calls `Name.method()`, one for each call.
StaticCallCandidates(tree, class) ==
  LET seen == Visited(tree, Body(tree, class), OfKind(tree, {"ClassDef"}))
      Qualifiers(c) == {v \in DOMAIN tree : /\ tree[v].kind = "Name" /\ tree[v].slot = "value"
                                            /\ tree[tree[v].up].kind = "Attribute"
                                            /\ tree[tree[v].up].slot = "func" /\ tree[tree[v].up].up = c}
  IN  [v \in UNION {Qualifiers(c) : c \in seen \cap OfKind(tree, {"Call"})} |-> tree[v].name]

ClassIsAbstract(tree, class) ==
  \/ TrailingNames(tree, Kids(tree, class, "bases")) \cap {"ABC", "Protocol"} # {}
  \/ \E k \in Kids(tree, class, "keywords") :
       tree[k].name = "metaclass" /\ "ABCMeta" \in TrailingNames(tree, Kids(tree, k, "value"))
  \/ \E m \in Methods(tree, class) :
       TrailingNames(tree, Kids(tree, m, "decorators")) \cap AbstractNames # {}

-----------------------------------------------------------------------------
(* Of a file. *)

\* The sum over a class's own methods, without what is nested in them.
ClassWmc(tree, class) ==
  SumOf([m \in Methods(tree, class) |->
         Cyclomatic(tree, m, UNION {CollectFunctions(tree, s) \cup ({s} \cap OfKind(tree, {"FunctionDef"})) :
                                      s \in Body(tree, m)})])

BasesOf(tree, class) ==
  LET named == SelectSeq(InOrder(Kids(tree, class, "bases")), LAMBDA b : TrailingName(tree, b) # {})
  IN  [i \in DOMAIN named |-> CHOOSE name \in TrailingName(tree, named[i]) : TRUE]

\* Figures that depend on other files are 0 until inheritance is resolved.
ClassMetrics(tree, class) ==
  [name |-> tree[class].name,
   methods |-> Cardinality(Methods(tree, class)),
   attributes |-> ClassAttributeCount(tree, class),
   wmc |-> ClassWmc(tree, class),
   bases |-> BasesOf(tree, class),
   coupled |-> CouplingCandidates(tree, class),
   calls |-> StaticCallCandidates(tree, class),
   rfc |-> ClassRfc(tree, class),
   abstract |-> ClassIsAbstract(tree, class),
   documented |-> DocstringOf(tree, class) # {},
   dit |-> 0, noc |-> 0, fanOut |-> 0, fanIn |-> 0, cboModified |-> 0, nosi |-> 0,
   cohesion |-> ClassCohesion(tree, class)]

\* A file is [tree, tokens, test]; a token is [kind, first, last], the lines it
\* covers, and kind is "code", "comment" or "layout"; `test` is the class the
\* profiles put the file in.
FileNloc(file) ==
  Cardinality(UNION {file.tokens[t].first..file.tokens[t].last :
                       t \in {u \in DOMAIN file.tokens : file.tokens[u].kind = "code"}})

FileMetrics(file) ==
  LET tree == file.tree
      functions == InOrder(CollectFunctions(tree, 0))
      classes == InOrder(CollectClasses(tree, 0))
  IN  [functions |-> [i \in DOMAIN functions |->
                        FunctionMetrics(tree, functions[i], CollectFunctions(tree, functions[i]))],
       classes |-> [i \in DOMAIN classes |-> ClassMetrics(tree, classes[i])],
       comments |-> Cardinality({t \in DOMAIN file.tokens : file.tokens[t].kind = "comment"}),
       nloc |-> FileNloc(file),
       exception |-> ExceptionStats(tree),
       topLevel |-> TopLevelLogic(tree),
       inFunctions |-> FunctionLogic(tree),
       tests |-> FileTestStats(tree, file.test)]

=============================================================================

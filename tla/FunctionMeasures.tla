--------------------------- MODULE FunctionMeasures ---------------------------
(***************************************************************************)
(* What is measured of one function, of the exception handlers and the     *)
(* top-level code of a file, and of its tests (sloplint_metrics:           *)
(* complexity, syntactic, size, types, exception, file, test_proxies).     *)
(***************************************************************************)
EXTENDS SyntaxTree, Sums, TLC

CONSTANTS
  TestNames,     \* names that are a test's: test, test_..., testUpper...
  UnittestNames  \* names that are a unittest assertion's: assertUpper...

Body(tree, node) == Kids(tree, node, "body")

-----------------------------------------------------------------------------
(* Cyclomatic complexity counts keyword tokens. *)

\* The branch tokens of a node itself: its keyword, `and`s and `or`s, the `if`
\* of a guard or of a comprehension's filters.
BranchTokens(tree, n) ==
  CASE tree[n].kind \in {"If", "For", "While", "Handler", "IfExp"} -> 1
    [] tree[n].kind = "Clause" -> Cardinality(Kids(tree, n, "test"))
    [] tree[n].kind = "Case" -> 1 + Cardinality(Kids(tree, n, "guard"))
    [] tree[n].kind = "Generator" -> 1 + Cardinality(Kids(tree, n, "ifs"))
    [] tree[n].kind = "BoolOp" -> tree[n].n
    [] OTHER -> 0

\* Everything in the range of a function but not in that of `nested` ones.
InRange(tree, function, nested) ==
  {n \in Below(tree, function) : (Above(tree, n) \cup {n}) \cap nested = {}}

\* (Mutant) Nested functions are not cut out.
CyclomaticOfAll(tree, function, nested) ==
  1 + SumOf([n \in InRange(tree, function, {}) |-> BranchTokens(tree, n)])

Cyclomatic(tree, function, nested) ==
  1 + SumOf([n \in InRange(tree, function, nested) |-> BranchTokens(tree, n)])

-----------------------------------------------------------------------------
(* Cognitive complexity walks the statements of a body. *)

\* The node is in a block that nests: of a branch, a loop, a handler, a case.
Deepens(tree, n) ==
  /\ tree[n].slot \in {"body", "orelse"}
  /\ tree[n].up > 0
  /\ tree[tree[n].up].kind \in {"If", "For", "While", "Clause", "Handler", "Case"}

NestingIn(tree, function, n) ==
  Cardinality({a \in Above(tree, n) \cup {n} : a > function /\ Deepens(tree, a)})

\* The fields of compound statements whose expressions are scored; of simple
\* statements all are.
ScoredFields == [If |-> "test", Clause |-> "test", For |-> "iter", While |-> "test",
                 With |-> "items", Match |-> "subject", Case |-> "guard"]

Scored(tree, e) ==
  \E top \in (Above(tree, e) \cup {e}) \ {0} :
    LET parent == tree[tree[top].up].kind
    IN  /\ tree[top].up > 0
        /\ \/ parent \in Simple
           \/ parent \in DOMAIN ScoredFields /\ tree[top].slot = ScoredFields[parent]

CognitiveOf(tree, function, n) ==
  LET nesting == NestingIn(tree, function, n)
      kind == tree[n].kind
  IN  CASE kind \in {"If", "For", "While", "Match", "Handler"} -> 1 + nesting
        [] kind = "Clause" -> 1
        [] kind = "BoolOp" /\ Scored(tree, n) -> 1
        [] kind = "IfExp" /\ Scored(tree, n) -> 1 + nesting
        [] kind = "Generator" /\ Scored(tree, n) -> Cardinality(Kids(tree, n, "ifs")) * (1 + nesting)
        [] OTHER -> 0

Cognitive(tree, function) ==
  SumOf([n \in Visited(tree, Body(tree, function), OfKind(tree, {"FunctionDef"}))
         |-> CognitiveOf(tree, function, n)])

\* The deepest block; a match and what is in it does not count.
MaxNesting(tree, function) ==
  LET blocks == OfKind(tree, {"If", "For", "While", "With", "Try"})
      seen == Visited(tree, Body(tree, function), OfKind(tree, {"Match"} \cup Scopes))
  IN  Max({0} \cup {Cardinality({a \in (Above(tree, b) \cup {b}) \cap blocks : a > function}) :
                      b \in blocks \cap seen})

-----------------------------------------------------------------------------
(* Counts over a function's own body. *)

Ncss(tree, body) == Cardinality(Visited(tree, body, OfKind(tree, Scopes)) \cap OfKind(tree, Compound \cup Simple))

OwnNodes(tree, body) == Visited(tree, body, OfKind(tree, Scopes \cup {"Lambda"}))

ExitCount(tree, body) ==
  Cardinality(OwnNodes(tree, body) \cap OfKind(tree, {"Return", "Raise", "Yield", "YieldFrom"}))

SyntacticCounts(tree, body) ==
  LET own == OwnNodes(tree, body)
      Count(kinds) == Cardinality(own \cap OfKind(tree, kinds))
      names == own \cap OfKind(tree, {"Name"})
  IN  [loops |-> Count({"For", "While", "Generator"}),
       comparisons |-> SumOf([c \in own \cap OfKind(tree, {"Compare"}) |-> tree[c].n]),
       numbers |-> Count({"NumberLiteral"}),
       strings |-> Count({"StringLiteral", "FString"}),
       mathOps |-> Count({"BinOp"}),
       variables |-> Cardinality({tree[v].name : v \in {w \in names : tree[w].n = 1}}),
       uniqueWords |-> Cardinality({tree[w].name : w \in names})]

\* The receiver of a method, which no caller passes.
ReceiverCount(tree, function) ==
  IF /\ ~IsStaticMethod(tree, function)
     /\ \E p \in Positional(tree, function) : tree[p].name \in {"self", "cls"}
  THEN 1 ELSE 0

ParamCount(tree, function) == Cardinality(Params(tree, function))
CallerArity(tree, function) == ParamCount(tree, function) - ReceiverCount(tree, function)

\* Of all but the receiver and the variadic parameters.
TypeHintCoverage(tree, function) ==
  LET named == UNION {Kids(tree, function, s) : s \in {"posonly", "args", "kwonly"}}
      annotatable == IF ReceiverCount(tree, function) = 1 THEN named \ {Min(named)} ELSE named
  IN  [annotatable |-> Cardinality(annotatable),
       typed |-> Cardinality({p \in annotatable : Kids(tree, p, "annotation") # {}}),
       returns |-> Kids(tree, function, "returns") # {}]

FunctionMetrics(tree, function, nested) ==
  LET body == Body(tree, function)
      hints == TypeHintCoverage(tree, function)
      counts == SyntacticCounts(tree, body)
  IN  [name |-> tree[function].name,
       cyclomatic |-> Cyclomatic(tree, function, nested),
       cognitive |-> Cognitive(tree, function),
       nesting |-> MaxNesting(tree, function),
       params |-> ParamCount(tree, function), arity |-> CallerArity(tree, function),
       ncss |-> Ncss(tree, body), exits |-> ExitCount(tree, body),
       documented |-> DocstringOf(tree, function) # {},
       annotatable |-> hints.annotatable, typed |-> hints.typed, returns |-> hints.returns,
       loops |-> counts.loops, comparisons |-> counts.comparisons, numbers |-> counts.numbers,
       strings |-> counts.strings, mathOps |-> counts.mathOps, variables |-> counts.variables,
       uniqueWords |-> counts.uniqueWords]

-----------------------------------------------------------------------------
(* Of a file. *)

IsBroadExcept(tree, type) ==
  \E e \in Visited(tree, {type}, DOMAIN tree \ OfKind(tree, {"Tuple"})) :
    TrailingName(tree, e) \cap {"Exception", "BaseException"} # {}

IsSwallowBody(tree, body) ==
  \E s \in body :
    /\ body = {s}
    /\ \/ tree[s].kind \in {"Pass", "Continue"}
       \/ tree[s].kind = "Expr" /\ \E v \in Kids(tree, s, "value") : tree[v].kind = "EllipsisLiteral"

ExceptionStats(tree) ==
  LET handlers == OfKind(tree, {"Handler"})
      Typed(Test(_)) == {h \in handlers : \E t \in Kids(tree, h, "type") : Test(t)}
  IN  [handlers |-> Cardinality(handlers),
       bare |-> Cardinality({h \in handlers : Kids(tree, h, "type") = {}}),
       broad |-> Cardinality(Typed(LAMBDA t : IsBroadExcept(tree, t))),
       swallowed |-> Cardinality({h \in handlers : IsSwallowBody(tree, Body(tree, h))})]

IsDocstringStmt(tree, s) ==
  tree[s].kind = "Expr" /\ \E v \in Kids(tree, s, "value") : tree[v].kind = "StringLiteral"

\* `if __name__ == "__main__"`, either way round.
IsMainGuard(tree, s) ==
  /\ tree[s].kind = "If"
  /\ \E c \in Kids(tree, s, "test") :
       /\ tree[c].kind = "Compare" /\ tree[c].n = 1
       /\ {<<tree[k].kind, tree[k].name>> : k \in Kids(tree, c, "left") \cup Kids(tree, c, "right")}
            = {<<"Name", "__name__">>, <<"StringLiteral", "__main__">>}

IsConstantExpr(tree, e) ==
  \A d \in Below(tree, e) \cup {e} :
    /\ tree[d].kind \in {"NumberLiteral", "StringLiteral", "BytesLiteral", "BooleanLiteral", "NoneLiteral",
                         "EllipsisLiteral", "UnaryOp", "Tuple", "List", "Set", "Dict"}
    /\ Kids(tree, d, "unpacked") = {}

IsConstantAssign(tree, s) ==
  /\ tree[s].kind \in {"Assign", "AnnAssign"}
  /\ \E v \in Kids(tree, s, "value") : IsConstantExpr(tree, v)

\* Statements that run when the module is loaded: all but declarations, the
\* docstring, the main guard and constants.
TopLevelLogic(tree) ==
  LET first == Min(Body(tree, 0))
      logic == {s \in Body(tree, 0) :
                  /\ tree[s].kind \notin Scopes \cup {"Import", "ImportFrom", "TypeAlias"}
                  /\ ~(s = first /\ IsDocstringStmt(tree, s))
                  /\ ~IsMainGuard(tree, s)
                  /\ ~IsConstantAssign(tree, s)}
  IN  Ncss(tree, logic)

FunctionLogic(tree) ==
  SumOf([f \in OfKind(tree, {"FunctionDef"}) |-> Ncss(tree, Body(tree, f))])

-----------------------------------------------------------------------------
(* Of its tests. *)

\* Tests are functions of the module and of its classes, not of functions.
CollectTestFunctions(tree) ==
  {f \in Visited(tree, Body(tree, 0), DOMAIN tree \ OfKind(tree, {"ClassDef"})) :
     tree[f].kind = "FunctionDef" /\ tree[f].name \in TestNames}

\* The callee is an attribute that is an assertion of unittest or pytest.
IsAssertionCall(tree, call) ==
  /\ tree[call].kind = "Call"
  /\ \E f \in Kids(tree, call, "func") :
       LET On(names) == \E v \in Kids(tree, f, "value") : tree[v].kind = "Name" /\ tree[v].name \in names
       IN  /\ tree[f].kind = "Attribute"
           /\ \/ tree[f].name \in UnittestNames
              \/ tree[f].name = "fail" /\ On({"self", "cls"})
              \/ tree[f].name \in {"raises", "warns", "deprecated_call"} /\ On({"pytest"})

CountAssertions(tree, function) ==
  Cardinality({n \in Visited(tree, Body(tree, function), {}) :
                 tree[n].kind = "Assert" \/ IsAssertionCall(tree, n)})

\* Functions found through functions and classes alone; a docstring's examples
\* are counted at the module, at classes and at functions.
ScanDoctests(tree) ==
  LET seen == Visited(tree, Body(tree, 0), DOMAIN tree \ OfKind(tree, Scopes)) \cap OfKind(tree, Scopes)
      examples == [s \in seen \cup {0} |-> SumOf([d \in DocstringOf(tree, s) |-> tree[d].n])]
      functions == seen \cap OfKind(tree, {"FunctionDef"})
  IN  [production |-> Cardinality(functions),
       doctested |-> Cardinality({f \in functions : examples[f] > 0}),
       examples |-> SumOf(examples)]

FileTestStats(tree, isTest) ==
  LET tests == CollectTestFunctions(tree)
      assertions == [t \in tests |-> CountAssertions(tree, t)]
  IN  IF ~isTest THEN ScanDoctests(tree)
      ELSE [tests |-> Cardinality(tests), assertions |-> SumOf(assertions),
            assertionFree |-> Cardinality({t \in tests : assertions[t] = 0})]

=============================================================================

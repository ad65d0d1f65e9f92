---------------------------- MODULE MCMetricsRun -----------------------------
(* Instance of MetricsRun for TLC: a production file, one named like a      *)
(* generated module and a test file.                                        *)
EXTENDS MetricsRun

MCPath == <<"src/a.py", "src/b_pb2.py", "tests/test_c.py">>
MCSuffixed == {"src/b_pb2.py"}

\* Streams of tokens: one statement, the same with other names, and two that
\* are longer by one and by two operators.
Token(kind, text) == [kind |-> kind, text |-> text]
Name(x) == Token("name", x)
Op(x) == Token("op", x)
Newline == Token("newline", "\n")
Base(x, y) == <<Name(x), Op("="), Name(y), Op("+"), Name(x)>>
OneLonger == Base("a", "b") \o <<Op("-"), Name("a")>>
TwoLonger == OneLonger \o <<Op("*"), Token("comment", "# twice"), Name("b")>>

Function(tokens, cyclomatic, cognitive) ==
  [cyclomatic |-> cyclomatic, cognitive |-> cognitive, arity |-> 2, nesting |-> 1, loc |-> 9,
   ncss |-> 4, docLines |-> 1, public |-> TRUE, typed |-> 1, annotatable |-> 2, returns |-> TRUE,
   statements |-> 3, shingles |-> Shingle(NormalizedSymbols(tokens \o <<Newline>>))]
Class == [wmc |-> 21, noc |-> 2, cbo |-> 4, rfc |-> 10, public |-> TRUE, docLines |-> 0]

File(functions) ==
  [readable |-> TRUE, parses |-> TRUE, marker |-> FALSE, functions |-> functions, classes |-> <<>>,
   loc |-> 20, nloc |-> 15, comments |-> 5, handlers |-> 1, broad |-> 1, swallowed |-> 0,
   topLevel |-> 15, inFunctions |-> 10, tests |-> 1, assertionFree |-> 1,
   doctested |-> 0, defs |-> Len(functions)]

Twins == File(<<Function(Base("a", "b"), 10, 6), Function(Base("c", "d"), 1, 0)>>)
Longer == [File(<<Function(OneLonger, 11, 16)>>) EXCEPT !.classes = <<Class>>]
Longest == File(<<Function(TwoLonger, 2, 5)>>)
MCMeasures ==
  "twins" :> Twins @@ "longer" :> Longer @@ "longest" :> Longest
    @@ "generated" :> [Longest EXCEPT !.marker = TRUE]
    @@ "broken" :> [Longer EXCEPT !.parses = FALSE, !.functions = <<>>]
MCContent == DOMAIN MCMeasures

\* A family of hash functions: small, and different enough to tell bands apart.
SymbolRank(s) ==
  CASE s = "name" -> 1 [] s = "=" -> 2 [] s = "+" -> 3 [] s = "-" -> 4 [] s = "*" -> 5 [] OTHER -> 6
Windows == UNION {f.shingles : f \in UNION {ToSet(MCMeasures[c].functions) : c \in MCContent}}
Hashes ==
  [i \in 1..5 |->
     [w \in Windows |-> FoldSeq(LAMBDA s, h : ((2 * i + 1) * h + i * SymbolRank(s) + 1) % 13, i, w)]]
MCHash(i, shingle) == Hashes[i][shingle]

Tree(a, b, c) == [p \in Paths |-> CASE p = MCPath[1] -> a [] p = MCPath[2] -> b [] OTHER -> c]
MCTrees ==
  {Tree("twins", "longer", "longest"), Tree("generated", "twins", "longer"),
   Tree("broken", "twins", "longest")}
MCSaved == {"longer", "broken", "missing"}

Production == [name |-> "production", match |-> {}, exclude |-> {}, default |-> TRUE,
               generated |-> FALSE, ignore |-> {}, allowComments |-> FALSE, limits |-> <<>>]
Tests == [Production EXCEPT !.name = "tests", !.match = {"tests/test_c.py"}, !.default = FALSE]
Generated == [Tests EXCEPT !.name = "generated", !.match = {"src/b_pb2.py"}, !.generated = TRUE]
All == [Production EXCEPT !.name = "all-files", !.match = Paths, !.default = FALSE]

MCDefaultConfig ==
  [profiles |-> <<Tests, Generated, Production>>, globsCompile |-> TRUE, include |-> {"maxCyclomatic"},
   summary |-> <<"maxCognitive", "unknown">>, clone |-> [minStatements |-> 3, similarity |-> 70]]
OneProfile == [MCDefaultConfig EXCEPT !.profiles = <<All>>, !.include = {"cyclomaticRisk"}, !.summary = <<>>]
BadGlob == [MCDefaultConfig EXCEPT !.globsCompile = FALSE]
MCConfigs == {MCDefaultConfig, OneProfile, BadGlob, Malformed}

Job(format, scope, wantsBadges, ceilings) ==
  [explicit |-> FALSE, paths |-> Paths, format |-> format, scope |-> scope,
   badges |-> wantsBadges, ceilings |-> ceilings]
Cyclomatic10 == [m \in {"cyclomatic"} |-> 10]
MCJobs ==
  {Job("text", "none", TRUE, Cyclomatic10), Job("github", "all", TRUE, <<>>),
   Job("json", "tests", FALSE, [m \in {"cognitive"} |-> 15]),
   [Job("classes", "production", TRUE, Cyclomatic10) EXCEPT !.explicit = TRUE]}

NoPreview == {}

=============================================================================

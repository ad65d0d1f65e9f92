----------------------------- MODULE MCCheckRun -----------------------------
(* Instances of CheckRun for TLC: small trees of Python files, the texts     *)
(* they may hold, and the command lines the tree is checked with.            *)
EXTENDS CheckRun

CONSTANTS twin, other, helper, requests, numpy, a, b, c   \* functions and names

\* Paths: two in directory src and one below tests.
ThreePaths == {"src/a.py", "src/b.py", "tests/c.py"}
TwoPaths == {"src/a.py", "tests/c.py"}
MCRank == [p \in Path |-> CASE p = "src/a.py" -> 1 [] p = "src/b.py" -> 2 [] p = "tests/c.py" -> 3]
MCDirOf == [p \in Path |-> IF p = "tests/c.py" THEN "tests" ELSE "src"]
MCTopModule == [p \in Path |->
  CASE p = "src/a.py" -> a [] p = "src/b.py" -> b [] p = "tests/c.py" -> c]
MCTestPath == {"tests/c.py"}
OwnFile == [p \in Path |-> p]

MCName == {twin, other, helper, requests, numpy, a, b, c}

MCPreviewRules == {"SLP001", "SLP002", "SLP180", "SLP220", "SLP240"}
AllRules == {"SLP010", "SLP020", "SLP030", "SLP090"} \cup MCPreviewRules

\* Sites: a banned comment; a redundant docstring; a comment that restates it,
\* with a fix that overlaps; and a defensive except.  Of the shipped rules only
\* SLP010 carries a fix; the pipeline takes fixes of any rule, safe and unsafe,
\* and the second and the third site stand for those.
comment == [code |-> "SLP010", lo |-> 0, hi |-> 2, fix |-> "safe"]
docstring == [code |-> "SLP002", lo |-> 4, hi |-> 6, fix |-> "safe"]
restated == [code |-> "SLP001", lo |-> 3, hi |-> 6, fix |-> "unsafe"]
except1  == [code |-> "SLP030", lo |-> 7, hi |-> 9, fix |-> "none"]
MCSite == {comment, docstring, restated, except1}

Plain == [parses |-> TRUE, sites |-> {}, funcs |-> <<>>, defs |-> {}, refs |-> {},
          imports |-> {}, noqa |-> {}]
MCEmpty == Plain
MCCut == [Plain EXCEPT !.parses = FALSE]

Commented == [Plain EXCEPT !.sites = {comment, docstring}, !.noqa = {About(docstring)}]
Overlapping == [Plain EXCEPT !.sites = {docstring, restated}, !.funcs = <<twin>>]
Sloppy == [Plain EXCEPT !.sites = {comment, except1}, !.funcs = <<twin>>, !.refs = {helper},
                        !.noqa = {[code |-> "SLP020", at |-> twin]}]
Library == [Plain EXCEPT !.funcs = <<twin, other, other>>, !.defs = {helper},
                         !.imports = {requests, a}]
MCAuthored == {Commented, Overlapping, Sloppy, Library, MCCut}

\* Fewer texts, where the interest is in more files or more runs.
FixTexts == {Commented, Overlapping}

Production == [name |-> "production", match |-> {}, exclude |-> {}, default |-> TRUE,
               generated |-> FALSE, ignore |-> {}, allowComments |-> FALSE, limits |-> <<>>]
\* Comments are not reported in the tests, or they are merely permitted.
Tests == [Production EXCEPT !.name = "tests", !.match = {"tests/c.py"}, !.default = FALSE,
                            !.ignore = {"SLP010"}, !.allowComments = TRUE]
Permissive == [Tests EXCEPT !.ignore = {}]

Config(preview, tests) ==
  [select |-> AllRules, ignore |-> {}, preview |-> preview, profiles |-> <<tests, Production>>,
   limits |-> [n \in {"dir_max_modules"} |-> 1]]

\* `check --fix` on the whole tree.
CheckFix(preview, unsafe) ==
  [config |-> Config(preview, Tests), inputs |-> {Path}, fix |-> TRUE, unsafe |-> unsafe,
   manifest |-> {numpy}, tree |-> {a}]

\* `check` without --fix, on the tree and a misspelt path.
CheckOnly == [CheckFix(FALSE, FALSE) EXCEPT !.fix = FALSE, !.inputs = {Path, Missing}]

MCJobs == {CheckFix(TRUE, TRUE), CheckFix(FALSE, FALSE), CheckOnly}
FixJobs == {CheckFix(TRUE, TRUE), CheckFix(TRUE, FALSE)}

\* A profile that permits comments.
PermissiveJob == {[CheckFix(FALSE, FALSE) EXCEPT !.config = Config(FALSE, Permissive)]}

=============================================================================

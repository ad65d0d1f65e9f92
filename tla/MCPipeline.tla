----------------------------- MODULE MCPipeline -----------------------------
(***************************************************************************)
(* An instance of Pipeline: files in which every rule finds something, the *)
(* place of an acknowledgement and its form going through all lines; files *)
(* whose functions, classes and handlers nest in every way the measures    *)
(* tell apart; and all small hierarchies of classes over two files,        *)
(* colliding names and circles among them.                                 *)
(***************************************************************************)
EXTENDS Pipeline, TreeBuilder

MCTestNames == {"test_a", "testB"}
MCUnittestNames == {"assertEqual"}
MCAbstractNames == {"abstractmethod"}
MCNameOrder == <<"A", "B", "C", "D", "Local", "Store">>

\* Names and texts, by what the rules take them for.
MCContentWords(name) ==
  CASE name = "load_user" -> {"load", "user"}
    [] name = "doc" -> {"work", "i"}
    [] name = "load the user" -> {"load", "user"}
    [] name \in {"", "self", "x"} -> {}
    [] OTHER -> {name}
MCWordCount(name) == IF name = "a_very_long_name" THEN 4 ELSE 1
MCIdentifierWords(text) == IF text = "a@example.com" THEN {"a", "example", "com"} ELSE {text}
MCNormalized(name) == IF name = "PyYAML" THEN "pyyaml" ELSE name
MCDistributions(module) == IF module = "yaml" THEN {"yaml", "pyyaml"} ELSE {module}
MCForeign == [methods |-> {"toString", "indexOf"}, functions |-> {"printf"}, attributes |-> {"length"}]

Codes == {"SLP180", "SLP220", "SLP240"} \cup FileRules
MCPreviewRules == {"SLP004", "SLP050", "SLP060", "SLP180", "SLP210", "SLP220", "SLP230", "SLP240", "SLP250"}

\* A file of the project, with what its lines and tokens are.
SourceFile(where, stmts, commented, comments) ==
  LET tree == Tree(stmts)
      line == LinesOf(tree, commented)
      length == Max({1} \cup ToSet(line))
  IN  [path |-> where, testPath |-> FALSE, test |-> FALSE, parses |-> TRUE, tree |-> tree, line |-> line,
       length |-> length, comments |-> comments, glyphs |-> <<>>, rows |-> [l \in 1..length |-> "code"],
       tokens |-> <<[kind |-> "code", first |-> 1, last |-> 3],
                    [kind |-> "comment", first |-> 3, last |-> 3],
                    [kind |-> "comment", first |-> 4, last |-> 4],
                    [kind |-> "layout", first |-> 5, last |-> 5],
                    [kind |-> "code", first |-> 6, last |-> 6]>>]

File0(stmts) == SourceFile(<<"m">>, stmts, {}, <<>>)
TestFile(stmts) == [File0(stmts) EXCEPT !.test = TRUE, !.testPath = TRUE, !.path = <<"tests", "m">>]

\* A method with a closure, a helper in a class in a function, and decorators,
\* defaults and lambdas with branches of their own.
Helper == Decorated(Call(Ref("cached"), <<IfExp(Ref("x"), Num, Num)>>),
                    Def("helper", <<Param("x", <<Ref("B")>>)>>,
                        <<If(BoolOp(Ref("x"), SelfDot("a")), <<Return(Num)>>,
                             <<Elif(Ref("x"), <<Pass>>), Else(<<Return(Ref("x"))>>)>>)>>))
Worker == Method("work", <<Doc(1), Helper,
                           For("i", ListComp(Ref("j"), "j", SelfDot("b"), <<Ref("j")>>),
                               <<While(Compare(Ref("i"), Num), <<Eval(Call(Ref("helper"), <<Ref("i")>>))>>),
                                 Plain("Raise", <<>>)>>),
                           Return(Lambda(<<Param("self", <<>>)>>, SelfDot("c")))>>)
Reader == Method("read", <<Try(<<With(Call(Ref("open"), <<>>), <<Return(SelfDot("b"))>>)>>,
                               <<Except(<<Plain("Tuple", In("elts", <<Ref("Exception")>>))>>, <<Pass>>),
                                 Except(<<>>, <<Eval(Leaf("Yield"))>>)>>)>>)
Switch == Method("switch", <<Match(SelfDot("d"), <<Case(<<BoolOp(Num, Num)>>, <<Eval(Call(SelfDot("read"), <<>>))>>),
                                                  Case(<<>>, <<Class("Local", <<>>,
                                                       <<If(Num, <<Pass>>, <<>>), Method("read", <<Return(SelfDot("e"))>>)>>)>>)>>)>>)
Init0 == Method("__init__", <<Assign(SelfDot("a"), Num), Assign(SelfDot("d"), Num)>>)
Static == Decorated(Ref("staticmethod"), Def("make", <<Param("self", <<>>)>>, <<Return(Call(Dot(Ref("A"), "make"), <<>>))>>))

Nested == <<Class("A", <<Ref("ABC")>>, <<Doc(0), Init0, Worker, Reader, Switch, Static>>)>>

\* Methods in two groups, one chained over attributes, a name defined twice,
\* and one that is tied to the others by a call alone.
Groups == <<Class("A", <<>>,
              <<Method("p", <<Return(BinOp(SelfDot("x"), SelfDot("y")))>>),
                Method("q", <<Return(SelfDot("y"))>>),
                Decorated(Dot(Ref("q"), "setter"), Method("q", <<Assign(SelfDot("z"), Num)>>)),
                Method("r", <<Eval(Call(SelfDot("s"), <<SelfDot("x")>>))>>),
                Method("s", <<Return(Call(Ref("isinstance"), <<Num, Plain("Tuple", In("elts", <<Ref("A"), Ref("B")>>))>>))>>),
                Method("t", <<Def("inner", <<Param("self", <<>>)>>, <<Return(SelfDot("x"))>>), Return(SelfDot("w"))>>)>>),
            Class("B", <<Subscript(Dot(Ref("pkg"), "A"), Ref("T"))>>, <<Pass>>)>>

\* A script: top-level code, its main guard, constants, functions in blocks.
Script == <<Doc(1), Leaf("Import"), Assign(Store("LIMIT"), Num),
            For("i", Ref("LIMIT"), <<Def("test_a", <<>>, <<Plain("Assert", <<>>)>>),
                                     If(Ref("i"), <<Class("C", <<>>, <<Pass, Method("f", <<Pass, Pass>>)>>)>>, <<>>)>>),
            Def("testB", <<>>, <<Eval(Call(Dot(Ref("pytest"), "raises"), <<>>)), Def("test_a", <<>>, <<Pass>>)>>),
            Try(<<Assign(Store("x"), BinOp(Num, Num))>>, <<Except(<<Ref("ValueError")>>, <<Eval(Leaf("EllipsisLiteral"))>>)>>),
            If(Compare(Ref("__name__"), Text("__main__", 0)), <<Eval(Call(Ref("main"), <<>>))>>, <<>>)>>

\* Hierarchies: classes that inherit, hold and call each other.
Bases(names) == [i \in DOMAIN names |-> Ref(names[i])]
Related(name, bases, held) ==
  Class(name, Bases(bases), <<Plain("AnnAssign", <<<<"target", Store("h")>>, <<"annotation", Ref(held)>>>>)>>)

Hierarchies ==
  {<<File0(<<Related("A", a, "A"), Related("B", b, "A")>>), File0(<<Related("C", c, "B"), Related(again, <<>>, "C")>>)>> :
     a \in {<<>>, <<"B">>, <<"C", "B">>, <<"D", "C">>},
     b \in {<<>>, <<"A">>, <<"C">>, <<"C", "Ext">>, <<"B", "D">>},
     c \in {<<>>, <<"A">>, <<"A", "D">>, <<"C">>},
     again \in {"A", "D"}}

Measured == {<<File0(Nested)>>, <<File0(Groups)>>, <<TestFile(Script), File0(Groups)>>, <<File0(Script)>>} \cup Hierarchies

-----------------------------------------------------------------------------
(* Files to be checked. *)

Limits == [max_identifier_words |-> 3, file_max_lines |-> 20, nesting_max_depth |-> 2,
           data_nesting_max_depth |-> 1, lcom4_min_methods |-> 3, lcom4_max_components |-> 1,
           dispatch_max_branches |-> 2, corrupted_prose_ratio |-> 50]

Plainly == [select |-> Codes, ignore |-> {}, preview |-> FALSE, profiles |-> <<>>, limits |-> Limits]
Previewing == [Plainly EXCEPT !.preview = TRUE]
\* Two profiles for one file: both ignore something, the last one's limit wins.
Profiled ==
  LET Claims(name, ignore, limits) ==
        [name |-> name, match |-> {<<"app", "service">>}, exclude |-> {}, default |-> FALSE, generated |-> FALSE,
         ignore |-> ignore, allowComments |-> FALSE, limits |-> limits]
  IN  [Previewing EXCEPT !.profiles = <<Claims("a", {"SLP010"}, [nesting_max_depth |-> 9]),
                                        Claims("b", {"SLP240"}, [nesting_max_depth |-> 1])>>]

Handle ==
  Decorated(Call(Ref("requires_auth"), <<>>), Decorated(Ref("login_required"),
    Def("handle", <<Param("x", <<>>)>>,
        <<Eval(Call(Ref("validate_token"), <<Call(Ref("login_required"), <<Ref("x")>>)>>)),
          If(Equal(Ref("kind"), Text("a@example.com", 0)), <<Return(Text("todo", 0))>>,
             <<Elif(Equal(Ref("kind"), Text("b", 0)), <<Return(Dict(<<Text("foo", 0)>>, <<Text("bar", 0)>>))>>),
               Elif(Equal(Ref("kind"), Text("c", 0)), <<Pass>>)>>),
          Eval(CallWith(Ref("connect"), <<Dot(Ref("x"), "length")>>, Keyword("token", Text("changeme", 0))))>>)))

Retry ==
  Def("load_user", <<>>,
      <<Eval(Text("load the user", 0)),
        For("i", Ref("x"), <<Try(<<Eval(Call(Dot(Ref("x"), "toString"), <<>>))>>,
          <<Except(<<Ref("Exception")>>, <<If(Ref("x"), <<Plain("Raise", <<>>)>>, <<>>)>>),
            Except(<<>>, <<Eval(Call(Dot(Ref("log"), "error"), <<>>))>>)>>)>>)>>)

Service ==
  <<Import(<<Alias("os"), Alias("requests")>>),
    ImportFrom("yaml", 0, <<Alias("load")>>),
    ImportFrom("", 1, <<Alias("client")>>),
    Assign(Store("password"), Text("changeme", 0)),
    AnnAssign(Store("a_very_long_name"), Ref("int"), IntNum),
    Assign(Store("LIMIT"), List(<<List(<<Num>>), Num>>)),
    Retry, Handle>>

Client ==
  <<Import(<<Alias("app"), AliasAs("lib", "l")>>),
    ImportFrom("app", 0, <<Alias("handle")>>),
    Class("Store", <<Ref("B")>>, <<Pass>>),
    Def("main", <<>>, <<Return(Dot(Ref("settings"), "DEBUG"))>>),
    If(Dot(Ref("config"), "LIMIT"), <<Eval(Call(Ref("printf"), <<>>))>>, <<>>)>>

Prose(line, own, words) == [line |-> line, own |-> own, sort |-> "prose", tells |-> {}, words |-> words, tail |-> <<>>]
Noqa(line, tail) == [Prose(line, FALSE, {"because"}) EXCEPT !.sort = "noqa", !.tail = tail]

\* A comment above the second function, one after the loop's head, one with the
\* phrases of an assistant above the class.
RetryAt == CHOOSE n \in DOMAIN Tree(Service) : Tree(Service)[n].name = "load_user"
Above1 == [line |-> 7, own |-> TRUE, sort |-> "prose", tells |-> {"hedging", "step"}, words |-> {"load", "user"}, tail |-> <<>>]
ServiceComments == <<Above1, Prose(10, FALSE, {"i", "loop"}), [Prose(4, FALSE, {}) EXCEPT !.sort = "directive"]>>

ServiceFile(acknowledgements) ==
  SourceFile(<<"app", "service">>, Service, {RetryAt}, ServiceComments \o acknowledgements)
ClientFile == [SourceFile(<<"src", "client">>, Client, {}, <<>>) EXCEPT
                 !.glyphs = <<"ascii", "newline", "other", "other", "ascii", "other">>]
Lost(rows) == [File0(<<>>) EXCEPT !.path = <<"lib", "lost">>, !.parses = FALSE, !.rows = rows, !.length = Len(rows)]

\* Every line of the service that holds code and no comment, acknowledged in
\* every form; a file that does not parse for each of the reasons.
Forms == {<<>>, <<"SLP030", "because", "SLP010">>, <<"SLP210", "SLP230", "why">>, <<"E501">>}
Marked ==
  {ServiceFile(<<Noqa(l, form)>>) : l \in 1..ServiceFile(<<>>).length \ {7, 10, 4}, form \in Forms}
    \cup {ServiceFile(<<>>)}
LostFiles ==
  {Lost(<<"prose", "artifact">>), Lost([l \in 1..3 |-> "prose"]), Lost([l \in 1..2 |-> "prose"]),
   Lost(<<"prose", "code", "code", "blank">>)}

Dir(tables, requirements) ==
  [pyproject |-> tables # {}, tables |-> tables, requirements |-> requirements, modules |-> {<<"src", "lib", "a">>}]
Spec1(name) == [form |-> "specifier", name |-> name]
Manifests ==
  {<<>>, <<Dir({}, {}), Dir({[poetry |-> FALSE, entries |-> {Spec1("PyYAML")}]}, {})>>,
   <<Dir({[poetry |-> TRUE, entries |-> {"python", "requests"}]}, {}), Dir({}, {{Spec1("yaml")}})>>,
   <<[Dir({}, {}) EXCEPT !.pyproject = TRUE], Dir({}, {{Spec1("yaml")}})>>,
   <<Dir({}, {{Spec1("yaml"), [form |-> "option", name |-> "requests"]}, {}})>>}

\* A parsed file most of whose lines read as prose, below a docstring; every
\* line acknowledged, the docstring's too, by a comment that covers what is said
\* of the first line or one that does not.
NarratedFile(acknowledgements) ==
  LET remark == Eval(Compare(Ref("x"), Ref("kind")))
      file == SourceFile(<<"notes">>, <<Doc(1), remark, remark, remark>>, {}, acknowledgements)
  IN  [file EXCEPT !.rows = [l \in DOMAIN @ |-> IF l = 1 THEN "code" ELSE "prose"]]
Narrated == {NarratedFile(<<Noqa(l, form)>>) : l \in 1..NarratedFile(<<>>).length, form \in {<<>>, <<"E501">>}}

\* Nothing but PyYAML is declared.
Declaring == <<Dir({}, {{Spec1("PyYAML")}})>>

Checked ==
  {[files |-> <<f, ClientFile>>, config |-> Previewing, dirs |-> Declaring] : f \in Marked \cup Narrated}
    \cup {[files |-> <<ClientFile, l, ServiceFile(<<>>)>>, config |-> c, dirs |-> m] :
             l \in LostFiles, c \in {Plainly, Previewing, Profiled}, m \in Manifests}

\* The hierarchies are measured only.
Silently == [Plainly EXCEPT !.select = {}]
MCSources == Checked \cup {[files |-> p, config |-> Silently, dirs |-> <<>>] : p \in Hierarchies}
               \cup {[files |-> p, config |-> Previewing, dirs |-> <<>>] : p \in Measured \ Hierarchies}

Parsed(sources) == {Parsing(s.files) : s \in sources}
MCProjects == Parsed(MCSources)

\* A class that another file imports under a name of its own.
Renamer == <<ImportFrom("store", 0, <<AliasAs("Store", "Backend")>>), Eval(Call(Ref("Backend"), <<>>))>>
AliasSources ==
  {[files |-> <<[File0(<<Class("Store", <<>>, <<Pass>>)>>) EXCEPT !.path = <<"store">>], File0(user)>>,
    config |-> Previewing, dirs |-> <<>>] :
     user \in {Renamer, <<ImportFrom("store", 0, <<Alias("Store")>>)>>}}
AliasProjects == Parsed(AliasSources)

=============================================================================

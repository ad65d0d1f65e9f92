----------------------------- MODULE TreeBuilder -----------------------------
(***************************************************************************)
(* Syntax trees written out for the instances: a fragment is a tree whose  *)
(* first node is the root of all others.                                   *)
(***************************************************************************)
EXTENDS Integers, Sequences, FiniteSets, SequencesExt

\* `done` with the fragment kid[2] hung under its node `parent` as kid[1].
Hung(done, parent, kid) ==
  done \o [i \in DOMAIN kid[2] |->
             IF kid[2][i].up = 0 THEN [kid[2][i] EXCEPT !.up = parent, !.slot = kid[1]]
             ELSE [kid[2][i] EXCEPT !.up = @ + Len(done)]]

Node(kind, name, n, kids) ==
  FoldLeft(LAMBDA done, kid : Hung(done, 1, kid),
           <<[kind |-> kind, up |-> 0, slot |-> "body", name |-> name, n |-> n]>>, kids)

Tree(stmts) == FoldLeft(LAMBDA done, s : Hung(done, 0, <<"body", s>>), <<>>, stmts)

In(slot, fragments) == [i \in DOMAIN fragments |-> <<slot, fragments[i]>>]

\* Expressions.
Plain(kind, kids) == Node(kind, "", 0, kids)
Leaf(kind) == Plain(kind, <<>>)
Ref(name) == Node("Name", name, 0, <<>>)
Store(name) == Node("Name", name, 1, <<>>)
Text(text, examples) == Node("StringLiteral", text, examples, <<>>)
Num == Leaf("NumberLiteral")
Dot(value, name) == Node("Attribute", name, 0, <<<<"value", value>>>>)
SelfDot(name) == Dot(Ref("self"), name)
Subscript(value, slice) == Plain("Subscript", <<<<"value", value>>, <<"slice", slice>>>>)
Call(func, args) == Plain("Call", <<<<"func", func>>>> \o In("args", args))
BoolOp(a, b) == Node("BoolOp", "", 1, In("values", <<a, b>>))
Compare(a, b) == Node("Compare", "", 1, <<<<"left", a>>, <<"right", b>>>>)
BinOp(a, b) == Plain("BinOp", <<<<"left", a>>, <<"right", b>>>>)
IfExp(test, a, b) == Plain("IfExp", <<<<"test", test>>, <<"then", a>>, <<"else", b>>>>)
Lambda(params, e) == Plain("Lambda", In("args", params) \o <<<<"value", e>>>>)
ListComp(e, target, iter, ifs) ==
  Plain("ListComp", <<<<"value", e>>, <<"generators",
    Plain("Generator", <<<<"target", Store(target)>>, <<"iter", iter>>>> \o In("ifs", ifs))>>>>)

Equal(a, b) == Node("Compare", "==", 1, <<<<"left", a>>, <<"right", b>>>>)
IntNum == Node("NumberLiteral", "int", 0, <<>>)
Dict(keys, values) == Plain("Dict", In("keys", keys) \o In("values", values))
List(elts) == Plain("List", In("elts", elts))
Keyword(name, value) == Node("Keyword", name, 0, <<<<"value", value>>>>)
CallWith(func, args, keyword) == Hung(Call(func, args), 1, <<"keywords", keyword>>)

\* Statements.
Alias(name) == Node("Alias", name, 0, <<>>)
AliasAs(name, as) == Node("Alias", name, 0, <<<<"asname", Node("AsName", as, 0, <<>>)>>>>)
Import(aliases) == Plain("Import", In("names", aliases))
ImportFrom(module, level, aliases) == Node("ImportFrom", module, level, In("names", aliases))
AnnAssign(target, type, value) ==
  Plain("AnnAssign", <<<<"target", target>>, <<"annotation", type>>, <<"value", value>>>>)
Eval(e) == Plain("Expr", <<<<"value", e>>>>)
Return(e) == Plain("Return", <<<<"value", e>>>>)
Assign(target, e) == Plain("Assign", <<<<"targets", target>>, <<"value", e>>>>)
If(test, body, clauses) == Plain("If", <<<<"test", test>>>> \o In("body", body) \o In("clauses", clauses))
Elif(test, body) == Plain("Clause", <<<<"test", test>>>> \o In("body", body))
Else(body) == Plain("Clause", In("body", body))
For(target, iter, body) == Plain("For", <<<<"target", Store(target)>>, <<"iter", iter>>>> \o In("body", body))
While(test, body) == Plain("While", <<<<"test", test>>>> \o In("body", body))
With(item, body) == Plain("With", <<<<"items", item>>>> \o In("body", body))
Try(body, handlers) == Plain("Try", In("body", body) \o In("handlers", handlers))
Except(types, body) == Plain("Handler", In("type", types) \o In("body", body))
Match(subject, cases) == Plain("Match", <<<<"subject", subject>>>> \o In("cases", cases))
Case(guards, body) == Plain("Case", In("guard", guards) \o In("body", body))
Param(name, annotations) == Node("Param", name, 0, In("annotation", annotations))
Def(name, params, body) == Node("FunctionDef", name, 0, In("args", params) \o In("body", body))
Method(name, body) == Def(name, <<Param("self", <<>>)>>, body)

\* A decorator comes right after the head, before everything else of the def.
Decorated(decorator, def) ==
  Hung(<<Head(def)>>, 1, <<"decorators", decorator>>)
    \o [i \in 1..(Len(def) - 1) |->
          IF def[i + 1].up = 1 THEN def[i + 1] ELSE [def[i + 1] EXCEPT !.up = @ + Len(decorator)]]

Class(name, bases, body) == Node("ClassDef", name, 0, In("bases", bases) \o In("body", body))
Pass == Leaf("Pass")
Doc(examples) == Eval(Text("doc", examples))

-----------------------------------------------------------------------------
(* The text of a tree: a line for every statement, branch and decorator, and *)
(* one for a comment of its own above each of the nodes `commented`.         *)
Openers == {"Clause", "Handler", "Case", "If", "For", "While", "With", "Try", "Match", "FunctionDef", "ClassDef",
            "Return", "Raise", "Assign", "AnnAssign", "Expr", "Assert", "Import", "ImportFrom", "Pass"}

IsUnder(tree, node, top) ==
  LET under[n \in 0..node] == n = top \/ (n > top /\ under[tree[n].up])
  IN  under[node]

LinesOf(tree, commented) ==
  [n \in DOMAIN tree |->
     Cardinality({o \in 1..n : tree[o].kind \in Openers})
       + Cardinality({d \in 1..n : tree[d].slot = "decorators" /\ ~IsUnder(tree, n, d)})
       + Cardinality({c \in commented : c <= n})]

=============================================================================

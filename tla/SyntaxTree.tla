------------------------------ MODULE SyntaxTree ------------------------------
(***************************************************************************)
(* Python syntax trees as the parser hands them over, and the walks over   *)
(* them that the crates share (sloplint_python).                           *)
(*                                                                         *)
(* A tree is the sequence of its nodes, parents before children and        *)
(* children in source order; node 0 is the module.  A node is a record:    *)
(*   kind   the syntactic class, as it is called in the parser;            *)
(*   up     the parent;                                                    *)
(*   slot   the field of the parent that it is in;                         *)
(*   name   the identifier it holds, for definitions, names, attributes,   *)
(*          parameters and keywords;                                       *)
(*   n      operators of a chain; 1 for a name that is stored to; example  *)
(*          lines of a string; 0 otherwise.                                *)
(* "Clause", "Handler", "Case" and "Generator" are the elif and else       *)
(* branches of an If, the excepts of a Try, the cases of a Match and the   *)
(* for parts of a comprehension.                                           *)
(***************************************************************************)
EXTENDS Integers, Sequences, FiniteSetsExt

Scopes == {"FunctionDef", "ClassDef"}
Compound == {"If", "For", "While", "With", "Try", "Match"} \cup Scopes
Simple == {"Return", "Raise", "Assign", "AugAssign", "AnnAssign", "Expr", "Assert", "Import",
           "ImportFrom", "TypeAlias", "Delete", "Global", "Pass", "Continue", "Break"}

\* Parts of compound statements that hold blocks of their own.
Parts == {"Clause", "Handler", "Case"}

OfKind(tree, kinds) == {n \in DOMAIN tree : tree[n].kind \in kinds}

\* The children of a node in one of its fields.
Kids(tree, node, slot) == {k \in DOMAIN tree : tree[k].up = node /\ tree[k].slot = slot}

\* Parents come before their children.  Statements stand in the blocks of the
\* module, of compound statements and of their parts, and those of a function
\* or class in its body.  Bodies are not empty and consist of statements, and
\* an If has one test.
IsTree(tree) ==
  /\ tree \in Seq({tree[n] : n \in DOMAIN tree})
  /\ \A n \in DOMAIN tree : tree[n].up \in 0..(n - 1) /\ tree[n].n \in Nat
  /\ \A n \in DOMAIN tree :
       tree[n].kind \in Compound \cup Simple \cup Parts /\ tree[n].up > 0 =>
         LET parent == tree[tree[n].up].kind
         IN  /\ parent \in Compound \cup Parts
             /\ parent \in Scopes => tree[n].slot = "body"
  /\ \A b \in OfKind(tree, Compound \ {"Match"}) :
       Kids(tree, b, "body") # {} /\ Kids(tree, b, "body") \subseteq OfKind(tree, Compound \cup Simple)
  /\ \A i \in OfKind(tree, {"If"}) : \E t \in DOMAIN tree : Kids(tree, i, "test") = {t}

Above(tree, node) ==
  LET up[n \in 0..node] == IF n = 0 THEN {} ELSE {tree[n].up} \cup up[tree[n].up]
  IN  up[node]

Below(tree, node) == {d \in DOMAIN tree : node \in Above(tree, d)}

\* What a visitor sees that starts at each of `roots` and does not look into
\* the nodes of `stops`, which it sees.
Visited(tree, roots, stops) ==
  {d \in DOMAIN tree :
     LET line == Above(tree, d) \cup {d}
     IN  \E r \in roots \cap line : \A s \in line \cap stops : s < r \/ s = d}

\* Every function and every class, in source order by number, also those
\* inside compound statements, functions and classes.
CollectFunctions(tree, node) == Below(tree, node) \cap OfKind(tree, {"FunctionDef"})
CollectClasses(tree, node) == Below(tree, node) \cap OfKind(tree, {"ClassDef"})

\* The docstring of a body: the string its first statement consists of.
DocstringOf(tree, node) ==
  {s \in OfKind(tree, {"StringLiteral"}) :
     /\ Kids(tree, node, "body") # {}
     /\ tree[s].up = Min(Kids(tree, node, "body"))
     /\ tree[tree[s].up].kind = "Expr"}

\* The last name of a possibly subscripted name or attribute: the set of it,
\* empty for any other expression.
TrailingName(tree, expr) ==
  {tree[d].name : d \in
     {e \in Visited(tree, {expr}, DOMAIN tree \ OfKind(tree, {"Subscript"})) :
        /\ tree[e].kind \in {"Name", "Attribute"}
        /\ \A a \in (Above(tree, e) \cup {e}) \ (Above(tree, expr) \cup {expr}) : tree[a].slot = "value"}}

TrailingNames(tree, exprs) == UNION {TrailingName(tree, e) : e \in exprs}

\* Decorated as a static method, by the last name of a decorator.
IsStaticMethod(tree, function) ==
  "staticmethod" \in TrailingNames(tree, Kids(tree, function, "decorators"))

\* The parameters of a function or lambda, by the kinds they come in.
Params(tree, function) ==
  UNION {Kids(tree, function, s) : s \in {"posonly", "args", "kwonly", "vararg", "kwarg"}}

Positional(tree, function) ==
  LET only == Kids(tree, function, "posonly")
      regular == Kids(tree, function, "args")
  IN  IF only # {} THEN {Min(only)} ELSE IF regular # {} THEN {Min(regular)} ELSE {}

=============================================================================

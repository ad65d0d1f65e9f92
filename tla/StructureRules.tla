--------------------------- MODULE StructureRules ---------------------------
(***************************************************************************)
(* The rules about the shape of the code (rules::structure, ::cohesion):   *)
(* SLP082, SLP130, SLP030, SLP120, SLP084, SLP040, SLP060, SLP080, SLP050. *)
(***************************************************************************)
EXTENDS CommentRules, ClassMeasures

CONSTANT WordCount(_)  \* words of an identifier, by underscores and humps

Statements(tree) == OfKind(tree, Compound \cup Simple)

-----------------------------------------------------------------------------
(* SLP082: one finding for each function that nests too deep. *)

Nesting == {"If", "For", "While", "With", "Try"}

\* Blocks of the function around a statement.
Depth(tree, function, s) ==
  Cardinality({a \in Above(tree, s) : a > function /\ tree[a].kind \in Nesting})

\* (Mutant) Handlers and else branches of a try are not looked into.
TooDeepBodies(tree, function, max) ==
  {s \in Visited(tree, Body(tree, function), OfKind(tree, {"Match", "Handler"} \cup Scopes))
           \cap Statements(tree) : Depth(tree, function, s) > max}

\* Nested definitions count for themselves, and a match has no blocks here.
TooDeep(tree, function, max) ==
  {s \in Visited(tree, Body(tree, function), OfKind(tree, {"Match"} \cup Scopes))
           \cap Statements(tree) : Depth(tree, function, s) > max}

DeepNesting(file, max) ==
  {Finding(file, "SLP082", Min(TooDeep(file.tree, f, max)), "nesting") :
     f \in {g \in OfKind(file.tree, {"FunctionDef"}) : TooDeep(file.tree, g, max) # {}}}

-----------------------------------------------------------------------------
(* SLP130: a chain of ifs that asks the same of one subject. *)

\* An expression as it is written: its nodes, wherever it stands.
Written(tree, e) ==
  [d \in {n - e : n \in Below(tree, e) \cup {e}} |->
     [tree[e + d] EXCEPT !.up = IF d = 0 THEN 0 ELSE @ - e, !.slot = IF d = 0 THEN "" ELSE @]]

Tests(tree, if) ==
  Kids(tree, if, "test") \cup UNION {Kids(tree, c, "test") : c \in Kids(tree, if, "clauses")}

\* What `subject == literal` and `isinstance(subject, type)` ask about.
LiteralSubject(tree, test) ==
  {Written(tree, s) : s \in
     {l \in Kids(tree, test, "left") :
        /\ tree[test].kind = "Compare" /\ tree[test].n = 1 /\ tree[test].name = "=="
        /\ \E r \in Kids(tree, test, "right") : tree[r].kind \in {"StringLiteral", "NumberLiteral"}}}

InstanceSubject(tree, test) ==
  LET args == Kids(tree, test, "args")
  IN  {Written(tree, s) : s \in
         {a \in args :
            /\ a = Min(args)
            /\ tree[test].kind = "Call"
            /\ \E f \in Kids(tree, test, "func") : tree[f].kind = "Name" /\ tree[f].name = "isinstance"
            /\ Kids(tree, test, "keywords") = {} /\ Cardinality(args) = 2
            /\ \A b \in args : tree[b].kind # "Starred"}}

Uniform(tests, Subject(_)) ==
  \E t \in tests : Subject(t) # {} /\ \A u \in tests : Subject(u) = Subject(t)

DispatchLadder(file, max) ==
  LET tree == file.tree
      Long == {i \in OfKind(tree, {"If"}) : Cardinality(Tests(tree, i)) > max}
      Of(i, why) == Finding(file, "SLP130", Min(Kids(tree, i, "test")), why)
      literal == {i \in Long : Uniform(Tests(tree, i), LAMBDA t : LiteralSubject(tree, t))}
      types == {i \in Long \ literal : Uniform(Tests(tree, i), LAMBDA t : InstanceSubject(tree, t))}
  IN  {Of(i, "literal") : i \in literal} \cup {Of(i, "isinstance") : i \in types}

-----------------------------------------------------------------------------
(* SLP030: a broad handler that does nothing about the error. *)

IsBroad(tree, handler) ==
  \A t \in Kids(tree, handler, "type") :
    tree[t].kind = "Name" /\ tree[t].name \in {"Exception", "BaseException"}

IsLogCall(tree, e) ==
  /\ tree[e].kind = "Call"
  /\ \E f \in Kids(tree, e, "func") :
       \/ /\ tree[f].kind = "Attribute"
          /\ tree[f].name \in {"debug", "info", "warning", "warn", "error", "exception", "critical", "log"}
       \/ tree[f].kind = "Name" /\ tree[f].name = "print"

IsLowValue(tree, body) ==
  \E s \in body :
    /\ body = {s}
    /\ \/ tree[s].kind = "Pass"
       \/ tree[s].kind = "Raise" /\ \A e \in Kids(tree, s, "exc") : tree[e].kind = "Name"
       \/ tree[s].kind = "Expr" /\ \E e \in Kids(tree, s, "value") : IsLogCall(tree, e)

DefensiveExcept(file) ==
  {Finding(file, "SLP030", h, "swallows") :
     h \in {g \in OfKind(file.tree, {"Handler"}) :
              IsBroad(file.tree, g) /\ IsLowValue(file.tree, Body(file.tree, g))}}

-----------------------------------------------------------------------------
(* SLP120: a class whose methods fall into unrelated groups. *)

\* The last and the first name of a dotted, called or subscripted name.
NameAt(tree, expr, steps) ==
  LET at[e \in DOMAIN tree] ==
        LET next == UNION {Kids(tree, e, s) : s \in steps[tree[e].kind]}
        IN  IF tree[e].kind \notin DOMAIN steps THEN {}
            ELSE IF next = {} THEN {tree[e].name} ELSE UNION {at[k] : k \in next}
  IN  at[expr]

NameEnd(tree, expr) ==
  NameAt(tree, expr, [Name |-> {}, Attribute |-> {}, Call |-> {"func"}, Subscript |-> {"value"}])
NameRoot(tree, expr) ==
  NameAt(tree, expr, [Name |-> {}, Attribute |-> {"value"}, Call |-> {"func"}, Subscript |-> {"value"}])

ContainerBases ==
  {"Protocol", "ABC", "ABCMeta", "Enum", "IntEnum", "IntFlag", "Flag", "StrEnum", "NamedTuple", "TypedDict"}

\* Data and interface classes hang together by design.
IsAllowlisted(tree, class) ==
  \/ \E d \in Kids(tree, class, "decorators") :
       "dataclass" \in NameEnd(tree, d) \/ NameRoot(tree, d) \cap {"attr", "attrs"} # {}
  \/ \E b \in Kids(tree, class, "bases") : NameEnd(tree, b) \cap ContainerBases # {}
  \/ \E k \in Kids(tree, class, "keywords") :
       tree[k].name = "metaclass" /\ \E v \in Kids(tree, k, "value") : "ABCMeta" \in NameEnd(tree, v)

\* Reported at the class's name, below its decorators.
AtName(file, code, def, why) ==
  [Finding(file, code, def, why) EXCEPT !.line = @ + Cardinality(Kids(file.tree, def, "decorators"))]

GodClass(file, minMethods, maxComponents) ==
  {AtName(file, "SLP120", c, "cohesion") :
     c \in {d \in OfKind(file.tree, {"ClassDef"}) :
              /\ ~IsAllowlisted(file.tree, d)
              /\ Cardinality(Cohering(file.tree, d)) >= minMethods
              /\ ClassCohesion(file.tree, d).lcom4 > maxComponents}}

-----------------------------------------------------------------------------
(* SLP084: literals within literals. *)

\* A list or tuple that is assigned to is no literal.
IsContainer(tree, e) ==
  \/ tree[e].kind \in {"List", "Tuple"} /\ tree[e].n = 0
  \/ tree[e].kind \in {"Set", "Dict", "ListComp", "SetComp", "DictComp"}

Elements(tree, e) ==
  {k \in DOMAIN tree : tree[k].up = e /\ tree[k].slot \in {"elts", "keys", "values", "key", "value"}}

ContainerDepth(tree, e) ==
  LET depth[c \in DOMAIN tree] ==
        IF ~IsContainer(tree, c) THEN 0 ELSE 1 + Max({0} \cup {depth[k] : k \in Elements(tree, c)})
  IN  depth[e]

\* Of a chain only the outermost literal is reported.
Outermost(tree, e) ==
  LET parent == tree[e].up
  IN  parent = 0 \/ ~(IsContainer(tree, parent) /\ e \in Elements(tree, parent))

DeepDataNesting(file, max) ==
  {Finding(file, "SLP084", e, "nested") :
     e \in {c \in DOMAIN file.tree :
              /\ IsContainer(file.tree, c) /\ Outermost(file.tree, c)
              /\ ContainerDepth(file.tree, c) > max}}

-----------------------------------------------------------------------------
(* Names and characters. *)

\* SLP040: the literal's type and nothing else; a number's kind is its name.
RestatesLiteral(name, value) ==
  \/ value.kind = "NumberLiteral" /\ name = value.name /\ name \in {"int", "float", "complex"}
  \/ <<name, value.kind>> \in {<<"str", "StringLiteral">>, <<"bytes", "BytesLiteral">>, <<"bool", "BooleanLiteral">>}

RedundantTypeHint(file) ==
  LET tree == file.tree
  IN  {Finding(file, "SLP040", a, "restates") :
         a \in UNION {{b \in Kids(tree, s, "annotation") :
                         /\ tree[b].kind = "Name"
                         /\ \E v \in Kids(tree, s, "value") : RestatesLiteral(tree[b].name, tree[v])} :
                      s \in OfKind(tree, {"AnnAssign"})}}

\* SLP060: every overlong identifier once, where it comes first.
VerboseNaming(file, max) ==
  LET named == DOMAIN file.tree \ OfKind(file.tree, {"StringLiteral", "NumberLiteral", "Compare"})
      Long == {n \in named : WordCount(file.tree[n].name) > max}
  IN  {Finding(file, "SLP060", n, "verbose") :
         n \in {m \in Long : \A k \in Long : file.tree[k].name = file.tree[m].name => m <= k}}

OnLine(code, line, why) == [code |-> code, at |-> <<"line", line>>, line |-> line, why |-> why]

\* SLP080.
OversizedFile(file, max) == IF file.length > max THEN {OnLine("SLP080", 1, "length")} ELSE {}

\* SLP050: every run of characters that are not ASCII; `glyphs` are the text's
\* characters by class.
AsciiOnly(file) ==
  LET runs == {p \in DOMAIN file.glyphs :
                 /\ file.glyphs[p] = "other"
                 /\ p = 1 \/ file.glyphs[p - 1] # "other"}
      LineAt(p) == 1 + Cardinality({q \in 1..p : file.glyphs[q] = "newline"})
  IN  {[code |-> "SLP050", at |-> <<"glyph", p>>, line |-> LineAt(p), why |-> "ascii"] : p \in runs}

=============================================================================

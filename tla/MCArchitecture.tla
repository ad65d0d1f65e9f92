--------------------------- MODULE MCArchitecture ---------------------------
(* Instances of Architecture for TLC: every import statement in a tree of    *)
(* packages, files whose names collide, and every small graph.               *)
EXTENDS Architecture

MCProfiles == {"production", "tests"}
Production == {"production"}

File(dir, stem, imports, profiles) ==
  [dir |-> dir, stem |-> stem, imports |-> imports, profiles |-> profiles]

Import(module) == [level |-> 0, module |-> module, names |-> {}, inside |-> <<>>]
From(level, module, names) ==
  [level |-> level, module |-> module, names |-> names, inside |-> <<>>]
Under(stmt, inside) == [stmt EXCEPT !.inside = inside]

-----------------------------------------------------------------------------
(* Names: one statement of any form in any file of a tree of two packages    *)
(* below a source root, some of it claimed by the profile `tests`.           *)
Statements ==
  {Import(m) : m \in {<<"p">>, <<"p", "q">>, <<"p", "q", "b">>, <<"a">>, <<"p", "a", "f">>}}
  \cup {From(0, m, {n}) : m \in {<<"p">>, <<"p", "q">>}, n \in {"a", "b", "q", "f"}}
  \cup {From(0, <<"c">>, {"*"}), From(0, <<"p">>, {"a", "q"}), From(1, <<>>, {"a", "q"})}
  \cup {From(l, m, {n}) : l \in 1..3, m \in {<<>>, <<"a">>, <<"q">>}, n \in {"b", "q", "f"}}

Tree(root, who, stmt) ==
  LET Has(i) == IF i = who THEN <<stmt>> ELSE <<>>
  IN  <<File(root, "c", Has(1), Production),
        File(root \o <<"p">>, InitStem, Has(2), Production \cup {"tests"}),
        File(root \o <<"p">>, "a", Has(3), Production),
        File(root \o <<"p", "q">>, InitStem, Has(4), {"tests"}),
        File(root \o <<"p", "q">>, "b", Has(5), {"tests"})>>

NamedTrees == {Tree(root, who, stmt) : root \in {<<>>, <<"src">>}, who \in 1..5, stmt \in Statements}

(* Collisions: a module beside a package of its name, scripts of one name in *)
(* two directories, and a source root that has an `__init__.py`.             *)
Collisions ==
  {<<File(<<>>, InitStem, <<>>, Production),
     File(<<"a">>, InitStem, <<Import(<<"main">>)>>, one),
     File(<<"a">>, "sub", <<From(1, <<>>, {"main"}), From(2, <<>>, {"main"})>>, Production),
     File(<<>>, "a", <<Import(<<"main">>), From(0, <<"a">>, {"sub"})>>, two),
     File(<<>>, "main", <<From(1, <<"a">>, {"sub"})>>, Production)>> :
     one, two \in {Production, {"tests"}}}
  \cup {<<File(<<"s">>, "run", <<Import(<<"util">>)>>, Production),
          File(<<"s">>, "util", <<>>, Production),
          File(<<"t">>, "run", <<Import(<<"util">>)>>, Production)>>}

-----------------------------------------------------------------------------
(* Kinds: three modules, each import of one kind or of two at once.          *)
Nested == {<<>>, <<"def">>, <<"if TYPE_CHECKING">>, <<"block", "else">>, <<"if TYPE_CHECKING", "def">>}

M == <<"m1", "m2", "m3", "m4", "m5">>

\* The module that stands at a place, with imports of those in `targets`.
Importing(i, dir, targets) ==
  LET hits == SelectSeq(<<1, 2, 3, 4, 5>>, LAMBDA j : j \in targets)
  IN  File(dir, M[i], [k \in DOMAIN hits |-> Import(<<M[hits[k]]>>)], {})

Next3(i) == M[(i % 3) + 1]
Last3(i) == M[((i + 1) % 3) + 1]

OneKind(i) == {<<Under(Import(<<Next3(i)>>), x)>> : x \in Nested}
TwoKinds(i) ==
  {<<Import(<<Last3(i)>>), Under(Import(<<Next3(i)>>), x)>> : x \in Nested}
  \cup {<<Under(Import(<<Next3(i)>>), <<"def">>), Under(Import(<<Next3(i)>>), x)>> : x \in Nested}

KindTriples ==
  {<<File(<<>>, M[1], x, {}), File(<<>>, M[2], y, {}), File(<<>>, M[3], z, {})>> :
     x \in OneKind(1) \cup TwoKinds(1), y \in {<<>>} \cup OneKind(2),
     z \in {<<>>, <<Import(<<M[1]>>)>>, <<Under(Import(<<M[1]>>), <<"def">>)>>}}

-----------------------------------------------------------------------------
(* Shapes: every graph of four modules, those of them that have a mutual     *)
(* import as well, and those of five in which two given pairs are connected. *)
Pairs(n) == {p \in (1..n) \X (1..n) : p[1] < p[2]}

ShapeOf(n, arrows) ==
  [i \in 1..n |-> Importing(i, <<>>, {j \in 1..n : <<i, j>> \in arrows})]

Shapes ==
  {ShapeOf(4, arrows \cup more) : arrows \in SUBSET Pairs(4), more \in {{}, {<<2, 1>>}}}
  \cup {ShapeOf(5, arrows \cup {<<1, 2>>, <<4, 5>>}) : arrows \in SUBSET (Pairs(5) \ {<<1, 2>>, <<4, 5>>})}

MCProjects == NamedTrees \cup Collisions \cup KindTriples \cup Shapes

-----------------------------------------------------------------------------
(* A source root called src that is a package itself.                        *)
SrcPackage ==
  {<<File(<<"src">>, InitStem, <<>>, Production),
     File(<<"src">>, "a", <<stmt>>, Production),
     File(<<"src">>, "b", <<>>, Production)>> :
     stmt \in {From(0, <<"src">>, {"b"}), Import(<<"src", "b">>), From(1, <<>>, {"b"})}}

=============================================================================

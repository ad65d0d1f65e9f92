------------------------------ MODULE NameRules ------------------------------
(***************************************************************************)
(* The rules that look for telling names and texts: SLP210 phantom guards, *)
(* SLP250 idioms of other languages, SLP230 placeholder data               *)
(* (rules::security, ::crosslang, ::placeholders).                         *)
(*                                                                         *)
(* Each of them walks the tree with several passes that may meet at one    *)
(* place, and reports a place once.                                        *)
(***************************************************************************)
EXTENDS StructureRules

CONSTANTS
  Guards,             \* names of security guards, the catalogue's and the configured
  Foreign,            \* [methods, functions, attributes]: names other languages use
  AllowedNames,       \* names that are never taken for foreign ones
  QtModules,          \* packages whose own names look foreign
  CredentialNames,    \* names that end like a credential's
  WeakCredentials,    \* texts that are no real credential
  DummyReturns,       \* texts no finished function returns
  PlaceholderTokens,  \* keys and values of example dictionaries
  PlaceholderTexts    \* example addresses, numbers and identifiers

-----------------------------------------------------------------------------
(* SLP210: a guard that is called or applied but bound nowhere. *)

\* What an import binds: its alias, or else the name itself.
AliasName(tree, alias) ==
  LET given == Kids(tree, alias, "asname")
  IN  IF given = {} THEN tree[alias].name ELSE tree[Min(given)].name

\* The names that are bound anywhere, in whatever scope.
Bound(tree) ==
  {tree[n].name : n \in OfKind(tree, Scopes \cup {"Param", "Identifier", "Handler"})}
    \cup {tree[n].name : n \in {m \in OfKind(tree, {"Name"}) : tree[m].n = 1}}
    \cup {AliasName(tree, a) : a \in OfKind(tree, {"Alias"})}

\* The name an expression consists of, or the bare name it calls.
NameNode(tree, e) == {e} \cap OfKind(tree, {"Name"})
CalledName(tree, e) ==
  IF tree[e].kind # "Call" THEN {}
  ELSE UNION {NameNode(tree, f) : f \in Kids(tree, e, "func")}

Applied(tree) ==
  UNION {NameNode(tree, d) \cup CalledName(tree, d) :
           d \in UNION {Kids(tree, def, "decorators") : def \in OfKind(tree, Scopes)}}
Called(tree) == UNION {CalledName(tree, c) : c \in OfKind(tree, {"Call"})}

\* (Mutant) What the two passes found is put together.
GuardsOfBothPasses(file) ==
  LET tree == file.tree
      Phantom(n) == tree[n].name \in Guards \ Bound(tree)
  IN  {Finding(file, "SLP210", n, "decorator") : n \in {d \in Applied(tree) : Phantom(d)}}
        \cup {Finding(file, "SLP210", n, "call") : n \in {c \in Called(tree) : Phantom(c)}}

\* A decorator that is called is seen by both passes and is one finding.
PhantomGuard(file) ==
  LET tree == file.tree
  IN  {Finding(file, "SLP210", n, IF n \in Applied(tree) THEN "decorator" ELSE "call") :
         n \in {m \in Applied(tree) \cup Called(tree) : tree[m].name \in Guards \ Bound(tree)}}

-----------------------------------------------------------------------------
(* SLP250: methods, functions and attributes of other languages. *)

ImportsQt(tree) ==
  \E s \in Kids(tree, 0, "body") :
    \/ tree[s].kind = "Import" /\ \E a \in Kids(tree, s, "names") : tree[a].name \in QtModules
    \/ tree[s].kind = "ImportFrom" /\ tree[s].name \in QtModules

CrossLanguage(file) ==
  LET tree == file.tree
      callees == UNION {Kids(tree, c, "func") : c \in OfKind(tree, {"Call"})}
      Of(nodes, kind, names) == {n \in nodes \cap OfKind(tree, {kind}) : tree[n].name \in names \ AllowedNames}
      loads == {n \in DOMAIN tree : tree[n].n = 0}
  IN  IF ImportsQt(tree) THEN {}
      ELSE {Finding(file, "SLP250", n, "idiom") :
              n \in Of(callees, "Attribute", Foreign.methods) \cup Of(callees, "Name", Foreign.functions)
                      \cup Of(loads, "Attribute", Foreign.attributes)}

-----------------------------------------------------------------------------
(* SLP230: placeholders left in production code. *)

\* The docstrings of the module and of what is defined directly in a body; a
\* definition in a compound statement is not visited for its docstring.
CollectDocstrings(tree) ==
  LET homes == {0} \cup {d \in OfKind(tree, Scopes) :
                           \A a \in Above(tree, d) : a = 0 \/ tree[a].kind \in Scopes}
  IN  UNION {DocstringOf(tree, h) : h \in homes}

\* Texts given to a name that sounds like a credential.
Credentials(tree) ==
  LET Given(holder, named) == {v \in Kids(tree, holder, "value") : tree[v].kind = "StringLiteral" /\ named}
      Targets(s) == UNION {NameNode(tree, t) : t \in Kids(tree, s, "targets") \cup Kids(tree, s, "target")}
  IN  (UNION {Given(s, \E t \in Targets(s) : tree[t].name \in CredentialNames) :
                s \in OfKind(tree, {"Assign", "AnnAssign"})})
        \cup UNION {Given(k, tree[tree[k].up].kind = "Call" /\ tree[k].name \in CredentialNames) :
               k \in OfKind(tree, {"Keyword"})}

IsToken(tree, e) == tree[e].kind = "StringLiteral" /\ tree[e].name \in PlaceholderTokens

\* A dummy text, or a small dictionary of tokens; a `**` entry has no key.
IsDummy(tree, e) ==
  \/ tree[e].kind = "StringLiteral" /\ tree[e].name \in DummyReturns
  \/ LET keys == Kids(tree, e, "keys")
         values == Kids(tree, e, "values")
     IN  /\ tree[e].kind = "Dict" /\ Cardinality(values) \in 1..3
         /\ Cardinality(keys) = Cardinality(values)
         /\ \A k \in keys \cup values : IsToken(tree, k)

\* A place is reported for the first reason it is met with: statements and
\* calls are looked at before the texts in them.
MockData(file) ==
  LET tree == file.tree
      weak == {v \in Credentials(tree) : tree[v].name \in WeakCredentials}
      dummies == {e \in UNION {Kids(tree, s, "value") : s \in OfKind(tree, {"Return"})} : IsDummy(tree, e)}
      texts == {s \in OfKind(tree, {"StringLiteral"}) \ CollectDocstrings(tree) :
                  tree[s].name \in PlaceholderTexts}
      Of(nodes, why) == {Finding(file, "SLP230", n, why) : n \in nodes}
  IN  IF file.testPath THEN {}
      ELSE Of(weak, "credential") \cup Of(dummies, "return") \cup Of(texts \ (weak \cup dummies), "text")

=============================================================================

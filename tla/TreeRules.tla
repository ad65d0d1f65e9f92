------------------------------ MODULE TreeRules ------------------------------
(***************************************************************************)
(* What the rules over a whole project take from each file and conclude    *)
(* from all of them: SLP180 undeclared imports (imports::scan, ::manifest, *)
(* ::findings), SLP240 ghost scaffolding (ghost); and SLP220, which sees a *)
(* file's lines before and after it is parsed (corrupted).                 *)
(***************************************************************************)
EXTENDS NameRules

CONSTANTS
  Normalized(_),     \* a distribution's name in its normal form
  Distributions(_),  \* normal names of what a module may come in
  ProvidedModules,   \* modules of the standard library, and installers'
  IdentifierWords(_),\* the identifiers in a text
  UpperNames,        \* names in capitals
  ConfigReceivers,   \* names that configurations are called by
  BaseNames,         \* names that end like a base class's
  ReservedNames      \* entry points, names of tests, `__dunder__` names

-----------------------------------------------------------------------------
(* The manifest.  A directory is a record [pyproject, tables, requirements,  *)
(* modules]: whether there is a pyproject.toml, the dependency tables in it, *)
(* the requirements files, and the paths of the Python files below it.       *)

\* The normal name a requirement gives; options, bare URLs and comments give
\* none.
RequirementDists(lines) ==
  {Normalized(l.name) : l \in {k \in lines : k.form \in {"specifier", "egg"}}}

\* Poetry's tables are keyed by names, `python` among them.
TableDists(table) ==
  IF table.poetry THEN {Normalized(k) : k \in table.entries \ {"python"}}
  ELSE RequirementDists(table.entries)

\* The first directory upwards with a manifest decides: the set of what it
\* declares, empty when it does not say.
ResolveDeclared(dirs) ==
  LET having == {i \in DOMAIN dirs : dirs[i].pyproject \/ dirs[i].requirements # {}}
      dir == dirs[Min(having)]
  IN  IF having = {} THEN {}
      ELSE IF dir.tables # {} THEN {[dists |-> UNION {TableDists(t) : t \in dir.tables}, root |-> dir]}
      ELSE IF dir.requirements # {}
           THEN {[dists |-> UNION {RequirementDists(r) : r \in dir.requirements}, root |-> dir]}
      ELSE {}

-----------------------------------------------------------------------------
(* SLP180. *)

\* The absolute imports at the top level of a module: [top, node].
ScanImports(tree) ==
  UNION {CASE tree[s].kind = "Import" -> {[top |-> tree[a].name, node |-> a] : a \in Kids(tree, s, "names")}
           [] tree[s].kind = "ImportFrom" /\ tree[s].n = 0 -> {[top |-> tree[s].name, node |-> s]}
           [] OTHER -> {} : s \in Kids(tree, 0, "body")}

\* A path's first component; one leading `src` does not count.
FirstPartyName(path) == IF path[1] = "src" /\ Len(path) > 1 THEN path[2] ELSE path[1]
FirstPartyNames(paths) == {FirstPartyName(p) : p \in paths}

IsDeclared(import, firstParty, dists) ==
  \/ import.top \in ProvidedModules \cup firstParty
  \/ Distributions(import.top) \cap dists # {}

UndeclaredImports(file, firstParty, dists) ==
  {Finding(file, "SLP180", i.node, "undeclared") :
     i \in {j \in ScanImports(file.tree) : ~IsDeclared(j, firstParty, dists)}}

-----------------------------------------------------------------------------
(* SLP240. *)

HasBaseOrProtocol(tree, class) ==
  \E b \in Kids(tree, class, "bases") :
    \E e \in {b} \cup IF tree[b].kind = "Subscript" THEN Kids(tree, b, "value") ELSE {} :
      tree[e].kind \in {"Name", "Attribute"} /\ tree[e].name \in {"ABC", "ABCMeta", "Protocol"}

\* Definitions of the module that are to be referred to; decorators register,
\* and base types are there for others.
Defs(tree) ==
  {d \in Kids(tree, 0, "body") :
     /\ tree[d].kind \in Scopes
     /\ Kids(tree, d, "decorators") = {}
     /\ tree[d].kind = "ClassDef" => tree[d].name \notin BaseNames /\ ~HasBaseOrProtocol(tree, d)
     /\ tree[d].name \notin ReservedNames}

\* Everything a file refers to, whatever for: names, attributes, and what its
\* imports bind.
Refs(tree) ==
  {tree[n].name : n \in OfKind(tree, {"Name", "Attribute"})}
    \cup {AliasName(tree, a) : a \in OfKind(tree, {"Alias"})}

\* Words in texts stand for names as well, those of `__all__` among them.
StringWords(tree) == UNION {IdentifierWords(tree[s].name) : s \in OfKind(tree, {"StringLiteral"})}

DefinedKeys(tree) ==
  {tree[n].name : n \in {m \in OfKind(tree, {"Name", "Attribute"}) : tree[m].n = 1}} \cap UpperNames

\* Flags read off something that is called like a configuration.
ConfigReads(tree) ==
  {a \in OfKind(tree, {"Attribute"}) :
     /\ tree[a].n = 0 /\ tree[a].name \in UpperNames
     /\ \E v \in Kids(tree, a, "value") : tree[v].kind = "Name" /\ tree[v].name \in ConfigReceivers}

\* What a file contributes, and what follows from the contributions of all.
GhostScan(tree) ==
  [refs |-> Refs(tree), words |-> StringWords(tree), keys |-> DefinedKeys(tree)]

GhostDefs(file, scans) ==
  LET known == UNION {s.refs \cup s.words : s \in scans}
  IN  IF file.testPath THEN {}
      ELSE {AtName(file, "SLP240", d, "definition") :
              d \in {e \in Defs(file.tree) : file.tree[e].name \notin known}}

GhostFlags(file, scans) ==
  LET keys == UNION {s.keys : s \in scans}
      known == keys \cup UNION {s.words : s \in scans}
  IN  IF keys = {} THEN {}
      ELSE {Finding(file, "SLP240", a, "flag") :
              a \in {r \in ConfigReads(file.tree) : file.tree[r].name \notin known}}

-----------------------------------------------------------------------------
(* SLP220.  `rows` says what each line looks like: "artifact", "prose",      *)
(* "code" or "blank", comments being blank.                                  *)

\* Lines under a string or a comment, which are content.
MaskedLines(file) ==
  {file.line[s] : s \in OfKind(file.tree, {"StringLiteral", "FString"})}
    \cup {file.comments[c].line : c \in DOMAIN file.comments}

Rows(file, masked, kinds) == {l \in DOMAIN file.rows \ masked : file.rows[l] \in kinds}

FindArtifact(file, masked) ==
  LET found == Rows(file, masked, {"artifact"})
  IN  IF found = {} THEN {} ELSE {OnLine("SLP220", Min(found), "artifact")}

\* Enough lines of a file, too many of them prose.
ReadsAsProse(file, masked, minLines, percent) ==
  LET prose == Cardinality(Rows(file, masked, {"prose"}))
      total == Cardinality(Rows(file, masked, {"prose", "code", "artifact"}))
  IN  total >= minLines /\ 100 * prose >= percent * total

CONSTANT ProseMinLines

\* Of a file that does not parse one thing is said, the most telling one.
OnParseError(file, percent) ==
  LET artifact == FindArtifact(file, {})
  IN  IF artifact # {} THEN artifact
      ELSE IF ReadsAsProse(file, {}, ProseMinLines, percent) THEN {OnLine("SLP220", 1, "prose")}
      ELSE {OnLine("SLP220", 1, "truncated")}

ScanParsed(file, percent) ==
  LET masked == MaskedLines(file)
  IN  FindArtifact(file, masked)
        \cup IF ReadsAsProse(file, masked, ProseMinLines, percent)
             THEN {OnLine("SLP220", 1, "prose")} ELSE {}

=============================================================================

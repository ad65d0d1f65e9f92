----------------------------- MODULE ImportNames -----------------------------
(***************************************************************************)
(* How the metrics name modules and resolve imports (graph/resolve.rs and  *)
(* `module_name` of discover.rs).                                          *)
(*                                                                         *)
(* A file is [dir, stem, imports, profiles]: the names of the directories  *)
(* that lead to it, its name without `.py`, its import statements in the   *)
(* order of the text, and the profiles that claim it.  A dotted name is    *)
(* the sequence of its components, the empty one standing for `.`, the     *)
(* root package.  An import statement is [level, module, names, inside]:   *)
(* its leading dots, the dotted part, the imported names (none for a plain *)
(* `import a.b`), and the constructs it is nested in.                      *)
(***************************************************************************)
EXTENDS Integers, Sequences, FiniteSets, FiniteSetsExt, SequencesExt

InitStem == "__init__"
IsInit(f) == f.stem = InitStem

Prefix(s, n) == SubSeq(s, 1, n)

-----------------------------------------------------------------------------
(* From a path to a name. *)

PackageDirs(project) == {f.dir : f \in {g \in ToSet(project) : IsInit(g)}}

\* How many directories lead to the source root of `dir`, the nearest ancestor
\* that is not a package itself.
SourceRoot(project, dir) ==
  Max({0} \cup {n \in 0..Len(dir) : Prefix(dir, n) \notin PackageDirs(project)})

\* module_from_path drops a leading `src`.
WithoutSrc(dir) == IF dir # <<>> /\ Head(dir) = "src" THEN Tail(dir) ELSE dir

\* The name of a file: none for the `__init__.py` of a source root.
Names(project, f) ==
  LET dir == WithoutSrc(SubSeq(f.dir, SourceRoot(project, f.dir) + 1, Len(f.dir)))
  IN  IF ~IsInit(f) THEN {[dotted |-> Append(dir, f.stem), isPackage |-> FALSE]}
      ELSE {[dotted |-> d, isPackage |-> TRUE] : d \in {dir} \ {<<>>}}

PackageOf(dotted, isPackage) == IF isPackage THEN dotted ELSE Front(dotted)

-----------------------------------------------------------------------------
(* From an import to the module it names. *)

\* A statement with the flags collect_imports gives it: an import anywhere
\* below a function is local, one in the body of a TYPE_CHECKING test (not in
\* its else) is for type checking; other constructs pass the context on.
Raw(stmt) ==
  [level |-> stmt.level, module |-> stmt.module, names |-> stmt.names,
   local |-> Contains(stmt.inside, "def"),
   typeChecking |-> Contains(stmt.inside, "if TYPE_CHECKING")]

\* (Mutant) One dot is the parent, of a package too.
AnchorFromParent(importer, level) ==
  LET keep == Len(importer.dotted) - level
  IN  IF keep >= 0 THEN {Prefix(importer.dotted, keep)} ELSE {}

\* The package the dots of a relative import lead to, if they stay inside.
RelativeAnchor(importer, level) ==
  LET own == IF importer.isPackage THEN Len(importer.dotted) ELSE Len(importer.dotted) - 1
      keep == own - (level - 1)
  IN  IF keep >= 0 THEN {Prefix(importer.dotted, keep)} ELSE {}

Bases(importer, import) ==
  {anchor \o import.module :
     anchor \in IF import.level = 0 THEN {<<>>} ELSE RelativeAnchor(importer, import.level)}

CandidateNames(importer, import) ==
  IF import.names = {} THEN Bases(importer, import) \ {<<>>}
  ELSE {Append(base, n) : base \in Bases(importer, import), n \in import.names}

\* The module itself, else its parent (the last component is then an
\* attribute), else nothing: the candidate is not first-party.
ResolveInternal(candidate, modules) ==
  IF candidate \in modules THEN {candidate}
  ELSE {parent \in modules : Len(candidate) > 1 /\ parent = Front(candidate)}

Targets(importer, import, modules) ==
  (UNION {ResolveInternal(c, modules) : c \in CandidateNames(importer, import)}) \ {importer.dotted}

=============================================================================

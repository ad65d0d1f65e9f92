---------------------------- MODULE CommentRules ----------------------------
(***************************************************************************)
(* The rules about comments and docstrings that read words rather than     *)
(* code (SLP001, SLP002, SLP004), what SLP010 bans, and the `# noqa`       *)
(* comments that acknowledge findings (crate sloplint_linter:              *)
(* rules::comments, words, suppression).                                   *)
(*                                                                         *)
(* A file is a record [path, package, test, parses, tree, line, comments,  *)
(* ...]; line gives the line a node begins on.  A comment is a record      *)
(*   line    where it stands;                                              *)
(*   own     whether nothing else does;                                    *)
(*   sort    "prose", "directive", "noqa", "ticket", "license", "empty";   *)
(*   tells   the phrases of an assistant in it: "deferral", "hedging",     *)
(*           "step", "divider", "narrator";                                *)
(*   words   its content words;                                            *)
(*   tail    what follows a noqa's colon, word by word.                    *)
(***************************************************************************)
EXTENDS SyntaxTree

CONSTANTS
  ContentWords(_),  \* the words of a name or text that are no stopwords
  RuleCodes         \* words that read as a rule's code

\* Keywords that count as words of the code they are in.
KeywordOf ==
  [FunctionDef |-> "def", ClassDef |-> "class", Return |-> "return", Raise |-> "raise",
   While |-> "while", Try |-> "try", Pass |-> "pass", Import |-> "import", Assert |-> "assert"]

WordsOfNode(node) ==
  ContentWords(node.name) \cup (IF node.kind \in DOMAIN KeywordOf THEN {KeywordOf[node.kind]} ELSE {})

NodesOn(file, line) == {n \in DOMAIN file.tree : file.line[n] = line}
CommentsOn(file, line) == {c \in DOMAIN file.comments : file.comments[c].line = line}

WordsOf(file, nodes, comments) ==
  (UNION {WordsOfNode(file.tree[n]) : n \in nodes}) \cup UNION {file.comments[c].words : c \in comments}

\* At least half of the words are words of the code.
Restates(words, code) == 2 * Cardinality(words \cap code) >= Cardinality(words)

-----------------------------------------------------------------------------
(* The rules. *)

\* (Mutant) An acknowledgement is prose like any other.
ExemptUnlessNoqa(comment) == comment.sort \in {"directive", "ticket"}

\* Tool directives and tracked follow-ups; no rule takes them for prose.
Exempt(comment) == comment.sort \in {"directive", "noqa", "ticket"}

Finding(file, code, node, why) == [code |-> code, at |-> <<"node", node>>, line |-> file.line[node], why |-> why]

OnComment(file, code, c, why) ==
  [code |-> code, at |-> <<"comment", c>>, line |-> file.comments[c].line, why |-> why]

\* SLP010.
BannedComments(file) ==
  {OnComment(file, "SLP010", c, "banned") : c \in {d \in DOMAIN file.comments : ~Exempt(file.comments[d])}}

\* SLP004: the phrase that weighs most names the finding.
Tells == <<"deferral", "hedging", "step", "divider", "narrator">>

Classify(comment) ==
  LET found == {i \in DOMAIN Tells : Tells[i] \in comment.tells}
  IN  IF found = {} THEN {} ELSE {Tells[Min(found)]}

CommentTells(file) ==
  UNION {{OnComment(file, "SLP004", c, tell) : tell \in Classify(file.comments[c])} :
           c \in {d \in DOMAIN file.comments :
                    ~Exempt(file.comments[d]) /\ file.comments[d].sort \notin {"license", "empty"}}}

\* SLP001: a short comment is held against the code before it on its line, or
\* against the next line that is not blank, comments included.
AssociatedWords(file, comment) ==
  LET below == {l \in comment.line + 1 .. file.length :
                  NodesOn(file, l) # {} \/ CommentsOn(file, l) # {}}
  IN  IF ~comment.own THEN WordsOf(file, NodesOn(file, comment.line), {})
      ELSE IF below = {} THEN {}
      ELSE WordsOf(file, NodesOn(file, Min(below)), CommentsOn(file, Min(below)))

RedundantComment(file) ==
  {OnComment(file, "SLP001", c, "restates") :
     c \in {d \in DOMAIN file.comments :
              LET comment == file.comments[d]
              IN  /\ ~Exempt(comment)
                  /\ Cardinality(comment.words) \in 1..6
                  /\ Restates(comment.words, AssociatedWords(file, comment))}}

\* SLP002: a docstring against the rest of its function's text, in which there
\* may be comments too.
FunctionText(file, function, docstring) ==
  LET nodes == {function} \cup Below(file.tree, function)
      last == Max({file.line[n] : n \in nodes})
      inside == {c \in DOMAIN file.comments : file.comments[c].line \in file.line[function]..last - 1}
  IN  WordsOf(file, nodes \ {docstring}, inside)

RedundantDocstring(file) ==
  UNION {{Finding(file, "SLP002", d, "restates") :
            d \in {e \in DocstringOf(file.tree, f) :
                     LET words == ContentWords(file.tree[e].name)
                     IN  Cardinality(words) \in 2..12 /\ Restates(words, FunctionText(file, f, e))}} :
         f \in OfKind(file.tree, {"FunctionDef"})}

-----------------------------------------------------------------------------
(* Acknowledgements. *)

\* The codes a `# noqa:` begins with; what follows them is a reason.
LeadingCodes(tail) ==
  {tail[i] : i \in {k \in DOMAIN tail : \A j \in 1..k : tail[j] \in RuleCodes}}

\* The comment acknowledges a finding: on the line it is reported on, by its
\* code or, without any codes, whatever it is.
Allows(comment, finding) ==
  /\ comment.sort = "noqa"
  /\ comment.line = finding.line
  /\ LeadingCodes(comment.tail) = {} \/ finding.code \in LeadingCodes(comment.tail)

Suppressed(file, finding) == \E c \in DOMAIN file.comments : Allows(file.comments[c], finding)

=============================================================================

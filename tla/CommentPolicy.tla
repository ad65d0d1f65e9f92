--------------------------- MODULE CommentPolicy ----------------------------
(***************************************************************************)
(* Rule SLP010, comments are banned: which comments of a text it reports,  *)
(* and the deletion each report carries as its (safe) fix.                 *)
(*                                                                         *)
(* Texts are sequences over a small alphabet: "x" is any character of      *)
(* code, " " any blank, "#" begins a comment, "!" right after the hash     *)
(* marks the comment as a directive (shebang, noqa, type: and the other    *)
(* functional comments the rule exempts), and the rest are the two line    *)
(* terminators and the byte order mark a text may begin with.              *)
(***************************************************************************)
EXTENDS Integers, Sequences, FiniteSets, FiniteSetsExt, SequencesExt

CR == "\r"
LF == "\n"
BOM == "bom"
Alphabet == {"x", " ", "#", "!", CR, LF, BOM}

\* Where physical lines end, as the tokenizer sees it: LF, CR LF, or a lone CR.
EndsLine(text, p) == p \in DOMAIN text /\ text[p] \in {CR, LF}

\* Comment tokens [lo, hi): from a hash that is not inside a comment up to the
\* end of its line.
CommentStart(text, p) ==
  /\ text[p] = "#"
  /\ \A q \in 1..(p - 1) : text[q] = "#" => \E r \in q..p : EndsLine(text, r)

CommentEnd(text, p) ==
  Min({q \in p..Len(text) : EndsLine(text, q + 1)} \cup {Len(text)})

Comments(text) ==
  {[lo |-> p - 1, hi |-> CommentEnd(text, p)] :
     p \in {q \in DOMAIN text : CommentStart(text, q)}}

\* The comment's body opens a directive: it is what follows the hashes in front
\* and then the blanks, so that a hash behind a blank is part of it.
IsDirective(text, comment) ==
  \E p \in (comment.lo + 1)..comment.hi :
    /\ text[p] = "!"
    /\ \A q \in (comment.lo + 1)..(p - 1) :
         text[q] = "#" \/ \A r \in q..(p - 1) : text[r] = " "

Banned(text) == {c \in Comments(text) : ~IsDirective(text, c)}

\* str::rfind('\n') + 1, the start of the line a comment is on.
LineStart(text, comment) == Max({p \in 1..comment.lo : text[p] = LF} \cup {0})

OwnLine(text, comment) ==
  \A p \in (LineStart(text, comment) + 1)..comment.lo :
    \/ text[p] \in {" ", CR}
    \/ text[p] = BOM /\ p = LineStart(text, comment) + 1

\* (Mutant) Only LF counts as a terminator.
PastLF(text, comment) ==
  IF comment.hi < Len(text) /\ text[comment.hi + 1] = LF THEN comment.hi + 1 ELSE comment.hi

\* Past the terminator that follows, which the end of the text may lack.
TerminatorEnd(text, comment) ==
  LET afterCR == IF comment.hi < Len(text) /\ text[comment.hi + 1] = CR
                 THEN comment.hi + 1 ELSE comment.hi
  IN  IF afterCR < Len(text) /\ text[afterCR + 1] = LF
      THEN afterCR + 1 ELSE afterCR

\* The start of the run of blanks in front of a trailing comment.
BlanksStart(text, comment) ==
  Min({s \in LineStart(text, comment)..comment.lo :
         \A p \in (s + 1)..comment.lo : text[p] = " "})

\* (Mutants) The terminator of the line before goes as well; a comment behind
\* code takes its terminator with it.
DeletionFromLineBefore(text, comment) ==
  IF OwnLine(text, comment)
  THEN [lo |-> Max({0, LineStart(text, comment) - 1}), hi |-> TerminatorEnd(text, comment),
        new |-> <<>>]
  ELSE [lo |-> BlanksStart(text, comment), hi |-> comment.hi, new |-> <<>>]

DeletionJoiningLines(text, comment) ==
  [lo |-> BlanksStart(text, comment), hi |-> TerminatorEnd(text, comment), new |-> <<>>]

DeletionEdit(text, comment) ==
  IF OwnLine(text, comment)
  THEN [lo |-> LineStart(text, comment), hi |-> TerminatorEnd(text, comment), new |-> <<>>]
  ELSE [lo |-> BlanksStart(text, comment), hi |-> comment.hi, new |-> <<>>]

\* The comment that is the i-th of its set.
Nth(comments, i) ==
  CHOOSE c \in comments : Cardinality({d \in comments : d.lo <= c.lo}) = i

\* The diagnostics of check_comment, in token order.
Report(text) ==
  [i \in 1..Cardinality(Banned(text)) |->
     [edits |-> <<DeletionEdit(text, Nth(Banned(text), i))>>, safe |-> TRUE]]

=============================================================================

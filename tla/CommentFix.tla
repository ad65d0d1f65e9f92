----------------------------- MODULE CommentFix -----------------------------
(***************************************************************************)
(* SLP010's deletions through the autofix engine: what `check --fix` does  *)
(* to the comments of a text, and to the rest of it.                       *)
(***************************************************************************)
EXTENDS FixApply, CommentPolicy

-----------------------------------------------------------------------------
(* Lines, as Python reads them. *)

\* The last characters of the line terminators of a text, and its end.
Terminators(text) ==
  {p \in DOMAIN text : text[p] = LF \/ (text[p] = CR /\ (p = Len(text) \/ text[p + 1] # LF))}

LineEnds(text) == Terminators(text) \cup {Len(text)}

LineOf(text, last) ==
  LET first == Max({p + 1 : p \in {q \in Terminators(text) : q < last}} \cup {1})
  IN  SelectSeq(SubSeq(text, first, last), LAMBDA ch : ch \notin {CR, LF, BOM})

Lines(text) ==
  LET ends == SetToSortSeq(LineEnds(text) \ {0}, <)
  IN  [i \in DOMAIN ends |-> LineOf(text, ends[i])]

\* A line as far as the program goes: no banned comment, no blanks in the end.
Meaning(line) ==
  LET cut == Min({c.lo : c \in Banned(line)} \cup {Len(line)})
      last == Max({p \in 1..cut : line[p] # " "} \cup {0})
  IN  SubSeq(line, 1, last)

Program(text) ==
  SelectSeq([i \in DOMAIN Lines(text) |-> Meaning(Lines(text)[i])], LAMBDA l : l # <<>>)

IsBlank(line) == \A p \in DOMAIN line : line[p] = " "
BlankLines(text) == Cardinality({i \in DOMAIN Lines(text) : IsBlank(Lines(text)[i])})

LoneCR(text) ==
  \E p \in DOMAIN text : text[p] = CR /\ (p = Len(text) \/ text[p + 1] # LF)

\* The report under way is the one the rule makes of the text.
OfComments == ToSet(input.text) \subseteq Alphabet /\ input.report = Report(input.text)

-----------------------------------------------------------------------------
(* One pass fixes every finding of the rule: no two of its deletions get in  *)
(* each other's way, and the rewritten text has no banned comment left.      *)
OnePassSuffices ==
  pc = "done" /\ OfComments => fixed = DOMAIN input.report /\ Banned(output) = {}

(* Deleting comments leaves the program alone: the same lines of code and    *)
(* directives, in the same order with the same indentation.                  *)
ProgramUnchanged == pc = "done" /\ OfComments => Program(output) = Program(input.text)

(* An own-line comment takes its line with it: where lines end in LF or      *)
(* CR LF the deletion leaves no blank line behind that was not there.        *)
NoStubLeft ==
  pc = "done" /\ OfComments /\ ~LoneCR(input.text) => BlankLines(output) <= BlankLines(input.text)

=============================================================================

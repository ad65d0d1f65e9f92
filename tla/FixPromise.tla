----------------------------- MODULE FixPromise -----------------------------
(***************************************************************************)
(* What `fix::apply` promises, without saying how it gets there: a set of  *)
(* permitted fixes that do not overlap is made, all of them at once and    *)
(* each of them whole, and a permitted fix is left out only when it runs   *)
(* into one that is made.                                                  *)
(***************************************************************************)
EXTENDS Fixes

CONSTANT Inputs

VARIABLES input, allowUnsafe, done, fixed, output

vars == <<input, allowUnsafe, done, fixed, output>>

EditAt(x) == input.report[x[1]].edits[x[2]]

\* The span of d's fix reaches into the span of c's.
RunsInto(d, c) ==
  LET s(i) == MinStart(input.report[i].edits)
      t(i) == MaxEnd(input.report[i].edits)
  IN  s(c) <= s(d) /\ s(d) < t(c)

Acceptable(F) ==
  /\ F \subseteq Candidates(input.report, allowUnsafe)
  /\ \A x, y \in EditIds(input.report, F) : x # y => Disjoint(EditAt(x), EditAt(y))
  /\ \A d \in Candidates(input.report, allowUnsafe) \ F : \E c \in F : RunsInto(d, c)

\* The source from an offset on with the edits of F made at once: the new text
\* of the edit that starts there, and what comes after its range, or else the
\* source's character.  (Edits that do not overlap and cover a character start
\* at different offsets.)
Rendered(F) ==
  LET Starting(p) == {y \in EditIds(input.report, F) : EditAt(y).lo = p}
      From[p \in 0..Len(input.text)] ==
        IF p = Len(input.text) THEN <<>>
        ELSE IF Starting(p) = {} THEN <<input.text[p + 1]>> \o From[p + 1]
        ELSE LET e == EditAt(CHOOSE x \in Starting(p) : TRUE) IN e.new \o From[e.hi]
  IN  From[0]

Init ==
  /\ input \in Inputs
  /\ allowUnsafe \in BOOLEAN
  /\ done = FALSE
  /\ fixed = {}
  /\ output = input.text

Apply(F) ==
  /\ ~done
  /\ Acceptable(F)
  /\ done' = TRUE
  /\ fixed' = F
  /\ output' = Rendered(F)
  /\ UNCHANGED <<input, allowUnsafe>>

Next == \E F \in SUBSET DOMAIN input.report : Apply(F)

Spec == Init /\ [][Next]_vars

=============================================================================

------------------------------ MODULE FixApply ------------------------------
(***************************************************************************)
(* The autofix engine: `fix::apply` of crate sloplint_diagnostics.         *)
(*                                                                         *)
(* Given a source text and the diagnostics reported against it, the engine *)
(* collects the permitted, well-formed fixes, scans them from left to      *)
(* right under a watermark that rejects a fix starting before the end of   *)
(* an accepted one, and splices the accepted edits from right to left.     *)
(***************************************************************************)
EXTENDS Fixes

CONSTANT Inputs   \* the arguments `apply` is called with: [text, report]

\* The report was computed from the text: its ranges lie inside it.
InputsAssumption ==
  \A in \in Inputs :
    /\ in.text \in Text
    /\ in.report \in Seq(Diagnostic)
    /\ \A d \in DOMAIN in.report : \A k \in DOMAIN in.report[d].edits :
         LET e == in.report[d].edits[k] IN e.lo <= e.hi /\ e.hi <= Len(in.text)

ASSUME InputsOK == InputsAssumption

VARIABLES
  input,        \* the source text and the diagnostics, never written
  allowUnsafe,  \* the `allow_unsafe` argument
  pc,           \* "collect", "scan", "splice" or "done"
  todo,         \* candidates the scan has not reached yet
  watermark,    \* the highest end offset accepted so far
  fixed,        \* diagnostics whose fix was accepted
  pending,      \* accepted edits not yet spliced
  output        \* the text being rewritten

vars == <<input, allowUnsafe, pc, todo, watermark, fixed, pending, output>>

-----------------------------------------------------------------------------
EditsOf(d) == input.report[d].edits
EditAt(x) == EditsOf(x[1])[x[2]]

\* The order of the scan: by first edit start, then by diagnostic index.
Precedes(c, d) ==
  LET cs == MinStart(EditsOf(c))
      ds == MinStart(EditsOf(d))
  IN  cs < ds \/ (cs = ds /\ c < d)

\* The order in which the scan appends two accepted edits.
AcceptedEarlier(x, y) ==
  \/ x[1] # y[1] /\ Precedes(x[1], y[1])
  \/ x[1] = y[1] /\ x[2] < y[2]

\* (Mutant) From left to right.
SplicedInOrder(x, y) == EditAt(x).lo < EditAt(y).lo

\* The order of the splice: descending start; the sort is stable, so of two
\* edits that start together the one accepted earlier comes first.
SplicedBefore(x, y) ==
  \/ EditAt(x).lo > EditAt(y).lo
  \/ EditAt(x).lo = EditAt(y).lo /\ AcceptedEarlier(x, y)

-----------------------------------------------------------------------------
Init ==
  /\ input \in Inputs
  /\ allowUnsafe \in BOOLEAN
  /\ pc = "collect"
  /\ todo = {}
  /\ watermark = 0
  /\ fixed = {}
  /\ pending = {}
  /\ output = input.text

Collect ==
  /\ pc = "collect"
  /\ todo' = Candidates(input.report, allowUnsafe)
  /\ pc' = "scan"
  /\ UNCHANGED <<input, allowUnsafe, watermark, fixed, pending, output>>

\* The candidate the scan reaches next.
Leftmost(d) == \A c \in todo \ {d} : Precedes(d, c)

Accept(d) ==
  /\ pc = "scan"
  /\ Leftmost(d)
  /\ MinStart(EditsOf(d)) >= watermark
  /\ watermark' = Max({watermark, MaxEnd(EditsOf(d))})
  /\ fixed' = fixed \cup {d}
  /\ todo' = todo \ {d}
  /\ UNCHANGED <<input, allowUnsafe, pc, pending, output>>

Skip(d) ==
  /\ pc = "scan"
  /\ Leftmost(d)
  /\ MinStart(EditsOf(d)) < watermark
  /\ todo' = todo \ {d}
  /\ UNCHANGED <<input, allowUnsafe, pc, watermark, fixed, pending, output>>

EndScan ==
  /\ pc = "scan"
  /\ todo = {}
  /\ pending' = EditIds(input.report, fixed)
  /\ pc' = "splice"
  /\ UNCHANGED <<input, allowUnsafe, todo, watermark, fixed, output>>

\* The edit the splice reaches next.
Rightmost(x) == \A y \in pending \ {x} : SplicedBefore(x, y)

Splice(x) ==
  /\ pc = "splice"
  /\ Rightmost(x)
  /\ output' = Replace(output, EditAt(x))
  /\ pending' = pending \ {x}
  /\ UNCHANGED <<input, allowUnsafe, pc, todo, watermark, fixed>>

Return ==
  /\ pc = "splice"
  /\ pending = {}
  /\ pc' = "done"
  /\ UNCHANGED <<input, allowUnsafe, todo, watermark, fixed, pending, output>>

Returned == pc = "done" /\ UNCHANGED vars

Next ==
  \/ Collect
  \/ \E d \in todo : Accept(d) \/ Skip(d)
  \/ EndScan
  \/ \E x \in pending : Splice(x)
  \/ Return
  \/ Returned

Spec == Init /\ [][Next]_vars

-----------------------------------------------------------------------------
(* Properties. *)

\* Types, and the book-keeping of the loop: the watermark stays inside the
\* text, and what is pending belongs to an accepted fix.
TypeOK ==
  /\ input \in Inputs
  /\ allowUnsafe \in BOOLEAN
  /\ pc \in {"collect", "scan", "splice", "done"}
  /\ todo \subseteq Candidates(input.report, allowUnsafe)
  /\ watermark \in 0..Len(input.text)
  /\ fixed \subseteq Candidates(input.report, allowUnsafe)
  /\ pending \subseteq EditIds(input.report, fixed)
  /\ output \in Text

\* What the rules of this repository emit: an edit covers at least one byte.
NonEmptyEdits ==
  \A in \in Inputs : \A d \in DOMAIN in.report : \A k \in DOMAIN in.report[d].edits :
    in.report[d].edits[k].lo < in.report[d].edits[k].hi

\* No two accepted edits, of one fix or of two, touch a common byte: the
\* watermark and the well-formedness test together rule out every overlap.
NoOverlap ==
  \A x, y \in EditIds(input.report, fixed) :
    x # y => Disjoint(EditAt(x), EditAt(y))

\* When an edit's turn comes, the text up to its end is still the source: its
\* offsets, computed from the source, are valid, and no end is ever clamped.
OffsetsStayValid ==
  \A x \in pending :
    /\ EditAt(x).hi <= Len(output)
    /\ \A p \in 1..EditAt(x).hi : output[p] = input.text[p]

\* What the call promises: the text with all accepted edits made at once.
Promise == INSTANCE FixPromise WITH
  done   <- pc = "done",
  fixed  <- IF pc = "done" THEN fixed ELSE {},
  output <- IF pc = "done" THEN output ELSE input.text

\* The engine implements the promise.
ImplementsPromise == Promise!Spec

=============================================================================

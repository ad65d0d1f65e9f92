----------------------------- MODULE MCFixApply -----------------------------
(* Instances of FixApply for TLC: reports of up to three fixes over a text   *)
(* of four characters, and the reports of SLP010 on its texts.               *)
EXTENDS MCCommentFix

CONSTANTS a, b, c, d, new

MCChar == {a, b, c, d, new} \cup Alphabet

Source == <<a, b, c, d>>

\* Every edit that covers at least one byte, as a deletion and a replacement.
MCEdit == {e \in [lo : 0..3, hi : 1..4, new : {<<>>, <<new, new>>}] : e.lo < e.hi}
Deletion == {e \in MCEdit : e.new = <<>>}

\* One-edit fixes, and the two-edit ones (well-formed or not) that delete
\* first and replace afterwards; no edit stands for a diagnostic without fix.
OneEdit == {<<e>> : e \in MCEdit}
TwoEdits == {<<e, f>> : e \in Deletion, f \in {g \in MCEdit : g.new # <<>>}}

Fixable(es) == {[edits |-> x, safe |-> TRUE] : x \in es}

\* Up to two fixes of any shape, one of them possibly unsafe, or three small
\* deletions; and one report with a diagnostic that has no fix.
MCReports ==
  {<<x, y>> : x \in Fixable(OneEdit \cup {<<>>}), y \in Fixable(OneEdit)}
  \cup {<<x, [edits |-> y, safe |-> FALSE]>> : x \in Fixable(OneEdit), y \in TwoEdits}
  \cup {<<x, y, z>> : x, y, z \in Fixable({<<e>> : e \in Deletion})}

MCInputs == [text : {Source}, report : MCReports] \cup CommentInputs

=============================================================================

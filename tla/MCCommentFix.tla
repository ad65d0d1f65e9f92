---------------------------- MODULE MCCommentFix ----------------------------
(* Inputs of CommentFix for TLC: every text of up to MaxLen characters, with *)
(* the report the rule makes of it.                                          *)
EXTENDS CommentFix

CONSTANT MaxLen

\* A byte order mark stands at the beginning of a text or nowhere.
Texts ==
  {t \in BoundedSeq(Alphabet, MaxLen) : \A p \in DOMAIN t : t[p] = BOM => p = 1}

CommentInputs == {[text |-> t, report |-> Report(t)] : t \in Texts}

=============================================================================

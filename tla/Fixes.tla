------------------------------- MODULE Fixes --------------------------------
(***************************************************************************)
(* The autofix model of crate sloplint_diagnostics: edits, fixes and the   *)
(* diagnostics that carry them.                                            *)
(*                                                                         *)
(* An edit [lo, hi, new] replaces the half-open byte range lo .. hi, i.e.  *)
(* the characters lo+1 .. hi of the source, by the text new.  A diagnostic *)
(* [edits, safe] carries its fix inline; one without a fix has edits <<>>, *)
(* which the engine rejects exactly as it rejects a fix without edits.     *)
(***************************************************************************)
EXTENDS Integers, Sequences, FiniteSetsExt

CONSTANT Char     \* the characters a text is made of

Text == Seq(Char)
Edit == [lo : Nat, hi : Nat, new : Text]
Diagnostic == [edits : Seq(Edit), safe : BOOLEAN]

\* Fix::min_start and Fix::max_end of a fix that has edits.
MinStart(edits) == Min({edits[k].lo : k \in DOMAIN edits})

\* (Mutant) The end of the first edit instead of the last.
EndOfFirst(edits) == edits[1].hi

MaxEnd(edits) == Max({edits[k].hi : k \in DOMAIN edits})

\* Fix::is_well_formed: at least one edit, and in the (stable) order of their
\* starts no edit begins before an earlier one has ended.
WellFormed(edits) ==
  /\ edits # <<>>
  /\ \A j, k \in DOMAIN edits :
       \/ edits[j].lo < edits[k].lo
       \/ edits[j].lo = edits[k].lo /\ j < k
       => edits[j].hi <= edits[k].lo

\* The diagnostics whose fix `apply` may use: safe, or unsafe ones allowed.
Candidates(report, allowUnsafe) ==
  {d \in DOMAIN report : (allowUnsafe \/ report[d].safe) /\ WellFormed(report[d].edits)}

\* The edits of the diagnostics in F, each named by its diagnostic and position.
EditIds(report, F) == UNION {{d} \X DOMAIN report[d].edits : d \in F}

Disjoint(e, f) == e.hi <= f.lo \/ f.hi <= e.lo

\* (Mutant) The range is replaced without the character it ends with.
ReplaceShort(text, e) ==
  IF e.lo > e.hi THEN text
  ELSE SubSeq(text, 1, e.lo) \o e.new \o SubSeq(text, e.hi, Len(text))

\* String::replace_range, with the end clamped to the text and an edit that is
\* out of bounds left out.
Replace(text, e) ==
  LET hi == IF e.hi <= Len(text) THEN e.hi ELSE Len(text)
  IN  IF e.lo > hi THEN text
      ELSE SubSeq(text, 1, e.lo) \o e.new \o SubSeq(text, hi + 1, Len(text))

=============================================================================

--------------------------- MODULE FixApplyProofs ---------------------------
(***************************************************************************)
(* Theorems about the autofix engine, for every alphabet and every set of  *)
(* inputs: type correctness, that accepted edits never overlap, that the   *)
(* right-to-left splice finds every edit's offsets still valid, that a     *)
(* call implements what FixPromise says of it, and that one call is enough *)
(* for the deletions of rule SLP010.                                       *)
(***************************************************************************)
EXTENDS CommentFix, FoldProofs, SequenceTheorems, TLAPS

-----------------------------------------------------------------------------
(* The inductive invariant. *)

\* The watermark bounds every accepted edit.
UnderWatermark ==
  \A x \in EditIds(input.report, fixed) : EditAt(x).hi <= watermark

\* The text is not touched before the scan is over.
UntouchedUntilSplice ==
  pc \in {"collect", "scan"} => output = input.text /\ pending = {}

IInv == TypeOK /\ UnderWatermark /\ NoOverlap /\ UntouchedUntilSplice

\* What the assumption on the inputs says of the input of a call.
LEMMA InputFacts ==
  ASSUME input \in Inputs
  PROVE  /\ input.text \in Text
         /\ input.report \in Seq(Diagnostic)
         /\ \A d \in DOMAIN input.report : \A k \in DOMAIN EditsOf(d) :
              /\ EditsOf(d)[k] \in Edit
              /\ EditsOf(d)[k].lo <= EditsOf(d)[k].hi
              /\ EditsOf(d)[k].hi <= Len(input.text)
<1>1. /\ input.text \in Text
      /\ input.report \in Seq(Diagnostic)
      /\ \A d \in DOMAIN input.report : \A k \in DOMAIN EditsOf(d) :
              /\ EditsOf(d)[k].lo <= EditsOf(d)[k].hi
              /\ EditsOf(d)[k].hi <= Len(input.text)
  BY InputsOK DEF InputsAssumption, EditsOf
<1>2. ASSUME NEW d \in DOMAIN input.report, NEW k \in DOMAIN EditsOf(d)
      PROVE  EditsOf(d)[k] \in Edit
  <2>1. input.report[d] \in Diagnostic
    BY <1>1
  <2>2. EditsOf(d) \in Seq(Edit)
    BY <2>1 DEF Diagnostic, EditsOf
  <2>3. QED
    BY <2>2
<1>3. QED
  BY <1>1, <1>2

\* The span of a candidate's fix encloses its edits and lies in the text.
LEMMA SpanFacts ==
  ASSUME input \in Inputs, NEW d \in Candidates(input.report, allowUnsafe)
  PROVE  /\ d \in DOMAIN input.report
         /\ MinStart(EditsOf(d)) \in Nat
         /\ MaxEnd(EditsOf(d)) \in 0..Len(input.text)
         /\ \A k \in DOMAIN EditsOf(d) :
              /\ MinStart(EditsOf(d)) <= EditsOf(d)[k].lo
              /\ EditsOf(d)[k].hi <= MaxEnd(EditsOf(d))
<1> DEFINE es == EditsOf(d)
           Los == {es[k].lo : k \in DOMAIN es}
           His == {es[k].hi : k \in DOMAIN es}
           n   == Len(input.text)
<1>1. d \in DOMAIN input.report /\ es # <<>>
  BY DEF Candidates, WellFormed, EditsOf
<1>2. /\ n \in Nat
      /\ \A k \in DOMAIN es : es[k].lo \in Nat /\ es[k].hi \in 0..n
  BY <1>1, InputFacts DEF Edit, Text
<1>3. es \in Seq(Edit)
  <2>1. input.report[d] \in Diagnostic
    BY <1>1, InputFacts
  <2>2. QED
    BY <2>1 DEF Diagnostic, EditsOf
<1>4. DOMAIN es # {}
  <2>1. Len(es) # 0 /\ Len(es) \in Nat /\ DOMAIN es = 1..Len(es)
    BY <1>1, <1>3, EmptySeq, LenProperties
  <2>2. 1 \in DOMAIN es
    BY <2>1
  <2>3. QED
    BY <2>2
<1>5. Los # {} /\ Los \subseteq Nat /\ His # {} /\ His \subseteq 0..n
  BY <1>2, <1>4
<1>6. Min(Los) \in Los /\ \A y \in Los : Min(Los) <= y
  BY <1>5, MinIsLeast
<1>7. Max(His) \in His /\ \A y \in His : y <= Max(His)
  BY <1>2, <1>5, MaxIsGreatest
<1>8. MinStart(es) = Min(Los) /\ MaxEnd(es) = Max(His)
  BY DEF MinStart, MaxEnd
<1>9. QED
  BY <1>1, <1>5, <1>6, <1>7, <1>8

-----------------------------------------------------------------------------
(* Type correctness. *)

\* Replacing a byte range of a text by a text gives a text.
LEMMA ReplaceType ==
  ASSUME NEW text \in Text, NEW e \in Edit
  PROVE  Replace(text, e) \in Text
<1> DEFINE hi == IF e.hi <= Len(text) THEN e.hi ELSE Len(text)
<1>1. Len(text) \in Nat /\ e.lo \in Nat /\ e.hi \in Nat /\ e.new \in Seq(Char)
  BY DEF Text, Edit
<1>2. ASSUME ~(e.lo > hi)
      PROVE  SubSeq(text, 1, e.lo) \o e.new \o SubSeq(text, hi + 1, Len(text)) \in Seq(Char)
  <2>1. text \in Seq(Char)
    BY DEF Text
  <2>2. SubSeq(text, 1, e.lo) \in Seq(Char)
    <3>1. \A i \in 1..e.lo : i \in 1..Len(text)
      BY <1>1, <1>2
    <3>2. QED
      BY <2>1, <3>1, <1>1, SubSeqProperties
  <2>3. SubSeq(text, hi + 1, Len(text)) \in Seq(Char)
    <3>1. \A i \in (hi + 1)..Len(text) : i \in 1..Len(text)
      BY <1>1
    <3>2. QED
      BY <2>1, <3>1, <1>1, SubSeqProperties
  <2>4. QED
    BY <1>1, <2>2, <2>3
<1>3. QED
  BY <1>2 DEF Replace, Text

\* The edits pending are those of accepted fixes, and typed.
LEMMA PendingFacts ==
  ASSUME TypeOK, NEW x \in EditIds(input.report, fixed)
  PROVE  /\ x[1] \in fixed
         /\ x[1] \in Candidates(input.report, allowUnsafe)
         /\ x[2] \in DOMAIN EditsOf(x[1])
         /\ EditAt(x) \in Edit
         /\ EditAt(x).lo <= EditAt(x).hi
         /\ EditAt(x).hi <= Len(input.text)
<1>1. x[1] \in fixed /\ x[2] \in DOMAIN EditsOf(x[1])
  BY DEF EditIds, EditsOf
<1>2. x[1] \in Candidates(input.report, allowUnsafe) /\ x[1] \in DOMAIN input.report
  BY <1>1 DEF TypeOK, Candidates
<1>3. QED
  BY <1>1, <1>2, InputFacts DEF TypeOK, EditAt

\* Every step of the engine keeps the types.
LEMMA TypeStep ==
  ASSUME TypeOK, [Next]_vars
  PROVE  TypeOK'
<1> USE DEF TypeOK
<1>1. CASE Collect
  <2>1. input' = input /\ allowUnsafe' = allowUnsafe
    BY <1>1 DEF Collect
  <2>2. QED
    BY <1>1, <2>1 DEF Collect
<1>2. ASSUME NEW d \in todo, Accept(d) PROVE TypeOK'
  <2>1. d \in Candidates(input.report, allowUnsafe)
    OBVIOUS
  <2>2. Len(input.text) \in Nat
    BY InputFacts DEF Text
  <2>3. Max({watermark, MaxEnd(EditsOf(d))}) \in 0..Len(input.text)
    <3>1. {watermark, MaxEnd(EditsOf(d))} \subseteq 0..Len(input.text)
      BY <2>1, SpanFacts
    <3>2. QED
      BY <2>2, <3>1, MaxIsGreatest
  <2>4. EditIds(input.report, fixed) \subseteq EditIds(input.report, fixed \cup {d})
    BY DEF EditIds
  <2>5. QED
    BY <1>2, <2>1, <2>3, <2>4 DEF Accept
<1>3. ASSUME NEW d \in todo, Skip(d) PROVE TypeOK'
  BY <1>3 DEF Skip
<1>4. CASE EndScan
  BY <1>4 DEF EndScan
<1>5. ASSUME NEW x \in pending, Splice(x) PROVE TypeOK'
  <2>1. EditAt(x) \in Edit
    BY PendingFacts
  <2>2. Replace(output, EditAt(x)) \in Text
    BY <2>1, ReplaceType
  <2>3. QED
    BY <1>5, <2>2 DEF Splice
<1>6. CASE Return
  BY <1>6 DEF Return
<1>7. CASE UNCHANGED vars
  BY <1>7 DEF vars
<1>8. QED
  BY <1>1, <1>2, <1>3, <1>4, <1>5, <1>6, <1>7 DEF Next, Returned

\* THEOREM: in every state of a call the variables have their types, the scan
\* holds permitted, well-formed fixes only, and the watermark is in the text.
THEOREM TypeCorrect == Spec => []TypeOK
<1>1. Init => TypeOK
  <2>1. ASSUME Init PROVE TypeOK
    <3>1. input.text \in Text /\ Len(input.text) \in Nat
      BY <2>1, InputFacts DEF Init, Text
    <3>2. QED
      BY <2>1, <3>1 DEF Init, TypeOK
  <2>2. QED
    BY <2>1
<1>2. TypeOK /\ [Next]_vars => TypeOK'
  BY TypeStep
<1>3. QED
  BY <1>1, <1>2, PTL DEF Spec

-----------------------------------------------------------------------------
(* Accepted edits never overlap. *)

\* One step keeps the watermark above the accepted edits, and these disjoint.
LEMMA OverlapStep ==
  ASSUME IInv, [Next]_vars
  PROVE  UnderWatermark' /\ NoOverlap'
<1> USE DEF IInv
<1>1. CASE UNCHANGED <<input, fixed, watermark>>
  BY <1>1 DEF UnderWatermark, NoOverlap, EditAt, EditsOf
<1>2. ASSUME NEW d \in todo, Accept(d) PROVE UnderWatermark' /\ NoOverlap'
  <2> DEFINE Old == EditIds(input.report, fixed)
             New == {d} \X DOMAIN EditsOf(d)
             w   == Max({watermark, MaxEnd(EditsOf(d))})
  <2>1. /\ input' = input /\ fixed' = fixed \cup {d} /\ watermark' = w
        /\ MinStart(EditsOf(d)) >= watermark
    BY <1>2 DEF Accept
  <2>2. d \in Candidates(input.report, allowUnsafe) /\ input \in Inputs
    BY DEF TypeOK
  <2>3. EditIds(input.report, fixed \cup {d}) = Old \cup New
    BY DEF EditIds, EditsOf
  <2>4. w \in Nat /\ watermark <= w /\ MaxEnd(EditsOf(d)) <= w /\ watermark \in Nat
    <3>1. {watermark, MaxEnd(EditsOf(d))} \subseteq 0..Len(input.text)
      BY <2>2, SpanFacts DEF TypeOK
    <3>2. Len(input.text) \in Nat
      BY <2>2, InputFacts DEF Text
    <3>3. /\ w \in {watermark, MaxEnd(EditsOf(d))}
          /\ \A y \in {watermark, MaxEnd(EditsOf(d))} : y <= w
      BY <3>1, <3>2, MaxIsGreatest
    <3> HIDE DEF w
    <3>4. QED
      BY <3>1, <3>2, <3>3
  <2>5. ASSUME NEW x \in Old
        PROVE  /\ EditAt(x).lo \in Nat /\ EditAt(x).hi \in Nat
               /\ EditAt(x).hi <= watermark
    <3>1. EditAt(x) \in Edit
      BY PendingFacts
    <3>2. QED
      BY <3>1 DEF UnderWatermark, Edit
  <2>6. ASSUME NEW x \in New
        PROVE  /\ EditAt(x).lo \in Nat /\ EditAt(x).hi \in Nat
               /\ watermark <= EditAt(x).lo
               /\ EditAt(x).hi <= w
    <3>1. x[1] = d /\ x[2] \in DOMAIN EditsOf(d)
      OBVIOUS
    <3>2. d \in DOMAIN input.report
      BY <2>2, SpanFacts
    <3>3. EditAt(x) \in Edit
      BY <2>2, <3>1, <3>2, InputFacts DEF EditAt
    <3>4. MinStart(EditsOf(d)) <= EditAt(x).lo /\ EditAt(x).hi <= MaxEnd(EditsOf(d))
      BY <2>2, <3>1, SpanFacts DEF EditAt
    <3>5. MinStart(EditsOf(d)) \in Nat /\ MaxEnd(EditsOf(d)) \in Nat
      BY <2>2, SpanFacts, InputFacts DEF Text
    <3>6. QED
      BY <2>1, <2>4, <3>3, <3>4, <3>5 DEF Edit
  <2>7. ASSUME NEW x \in New, NEW y \in New, x # y
        PROVE  Disjoint(EditAt(x), EditAt(y))
    <3>1. /\ x[1] = d /\ x[2] \in DOMAIN EditsOf(d)
          /\ y[1] = d /\ y[2] \in DOMAIN EditsOf(d)
          /\ x[2] # y[2]
      BY <2>7
    <3>2. WellFormed(EditsOf(d))
      BY <2>2 DEF Candidates, EditsOf
    <3>3. x[2] \in Nat /\ y[2] \in Nat
      <4>1. EditsOf(d) \in Seq(Edit)
        <5>1. input.report[d] \in Diagnostic
          BY <2>2, SpanFacts, InputFacts
        <5>2. QED
          BY <5>1 DEF Diagnostic, EditsOf
      <4>2. QED
        BY <3>1, <4>1
    <3>4. EditAt(x).lo \in Nat /\ EditAt(y).lo \in Nat
      BY <2>6
    <3>5. QED
      BY <3>1, <3>2, <3>3, <3>4 DEF WellFormed, Disjoint, EditAt
  <2>8. \A x \in Old \cup New : EditAt(x).hi <= w
    BY <2>4, <2>5, <2>6
  <2>9. \A x, y \in Old \cup New : x # y => Disjoint(EditAt(x), EditAt(y))
    <3>1. \A x, y \in Old : x # y => Disjoint(EditAt(x), EditAt(y))
      BY DEF NoOverlap
    <3>2. \A x \in Old, y \in New :
            Disjoint(EditAt(x), EditAt(y)) /\ Disjoint(EditAt(y), EditAt(x))
      BY <2>4, <2>5, <2>6 DEF Disjoint
    <3>3. QED
      BY <2>7, <3>1, <3>2
  <2>10. QED
    BY <2>1, <2>3, <2>8, <2>9 DEF UnderWatermark, NoOverlap, EditAt, EditsOf
<1>3. QED
  BY <1>1, <1>2
     DEF Next, vars, Collect, Skip, EndScan, Splice, Return, Returned

\* The inductive invariant holds throughout.
THEOREM Invariance == Spec => []IInv
<1>1. Init => UnderWatermark /\ NoOverlap /\ UntouchedUntilSplice
  BY DEF Init, UnderWatermark, NoOverlap, UntouchedUntilSplice, EditIds
<1>2. IInv /\ [Next]_vars => UntouchedUntilSplice'
  BY DEF IInv, UntouchedUntilSplice, Next, vars, Collect, Accept, Skip, EndScan,
         Splice, Return, Returned
<1>3. IInv /\ [Next]_vars => UnderWatermark' /\ NoOverlap'
  BY OverlapStep
<1>4. Spec => []TypeOK
  BY TypeCorrect
<1>5. QED
  BY <1>1, <1>2, <1>3, <1>4, PTL DEF Spec, IInv

\* THEOREM: two different accepted edits, of one fix or of two, never overlap,
\* whatever fixes were offered and in whatever order.
THEOREM AcceptedEditsNeverOverlap == Spec => []NoOverlap
<1>1. IInv => NoOverlap
  BY DEF IInv
<1>2. QED
  BY <1>1, Invariance, PTL

-----------------------------------------------------------------------------
(* The splice. *)

\* Replacing a range leaves the text before it alone.
LEMMA ReplaceKeepsPrefix ==
  ASSUME NEW text \in Text, NEW e \in Edit, e.lo <= e.hi, e.hi <= Len(text)
  PROVE  /\ Len(Replace(text, e)) >= e.lo
         /\ \A p \in 1..e.lo : Replace(text, e)[p] = text[p]
<1> DEFINE pre == SubSeq(text, 1, e.lo)
           post == SubSeq(text, e.hi + 1, Len(text))
<1>1. /\ Len(text) \in Nat /\ e.lo \in Nat /\ e.hi \in Nat
      /\ e.new \in Seq(Char) /\ text \in Seq(Char)
  BY DEF Text, Edit
<1>2. Replace(text, e) = pre \o e.new \o post
  <2>1. ~(e.lo > e.hi) /\ e.hi <= Len(text)
    BY <1>1
  <2>2. QED
    BY <2>1, Zenon DEF Replace
<1>3. /\ pre \in Seq(Char) /\ Len(pre) = e.lo
      /\ \A p \in 1..e.lo : pre[p] = text[p]
  <2>1. \A i \in 1..e.lo : i \in 1..Len(text)
    BY <1>1
  <2>2. \A i \in 1..e.lo : text[i] \in Char
    BY <1>1, <2>1
  <2>3. QED
    BY <1>1, <2>2, SubSeqProperties
<1>4. post \in Seq(Char)
  <2>1. \A i \in (e.hi + 1)..Len(text) : i \in 1..Len(text)
    BY <1>1
  <2>2. \A i \in (e.hi + 1)..Len(text) : text[i] \in Char
    BY <1>1, <2>1
  <2>3. QED
    BY <1>1, <2>2, SubSeqProperties
<1> HIDE DEF pre, post
<1>5. /\ pre \o e.new \in Seq(Char) /\ Len(pre \o e.new) = e.lo + Len(e.new)
      /\ Len(e.new) \in Nat
      /\ \A p \in 1..e.lo : (pre \o e.new)[p] = pre[p]
  BY <1>1, <1>3
<1>6. /\ Len(pre \o e.new \o post) = e.lo + Len(e.new) + Len(post)
      /\ Len(post) \in Nat
      /\ \A p \in 1..(e.lo + Len(e.new)) : (pre \o e.new \o post)[p] = (pre \o e.new)[p]
  BY <1>1, <1>4, <1>5
<1>7. QED
  BY <1>1, <1>2, <1>3, <1>5, <1>6

\* One step keeps the text intact up to the end of every edit still to come.
LEMMA SpliceStep ==
  ASSUME NonEmptyEdits, IInv, OffsetsStayValid, [Next]_vars
  PROVE  OffsetsStayValid'
<1> USE DEF IInv
<1>1. CASE UNCHANGED <<input, pending, output>>
  BY <1>1 DEF OffsetsStayValid, EditAt, EditsOf
<1>2. CASE EndScan
  <2>1. /\ input' = input /\ output' = output /\ output = input.text
        /\ pending' = EditIds(input.report, fixed)
    BY <1>2 DEF EndScan, UntouchedUntilSplice
  <2>2. QED
    BY <2>1, PendingFacts DEF OffsetsStayValid, EditAt, EditsOf
<1>3. ASSUME NEW x \in pending, Splice(x) PROVE OffsetsStayValid'
  <2> DEFINE e == EditAt(x)
  <2>1. /\ input' = input /\ pending' = pending \ {x}
        /\ output' = Replace(output, e)
        /\ \A y \in pending \ {x} : SplicedBefore(x, y)
    BY <1>3 DEF Splice, Rightmost
  <2>2. pending \subseteq EditIds(input.report, fixed)
    BY DEF TypeOK
  <2>3. output \in Text /\ e \in Edit /\ e.lo <= e.hi /\ e.hi <= Len(output)
    BY <2>2, PendingFacts DEF TypeOK, OffsetsStayValid
  <2>4. /\ Len(Replace(output, e)) >= e.lo
        /\ \A p \in 1..e.lo : Replace(output, e)[p] = output[p]
    BY <2>3, ReplaceKeepsPrefix
  <2>5. ASSUME NEW y \in pending \ {x}
        PROVE  /\ EditAt(y).hi <= e.lo /\ EditAt(y).hi \in Nat
    <3>1. EditAt(y) \in Edit
      BY <2>2, PendingFacts
    <3>2. EditAt(y).lo < EditAt(y).hi /\ e.lo < e.hi
      <4>1. \A z \in pending : z[1] \in DOMAIN input.report /\ z[2] \in DOMAIN EditsOf(z[1])
        BY <2>2, PendingFacts DEF Candidates
      <4>2. input \in Inputs
        BY DEF TypeOK
      <4>3. QED
        BY <4>1, <4>2 DEF NonEmptyEdits, EditAt, EditsOf
    <3>3. EditAt(y).lo <= e.lo
      BY <2>1, <2>3, <3>1 DEF SplicedBefore, Edit
    <3>4. Disjoint(e, EditAt(y))
      BY <2>2 DEF NoOverlap
    <3>5. QED
      BY <2>3, <3>1, <3>2, <3>3, <3>4 DEF Disjoint, Edit
  <2>6. ASSUME NEW y \in pending \ {x}
        PROVE  /\ EditAt(y).hi <= Len(output')
               /\ \A p \in 1..EditAt(y).hi : output'[p] = input.text[p]
    <3>1. Len(Replace(output, e)) \in Nat /\ e.lo \in Nat
      BY <2>3, ReplaceType DEF Text, Edit
    <3>2. \A p \in 1..EditAt(y).hi : p \in 1..e.lo
      BY <2>5, <3>1
    <3>3. \A p \in 1..EditAt(y).hi : output[p] = input.text[p]
      BY DEF OffsetsStayValid
    <3>4. QED
      BY <2>1, <2>4, <2>5, <3>1, <3>2, <3>3
  <2>7. QED
    BY <2>1, <2>6 DEF OffsetsStayValid, EditAt, EditsOf
<1>4. QED
  BY <1>1, <1>2, <1>3
     DEF Next, vars, Collect, Accept, Skip, Return, Returned

\* THEOREM: when every edit covers at least one byte, which is all the rules
\* emit, the splice meets each edit with the text up to its end still the
\* source, so the offsets computed from the source are the right ones.
THEOREM SpliceOffsetsStayValid ==
  ASSUME NonEmptyEdits
  PROVE  Spec => []OffsetsStayValid
<1>1. Init => OffsetsStayValid
  BY DEF Init, OffsetsStayValid
<1>2. IInv /\ OffsetsStayValid /\ [Next]_vars => OffsetsStayValid'
  BY SpliceStep
<1>3. QED
  BY <1>1, <1>2, Invariance, PTL DEF Spec

-----------------------------------------------------------------------------
(* The engine keeps the promise of FixPromise.  The text it should return is *)
(* written there from left to right, but made from right to left: Rest[p] is *)
(* what is right of the offset p.                                            *)

\* What holds of an offset when it holds of all greater ones holds of all.
LEMMA Downward ==
  ASSUME NEW n \in Nat, NEW S,
         \A p \in 0..n : (\A q \in (p + 1)..n : q \in S) => p \in S
  PROVE  0..n \subseteq S
<1> DEFINE T == {n - p : p \in (0..n) \ S}
<1>1. SUFFICES ASSUME T # {} PROVE FALSE
  <2>1. \A p \in (0..n) \ S : n - p \in T
    OBVIOUS
  <2>2. QED
    BY <1>1, <2>1
<1>2. T \subseteq Nat
  OBVIOUS
<1>3. PICK m \in T : \A t \in T : m <= t
  BY <1>1, <1>2, MinIsLeast
<1>4. PICK p \in (0..n) \ S : m = n - p
  BY <1>3
<1>5. ASSUME NEW q \in (p + 1)..n PROVE q \in S
  <2>1. q \in 0..n /\ n - q < m
    BY <1>4
  <2>2. q \notin S => n - q \in T
    BY <2>1
  <2>3. QED
    BY <1>2, <1>3, <2>1, <2>2
<1>6. QED
  BY <1>4, <1>5

\* Pieces that lead from each offset to a greater one can be put together.
Leads(next, n) == \A p \in 0..(n - 1) : next[p] \in (p + 1)..n
PutTogether(f, piece, next, n) ==
  \A p \in 0..n : f[p] = IF p = n THEN <<>> ELSE piece[p] \o f[next[p]]

LEMMA PiecesFit ==
  ASSUME NEW n \in Nat, NEW piece, NEW next, Leads(next, n)
  PROVE  \E f : PutTogether(f, piece, next, n)
<1> DEFINE Fits(f, q) == f[q] = IF q = n THEN <<>> ELSE piece[q] \o f[next[q]]
           S == {p \in 0..n : \E f : \A q \in p..n : Fits(f, q)}
<1>1. ASSUME NEW p \in 0..n, \A q \in (p + 1)..n : q \in S
      PROVE  p \in S
  <2>1. CASE p = n
    <3>1. \A q \in p..n : Fits([r \in p..n |-> <<>>], q)
      BY <2>1
    <3> HIDE DEF Fits
    <3>2. QED
      BY <3>1
  <2>2. CASE p < n
    <3>1. PICK f : \A q \in (p + 1)..n : Fits(f, q)
      <4>1. p + 1 \in (p + 1)..n
        BY <2>2
      <4> HIDE DEF Fits
      <4>2. QED
        BY <1>1, <4>1
    <3>2. PICK whole : whole = piece[p] \o f[next[p]]
      OBVIOUS
    <3> DEFINE g == [q \in p..n |-> IF q = p THEN whole ELSE f[q]]
    <3>3. g[p] = whole /\ \A q \in (p + 1)..n : g[q] = f[q]
      BY <2>2
    <3>4. next[p] \in (p + 1)..n /\ \A q \in (p + 1)..(n - 1) : next[q] \in (p + 1)..n
      BY <2>2 DEF Leads
    <3>5. ASSUME NEW q \in p..n PROVE Fits(g, q)
      <4>1. CASE q = p
        <5>1. p # n /\ g[next[p]] = f[next[p]]
          BY <2>2, <3>3, <3>4
        <5> HIDE DEF g
        <5>2. Fits(g, p)
          BY <3>2, <3>3, <5>1, Zenon
        <5>3. QED
          BY <4>1, <5>2, Zenon
      <4>2. CASE q # p
        <5>1. q \in (p + 1)..n
          BY <4>2
        <5>2. q # n => next[q] \in (p + 1)..n
          BY <3>4, <5>1
        <5> HIDE DEF g
        <5>3. QED
          BY <3>1, <3>3, <5>1, <5>2, Zenon
      <4>3. QED
        BY <4>1, <4>2
    <3> HIDE DEF Fits, g
    <3>6. QED
      BY <3>5
  <2> HIDE DEF Fits
  <2>3. QED
    BY <2>1, <2>2
<1>2. 0..n \subseteq S
  <2> HIDE DEF S
  <2>1. \A p \in 0..n : (\A q \in (p + 1)..n : q \in S) => p \in S
    BY <1>1
  <2>2. QED
    BY <2>1, Downward
<1>3. \E f : \A p \in 0..n : Fits(f, p)
  <2>1. 0 \in 0..n
    OBVIOUS
  <2> HIDE DEF Fits
  <2>2. QED
    BY <1>2, <2>1
<1>4. QED
  BY <1>3, Zenon DEF PutTogether

\* The accepted edits that start at an offset.
Starting(p) == {y \in EditIds(input.report, fixed) : EditAt(y).lo = p}

\* What the promise makes of the text right of each offset.
Rest ==
  CHOOSE from :
    from = [p \in 0..Len(input.text) |->
              IF p = Len(input.text) THEN <<>>
              ELSE IF Starting(p) = {} THEN <<input.text[p + 1]>> \o from[p + 1]
              ELSE EditAt(CHOOSE x \in Starting(p) : TRUE).new
                     \o from[EditAt(CHOOSE x \in Starting(p) : TRUE).hi]]

\* Accepted edits start where they start alone.
LEMMA OneStarts ==
  ASSUME NonEmptyEdits, IInv, NEW x \in EditIds(input.report, fixed)
  PROVE  /\ EditAt(x).lo \in 0..(Len(input.text) - 1)
         /\ EditAt(x).hi \in (EditAt(x).lo + 1)..Len(input.text)
         /\ EditAt(x).new \in Seq(Char)
         /\ Starting(EditAt(x).lo) = {x}
<1>1. \A y \in EditIds(input.report, fixed) :
        /\ EditAt(y) \in Edit
        /\ EditAt(y).lo < EditAt(y).hi
        /\ EditAt(y).hi <= Len(input.text)
  <2> TAKE y \in EditIds(input.report, fixed)
  <2>1. /\ y[1] \in DOMAIN input.report /\ y[2] \in DOMAIN EditsOf(y[1])
        /\ EditAt(y) \in Edit /\ EditAt(y).hi <= Len(input.text)
    BY PendingFacts DEF IInv, Candidates
  <2>2. QED
    BY <2>1 DEF NonEmptyEdits, IInv, TypeOK, EditAt, EditsOf
<1>2. Len(input.text) \in Nat
  BY InputFacts DEF IInv, TypeOK, Text
<1>3. ASSUME NEW y \in EditIds(input.report, fixed), EditAt(y).lo = EditAt(x).lo, y # x
      PROVE  FALSE
  <2>1. Disjoint(EditAt(x), EditAt(y))
    BY <1>3 DEF IInv, NoOverlap
  <2>2. QED
    BY <1>1, <1>3, <2>1 DEF Disjoint, Edit
<1>4. Starting(EditAt(x).lo) = {x}
  BY <1>3 DEF Starting
<1>5. QED
  BY <1>1, <1>2, <1>4 DEF Edit, Text

\* Right of an offset comes the new text of the edit that starts there and what
\* is right of its range, or else the character of the source.
LEMMA RestUnfolds ==
  ASSUME NonEmptyEdits, IInv
  PROVE  /\ Rest[Len(input.text)] = <<>>
         /\ \A p \in 0..(Len(input.text) - 1) :
              Starting(p) = {} => Rest[p] = <<input.text[p + 1]>> \o Rest[p + 1]
         /\ \A x \in EditIds(input.report, fixed) :
              Rest[EditAt(x).lo] = EditAt(x).new \o Rest[EditAt(x).hi]
<1> DEFINE n == Len(input.text)
           the(p) == CHOOSE x \in Starting(p) : TRUE
           piece == [p \in 0..(n - 1) |-> IF Starting(p) = {} THEN <<input.text[p + 1]>> ELSE EditAt(the(p)).new]
           next == [p \in 0..(n - 1) |-> IF Starting(p) = {} THEN p + 1 ELSE EditAt(the(p)).hi]
<1>1. n \in Nat
  BY InputFacts DEF IInv, TypeOK, Text
<1>2. \A p : Starting(p) # {} => the(p) \in EditIds(input.report, fixed) /\ EditAt(the(p)).lo = p
  BY DEF Starting
<1>3. ASSUME NEW p \in 0..(n - 1) PROVE next[p] \in (p + 1)..n
  <2>1. CASE Starting(p) = {}
    BY <1>1, <2>1
  <2>2. CASE Starting(p) # {}
    <3>1. EditAt(the(p)).hi \in (p + 1)..n
      BY <1>2, <2>2, OneStarts
    <3> HIDE DEF the
    <3>2. QED
      BY <2>2, <3>1
  <2>3. QED
    BY <2>1, <2>2
<1>4. PICK h : PutTogether(h, piece, next, n)
  <2>1. Leads(next, n)
    BY <1>3 DEF Leads
  <2> HIDE DEF n, piece, next
  <2>2. QED
    BY <1>1, <2>1, PiecesFit, Zenon
<1> DEFINE f == [p \in 0..n |-> h[p]]
<1>5. ASSUME NEW g, NEW p \in 0..n
      PROVE  (IF p = n THEN <<>> ELSE piece[p] \o g[next[p]])
               = IF p = n THEN <<>>
                 ELSE IF Starting(p) = {} THEN <<input.text[p + 1]>> \o g[p + 1]
                 ELSE EditAt(the(p)).new \o g[EditAt(the(p)).hi]
  <2>1. CASE p = n
    BY <2>1, Zenon
  <2>2. CASE p # n
    <3>1. p \in 0..(n - 1)
      BY <1>1, <2>2
    <3>2. /\ piece[p] = IF Starting(p) = {} THEN <<input.text[p + 1]>> ELSE EditAt(the(p)).new
          /\ next[p] = IF Starting(p) = {} THEN p + 1 ELSE EditAt(the(p)).hi
      BY <3>1, Zenon
    <3> HIDE DEF piece, next, the
    <3>3. QED
      BY <2>2, <3>2, Zenon
  <2>3. QED
    BY <2>1, <2>2
<1>6. f = [p \in 0..n |->
             IF p = n THEN <<>>
             ELSE IF Starting(p) = {} THEN <<input.text[p + 1]>> \o f[p + 1]
             ELSE EditAt(the(p)).new \o f[EditAt(the(p)).hi]]
  <2>1. \A p \in 0..(n - 1) : next[p] \in (p + 1)..n
    BY <1>3
  <2> HIDE DEF n, piece, next, the
  <2>2. \A p \in 0..n : p # n => next[p] \in 0..n
    BY <1>1, <2>1
  <2>3. \A p \in 0..n : f[p] = IF p = n THEN <<>> ELSE piece[p] \o f[next[p]]
    BY <1>4, <2>2, Zenon DEF PutTogether
  <2>4. f = [p \in 0..n |-> f[p]]
    OBVIOUS
  <2> HIDE DEF f
  <2>5. QED
    BY <1>5, <2>3, <2>4, Zenon
<1>7. Rest = [p \in 0..n |->
                IF p = n THEN <<>>
                ELSE IF Starting(p) = {} THEN <<input.text[p + 1]>> \o Rest[p + 1]
                ELSE EditAt(the(p)).new \o Rest[EditAt(the(p)).hi]]
  BY <1>6, Zenon DEF Rest
<1>8. ASSUME NEW x \in EditIds(input.report, fixed)
      PROVE  Rest[EditAt(x).lo] = EditAt(x).new \o Rest[EditAt(x).hi]
  <2>1. EditAt(x).lo \in 0..n /\ EditAt(x).lo # n /\ Starting(EditAt(x).lo) = {x}
    <3>1. EditAt(x).lo \in 0..(n - 1) /\ Starting(EditAt(x).lo) = {x}
      BY OneStarts, Zenon
    <3> HIDE DEF n
    <3>2. QED
      BY <1>1, <3>1
  <2>2. Starting(EditAt(x).lo) # {} /\ the(EditAt(x).lo) = x
    BY <2>1
  <2> HIDE DEF n, the
  <2>3. QED
    BY <1>7, <2>1, <2>2, Zenon
<1>9. n \in 0..n /\ \A p \in 0..(n - 1) : p \in 0..n /\ p # n
  BY <1>1
<1> HIDE DEF the
<1>10. QED
  BY <1>7, <1>8, <1>9, Zenon

LEMMA RestIsText ==
  ASSUME NonEmptyEdits, IInv
  PROVE  \A p \in 0..Len(input.text) : Rest[p] \in Seq(Char)
<1> DEFINE n == Len(input.text)
           S == {p \in 0..n : Rest[p] \in Seq(Char)}
<1>1. n \in Nat /\ input.text \in Seq(Char)
  BY InputFacts DEF IInv, TypeOK, Text
<1>2. ASSUME NEW p \in 0..n, \A q \in (p + 1)..n : q \in S
      PROVE  p \in S
  <2>1. CASE p = n
    BY <2>1, RestUnfolds, EmptySeq
  <2>2. CASE p < n /\ Starting(p) = {}
    <3>1. Rest[p] = <<input.text[p + 1]>> \o Rest[p + 1] /\ Rest[p + 1] \in Seq(Char)
      BY <1>1, <1>2, <2>2, RestUnfolds
    <3>2. <<input.text[p + 1]>> \in Seq(Char)
      BY <1>1, <2>2
    <3>3. QED
      BY <3>1, <3>2, ConcatProperties
  <2>3. CASE Starting(p) # {}
    <3>1. PICK x \in EditIds(input.report, fixed) : EditAt(x).lo = p
      BY <2>3 DEF Starting
    <3>2. EditAt(x).hi \in (p + 1)..n /\ EditAt(x).new \in Seq(Char)
      BY <3>1, OneStarts
    <3>3. Rest[p] = EditAt(x).new \o Rest[EditAt(x).hi] /\ Rest[EditAt(x).hi] \in Seq(Char)
      BY <1>2, <3>1, <3>2, RestUnfolds
    <3>4. QED
      BY <3>2, <3>3, ConcatProperties
  <2>4. QED
    BY <1>1, <2>1, <2>2, <2>3
<1>3. 0..n \subseteq S
  <2> HIDE DEF n, S
  <2>1. \A p \in 0..n : (\A q \in (p + 1)..n : q \in S) => p \in S
    BY <1>2
  <2>2. QED
    BY <1>1, <2>1, Downward
<1>4. QED
  BY <1>3

LEMMA JoinTexts ==
  ASSUME NEW s \in Seq(Char), NEW t \in Seq(Char), NEW u \in Seq(Char)
  PROVE  (s \o t) \o u = s \o (t \o u)
BY ConcatAssociative

\* Where no edit starts, the source is kept.
LEMMA RestKeeps ==
  ASSUME NonEmptyEdits, IInv, NEW b \in 0..Len(input.text), NEW c \in b..Len(input.text),
         \A q \in b..(c - 1) : Starting(q) = {}
  PROVE  Rest[b] = SubSeq(input.text, b + 1, c) \o Rest[c]
<1> DEFINE n == Len(input.text)
           Kept(q) == SubSeq(input.text, q + 1, c)
           S == {q \in 0..n : q \in b..c => Rest[q] = Kept(q) \o Rest[c]}
<1>1. n \in Nat /\ input.text \in Seq(Char)
  BY InputFacts DEF IInv, TypeOK, Text
<1>2. ASSUME NEW p \in 0..n, \A q \in (p + 1)..n : q \in S
      PROVE  p \in S
  <2>1. CASE p \notin b..c
    BY <2>1
  <2>2. CASE p = c
    <3>1. Kept(c) = <<>>
      BY SubSeqEmpty
    <3>2. <<>> \o Rest[c] = Rest[c]
      BY RestIsText, ConcatEmptySeq
    <3>3. QED
      BY <2>2, <3>1, <3>2
  <2>3. CASE p \in b..(c - 1)
    <3>1. Rest[p] = <<input.text[p + 1]>> \o Rest[p + 1]
      BY <1>1, <2>3, RestUnfolds
    <3>2. Rest[p + 1] = Kept(p + 1) \o Rest[c]
      <4>1. p + 1 \in (p + 1)..n /\ p + 1 \in b..c
        BY <1>1, <2>3
      <4>2. p + 1 \in S
        BY <1>2, <4>1
      <4> HIDE DEF Kept
      <4>3. QED
        BY <4>1, <4>2
    <3>3. p + 1 \in 1..n /\ c \in (p + 1)..n
      BY <1>1, <2>3
    <3>4. Kept(p) = <<input.text[p + 1]>> \o Kept(p + 1)
      BY <1>1, <3>3, SubSeqRecursiveFirst
    <3>5. /\ <<input.text[p + 1]>> \in Seq(Char) /\ Rest[c] \in Seq(Char)
          /\ Kept(p + 1) \in Seq(Char)
      <4>1. \A i \in (p + 1 + 1)..c : input.text[i] \in Char
        BY <1>1, <3>3
      <4>2. Kept(p + 1) \in Seq(Char)
        BY <3>3, <4>1, SubSeqProperties
      <4>3. QED
        BY <1>1, <3>3, <4>2, RestIsText
    <3> HIDE DEF Kept
    <3>6. Rest[p] = Kept(p) \o Rest[c]
      <4>1. (<<input.text[p + 1]>> \o Kept(p + 1)) \o Rest[c] = <<input.text[p + 1]>> \o (Kept(p + 1) \o Rest[c])
        BY <3>5, JoinTexts
      <4>2. QED
        BY <3>1, <3>2, <3>4, <4>1, Zenon
    <3>7. QED
      BY <3>6
  <2>4. p \notin b..c \/ p = c \/ p \in b..(c - 1)
    OBVIOUS
  <2> HIDE DEF S
  <2>5. QED
    BY <2>1, <2>2, <2>3, <2>4
<1>3. 0..n \subseteq S
  <2> HIDE DEF n, S
  <2>1. \A p \in 0..n : (\A q \in (p + 1)..n : q \in S) => p \in S
    BY <1>2
  <2>2. QED
    BY <1>1, <2>1, Downward
<1>4. b \in 0..n /\ b \in b..c
  BY <1>1
<1> HIDE DEF n, Kept
<1>5. Rest[b] = Kept(b) \o Rest[c]
  BY <1>3, <1>4
<1>6. QED
  BY <1>5 DEF Kept

\* A part of a sequence whose elements are characters.
LEMMA PartOf ==
  ASSUME NEW s, NEW m \in Int, NEW n \in Int, \A i \in m..n : s[i] \in Char
  PROVE  /\ SubSeq(s, m, n) \in Seq(Char)
         /\ Len(SubSeq(s, m, n)) = IF m <= n THEN n - m + 1 ELSE 0
         /\ \A i \in 1..(n - m + 1) : SubSeq(s, m, n)[i] = s[m + i - 1]
BY SubSeqProperties

\* Two texts, one after the other.
LEMMA Joined ==
  ASSUME NEW s \in Seq(Char), NEW t \in Seq(Char), NEW m, m = Len(s), NEW n, n = Len(t)
  PROVE  /\ m \in Nat /\ n \in Nat
         /\ s \o t \in Seq(Char) /\ Len(s \o t) = m + n
         /\ \A i \in 1..m : (s \o t)[i] = s[i]
         /\ \A i \in 1..n : (s \o t)[m + i] = t[i]
<1>1. m \in Nat /\ n \in Nat
  OBVIOUS
<1>2. /\ s \o t \in Seq(Char) /\ Len(s \o t) = m + n
      /\ \A i \in 1..(m + n) : (s \o t)[i] = IF i <= m THEN s[i] ELSE t[i - m]
  BY ConcatProperties, Zenon
<1> DEFINE st == s \o t
<1> HIDE DEF st
<1>3. \A i \in 1..(m + n) : st[i] = IF i <= m THEN s[i] ELSE t[i - m]
  BY <1>2 DEF st
<1>4. (\A i \in 1..m : st[i] = s[i]) /\ (\A i \in 1..n : st[m + i] = t[i])
  BY <1>1, <1>3
<1>5. QED
  BY <1>1, <1>2, <1>4 DEF st

\* The beginning of a text is made of a shorter one and what is between them.
LEMMA SplitAt ==
  ASSUME NEW text \in Seq(Char), NEW b \in 0..Len(text), NEW c \in b..Len(text)
  PROVE  /\ SubSeq(text, 1, c) = SubSeq(text, 1, b) \o SubSeq(text, b + 1, c)
         /\ SubSeq(text, 1, b) \in Seq(Char) /\ SubSeq(text, b + 1, c) \in Seq(Char)
<1> DEFINE u == SubSeq(text, 1, b)
           v == SubSeq(text, b + 1, c)
           w == SubSeq(text, 1, c)
<1>1. \A i \in 1..Len(text) : text[i] \in Char
  OBVIOUS
<1>2. u \in Seq(Char) /\ Len(u) = b /\ \A i \in 1..b : u[i] = text[i]
  BY <1>1, SubSeqProperties
<1>3. v \in Seq(Char) /\ Len(v) = c - b /\ \A i \in 1..(c - b) : v[i] = text[b + i]
  <2>1. \A i \in (b + 1)..c : text[i] \in Char
    BY <1>1
  <2>2. /\ v \in Seq(Char) /\ Len(v) = IF b + 1 <= c THEN c - (b + 1) + 1 ELSE 0
        /\ \A i \in 1..(c - (b + 1) + 1) : v[i] = text[b + 1 + i - 1]
    BY <2>1, SubSeqProperties
  <2> HIDE DEF v
  <2>3. QED
    BY <2>2
<1>4. w \in Seq(Char) /\ Len(w) = c /\ \A i \in 1..c : w[i] = text[i]
  BY <1>1, SubSeqProperties
<1> HIDE DEF u, v, w
<1> DEFINE uv == u \o v
<1>5. /\ uv \in Seq(Char) /\ Len(uv) = b + (c - b)
      /\ \A i \in 1..b : uv[i] = u[i]
      /\ \A i \in 1..(c - b) : uv[b + i] = v[i]
  <2> HIDE DEF uv
  <2>1. u \in Seq(Char) /\ v \in Seq(Char) /\ Len(u) = b /\ Len(v) = c - b
    BY <1>2, <1>3
  <2>2. /\ uv \in Seq(Char) /\ Len(uv) = Len(u) + Len(v)
        /\ \A i \in 1..Len(u) : uv[i] = u[i]
        /\ \A i \in 1..Len(v) : uv[Len(u) + i] = v[i]
    BY <2>1, Joined DEF uv
  <2>3. QED
    BY <2>1, <2>2
<1> HIDE DEF uv
<1>6. ASSUME NEW i \in 1..c PROVE uv[i] = w[i]
  <2>1. CASE i <= b
    BY <1>2, <1>4, <1>5, <2>1
  <2>2. CASE i > b
    <3>1. i - b \in 1..(c - b) /\ b + (i - b) = i
      BY <2>2
    <3>2. uv[b + (i - b)] = v[i - b] /\ v[i - b] = text[b + (i - b)]
      BY <1>3, <1>5, <3>1
    <3>3. QED
      BY <1>4, <3>1, <3>2
  <2>3. QED
    BY <2>1, <2>2
<1>7. uv = w
  BY <1>4, <1>5, <1>6, SeqEqual
<1>8. QED
  BY <1>2, <1>3, <1>7 DEF u, v, w, uv

\* Replacing a range that ends where the source ends keeps what follows it.
LEMMA ReplaceInPlace ==
  ASSUME NEW text \in Seq(Char), NEW rest \in Seq(Char), NEW e \in Edit,
         e.lo <= e.hi, e.hi <= Len(text)
  PROVE  Replace(SubSeq(text, 1, e.hi) \o rest, e) = SubSeq(text, 1, e.lo) \o (e.new \o rest)
<1> DEFINE pre == SubSeq(text, 1, e.hi)
           out == pre \o rest
           left == SubSeq(text, 1, e.lo)
           m == Len(rest)
<1>1. e.lo \in Nat /\ e.hi \in Nat /\ e.new \in Seq(Char) /\ Len(text) \in Nat /\ m \in Nat
  BY DEF Edit, Text
<1>2. pre \in Seq(Char) /\ Len(pre) = e.hi /\ \A i \in 1..e.hi : pre[i] = text[i]
  <2>1. \A i \in 1..e.hi : text[i] \in Char
    BY <1>1
  <2>2. QED
    BY <1>1, <2>1, SubSeqProperties
<1>3. left \in Seq(Char) /\ Len(left) = e.lo /\ \A i \in 1..e.lo : left[i] = text[i]
  <2>1. \A i \in 1..e.lo : text[i] \in Char
    BY <1>1
  <2>2. QED
    BY <1>1, <2>1, SubSeqProperties
<1> HIDE DEF pre, left
<1>4. /\ out \in Seq(Char) /\ Len(out) = e.hi + m
      /\ \A i \in 1..e.hi : out[i] = pre[i]
      /\ \A i \in 1..m : out[e.hi + i] = rest[i]
  <2>1. e.hi = Len(pre) /\ m = Len(rest) /\ pre \in Seq(Char)
    BY <1>2
  <2> HIDE DEF m
  <2>2. QED
    BY <2>1, Joined
<1> HIDE DEF out, m
<1>5. SubSeq(out, 1, e.lo) = left
  <2>1. \A i \in 1..e.lo : out[i] = text[i] /\ out[i] \in Char
    BY <1>1, <1>2, <1>4
  <2>2. /\ SubSeq(out, 1, e.lo) \in Seq(Char) /\ Len(SubSeq(out, 1, e.lo)) = e.lo
        /\ \A i \in 1..e.lo : SubSeq(out, 1, e.lo)[i] = out[i]
    BY <1>1, <2>1, SubSeqProperties
  <2>3. \A i \in 1..e.lo : SubSeq(out, 1, e.lo)[i] = left[i]
    BY <1>3, <2>1, <2>2
  <2>4. QED
    BY <1>3, <2>2, <2>3, SeqEqual
<1>6. SubSeq(out, e.hi + 1, Len(out)) = rest
  <2> DEFINE end == e.hi + m
             tail == SubSeq(out, e.hi + 1, end)
  <2>1. end \in Nat /\ end - (e.hi + 1) + 1 = m
    BY <1>1
  <2>2. \A i \in (e.hi + 1)..end : out[i] \in Char
    BY <1>1, <1>4
  <2> HIDE DEF end
  <2>3. /\ tail \in Seq(Char) /\ Len(tail) = IF e.hi + 1 <= end THEN end - (e.hi + 1) + 1 ELSE 0
        /\ \A i \in 1..(end - (e.hi + 1) + 1) : tail[i] = out[e.hi + 1 + i - 1]
    <3>1. e.hi + 1 \in Int /\ end \in Int
      BY <1>1, <2>1
    <3>2. QED
      BY <2>2, <3>1, PartOf
  <2> HIDE DEF tail
  <2>4. Len(tail) = m
    BY <1>1, <2>1, <2>3 DEF end
  <2>5. ASSUME NEW i \in 1..m PROVE tail[i] = rest[i]
    <3>1. e.hi + 1 + i - 1 = e.hi + i
      BY <1>1
    <3>2. QED
      BY <1>4, <2>1, <2>3, <3>1
  <2>6. tail = rest
    BY <2>3, <2>4, <2>5, SeqEqual DEF m
  <2>7. QED
    BY <1>4, <2>6 DEF tail, end
<1>7. Replace(out, e) = left \o e.new \o rest
  <2>1. e.hi <= Len(out) /\ ~(e.lo > e.hi)
    BY <1>1, <1>4
  <2>2. QED
    BY <1>5, <1>6, <2>1, Zenon DEF Replace
<1>8. left \o e.new \o rest = left \o (e.new \o rest)
  BY <1>1, <1>3, JoinTexts
<1>9. QED
  BY <1>7, <1>8 DEF out, pre, left

\* What the scan knows: accepted fixes start before the ones to come, the
\* watermark is the end of one of them, and a permitted fix that has been left
\* out starts inside an accepted one.
Scanned ==
  /\ pc = "collect" => fixed = {} /\ watermark = 0
  /\ pc \in {"splice", "done"} => todo = {}
  /\ \A c \in fixed, d \in todo : MinStart(EditsOf(c)) <= MinStart(EditsOf(d))
  /\ watermark = 0 \/ \E c \in fixed : watermark = MaxEnd(EditsOf(c))
  /\ pc # "collect" =>
       \A d \in Candidates(input.report, allowUnsafe) \ (fixed \cup todo) :
         \E c \in fixed : Promise!RunsInto(d, c)

\* The edits that have been made.
Made == EditIds(input.report, fixed) \ pending

\* The offset lies between the edits still to be made and those made.
Between(b) ==
  /\ \A y \in pending : EditAt(y).hi <= b
  /\ \A x \in Made : b <= EditAt(x).lo

\* What the splice knows: edits to come are left of those made, left of which
\* the text is the source's and right of which it is what is promised.
Spliced ==
  /\ pc = "done" => pending = {}
  /\ pc \in {"splice", "done"} =>
       /\ \A x \in Made, y \in pending : EditAt(y).hi <= EditAt(x).lo
       /\ \A b \in 0..Len(input.text) :
            Between(b) => output = SubSeq(input.text, 1, b) \o Rest[b]

\* The promise means the same spans.
LEMMA SameSpans ==
  ASSUME NEW es
  PROVE  Promise!MinStart(es) = MinStart(es) /\ Promise!MaxEnd(es) = MaxEnd(es)
BY DEF Promise!MinStart, MinStart, Promise!MaxEnd, MaxEnd, Promise!Min, Min, Promise!Max, Max

LEMMA ScannedStep ==
  ASSUME IInv, Scanned, [Next]_vars
  PROVE  Scanned'
<1>1. \A d \in Candidates(input.report, allowUnsafe) : MinStart(EditsOf(d)) \in Nat /\ MaxEnd(EditsOf(d)) \in Nat
  <2>1. Len(input.text) \in Nat /\ input \in Inputs
    BY InputFacts DEF IInv, TypeOK, Text
  <2>2. QED
    BY <2>1, SpanFacts
<1>2. fixed \subseteq Candidates(input.report, allowUnsafe) /\ todo \subseteq Candidates(input.report, allowUnsafe)
      /\ watermark \in Nat
  BY InputFacts DEF IInv, TypeOK, Text
<1>3. ASSUME UNCHANGED <<input, allowUnsafe>>
      PROVE  /\ \A c : (EditsOf(c))' = EditsOf(c)
             /\ \A c, d : Promise!RunsInto(d, c)' <=> Promise!RunsInto(d, c)
  BY <1>3 DEF EditsOf, Promise!RunsInto
<1>4. CASE Collect
  BY <1>4 DEF Collect, Scanned
<1>5. ASSUME NEW d \in todo, Accept(d) PROVE Scanned'
  <2>1. /\ pc = "scan" /\ pc' = "scan" /\ UNCHANGED <<input, allowUnsafe>>
        /\ fixed' = fixed \cup {d} /\ todo' = todo \ {d}
        /\ watermark' = Max({watermark, MaxEnd(EditsOf(d))})
        /\ \A c \in todo \ {d} : Precedes(d, c)
    BY <1>5 DEF Accept, Leftmost
  <2>2. watermark' \in {watermark, MaxEnd(EditsOf(d))}
    <3>1. \E n \in Nat : {watermark, MaxEnd(EditsOf(d))} \subseteq 0..n
      <4>1. {watermark, MaxEnd(EditsOf(d))} \subseteq 0..Len(input.text) /\ Len(input.text) \in Nat
        BY SpanFacts, InputFacts DEF IInv, TypeOK, Text
      <4>2. QED
        BY <4>1
    <3>2. QED
      BY <2>1, <3>1, MaxIsGreatest
  <2>3. watermark' = 0 \/ \E c \in fixed' : watermark' = MaxEnd(EditsOf(c))
    BY <2>1, <2>2 DEF Scanned
  <2>4. \A c \in todo \ {d} : MinStart(EditsOf(d)) <= MinStart(EditsOf(c))
    BY <1>1, <1>2, <2>1 DEF Precedes
  <2>5. \A c \in fixed', e \in todo' : MinStart(EditsOf(c)) <= MinStart(EditsOf(e))
    BY <2>1, <2>4 DEF Scanned
  <2>6. \A e \in Candidates(input.report, allowUnsafe) \ (fixed' \cup todo') :
          \E c \in fixed' : Promise!RunsInto(e, c)
    BY <2>1 DEF Scanned
  <2>7. QED
    BY <1>3, <2>1, <2>3, <2>5, <2>6 DEF Scanned
<1>6. ASSUME NEW d \in todo, Skip(d) PROVE Scanned'
  <2>1. /\ pc = "scan" /\ pc' = "scan" /\ UNCHANGED <<input, allowUnsafe, fixed, watermark>>
        /\ todo' = todo \ {d} /\ MinStart(EditsOf(d)) < watermark
    BY <1>6 DEF Skip
  <2>2. PICK c \in fixed : watermark = MaxEnd(EditsOf(c))
    BY <1>1, <1>2, <2>1 DEF Scanned
  <2>3. MinStart(EditsOf(c)) <= MinStart(EditsOf(d))
    BY DEF Scanned
  <2>4. Promise!RunsInto(d, c)
    BY <2>1, <2>2, <2>3, SameSpans DEF Promise!RunsInto, EditsOf
  <2>5. \A e \in Candidates(input.report, allowUnsafe) \ (fixed \cup (todo \ {d})) :
          \E b \in fixed : Promise!RunsInto(e, b)
    BY <2>1, <2>4 DEF Scanned
  <2>6. QED
    BY <1>3, <2>1, <2>5 DEF Scanned
<1>7. CASE EndScan
  BY <1>3, <1>7 DEF EndScan, Scanned
<1>8. CASE UNCHANGED <<input, allowUnsafe, todo, fixed, watermark>> /\ (pc' = pc \/ (pc = "splice" /\ pc' = "done"))
  BY <1>3, <1>8 DEF Scanned
<1>9. QED
  BY <1>4, <1>5, <1>6, <1>7, <1>8 DEF Next, vars, Splice, Return, Returned

\* One edit further left.
LEMMA SplicedStep ==
  ASSUME NonEmptyEdits, IInv, Spliced, [Next]_vars
  PROVE  Spliced'
<1> DEFINE n == Len(input.text)
           ids == EditIds(input.report, fixed)
<1>1. /\ n \in Nat /\ input.text \in Seq(Char)
      /\ pending \subseteq ids
  BY InputFacts DEF IInv, TypeOK, Text
<1>2. ASSUME UNCHANGED <<input, fixed>>
      PROVE  /\ Rest' = Rest
             /\ \A x : EditAt(x)' = EditAt(x)
             /\ EditIds(input.report, fixed)' = ids
  BY <1>2 DEF Rest, Starting, EditAt, EditsOf, EditIds
<1>3. ASSUME UNCHANGED <<input, fixed, pending>>
      PROVE  Made' = Made /\ \A b : Between(b)' <=> Between(b)
  BY <1>2, <1>3 DEF Made, Between
<1>4. CASE UNCHANGED <<pc, input, fixed, pending, output>> \/ Return
  <2>1. /\ UNCHANGED <<input, fixed, pending, output>>
        /\ pc' = pc \/ (pc = "splice" /\ pc' = "done" /\ pending = {})
    BY <1>4 DEF Return
  <2>2. QED
    BY <1>2, <1>3, <2>1 DEF Spliced
<1>5. CASE pc' \notin {"splice", "done"}
  BY <1>5 DEF Spliced
<1>6. CASE EndScan
  <2>1. /\ pc' = "splice" /\ UNCHANGED <<input, fixed, output>> /\ pending' = ids
        /\ output = input.text
    BY <1>6 DEF EndScan, IInv, UntouchedUntilSplice
  <2>2. Made' = {}
    BY <1>2, <2>1 DEF Made
  <2>3. ASSUME NEW b \in 0..n, \A y \in ids : EditAt(y).hi <= b
        PROVE  output = SubSeq(input.text, 1, b) \o Rest[b]
    <3>1. ASSUME NEW q \in b..(n - 1) PROVE Starting(q) = {}
      <4>1. ASSUME NEW y \in ids PROVE EditAt(y).lo # q
        <5>1. EditAt(y).lo < EditAt(y).hi /\ EditAt(y).lo \in Nat /\ EditAt(y).hi \in Nat /\ EditAt(y).hi <= b
          BY <1>1, <2>3, OneStarts
        <5>2. QED
          BY <1>1, <5>1
      <4>2. QED
        BY <4>1 DEF Starting
    <3>2. n \in b..n /\ n \in 0..n
      BY <1>1
    <3>3. Rest[b] = SubSeq(input.text, b + 1, n) \o Rest[n]
      BY <3>1, <3>2, RestKeeps
    <3>4. /\ SubSeq(input.text, 1, n) = SubSeq(input.text, 1, b) \o SubSeq(input.text, b + 1, n)
          /\ SubSeq(input.text, b + 1, n) \in Seq(Char)
      BY <1>1, <3>2, SplitAt
    <3>5. Rest[n] = <<>>
      BY RestUnfolds
    <3>6. SubSeq(input.text, 1, n) = input.text
      BY <1>1, SubSeqFull
    <3>7. SubSeq(input.text, b + 1, n) \o <<>> = SubSeq(input.text, b + 1, n)
      BY <3>4, ConcatEmptySeq
    <3>8. QED
      BY <2>1, <3>3, <3>4, <3>5, <3>6, <3>7, Zenon
  <2>4. QED
    BY <1>2, <2>1, <2>2, <2>3 DEF Spliced, Between
<1>7. ASSUME NEW x \in pending, Splice(x) PROVE Spliced'
  <2> DEFINE e == EditAt(x)
  <2>1. /\ pc = "splice" /\ pc' = "splice" /\ UNCHANGED <<input, fixed>>
        /\ pending' = pending \ {x} /\ output' = Replace(output, e)
        /\ \A y \in pending \ {x} : SplicedBefore(x, y)
    BY <1>7 DEF Splice, Rightmost
  <2>2. \A y \in ids : /\ EditAt(y).lo \in Nat /\ EditAt(y).hi \in Nat /\ EditAt(y).lo < EditAt(y).hi
                       /\ EditAt(y).hi <= n /\ EditAt(y) \in Edit
    BY <1>1, OneStarts, PendingFacts DEF IInv
  <2>3. Made' = Made \cup {x}
    BY <1>1, <1>2, <2>1 DEF Made
  <2>4. ASSUME NEW y \in pending \ {x} PROVE EditAt(y).hi <= e.lo
    <3>1. Disjoint(e, EditAt(y)) /\ EditAt(y).lo <= e.lo
      BY <1>1, <2>1, <2>2 DEF IInv, NoOverlap, SplicedBefore
    <3>2. QED
      BY <1>1, <2>2, <3>1 DEF Disjoint
  <2>5. \A z \in Made', y \in pending' : EditAt(y).hi <= EditAt(z).lo
    BY <2>1, <2>3, <2>4 DEF Spliced
  <2>6. output = SubSeq(input.text, 1, e.hi) \o Rest[e.hi]
    <3>1. ASSUME NEW y \in pending PROVE EditAt(y).hi <= e.hi
      BY <1>1, <2>2, <2>4
    <3>2. Between(e.hi)
      BY <2>1, <3>1 DEF Between, Spliced
    <3>3. e.hi \in 0..n
      BY <1>1, <2>2
    <3>4. QED
      BY <2>1, <3>2, <3>3 DEF Spliced
  <2>7. output' = SubSeq(input.text, 1, e.lo) \o Rest[e.lo]
    <3>1. Rest[e.lo] = e.new \o Rest[e.hi]
      BY <1>1, RestUnfolds
    <3>2. Rest[e.hi] \in Seq(Char) /\ e \in Edit /\ e.lo <= e.hi /\ e.hi <= Len(input.text)
      BY <1>1, <2>2, RestIsText
    <3>3. Replace(SubSeq(input.text, 1, e.hi) \o Rest[e.hi], e) = SubSeq(input.text, 1, e.lo) \o (e.new \o Rest[e.hi])
      BY <1>1, <3>2, ReplaceInPlace
    <3>4. QED
      BY <2>1, <2>6, <3>1, <3>3, Zenon
  <2>8. ASSUME NEW b \in 0..n, \A y \in pending \ {x} : EditAt(y).hi <= b, \A z \in Made \cup {x} : b <= EditAt(z).lo
        PROVE  output' = SubSeq(input.text, 1, b) \o Rest[b]
    <3>1. e.lo \in b..n /\ e.lo \in 0..n
      BY <1>1, <2>2, <2>8
    <3>2. ASSUME NEW q \in b..(e.lo - 1) PROVE Starting(q) = {}
      <4>1. ASSUME NEW y \in ids PROVE EditAt(y).lo # q
        <5>1. CASE y \in pending \ {x}
          BY <1>1, <2>2, <2>8, <5>1
        <5>2. CASE y = x
          BY <1>1, <2>2, <5>2
        <5>3. CASE y \in Made
          <6>1. e.hi <= EditAt(y).lo
            BY <2>1, <5>3 DEF Spliced
          <6>2. QED
            BY <1>1, <2>2, <6>1
        <5>4. QED
          BY <5>1, <5>2, <5>3 DEF Made
      <4>2. QED
        BY <4>1 DEF Starting
    <3>3. Rest[b] = SubSeq(input.text, b + 1, e.lo) \o Rest[e.lo]
      BY <3>1, <3>2, RestKeeps
    <3>4. /\ SubSeq(input.text, 1, e.lo) = SubSeq(input.text, 1, b) \o SubSeq(input.text, b + 1, e.lo)
          /\ SubSeq(input.text, 1, b) \in Seq(Char) /\ SubSeq(input.text, b + 1, e.lo) \in Seq(Char)
      BY <1>1, <3>1, SplitAt
    <3>5. Rest[e.lo] \in Seq(Char)
      BY <3>1, RestIsText
    <3>6. (SubSeq(input.text, 1, b) \o SubSeq(input.text, b + 1, e.lo)) \o Rest[e.lo]
            = SubSeq(input.text, 1, b) \o (SubSeq(input.text, b + 1, e.lo) \o Rest[e.lo])
      BY <3>4, <3>5, JoinTexts
    <3>7. QED
      BY <2>7, <3>3, <3>4, <3>6, Zenon
  <2>9. QED
    BY <1>2, <2>1, <2>3, <2>5, <2>8 DEF Spliced, Between
<1>8. QED
  BY <1>4, <1>5, <1>6, <1>7
     DEF Next, vars, Collect, Accept, Skip, Returned, IInv, TypeOK

\* The terms of the promise are those of the engine.
LEMMA SameTerms ==
  /\ \A r, a : Promise!Candidates(r, a) = Candidates(r, a)
  /\ \A r, F : Promise!EditIds(r, F) = EditIds(r, F)
  /\ \A e, f : Promise!Disjoint(e, f) <=> Disjoint(e, f)
  /\ \A x : Promise!EditAt(x) = EditAt(x)
BY DEF Promise!Candidates, Candidates, Promise!WellFormed, WellFormed, Promise!EditIds, EditIds,
       Promise!Disjoint, Disjoint, Promise!EditAt, EditAt, EditsOf

LEMMA AcceptedIsAcceptable ==
  ASSUME IInv, Scanned, pc = "splice"
  PROVE  Promise!Acceptable(fixed)
<1>1. fixed \subseteq Candidates(input.report, allowUnsafe) /\ todo = {}
  BY DEF IInv, TypeOK, Scanned
<1>2. \A d \in Candidates(input.report, allowUnsafe) \ fixed : \E c \in fixed : Promise!RunsInto(d, c)
  BY <1>1 DEF Scanned
<1>3. \A x, y \in EditIds(input.report, fixed) : x # y => Disjoint(EditAt(x), EditAt(y))
  BY DEF IInv, NoOverlap
<1>4. QED
  BY <1>1, <1>2, <1>3, SameTerms DEF Promise!Acceptable

LEMMA ReturnsRendered ==
  ASSUME NonEmptyEdits, IInv, Spliced, pc = "splice", pending = {}
  PROVE  output = Promise!Rendered(fixed)
<1>1. Promise!Rendered(fixed) = Rest[0]
  BY Zenon DEF Promise!Rendered, Rest, Starting, Promise!EditIds, EditIds, Promise!EditAt, EditAt, EditsOf
<1>2. 0 \in 0..Len(input.text) /\ input.text \in Seq(Char)
  BY InputFacts DEF IInv, TypeOK, Text
<1>3. Between(0)
  BY OneStarts DEF Between, Made
<1>4. output = SubSeq(input.text, 1, 0) \o Rest[0]
  BY <1>2, <1>3 DEF Spliced
<1>5. SubSeq(input.text, 1, 0) = <<>>
  BY SubSeqEmpty
<1>6. <<>> \o Rest[0] = Rest[0]
  BY <1>2, RestIsText, ConcatEmptySeq
<1>7. QED
  BY <1>1, <1>4, <1>5, <1>6, Zenon

LEMMA PromiseStep ==
  ASSUME NonEmptyEdits, IInv, Scanned, Spliced, [Next]_vars
  PROVE  [Promise!Next]_(Promise!vars)
<1>1. CASE Return
  <2>1. /\ pc = "splice" /\ pc' = "done" /\ pending = {}
        /\ UNCHANGED <<input, allowUnsafe, fixed, output>>
    BY <1>1 DEF Return
  <2>2. Promise!Acceptable(fixed) /\ output = Promise!Rendered(fixed)
    BY <2>1, AcceptedIsAcceptable, ReturnsRendered
  <2>3. Promise!Apply(fixed)
    BY <2>1, <2>2 DEF Promise!Apply
  <2>4. fixed \in SUBSET DOMAIN input.report
    BY DEF IInv, TypeOK, Candidates
  <2>5. QED
    BY <2>3, <2>4 DEF Promise!Next
<1>2. CASE UNCHANGED <<input, allowUnsafe>> /\ pc # "done" /\ pc' # "done"
  BY <1>2 DEF Promise!vars
<1>3. CASE UNCHANGED vars
  BY <1>3 DEF vars, Promise!vars
<1>4. QED
  BY <1>1, <1>2, <1>3
     DEF Next, vars, Collect, Accept, Skip, EndScan, Splice, Returned

\* THEOREM: when every edit covers at least one byte, a call of the engine does
\* what is promised of it: it returns the source with a set of permitted fixes
\* made at once and whole, and a permitted fix it leaves out runs into one made.
THEOREM EngineKeepsItsPromise ==
  ASSUME NonEmptyEdits
  PROVE  Spec => ImplementsPromise
<1>1. Init => Scanned /\ Spliced
  BY DEF Init, Scanned, Spliced
<1>2. Init => Promise!Init
  BY DEF Init, Promise!Init
<1>3. IInv /\ Scanned /\ [Next]_vars => Scanned'
  BY ScannedStep
<1>4. IInv /\ Spliced /\ [Next]_vars => Spliced'
  BY SplicedStep
<1>5. IInv /\ Scanned /\ Spliced /\ [Next]_vars => [Promise!Next]_(Promise!vars)
  BY PromiseStep
<1>6. QED
  BY <1>1, <1>2, <1>3, <1>4, <1>5, Invariance, PTL DEF Spec, ImplementsPromise, Promise!Spec

-----------------------------------------------------------------------------
(* Rule SLP010 under the engine: its deletions do not meet, so all are made,  *)
(* and what they leave of a text has no banned comment.                      *)

\* A comment is a hash and what follows up to the end of its line.
LEMMA CommentFacts ==
  ASSUME NEW text \in Seq(Char), NEW c \in Comments(text)
  PROVE  /\ c = [lo |-> c.lo, hi |-> c.hi]
         /\ c.lo \in Nat /\ c.hi \in Nat /\ c.lo < c.hi /\ c.hi <= Len(text)
         /\ text[c.lo + 1] = "#" /\ CommentStart(text, c.lo + 1)
         /\ \A q \in (c.lo + 1)..c.hi : ~EndsLine(text, q)
         /\ c.hi < Len(text) => EndsLine(text, c.hi + 1)
<1>1. PICK p \in DOMAIN text : CommentStart(text, p) /\ c = [lo |-> p - 1, hi |-> CommentEnd(text, p)]
  BY DEF Comments
<1> DEFINE n == Len(text)
           S == {q \in p..n : EndsLine(text, q + 1)} \cup {n}
<1>2. n \in Nat /\ p \in 1..n /\ text[p] = "#" /\ DOMAIN text = 1..n
  BY <1>1 DEF CommentStart
<1>3. CommentEnd(text, p) = Min(S)
  BY DEF CommentEnd
<1>4. S \subseteq Nat /\ S # {} /\ \A q \in S : q \in p..n
  <2>1. n \in S /\ n \in p..n /\ \A q \in p..n : q \in Nat
    BY <1>2
  <2>2. \A q \in S : q \in p..n
    BY <2>1
  <2> HIDE DEF S, n
  <2>3. QED
    BY <2>1, <2>2
<1>5. Min(S) \in S /\ \A y \in S : Min(S) <= y
  BY <1>4, MinIsLeast
<1> DEFINE h == Min(S)
<1>6. h \in p..n /\ (h < n => EndsLine(text, h + 1))
  <2>1. \A q \in S : q = n \/ EndsLine(text, q + 1)
    OBVIOUS
  <2>2. n \in Nat /\ \A q \in p..n : q \in Int
    BY <1>2
  <2>3. h \in S /\ h \in p..n
    BY <1>4, <1>5
  <2> HIDE DEF S, n, h
  <2>4. QED
    BY <2>1, <2>2, <2>3
<1>7. ~EndsLine(text, p)
  BY <1>2 DEF EndsLine, CR, LF
<1>8. ASSUME NEW q \in p..h, EndsLine(text, q) PROVE FALSE
  <2>1. q # p
    BY <1>7, <1>8
  <2>2. q - 1 \in p..n /\ EndsLine(text, (q - 1) + 1) /\ q - 1 < h
    BY <1>2, <1>6, <1>8, <2>1
  <2>3. q - 1 \in S
    BY <2>2
  <2>4. QED
    BY <1>5, <1>6, <2>2, <2>3
<1> HIDE DEF h, n
<1>9. c.lo = p - 1 /\ c.hi = h /\ c = [lo |-> c.lo, hi |-> c.hi]
  BY <1>1, <1>3 DEF h
<1>10. c.lo + 1 = p /\ c.lo \in Nat /\ c.hi \in Nat /\ c.lo < c.hi /\ c.hi <= n
  BY <1>2, <1>6, <1>9
<1>11. QED
  BY <1>1, <1>2, <1>6, <1>8, <1>9, <1>10 DEF n

\* Comments lie on lines of their own, so the end of a line is between two.
LEMMA CommentsApart ==
  ASSUME NEW text \in Seq(Char), NEW c \in Comments(text), NEW d \in Comments(text)
  PROVE  /\ c.lo = d.lo => c = d
         /\ c.lo < d.lo => c.hi < d.lo /\ EndsLine(text, c.hi + 1)
<1>1. /\ c.lo \in Nat /\ c.hi \in Nat /\ c.lo < c.hi /\ c.hi <= Len(text) /\ text[c.lo + 1] = "#"
      /\ \A q \in (c.lo + 1)..c.hi : ~EndsLine(text, q)
      /\ c.hi < Len(text) => EndsLine(text, c.hi + 1)
      /\ d.lo \in Nat /\ d.hi \in Nat /\ d.lo < d.hi /\ d.hi <= Len(text) /\ text[d.lo + 1] = "#"
      /\ CommentStart(text, d.lo + 1)
      /\ \A q \in (d.lo + 1)..d.hi : ~EndsLine(text, q)
      /\ d.hi < Len(text) => EndsLine(text, d.hi + 1)
      /\ Len(text) \in Nat
      /\ c = [lo |-> c.lo, hi |-> c.hi] /\ d = [lo |-> d.lo, hi |-> d.hi]
  BY CommentFacts
<1>2. ASSUME c.lo < d.lo PROVE c.hi < d.lo /\ EndsLine(text, c.hi + 1)
  <2>1. c.lo + 1 \in 1..((d.lo + 1) - 1)
    BY <1>1, <1>2
  <2>2. PICK r \in (c.lo + 1)..(d.lo + 1) : EndsLine(text, r)
    BY <1>1, <2>1 DEF CommentStart
  <2>3. r # d.lo + 1
    BY <1>1, <2>2 DEF EndsLine, CR, LF
  <2>4. ~(r <= c.hi)
    BY <1>1, <2>2
  <2>5. QED
    BY <1>1, <2>2, <2>3, <2>4
<1>3. ASSUME c.lo = d.lo PROVE c = d
  <2>1. ~(c.hi < d.hi)
    <3>1. c.hi < d.hi => c.hi + 1 \in (d.lo + 1)..d.hi /\ c.hi < Len(text)
      BY <1>1, <1>3
    <3>2. QED
      BY <1>1, <3>1
  <2>2. ~(d.hi < c.hi)
    <3>1. d.hi < c.hi => d.hi + 1 \in (c.lo + 1)..c.hi /\ d.hi < Len(text)
      BY <1>1, <1>3
    <3>2. QED
      BY <1>1, <3>1
  <2>3. c.hi = d.hi
    BY <1>1, <2>1, <2>2
  <2>4. QED
    BY <1>1, <1>3, <2>3
<1>4. QED
  BY <1>2, <1>3

\* The last LF before a comment, and where its line starts.
LEMMA LineStartFacts ==
  ASSUME NEW text \in Seq(Char), NEW c \in Comments(text)
  PROVE  /\ LineStart(text, c) \in 0..c.lo
         /\ LineStart(text, c) = 0 \/ text[LineStart(text, c)] = LF
         /\ \A p \in (LineStart(text, c) + 1)..c.lo : text[p] # LF
<1>1. c.lo \in Nat
  BY CommentFacts
<1> DEFINE S == {p \in 1..c.lo : text[p] = LF} \cup {0}
<1>2. S \subseteq 0..c.lo /\ S # {}
  BY <1>1
<1>3. Max(S) \in S /\ \A y \in S : y <= Max(S)
  BY <1>1, <1>2, MaxIsGreatest
<1>4. LineStart(text, c) = Max(S)
  BY DEF LineStart
<1> DEFINE m == Max(S)
<1>5. m \in 0..c.lo /\ (m = 0 \/ text[m] = LF)
  BY <1>2, <1>3
<1>6. ASSUME NEW p \in (m + 1)..c.lo PROVE text[p] # LF
  <2>1. p \in 1..c.lo /\ ~(p <= m)
    BY <1>1, <1>5
  <2>2. QED
    BY <1>3, <2>1
<1>7. QED
  BY <1>4, <1>5, <1>6

\* A deletion takes its comment, blanks and the like in front of it, and no more
\* than a terminator behind it.
LEMMA DeletionFacts ==
  ASSUME NEW text \in Seq(Char), NEW c \in Comments(text)
  PROVE  LET e == DeletionEdit(text, c)
         IN  /\ e.new = <<>> /\ e.lo \in Nat /\ e.hi \in Nat
             /\ LineStart(text, c) <= e.lo /\ e.lo <= c.lo /\ c.hi <= e.hi /\ e.hi <= Len(text)
             /\ \A q \in (e.lo + 1)..c.lo : text[q] \in {" ", CR, BOM}
             /\ \A q \in (c.hi + 1)..e.hi : text[q] \in {CR, LF}
             /\ e.hi <= TerminatorEnd(text, c)
             /\ OwnLine(text, c) => e.lo = LineStart(text, c)
             /\ ~OwnLine(text, c) => \A q \in (e.lo + 1)..c.lo : text[q] = " "
<1> DEFINE cl == c.lo
           ch == c.hi
           s == LineStart(text, c)
           t == TerminatorEnd(text, c)
           n == Len(text)
           a == IF ch < n /\ text[ch + 1] = CR THEN ch + 1 ELSE ch
           b == BlanksStart(text, c)
           B == {r \in s..cl : \A q \in (r + 1)..cl : text[q] = " "}
           own == OwnLine(text, c)
           e == DeletionEdit(text, c)
<1>1. /\ cl \in Nat /\ ch \in Nat /\ cl < ch /\ ch <= n /\ n \in Nat
      /\ s \in 0..cl
  BY CommentFacts, LineStartFacts
<1>2. t = IF a < n /\ text[a + 1] = LF THEN a + 1 ELSE a
  BY DEF TerminatorEnd
<1>3. b = Min(B)
  BY DEF BlanksStart
<1>4. own => e = [lo |-> s, hi |-> t, new |-> <<>>]
  BY DEF DeletionEdit
<1>5. ~own => e = [lo |-> b, hi |-> ch, new |-> <<>>]
  BY DEF DeletionEdit
<1>6. own => \A q \in (s + 1)..cl : text[q] \in {" ", CR, BOM}
  BY DEF OwnLine
<1> HIDE DEF cl, ch, s, t, n, b, own, e
<1>7. a \in ch..n /\ (a = ch \/ (a = ch + 1 /\ text[a] = CR))
  BY <1>1
<1> HIDE DEF a
<1>8. t \in ch..n /\ (t = a \/ (t = a + 1 /\ text[t] = LF))
  BY <1>1, <1>2, <1>7
<1>9. \A q \in (ch + 1)..t : text[q] \in {CR, LF}
  <2>1. \A q \in (ch + 1)..t : q = t \/ q = a
    BY <1>1, <1>7, <1>8
  <2>2. QED
    BY <1>1, <1>7, <1>8, <2>1
<1>10. b \in s..cl /\ \A q \in (b + 1)..cl : text[q] = " "
  <2>1. cl \in s..cl /\ \A r \in s..cl : r \in Nat
    BY <1>1
  <2>2. \A q \in (cl + 1)..cl : FALSE
    BY <1>1
  <2>3. cl \in B
    BY <2>1, <2>2
  <2>4. \A r \in B : r \in Nat /\ r \in s..cl /\ \A q \in (r + 1)..cl : text[q] = " "
    BY <2>1
  <2> HIDE DEF B
  <2>5. B \subseteq Nat /\ B # {}
    BY <2>3, <2>4
  <2>6. Min(B) \in B
    BY <2>5, MinIsLeast
  <2>7. QED
    BY <1>3, <2>4, <2>6
<1> HIDE DEF B
<1>11. /\ s \in Nat /\ b \in Nat /\ t \in Nat /\ s <= b /\ s <= cl /\ b <= cl
       /\ ch <= n /\ ch <= t /\ t <= n
  <2>1. b \in s..cl /\ t \in ch..n
    BY <1>8, <1>10
  <2>2. QED
    BY <1>1, <2>1
<1>12. own => e.lo = s /\ e.hi = t /\ e.new = <<>>
  BY <1>4
<1>13. ~own => e.lo = b /\ e.hi = ch /\ e.new = <<>>
  BY <1>5
<1>14. /\ e.new = <<>> /\ e.lo \in Nat /\ e.hi \in Nat
       /\ s <= e.lo /\ e.lo <= cl /\ ch <= e.hi /\ e.hi <= n /\ e.hi <= t
  BY <1>1, <1>11, <1>12, <1>13
<1>15. ~own => \A q \in (e.lo + 1)..cl : text[q] = " "
  BY <1>10, <1>13
<1>16. \A q \in (e.lo + 1)..cl : text[q] \in {" ", CR, BOM}
  BY <1>6, <1>12, <1>15
<1>17. \A q \in (ch + 1)..e.hi : text[q] \in {CR, LF}
  <2>1. CASE own
    BY <1>9, <1>12, <2>1
  <2>2. CASE ~own
    <3>1. \A q \in (ch + 1)..ch : FALSE
      BY <1>1
    <3>2. QED
      BY <1>13, <2>2, <3>1
  <2>3. QED
    BY <2>1, <2>2
<1>18. QED
  BY <1>12, <1>14, <1>15, <1>16, <1>17 DEF cl, ch, s, t, n, own, e

\* The deletion of a comment is over where that of the next begins.
LEMMA DeletionsApart ==
  ASSUME NEW text \in Seq(Char), NEW c \in Comments(text), NEW d \in Comments(text), c.lo < d.lo
  PROVE  DeletionEdit(text, c).hi <= DeletionEdit(text, d).lo
<1> DEFINE x == DeletionEdit(text, c).hi
           y == DeletionEdit(text, d).lo
           s == LineStart(text, d)
           n == Len(text)
           cl == c.lo
           ch == c.hi
           dl == d.lo
           ends(q) == EndsLine(text, q)
<1>1. /\ cl \in Nat /\ ch \in Nat /\ cl < ch /\ text[cl + 1] = "#"
      /\ dl \in Nat /\ text[dl + 1] = "#" /\ dl < n /\ n \in Nat
      /\ ch < dl /\ ends(ch + 1)
      /\ \A q \in (cl + 1)..ch : ~ends(q)
  BY CommentFacts, CommentsApart
<1>2. /\ x \in Nat /\ ch <= x /\ x <= n /\ x <= TerminatorEnd(text, c)
      /\ \A q \in (ch + 1)..x : text[q] \in {CR, LF}
  BY DeletionFacts
<1>3. /\ y \in Nat /\ s <= y /\ y <= dl
      /\ \A q \in (y + 1)..dl : text[q] \in {" ", CR, BOM}
  BY DeletionFacts
<1> DEFINE own == OwnLine(text, d)
<1>13. own => y = s
  BY DeletionFacts
<1>14. ~own => \A q \in (y + 1)..dl : text[q] = " "
  BY DeletionFacts
<1>4. s \in 0..dl /\ (s = 0 \/ text[s] = LF) /\ \A p \in (s + 1)..dl : text[p] # LF
  BY LineStartFacts
<1>5. TerminatorEnd(text, c) \in Nat /\ (TerminatorEnd(text, c) <= ch + 1 \/ (text[ch + 1] = CR /\ TerminatorEnd(text, c) = ch + 2))
  <2> DEFINE a == IF ch < n /\ text[ch + 1] = CR THEN ch + 1 ELSE ch
  <2>1. TerminatorEnd(text, c) = IF a < n /\ text[a + 1] = LF THEN a + 1 ELSE a
    BY DEF TerminatorEnd
  <2>2. a = ch \/ (a = ch + 1 /\ text[ch + 1] = CR)
    OBVIOUS
  <2> HIDE DEF a, n, ch
  <2>3. QED
    BY <1>1, <2>1, <2>2
<1>6. \A q \in 1..n : ends(q) <=> text[q] \in {CR, LF}
  BY DEF EndsLine
<1>7. CR # LF /\ CR # " " /\ LF # " " /\ LF # BOM /\ CR # BOM /\ "#" \notin {" ", CR, LF, BOM}
  BY DEF CR, LF, BOM
<1> HIDE DEF own, x, y, s, n, cl, ch, dl, ends
<1>8. x <= dl
  <2>1. ASSUME dl < x PROVE FALSE
    <3>1. dl + 1 \in (ch + 1)..x
      BY <1>1, <1>2, <2>1
    <3>2. QED
      BY <1>1, <1>2, <1>7, <3>1
  <2>2. QED
    BY <1>1, <1>2, <2>1
<1>9. ASSUME ~own, y < x PROVE FALSE
  <2>1. x > ch
    <3>1. ASSUME x = ch PROVE FALSE
      <4>1. ch + 1 \in (y + 1)..dl /\ ch + 1 \in 1..n
        <5>1. y \in Nat /\ ch \in Nat /\ dl \in Nat /\ n \in Nat /\ ch < dl /\ dl < n /\ y < ch
          BY <1>1, <1>3, <1>9, <3>1
        <5>2. QED
          BY <5>1
      <4>2. text[ch + 1] = " "
        BY <1>9, <1>14, <4>1
      <4>3. QED
        BY <1>1, <1>6, <1>7, <4>1, <4>2
    <3>2. QED
      BY <1>1, <1>2, <3>1
  <2>2. x \in (y + 1)..dl /\ x \in (ch + 1)..x
    <3>1. y \in Nat /\ x \in Nat /\ ch \in Nat /\ dl \in Nat /\ x <= dl /\ y < x /\ ch < x
      BY <1>1, <1>2, <1>3, <1>8, <1>9, <2>1
    <3>2. QED
      BY <3>1
  <2>3. QED
    BY <1>2, <1>7, <1>9, <1>14, <2>2
<1>10. ASSUME own, y < x PROVE FALSE
  <2>1. y = s
    BY <1>10, <1>13
  <2>2. s > cl
    <3>1. ASSUME s <= cl PROVE FALSE
      <4>1. cl + 1 \in (y + 1)..dl
        BY <1>1, <1>4, <2>1, <3>1
      <4>2. QED
        BY <1>1, <1>3, <1>7, <4>1
    <3>2. QED
      BY <1>1, <1>4, <3>1
  <2>3. s > ch
    <3>1. ASSUME s <= ch PROVE FALSE
      <4>1. s \in (cl + 1)..ch /\ s \in 1..n /\ s # 0
        BY <1>1, <1>4, <2>2, <3>1
      <4>2. text[s] = LF
        BY <1>4, <4>1
      <4>3. QED
        BY <1>1, <1>6, <4>1, <4>2
    <3>2. QED
      BY <1>1, <1>4, <3>1
  <2>4. text[ch + 1] = CR /\ s = ch + 1
    BY <1>1, <1>2, <1>4, <1>5, <1>10, <2>1, <2>3
  <2>5. text[s] = LF
    BY <1>1, <1>4, <2>4
  <2>6. QED
    BY <1>7, <2>4, <2>5
<1>11. x <= y
  <2>1. x \in Nat /\ y \in Nat
    BY <1>2, <1>3
  <2>2. QED
    BY <1>9, <1>10, <2>1
<1>12. QED
  BY <1>11 DEF x, y

\* The comments of a text are finitely many.
LEMMA CommentsFinite ==
  ASSUME NEW text \in Seq(Char)
  PROVE  IsFiniteSet(Banned(text))
<1> DEFINE n == Len(text)
           L == [c \in Comments(text) |-> c.lo]
<1>1. n \in Nat /\ IsFiniteSet(0..n)
  BY FS_Interval
<1>2. ASSUME NEW c \in Comments(text) PROVE L[c] \in 0..n
  BY <1>1, CommentFacts
<1>3. ASSUME NEW c \in Comments(text), NEW d \in Comments(text), L[c] = L[d] PROVE c = d
  BY <1>3, CommentsApart
<1>4. L \in Injection(Comments(text), 0..n)
  <2>1. L = [c \in Comments(text) |-> L[c]]
    OBVIOUS
  <2> HIDE DEF L, n
  <2>2. QED
    BY <1>2, <1>3, <2>1 DEF Injection, IsInjective
<1>5. IsFiniteSet(Comments(text))
  BY <1>1, <1>4, FS_Injection
<1>6. QED
  BY <1>5, FS_Subset DEF Banned

\* The report numbers the banned comments of a text.
LEMMA NthFacts ==
  ASSUME NEW text \in Seq(Char)
  PROVE  /\ Cardinality(Banned(text)) \in Nat
         /\ \A i \in 1..Cardinality(Banned(text)) : Nth(Banned(text), i) \in Banned(text)
         /\ \A i, j \in 1..Cardinality(Banned(text)) :
              Nth(Banned(text), i) = Nth(Banned(text), j) => i = j
         /\ \A c \in Banned(text) : \E i \in 1..Cardinality(Banned(text)) : Nth(Banned(text), i) = c
<1> DEFINE B == Banned(text)
           k == Cardinality(B)
           Below(c) == {d \in B : d.lo <= c.lo}
           L == [c \in B |-> Below(c)]
<1>1. B \subseteq Comments(text) /\ IsFiniteSet(B)
  BY CommentsFinite DEF Banned
<1>2. \A c \in B : c.lo \in Nat
  BY <1>1, CommentFacts
<1>3. \A c, d \in B : c # d => c.lo # d.lo
  BY <1>1, CommentsApart
<1> HIDE DEF B
<1>4. \A c \in B : L[c] \subseteq B /\ c \in L[c]
  BY <1>2
<1>5. ASSUME NEW c \in B, NEW d \in B, c.lo < d.lo PROVE L[c] \subseteq L[d] /\ d \notin L[c]
  <2>1. c.lo \in Nat /\ d.lo \in Nat
    BY <1>2
  <2>2. ASSUME NEW b \in B, b.lo <= c.lo PROVE b.lo <= d.lo
    BY <1>2, <1>5, <2>1, <2>2
  <2>3. ~(d.lo <= c.lo)
    BY <1>5, <2>1
  <2>4. QED
    BY <2>2, <2>3
<1>6. ASSUME NEW c \in B, NEW d \in B, c # d
      PROVE  \/ L[c] \subseteq L[d] /\ d \notin L[c]
             \/ L[d] \subseteq L[c] /\ c \notin L[d]
  <2>1. c.lo < d.lo \/ d.lo < c.lo
    BY <1>2, <1>3, <1>6
  <2> HIDE DEF L
  <2>2. QED
    BY <1>5, <2>1
<1>7. \A c \in B : L[c] = Below(c)
  OBVIOUS
<1> HIDE DEF L
<1>8. /\ k \in Nat
      /\ \A c \in B : Cardinality(L[c]) \in 1..k
      /\ \A c, d \in B : Cardinality(L[c]) = Cardinality(L[d]) => c = d
      /\ \A i \in 1..k : \E c \in B : Cardinality(L[c]) = i
  BY <1>1, <1>4, <1>6, LadderFacts
<1>9. \A i : Nth(B, i) = CHOOSE c \in B : Cardinality(Below(c)) = i
  BY Zenon DEF Nth
<1> HIDE DEF Below
<1>10. ASSUME NEW i \in 1..k PROVE Nth(B, i) \in B /\ Cardinality(L[Nth(B, i)]) = i
  <2>1. \E c \in B : Cardinality(Below(c)) = i
    BY <1>7, <1>8
  <2>2. Nth(B, i) \in B /\ Cardinality(Below(Nth(B, i))) = i
    BY <1>9, <2>1
  <2>3. QED
    BY <1>7, <2>2
<1>11. ASSUME NEW c \in B PROVE \E i \in 1..k : Nth(B, i) = c
  <2>1. Cardinality(L[c]) \in 1..k
    BY <1>8
  <2>2. Nth(B, Cardinality(L[c])) = c
    BY <1>8, <1>10, <2>1
  <2>3. QED
    BY <2>1, <2>2
<1>12. QED
  BY <1>8, <1>10, <1>11 DEF B

\* What the report of a text offers: one deletion a comment, in their order.
LEMMA ReportFacts ==
  ASSUME NEW text \in Seq(Char), NEW i \in DOMAIN Report(text)
  PROVE  LET c == Nth(Banned(text), i)
         IN  /\ c \in Banned(text) /\ c \in Comments(text)
             /\ Report(text)[i].safe = TRUE
             /\ Report(text)[i].edits = <<DeletionEdit(text, c)>>
             /\ WellFormed(Report(text)[i].edits)
             /\ MinStart(Report(text)[i].edits) = DeletionEdit(text, c).lo
             /\ MaxEnd(Report(text)[i].edits) = DeletionEdit(text, c).hi
<1> DEFINE c == Nth(Banned(text), i)
           e == DeletionEdit(text, c)
           es == <<e>>
<1>1. i \in 1..Cardinality(Banned(text)) /\ Report(text)[i] = [edits |-> es, safe |-> TRUE]
  BY Zenon DEF Report
<1>2. c \in Banned(text) /\ c \in Comments(text)
  BY <1>1, NthFacts DEF Banned
<1> HIDE DEF c
<1>3. e.lo \in Nat /\ e.hi \in 0..Len(text) /\ Len(text) \in Nat
  <2>1. e.lo \in Nat /\ e.hi \in Nat /\ e.hi <= Len(text)
    BY <1>2, DeletionFacts
  <2>2. Len(text) \in Nat
    OBVIOUS
  <2> HIDE DEF e
  <2>3. QED
    BY <2>1, <2>2
<1> HIDE DEF e
<1>4. DOMAIN es = {1} /\ es[1] = e /\ es # <<>>
  OBVIOUS
<1>5. {es[k].lo : k \in DOMAIN es} = {e.lo} /\ {es[k].hi : k \in DOMAIN es} = {e.hi}
  BY <1>4
<1> HIDE DEF es
<1>6. MinStart(es) = e.lo
  <2>1. Min({e.lo}) \in {e.lo}
    BY <1>3, MinIsLeast
  <2>2. QED
    BY <1>5, <2>1 DEF MinStart
<1>7. MaxEnd(es) = e.hi
  <2>1. Max({e.hi}) \in {e.hi}
    BY <1>3, MaxIsGreatest
  <2>2. QED
    BY <1>5, <2>1 DEF MaxEnd
<1>8. WellFormed(es)
  BY <1>3, <1>4 DEF WellFormed
<1>9. Report(text)[i].safe = TRUE /\ Report(text)[i].edits = es
  BY <1>1
<1>10. QED
  BY <1>2, <1>6, <1>7, <1>8, <1>9 DEF c, e, es

\* The scan leaves none of the rule's deletions out.
LEMMA AllAccepted ==
  ASSUME IInv, Scanned, pc = "done", OfComments
  PROVE  fixed = DOMAIN input.report
<1> DEFINE text == input.text
           R == DOMAIN Report(text)
           com(i) == Nth(Banned(text), i)
           lo(i) == DeletionEdit(text, com(i)).lo
           hi(i) == DeletionEdit(text, com(i)).hi
<1>1. text \in Seq(Char) /\ input.report = Report(text)
  BY InputFacts DEF IInv, TypeOK, Text, OfComments
<1>2. \A i \in R : /\ com(i) \in Comments(text)
                   /\ WellFormed(Report(text)[i].edits) /\ Report(text)[i].safe = TRUE
                   /\ MinStart(Report(text)[i].edits) = lo(i) /\ MaxEnd(Report(text)[i].edits) = hi(i)
  BY <1>1, ReportFacts
<1>3. \A i, j \in R : com(i) = com(j) => i = j
  <2>1. R = 1..Cardinality(Banned(text))
    BY DEF Report
  <2>2. QED
    BY <1>1, <2>1, NthFacts
<1>4. Candidates(input.report, allowUnsafe) = R
  BY <1>1, <1>2 DEF Candidates
<1>5. ASSUME NEW i \in R, NEW j \in R, i # j PROVE ~Promise!RunsInto(i, j)
  <2>1. com(i) \in Comments(text) /\ com(j) \in Comments(text) /\ com(i) # com(j)
    BY <1>2, <1>3, <1>5
  <2>2. com(i).lo < com(j).lo \/ com(j).lo < com(i).lo
    <3>1. com(i).lo # com(j).lo /\ com(i).lo \in Nat /\ com(j).lo \in Nat
      BY <1>1, <2>1, CommentsApart, CommentFacts
    <3>2. QED
      BY <3>1
  <2>3. hi(i) <= lo(j) \/ hi(j) <= lo(i)
    BY <1>1, <2>1, <2>2, DeletionsApart
  <2>4. /\ lo(i) \in Nat /\ hi(i) \in Nat /\ lo(j) \in Nat /\ hi(j) \in Nat
        /\ lo(i) < hi(i) /\ lo(j) < hi(j)
    <3>1. /\ lo(i) <= com(i).lo /\ com(i).lo < com(i).hi /\ com(i).hi <= hi(i)
          /\ lo(j) <= com(j).lo /\ com(j).lo < com(j).hi /\ com(j).hi <= hi(j)
          /\ com(i).lo \in Nat /\ com(i).hi \in Nat /\ com(j).lo \in Nat /\ com(j).hi \in Nat
          /\ lo(i) \in Nat /\ hi(i) \in Nat /\ lo(j) \in Nat /\ hi(j) \in Nat
      BY <1>1, <2>1, DeletionFacts, CommentFacts
    <3> HIDE DEF lo, hi, com
    <3>2. QED
      BY <3>1
  <2>5. Promise!RunsInto(i, j) => lo(j) <= lo(i) /\ lo(i) < hi(j)
    BY <1>1, <1>2, SameSpans DEF Promise!RunsInto
  <2> HIDE DEF lo, hi
  <2>6. QED
    BY <2>3, <2>4, <2>5
<1>6. todo = {} /\ fixed \subseteq R
  BY <1>4 DEF Scanned, IInv, TypeOK
<1>7. \A i \in R \ fixed : \E j \in fixed : Promise!RunsInto(i, j)
  BY <1>4, <1>6 DEF Scanned
<1> HIDE DEF R
<1>8. R \subseteq fixed
  BY <1>5, <1>6, <1>7
<1>9. QED
  BY <1>1, <1>6, <1>8 DEF R

\* A text is what is left of another at the places in K, in their order.
Picks(s, m, text, K) ==
  /\ \A i \in 1..Len(s) : m[i] \in K /\ s[i] = text[m[i]]
  /\ \A i, j \in 1..Len(s) : i < j => m[i] < m[j]
  /\ \A q \in K : \E i \in 1..Len(s) : m[i] = q

\* One place more, in front of the others.
LEMMA PicksOneMore ==
  ASSUME NEW s \in Seq(Char), NEW text, NEW q \in Nat, text[q] \in Char,
         NEW K, \A k \in K : k \in Nat /\ q < k, NEW m, Picks(s, m, text, K)
  PROVE  \E more : Picks(<<text[q]>> \o s, more, text, {q} \cup K)
<1> DEFINE n == Len(s)
           ch == text[q]
           t == <<ch>> \o s
           more == [i \in 1..(n + 1) |-> IF i = 1 THEN q ELSE m[i - 1]]
<1>1. n \in Nat /\ <<ch>> \in Seq(Char) /\ Len(<<ch>>) = 1 /\ <<ch>>[1] = ch
  OBVIOUS
<1>2. Len(t) = n + 1 /\ t[1] = ch /\ \A i \in 2..(n + 1) : t[i] = s[i - 1]
  BY <1>1, ConcatProperties
<1>3. more[1] = q /\ \A i \in 2..(n + 1) : more[i] = m[i - 1] /\ i - 1 \in 1..n
  BY <1>1
<1>4. /\ \A i \in 1..n : m[i] \in K /\ s[i] = text[m[i]]
      /\ \A i, j \in 1..n : i < j => m[i] < m[j]
      /\ \A k \in K : \E i \in 1..n : m[i] = k
  BY DEF Picks
<1>5. \A i \in 1..(n + 1) : i = 1 \/ i \in 2..(n + 1)
  BY <1>1
<1> HIDE DEF t, n, more, ch
<1>6. ASSUME NEW i \in 1..(n + 1) PROVE more[i] \in {q} \cup K /\ t[i] = text[more[i]]
  <2>1. CASE i = 1
    BY <1>2, <1>3, <2>1 DEF ch
  <2>2. CASE i \in 2..(n + 1)
    BY <1>2, <1>3, <1>4, <2>2
  <2>3. QED
    BY <1>5, <2>1, <2>2
<1>7. ASSUME NEW i \in 1..(n + 1), NEW j \in 1..(n + 1), i < j PROVE more[i] < more[j]
  <2>1. j \in 2..(n + 1)
    BY <1>1, <1>7
  <2>2. CASE i = 1
    BY <1>3, <1>4, <2>1, <2>2
  <2>3. CASE i \in 2..(n + 1)
    <3>1. i - 1 \in 1..n /\ j - 1 \in 1..n /\ i - 1 < j - 1 /\ more[i] = m[i - 1] /\ more[j] = m[j - 1]
      BY <1>1, <1>3, <1>7, <2>1, <2>3
    <3>2. QED
      BY <1>4, <3>1
  <2>4. QED
    BY <1>5, <2>2, <2>3
<1>8. ASSUME NEW k \in {q} \cup K PROVE \E i \in 1..(n + 1) : more[i] = k
  <2>1. CASE k = q
    <3>1. 1 \in 1..(n + 1)
      BY <1>1
    <3>2. QED
      BY <1>3, <2>1, <3>1
  <2>2. CASE k \in K
    <3>1. PICK i \in 1..n : m[i] = k
      BY <1>4, <2>2
    <3>2. i + 1 \in 2..(n + 1) /\ i + 1 \in 1..(n + 1) /\ (i + 1) - 1 = i
      BY <1>1
    <3>3. more[i + 1] = k
      BY <1>3, <3>1, <3>2
    <3>4. QED
      BY <3>2, <3>3
  <2>3. QED
    BY <2>1, <2>2
<1>9. Picks(t, more, text, {q} \cup K)
  BY <1>2, <1>6, <1>7, <1>8 DEF Picks
<1>10. QED
  BY <1>9 DEF t, ch

\* The places of the source, from an offset on, that no accepted edit takes.
Removed(q) == \E x \in EditIds(input.report, fixed) : EditAt(x).lo < q /\ q <= EditAt(x).hi
Kept(p) == {q \in (p + 1)..Len(input.text) : ~Removed(q)}
Inside(p) == \E x \in EditIds(input.report, fixed) : EditAt(x).lo < p /\ p < EditAt(x).hi

\* Edits that put nothing in leave what they do not take, in its order.
LEMMA RestIsKept ==
  ASSUME NonEmptyEdits, IInv, \A x \in EditIds(input.report, fixed) : EditAt(x).new = <<>>
  PROVE  \E m : Picks(Rest[0], m, input.text, Kept(0))
<1> DEFINE n == Len(input.text)
           ids == EditIds(input.report, fixed)
           lo(x) == EditAt(x).lo
           hi(x) == EditAt(x).hi
           S == {p \in 0..n : Inside(p) \/ \E m : Picks(Rest[p], m, input.text, Kept(p))}
<1>1. n \in Nat /\ input.text \in Seq(Char)
  BY InputFacts DEF IInv, TypeOK, Text
<1>2. \A x \in ids : lo(x) \in 0..(n - 1) /\ hi(x) \in (lo(x) + 1)..n /\ Starting(lo(x)) = {x}
  BY OneStarts, Zenon
<1>3. \A x, y \in ids : x # y => hi(x) <= lo(y) \/ hi(y) <= lo(x)
  BY DEF IInv, NoOverlap, Disjoint
<1>4. Rest[n] = <<>> /\ \A p \in 0..(n - 1) : Starting(p) = {} => Rest[p] = <<input.text[p + 1]>> \o Rest[p + 1]
  BY RestUnfolds
<1>5. \A x \in ids : Rest[lo(x)] = Rest[hi(x)]
  <2> TAKE x \in ids
  <2>1. Rest[lo(x)] = <<>> \o Rest[hi(x)]
    BY RestUnfolds
  <2>2. hi(x) \in 0..n
    <3>1. lo(x) \in 0..(n - 1) /\ hi(x) \in (lo(x) + 1)..n
      BY <1>2
    <3> HIDE DEF lo, hi, n
    <3>2. QED
      BY <1>1, <3>1
  <2>3. Rest[hi(x)] \in Seq(Char)
    BY <2>2, RestIsText
  <2>4. <<>> \o Rest[hi(x)] = Rest[hi(x)]
    BY <2>3, ConcatEmptySeq
  <2>5. QED
    BY <2>1, <2>4, Zenon
<1>6. \A p, x : x \in Starting(p) <=> x \in ids /\ lo(x) = p
  BY DEF Starting
<1>7. /\ \A q : Removed(q) <=> \E x \in ids : lo(x) < q /\ q <= hi(x)
      /\ \A p : Inside(p) <=> \E x \in ids : lo(x) < p /\ p < hi(x)
      /\ \A p, q : q \in Kept(p) <=> q \in (p + 1)..n /\ ~Removed(q)
  BY DEF Removed, Inside, Kept
<1>8. \A p \in 0..n : Rest[p] \in Seq(Char)
  BY RestIsText
<1>9. \A q \in 1..n : input.text[q] \in Char
  BY <1>1
<1> HIDE DEF n, ids, lo, hi
<1>10. ASSUME NEW p \in 0..n, \A q \in (p + 1)..n : q \in S, ~Inside(p)
       PROVE  \E m : Picks(Rest[p], m, input.text, Kept(p))
  <2>1. CASE p = n
    <3>1. Kept(p) = {}
      <4>1. \A q : q \notin (n + 1)..n
        BY <1>1
      <4>2. QED
        BY <1>7, <2>1, <4>1
    <3>2. Len(Rest[p]) = 0
      BY <1>4, <2>1
    <3>3. \A i : i \notin 1..0
      OBVIOUS
    <3>4. Picks(Rest[p], <<>>, input.text, Kept(p))
      BY <3>1, <3>2, <3>3 DEF Picks
    <3>5. QED
      BY <3>4
  <2>2. CASE p < n /\ Starting(p) = {}
    <3>1. p \in 0..(n - 1) /\ p + 1 \in 1..n /\ p + 1 \in 0..n /\ p + 1 \in (p + 1)..n /\ p \in Nat /\ p + 1 \in Nat
      BY <1>1, <2>2
    <3>2. ASSUME NEW x \in ids, lo(x) < p + 1, p + 1 <= hi(x) PROVE FALSE
      <4>1. lo(x) \in Nat /\ hi(x) \in Nat /\ lo(x) # p
        <5>1. lo(x) \in Nat /\ hi(x) \in Nat
          BY <1>1, <1>2
        <5>2. lo(x) # p
          BY <1>6, <2>2
        <5>3. QED
          BY <5>1, <5>2
      <4>2. lo(x) < p /\ p < hi(x)
        BY <3>1, <3>2, <4>1
      <4>3. QED
        BY <1>7, <1>10, <4>2
    <3>3. ~Removed(p + 1)
      BY <1>7, <3>2
    <3>4. ~Inside(p + 1)
      <4>1. ASSUME NEW x \in ids, lo(x) < p + 1, p + 1 < hi(x) PROVE FALSE
        <5>1. hi(x) \in Nat
          BY <1>1, <1>2
        <5>2. p + 1 <= hi(x)
          BY <3>1, <4>1, <5>1
        <5>3. QED
          BY <3>2, <4>1, <5>2
      <4>2. QED
        BY <1>7, <4>1
    <3>5. PICK m : Picks(Rest[p + 1], m, input.text, Kept(p + 1))
      BY <1>10, <3>1, <3>4
    <3>6. Kept(p) = {p + 1} \cup Kept(p + 1)
      <4>1. \A q : q \in (p + 1)..n <=> q = p + 1 \/ q \in ((p + 1) + 1)..n
        BY <1>1, <3>1
      <4>2. \A q : q \in Kept(p) <=> q \in {p + 1} \cup Kept(p + 1)
        BY <1>7, <3>3, <4>1
      <4>3. QED
        BY <4>2
    <3>7. \A k \in Kept(p + 1) : k \in Nat /\ p + 1 < k
      <4>1. \A k \in ((p + 1) + 1)..n : k \in Nat /\ p + 1 < k
        BY <1>1, <3>1
      <4>2. QED
        BY <1>7, <4>1
    <3>8. \E more : Picks(<<input.text[p + 1]>> \o Rest[p + 1], more, input.text, {p + 1} \cup Kept(p + 1))
      <4>1. Rest[p + 1] \in Seq(Char) /\ p + 1 \in Nat /\ input.text[p + 1] \in Char
        BY <1>8, <1>9, <3>1
      <4> HIDE DEF Kept
      <4>2. QED
        BY <3>5, <3>7, <4>1, PicksOneMore
    <3>9. QED
      BY <1>4, <2>2, <3>1, <3>6, <3>8
  <2>3. CASE Starting(p) # {}
    <3>1. PICK x \in ids : lo(x) = p
      BY <1>6, <2>3
    <3>2. hi(x) \in (p + 1)..n /\ hi(x) \in Nat /\ lo(x) \in Nat /\ hi(x) > p
      BY <1>1, <1>2, <3>1
    <3>3. ~Inside(hi(x))
      <4>1. ASSUME NEW y \in ids, lo(y) < hi(x), hi(x) < hi(y) PROVE FALSE
        <5>1. lo(y) \in Nat /\ hi(y) \in Nat
          BY <1>1, <1>2
        <5>2. x # y
          BY <3>2, <4>1, <5>1
        <5>3. hi(x) <= lo(y) \/ hi(y) <= lo(x)
          BY <1>3, <5>2
        <5>4. QED
          BY <3>1, <3>2, <4>1, <5>1, <5>3
      <4>2. QED
        BY <1>7, <4>1
    <3>4. Kept(p) = Kept(hi(x))
      <4>1. ASSUME NEW q \in (p + 1)..n PROVE q \in (hi(x) + 1)..n \/ Removed(q)
        <5>1. q \in (hi(x) + 1)..n \/ (lo(x) < q /\ q <= hi(x))
          BY <1>1, <3>1, <3>2
        <5>2. QED
          BY <1>7, <5>1
      <4>2. \A q \in (hi(x) + 1)..n : q \in (p + 1)..n
        BY <1>1, <3>2
      <4>3. \A q : q \in Kept(p) <=> q \in Kept(hi(x))
        BY <1>7, <4>1, <4>2
      <4>4. QED
        BY <4>3
    <3>5. Rest[p] = Rest[hi(x)]
      BY <1>5, <3>1
    <3>6. QED
      BY <1>10, <3>2, <3>3, <3>4, <3>5
  <2>4. QED
    BY <1>1, <2>1, <2>2, <2>3
<1>11. 0..n \subseteq S
  <2>1. \A p \in 0..n : (\A q \in (p + 1)..n : q \in S) => p \in S
    BY <1>10
  <2> HIDE DEF S
  <2>2. QED
    BY <1>1, <2>1, Downward
<1>12. 0 \in S
  BY <1>1, <1>11
<1>13. ~Inside(0)
  BY <1>1, <1>2, <1>7
<1>14. QED
  BY <1>12, <1>13

\* A hash belongs to a comment of its text.
LEMMA HashInComment ==
  ASSUME NEW text \in Seq(Char), NEW q \in DOMAIN text, text[q] = "#"
  PROVE  \E c \in Comments(text) : c.lo < q /\ q <= c.hi
<1> DEFINE n == Len(text)
           ends(r) == EndsLine(text, r)
           Z == {z \in 1..q : text[z] = "#" /\ \A r \in z..q : ~ends(r)}
<1>1. n \in Nat /\ q \in 1..n /\ DOMAIN text = 1..n
  OBVIOUS
<1>2. ~ends(q)
  BY DEF EndsLine, CR, LF
<1> HIDE DEF n, ends
<1>3. q \in 1..q /\ \A r \in q..q : r = q
  BY <1>1
<1>4. q \in Z
  BY <1>2, <1>3
<1>5. \A z \in Z : z \in Nat /\ z \in 1..q /\ text[z] = "#" /\ \A r \in z..q : ~ends(r)
  <2>1. \A z \in 1..q : z \in Nat
    OBVIOUS
  <2>2. QED
    BY <2>1
<1>6. \A z \in 1..q : z \in Z <=> text[z] = "#" /\ \A r \in z..q : ~ends(r)
  OBVIOUS
<1> HIDE DEF Z
<1>7. PICK p \in Z : \A z \in Z : p <= z
  <2>1. Z \subseteq Nat /\ Z # {}
    BY <1>4, <1>5
  <2>2. QED
    BY <2>1, MinIsLeast
<1>8. p \in Nat /\ p \in 1..q /\ p \in 1..n /\ p <= q /\ 1 <= p
  <2>1. p \in Nat /\ p \in 1..q
    BY <1>5
  <2>2. QED
    BY <1>1, <2>1
<1>9. ASSUME NEW z \in 1..(p - 1), text[z] = "#" PROVE \E r \in z..p : ends(r)
  <2>1. z \in 1..q /\ z \in Nat /\ ~(p <= z) /\ z <= p
    BY <1>1, <1>8
  <2>2. z \notin Z
    BY <1>7, <2>1
  <2>3. PICK r \in z..q : ends(r)
    BY <1>6, <1>9, <2>1, <2>2
  <2>4. r \notin p..q
    BY <1>5, <2>3
  <2>5. r \in z..p
    BY <1>1, <1>8, <2>1, <2>4
  <2>6. QED
    BY <2>3, <2>5
<1>10. CommentStart(text, p)
  <2>1. text[p] = "#"
    BY <1>5
  <2>2. QED
    BY <1>9, <2>1 DEF CommentStart, ends
<1> DEFINE c == [lo |-> p - 1, hi |-> CommentEnd(text, p)]
<1>11. c \in Comments(text) /\ c.lo = p - 1
  BY <1>1, <1>8, <1>10 DEF Comments
<1> HIDE DEF c
<1>12. c.hi \in Nat /\ c.lo < c.hi /\ c.hi <= n /\ (c.hi < n => ends(c.hi + 1))
  BY <1>11, CommentFacts DEF n, ends
<1>13. q <= c.hi
  <2> DEFINE h == c.hi
  <2>1. h \in Nat /\ p - 1 < h /\ h <= n /\ (h < n => ends(h + 1))
    BY <1>11, <1>12
  <2> HIDE DEF h
  <2>2. ASSUME h < q PROVE FALSE
    <3>1. h + 1 \in p..q /\ h < n
      BY <1>1, <1>8, <2>1, <2>2
    <3>2. QED
      BY <1>5, <2>1, <3>1
  <2>3. q \in Nat
    BY <1>1
  <2>4. q <= h
    BY <2>1, <2>2, <2>3
  <2>5. QED
    BY <2>4 DEF h
<1>14. c.lo < q
  BY <1>1, <1>8, <1>11
<1>15. QED
  BY <1>11, <1>13, <1>14

\* A place of one comment is a place of no other.
LEMMA OneComment ==
  ASSUME NEW text \in Seq(Char), NEW c \in Comments(text), NEW d \in Comments(text),
         NEW q \in Nat, c.lo < q, q <= c.hi, d.lo < q, q <= d.hi
  PROVE  c = d
<1> DEFINE cl == c.lo
           ch == c.hi
           dl == d.lo
           dh == d.hi
<1>1. cl \in Nat /\ ch \in Nat /\ dl \in Nat /\ dh \in Nat
  BY CommentFacts
<1>2. /\ cl = dl => c = d
      /\ cl < dl => ch < dl
      /\ dl < cl => dh < cl
  BY CommentsApart
<1>3. cl < q /\ q <= ch /\ dl < q /\ q <= dh
  OBVIOUS
<1> HIDE DEF cl, ch, dl, dh
<1>4. cl = dl
  BY <1>1, <1>2, <1>3
<1>5. QED
  BY <1>2, <1>4

\* What a deletion takes of hashes and marks, it takes of its comment.
LEMMA TakesItsOwn ==
  ASSUME NEW text \in Seq(Char), NEW c \in Comments(text), NEW q \in Nat, text[q] \in {"#", "!"},
         DeletionEdit(text, c).lo < q, q <= DeletionEdit(text, c).hi
  PROVE  c.lo < q /\ q <= c.hi
<1> DEFINE cl == c.lo
           ch == c.hi
           x == DeletionEdit(text, c).lo
           y == DeletionEdit(text, c).hi
<1>1. cl \in Nat /\ ch \in Nat /\ x \in Nat /\ y \in Nat
  BY CommentFacts, DeletionFacts
<1>2. /\ \A p \in (x + 1)..cl : text[p] \in {" ", CR, BOM}
      /\ \A p \in (ch + 1)..y : text[p] \in {CR, LF}
  BY DeletionFacts
<1>3. x < q /\ q <= y
  OBVIOUS
<1> HIDE DEF cl, ch, x, y
<1>4. q \notin (x + 1)..cl /\ q \notin (ch + 1)..y
  BY <1>2 DEF CR, LF, BOM
<1>5. cl < q /\ q <= ch
  BY <1>1, <1>3, <1>4
<1>6. QED
  BY <1>5 DEF cl, ch

\* A text without its banned comments, but with all other hashes and marks, has
\* no banned comment: the hash that begins one began a directive before, or was
\* part of one, whose first hash and mark are still there.
LEMMA NoneBannedLeft ==
  ASSUME NEW text \in Seq(Char), NEW s \in Seq(Char), NEW m, NEW K,
         Picks(s, m, text, K), K \subseteq DOMAIN text,
         \A c \in Banned(text) : \A q \in (c.lo + 1)..c.hi : q \notin K,
         \A q \in DOMAIN text : text[q] \in {"#", "!"} /\ q \notin K =>
           \E c \in Banned(text) : c.lo < q /\ q <= c.hi
  PROVE  Banned(s) = {}
<1> SUFFICES ASSUME NEW C \in Comments(s), ~IsDirective(s, C) PROVE FALSE
  BY DEF Banned
<1> DEFINE n == Len(text)
           k == Len(s)
           i == C.lo + 1
           h == C.hi
           broken(r) == EndsLine(s, r)
           ends(r) == EndsLine(text, r)
<1>1. /\ C.lo \in Nat /\ h \in Nat /\ C.lo < h /\ h <= k /\ s[i] = "#"
      /\ h < k => broken(h + 1)
  BY CommentFacts
<1>2. \A z \in 1..(i - 1) : s[z] = "#" => \E r \in z..i : broken(r)
  BY CommentFacts DEF CommentStart
<1>3. n \in Nat /\ k \in Nat /\ DOMAIN text = 1..n
  OBVIOUS
<1>4. /\ \A r \in 1..k : m[r] \in K /\ s[r] = text[m[r]]
      /\ \A r, t \in 1..k : r < t => m[r] < m[t]
      /\ \A q \in K : \E r \in 1..k : m[r] = q
  BY DEF Picks
<1>5. \A r \in 1..k : m[r] \in 1..n /\ m[r] \in Nat
  BY <1>3, <1>4
<1>6. \A r : broken(r) => r \in 1..k /\ ends(m[r])
  <2>1. \A r : broken(r) => r \in 1..k /\ s[r] \in {CR, LF}
    BY DEF EndsLine
  <2>2. \A r \in 1..k : s[r] \in {CR, LF} => ends(m[r])
    BY <1>3, <1>4, <1>5 DEF EndsLine
  <2>3. QED
    BY <2>1, <2>2
<1>7. i \in 1..k /\ i \in Nat /\ i <= h
  BY <1>1, <1>3
<1>8. m[i] \in DOMAIN text /\ text[m[i]] = "#" /\ m[i] \in K
  BY <1>1, <1>3, <1>4, <1>5, <1>7
<1>9. PICK D \in Comments(text) : D.lo < m[i] /\ m[i] <= D.hi
  BY <1>8, HashInComment
<1> DEFINE q0 == D.lo + 1
           dh == D.hi
<1>10. /\ D.lo \in Nat /\ dh \in Nat /\ dh <= n /\ text[q0] = "#" /\ q0 \in Nat /\ q0 \in 1..n /\ q0 <= dh
       /\ \A q \in q0..dh : ~ends(q)
  <2>1. /\ D.lo \in Nat /\ dh \in Nat /\ D.lo < dh /\ dh <= n /\ text[q0] = "#"
        /\ \A q \in q0..dh : ~ends(q)
    BY CommentFacts
  <2>2. QED
    BY <1>3, <2>1
<1>11. q0 <= m[i] /\ m[i] <= dh /\ m[i] \in (D.lo + 1)..D.hi
  BY <1>5, <1>7, <1>9, <1>10
<1>12. D \notin Banned(text)
  BY <1>8, <1>11
<1>13. PICK p \in q0..dh :
         /\ text[p] = "!"
         /\ \A q \in q0..(p - 1) : text[q] = "#" \/ \A t \in q..(p - 1) : text[t] = " "
  BY <1>12 DEF Banned, IsDirective
<1>14. ASSUME NEW q \in q0..dh, text[q] \in {"#", "!"} PROVE q \in K
  <2>1. q \in Nat /\ q \in DOMAIN text /\ D.lo < q /\ q <= D.hi
    BY <1>3, <1>10
  <2>2. ASSUME NEW c \in Banned(text), c.lo < q, q <= c.hi PROVE FALSE
    <3>1. c \in Comments(text)
      BY DEF Banned
    <3>2. c = D
      BY <2>1, <2>2, <3>1, OneComment
    <3>3. QED
      BY <1>12, <3>2
  <2>3. QED
    BY <1>14, <2>1, <2>2
<1> HIDE DEF n, k, i, h, broken, ends, q0, dh
<1>15. \A r, t \in 1..k : r <= t => m[r] <= m[t]
  <2> TAKE r, t \in 1..k
  <2>1. r \in Nat /\ t \in Nat /\ m[r] \in Nat /\ m[t] \in Nat
    BY <1>3, <1>5
  <2>2. r = t \/ r < t \/ t < r
    BY <2>1
  <2>3. r < t => m[r] < m[t]
    BY <1>4
  <2>4. QED
    BY <2>1, <2>2, <2>3
<1>16. PICK i0 \in 1..k : m[i0] = q0
  <2>1. q0 \in q0..dh
    BY <1>10
  <2>2. q0 \in K
    BY <1>10, <1>14, <2>1
  <2>3. QED
    BY <1>4, <2>2
<1>17. i0 = i
  <2>1. ASSUME i0 < i PROVE FALSE
    <3>1. i0 \in 1..(i - 1) /\ s[i0] = "#"
      <4>1. i0 \in 1..(i - 1)
        BY <1>3, <1>7, <2>1
      <4>2. QED
        BY <1>4, <1>10, <1>16, <4>1
    <3>2. PICK r \in i0..i : broken(r)
      BY <1>2, <3>1
    <3>3. r \in 1..k /\ i0 <= r /\ r <= i
      BY <1>6, <1>7, <3>2
    <3>4. q0 <= m[r] /\ m[r] <= m[i] /\ m[r] \in Nat /\ m[i] \in Nat
      BY <1>5, <1>7, <1>15, <1>16, <3>3
    <3>5. m[r] \in q0..dh
      BY <1>10, <1>11, <3>4
    <3>6. QED
      BY <1>6, <1>10, <3>2, <3>5
  <2>2. ASSUME i < i0 PROVE FALSE
    <3>1. m[i] < m[i0] /\ m[i] \in Nat
      BY <1>4, <1>5, <1>7, <2>2
    <3>2. QED
      BY <1>10, <1>11, <1>16, <3>1
  <2>3. i0 \in Nat
    BY <1>3
  <2>4. QED
    BY <1>7, <2>1, <2>2, <2>3
<1>18. PICK ip \in 1..k : m[ip] = p
  <2>1. p \in K
    BY <1>13, <1>14
  <2>2. QED
    BY <1>4, <2>1
<1>19. p \in Nat /\ q0 < p /\ p <= dh /\ ip \in Nat /\ m[i] = q0
  <2>1. p \in Nat /\ q0 <= p /\ p <= dh /\ ip \in Nat
    BY <1>3, <1>10
  <2>2. p # q0
    BY <1>10, <1>13
  <2>3. QED
    BY <1>10, <1>16, <1>17, <2>1, <2>2
<1>20. i < ip
  <2>1. ip <= i => m[ip] <= m[i]
    BY <1>7, <1>15
  <2>2. QED
    BY <1>7, <1>10, <1>18, <1>19, <2>1
<1>21. ip <= h
  <2>1. ASSUME h < ip PROVE FALSE
    <3>1. h < k /\ h + 1 \in 1..k /\ h + 1 <= ip /\ i <= h + 1
      BY <1>1, <1>3, <1>7, <1>19, <2>1
    <3>2. ends(m[h + 1])
      BY <1>1, <1>6, <3>1
    <3>3. m[i] <= m[h + 1] /\ m[h + 1] <= m[ip] /\ m[h + 1] \in Nat
      BY <1>5, <1>7, <1>15, <3>1
    <3>4. m[h + 1] \in q0..dh
      BY <1>10, <1>18, <1>19, <3>3
    <3>5. QED
      BY <1>10, <3>2, <3>4
  <2>2. QED
    BY <1>1, <1>19, <2>1
<1>22. ASSUME NEW r \in i..(ip - 1), s[r] # "#", NEW t \in r..(ip - 1) PROVE s[t] = " "
  <2>1. r \in 1..k /\ i <= r /\ r < ip /\ t \in 1..k /\ r <= t /\ t < ip
    BY <1>3, <1>7, <1>19
  <2>2. /\ m[i] <= m[r] /\ m[r] < m[ip] /\ m[r] \in Nat
        /\ m[r] <= m[t] /\ m[t] < m[ip] /\ m[t] \in Nat
    BY <1>4, <1>5, <1>7, <1>15, <2>1
  <2>3. m[r] \in q0..(p - 1) /\ m[t] \in m[r]..(p - 1)
    BY <1>10, <1>18, <1>19, <2>2
  <2>4. text[m[r]] # "#" /\ s[t] = text[m[t]]
    BY <1>4, <1>22, <2>1
  <2>5. text[m[t]] = " "
    BY <1>13, <2>3, <2>4
  <2>6. QED
    BY <2>4, <2>5
<1>23. s[ip] = "!"
  BY <1>4, <1>13, <1>18
<1>24. ip \in i..h
  BY <1>1, <1>7, <1>19, <1>20, <1>21
<1>25. QED
  BY <1>22, <1>23, <1>24 DEF IsDirective, i, h

\* When all deletions of a report are made, its edits are those of the banned
\* comments.
LEMMA EditsOfComments ==
  ASSUME IInv, OfComments, fixed = DOMAIN input.report
  PROVE  /\ \A x \in EditIds(input.report, fixed) : \E c \in Banned(input.text) :
              EditAt(x) = DeletionEdit(input.text, c)
         /\ \A c \in Banned(input.text) : \E x \in EditIds(input.report, fixed) :
              EditAt(x) = DeletionEdit(input.text, c)
<1> DEFINE text == input.text
           R == DOMAIN Report(text)
<1>1. text \in Seq(Char) /\ input.report = Report(text)
  BY InputFacts DEF IInv, TypeOK, Text, OfComments
<1>2. R = 1..Cardinality(Banned(text))
  BY DEF Report
<1>3. \A i \in R : Report(text)[i].edits = <<DeletionEdit(text, Nth(Banned(text), i))>>
  BY <1>1, ReportFacts
<1>4. \A x : x \in EditIds(input.report, fixed) <=> \E i \in R : x \in {i} \X DOMAIN Report(text)[i].edits
  BY <1>1 DEF EditIds
<1> HIDE DEF R
<1>5. ASSUME NEW x \in EditIds(input.report, fixed)
      PROVE  \E c \in Banned(text) : EditAt(x) = DeletionEdit(text, c)
  <2>1. PICK i \in R : x \in {i} \X DOMAIN Report(text)[i].edits
    BY <1>4
  <2>2. x[1] = i /\ x[2] = 1
    BY <1>3, <2>1
  <2>3. EditAt(x) = DeletionEdit(text, Nth(Banned(text), i))
    BY <1>1, <1>3, <2>2 DEF EditAt, EditsOf
  <2>4. Nth(Banned(text), i) \in Banned(text)
    BY <1>1, <1>2, NthFacts
  <2>5. QED
    BY <2>3, <2>4
<1>6. ASSUME NEW c \in Banned(text)
      PROVE  \E x \in EditIds(input.report, fixed) : EditAt(x) = DeletionEdit(text, c)
  <2>1. PICK i \in R : Nth(Banned(text), i) = c
    BY <1>1, <1>2, NthFacts
  <2>2. <<i, 1>> \in EditIds(input.report, fixed)
    BY <1>3, <1>4
  <2>3. EditAt(<<i, 1>>) = DeletionEdit(text, c)
    BY <1>1, <1>3, <2>1 DEF EditAt, EditsOf
  <2>4. QED
    BY <2>2, <2>3
<1>7. QED
  BY <1>5, <1>6

\* A call that has returned has made all deletions and left none to report.
LEMMA ReturnsClean ==
  ASSUME NonEmptyEdits, IInv, Scanned, Spliced, pc = "done", OfComments
  PROVE  fixed = DOMAIN input.report /\ Banned(output) = {}
<1> DEFINE text == input.text
           ids == EditIds(input.report, fixed)
           n == Len(text)
<1>1. fixed = DOMAIN input.report
  BY AllAccepted
<1>2. text \in Seq(Char) /\ n \in Nat /\ 0 \in 0..n /\ DOMAIN text = 1..n
  BY InputFacts DEF IInv, TypeOK, Text
<1>3. /\ \A x \in ids : \E c \in Banned(text) : EditAt(x) = DeletionEdit(text, c)
      /\ \A c \in Banned(text) : \E x \in ids : EditAt(x) = DeletionEdit(text, c)
  BY <1>1, EditsOfComments
<1>4. \A c \in Banned(text) : c \in Comments(text)
  BY DEF Banned
<1>5. ASSUME NEW x \in ids PROVE EditAt(x).new = <<>>
  <2>1. PICK c \in Comments(text) : EditAt(x) = DeletionEdit(text, c)
    BY <1>3, <1>4
  <2>2. DeletionEdit(text, c).new = <<>>
    BY <1>2, DeletionFacts
  <2>3. QED
    BY <2>1, <2>2
<1>6. output = Rest[0] /\ Rest[0] \in Seq(Char)
  <2>1. Between(0)
    BY OneStarts DEF Between, Made, Spliced
  <2>2. output = SubSeq(text, 1, 0) \o Rest[0]
    BY <1>2, <2>1 DEF Spliced
  <2>3. SubSeq(text, 1, 0) = <<>>
    BY SubSeqEmpty
  <2>4. Rest[0] \in Seq(Char)
    BY <1>2, RestIsText
  <2>5. <<>> \o Rest[0] = Rest[0]
    BY <2>4, ConcatEmptySeq
  <2>6. QED
    BY <2>2, <2>3, <2>4, <2>5, Zenon
<1>7. PICK m : Picks(output, m, text, Kept(0))
  BY <1>5, <1>6, RestIsKept
<1>8. \A q : Removed(q) <=> \E x \in ids : EditAt(x).lo < q /\ q <= EditAt(x).hi
  BY DEF Removed
<1>9. \A q : q \in Kept(0) <=> q \in 1..n /\ ~Removed(q)
  BY DEF Kept
<1> HIDE DEF ids, n
<1>10. ASSUME NEW c \in Banned(text), NEW q \in (c.lo + 1)..c.hi PROVE Removed(q)
  <2>1. PICK x \in ids : EditAt(x) = DeletionEdit(text, c)
    BY <1>3
  <2> DEFINE lo == EditAt(x).lo
             hi == EditAt(x).hi
             cl == c.lo
             ch == c.hi
  <2>2. lo \in Nat /\ hi \in Nat /\ cl \in Nat /\ ch \in Nat /\ lo <= cl /\ ch <= hi /\ q \in (cl + 1)..ch
    <3>1. c \in Comments(text)
      BY <1>4
    <3>2. cl \in Nat /\ ch \in Nat
      BY <1>2, <3>1, CommentFacts
    <3>3. /\ DeletionEdit(text, c).lo \in Nat /\ DeletionEdit(text, c).hi \in Nat
          /\ DeletionEdit(text, c).lo <= cl /\ ch <= DeletionEdit(text, c).hi
      BY <1>2, <3>1, DeletionFacts
    <3>4. QED
      BY <2>1, <3>2, <3>3
  <2> HIDE DEF lo, hi, cl, ch
  <2>3. lo < q /\ q <= hi
    BY <2>2
  <2>4. QED
    BY <1>8, <2>3 DEF lo, hi
<1>11. ASSUME NEW q \in 1..n, text[q] \in {"#", "!"}, Removed(q)
       PROVE  \E c \in Banned(text) : c.lo < q /\ q <= c.hi
  <2>1. PICK x \in ids : EditAt(x).lo < q /\ q <= EditAt(x).hi
    BY <1>8, <1>11
  <2>2. PICK c \in Banned(text) : EditAt(x) = DeletionEdit(text, c)
    BY <1>3
  <2>3. q \in Nat
    BY <1>2
  <2>4. c.lo < q /\ q <= c.hi
    BY <1>2, <1>4, <1>11, <2>1, <2>2, <2>3, TakesItsOwn
  <2>5. QED
    BY <2>4
<1>12. Banned(output) = {}
  <2>1. output \in Seq(Char) /\ Kept(0) \subseteq DOMAIN text
    BY <1>2, <1>6, <1>9
  <2>2. \A c \in Banned(text) : \A q \in (c.lo + 1)..c.hi : q \notin Kept(0)
    BY <1>9, <1>10
  <2>3. \A q \in DOMAIN text : text[q] \in {"#", "!"} /\ q \notin Kept(0) =>
          \E c \in Banned(text) : c.lo < q /\ q <= c.hi
    BY <1>2, <1>9, <1>11
  <2>4. QED
    BY <1>2, <1>7, <2>1, <2>2, <2>3, NoneBannedLeft
<1>13. QED
  BY <1>1, <1>12

\* THEOREM: given the report that rule SLP010 makes of a text, of whatever length
\* and with whatever comments, one call of the engine makes every deletion of the
\* report, and a second check of the text it returns has nothing to report.
THEOREM OnePassIsEnough ==
  ASSUME NonEmptyEdits
  PROVE  Spec => []OnePassSuffices
<1>1. Init => Scanned /\ Spliced
  BY DEF Init, Scanned, Spliced
<1>2. IInv /\ Scanned /\ [Next]_vars => Scanned'
  BY ScannedStep
<1>3. IInv /\ Spliced /\ [Next]_vars => Spliced'
  BY SplicedStep
<1>4. IInv /\ Scanned /\ Spliced => OnePassSuffices
  BY ReturnsClean DEF OnePassSuffices
<1>5. QED
  BY <1>1, <1>2, <1>3, <1>4, Invariance, PTL DEF Spec

=============================================================================

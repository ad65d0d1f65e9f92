----------------------------- MODULE CloneDetect -----------------------------
(***************************************************************************)
(* Near-duplicate functions: fingerprints, candidate pairs, confirmation   *)
(* (sloplint_clone), the findings of SLP020 (sloplint_linter::clones) and  *)
(* the duplication of a profile (sloplint::compute).                       *)
(*                                                                         *)
(* A unit is [file, statements, shingles], one per function in the order   *)
(* of discovery.  Shingles are the windows themselves and a band's key is  *)
(* its rows: 64-bit hashes of these are taken not to collide.              *)
(***************************************************************************)
EXTENDS Dsu, SequencesExt

CONSTANTS
  NumHashes,   \* length of a signature
  Bands,       \* bands a signature is cut into
  Hash(_, _),  \* the family of hash functions: Hash(i, shingle)
  ShingleK     \* length of a window

\* CloneConfig::default has 64 hashes and 16 bands.
ASSUME SignaturesAssumption == NumHashes \in Nat \ {0} /\ Bands \in Nat \ {0}

\* Normalization: names, numbers and strings of any spelling are one symbol
\* each, comments are dropped, anything else is kept as it is spelled.
Symbol(token) ==
  IF token.kind \in {"name", "number", "string", "newline", "indent", "dedent"}
  THEN token.kind ELSE token.text

NormalizedSymbols(tokens) ==
  LET kept == SelectSeq(tokens, LAMBDA t : t.kind \notin {"comment", "blank", "end"})
  IN  [i \in DOMAIN kept |-> Symbol(kept[i])]

\* The windows of a stream of symbols; a shorter stream is one window.
Shingle(symbols) ==
  LET k == Max({ShingleK, 1})
  IN  IF symbols = <<>> THEN {}
      ELSE IF Len(symbols) < k THEN {symbols}
      ELSE {SubSeq(symbols, i, i + k - 1) : i \in 1..(Len(symbols) - k + 1)}

-----------------------------------------------------------------------------
Eligible(units, minStatements) ==
  {u \in DOMAIN units : units[u].statements >= minStatements /\ units[u].shingles # {}}

MinHash(shingles) == [i \in 1..NumHashes |-> Min({Hash(i, s) : s \in shingles})]

\* Signatures are cut into bands of whole rows; rows left over when Bands does
\* not divide NumHashes are not looked at.
Rows == Max({NumHashes \div Bands, 1})
BandRows(band) == {i \in 1..NumHashes : band * Rows < i /\ i <= (band + 1) * Rows}

\* Two units that agree on every row of some band share a bucket.
Candidates(units, eligible) ==
  LET signature == [u \in eligible |-> MinHash(units[u].shingles)]
      SameBucket(a, b) ==
        \E band \in 0..(Bands - 1) :
          /\ BandRows(band) # {}
          /\ \A i \in BandRows(band) : signature[a][i] = signature[b][i]
  IN  {p \in eligible \X eligible : p[1] < p[2] /\ SameBucket(p[1], p[2])}

\* The Jaccard similarity as a ratio.
Jaccard(s, t) == <<Cardinality(s \cap t), Cardinality(s \cup t)>>

Similar(s, t, percent) ==
  \/ s = {} /\ t = {}
  \/ 100 * Jaccard(s, t)[1] >= percent * Jaccard(s, t)[2] /\ s \cup t # {}

\* The confirmed pairs <<a, b>>, a < b.  settings is [minStatements, similarity].
FindClones(units, settings) ==
  {p \in Candidates(units, Eligible(units, settings.minStatements)) :
     Similar(units[p[1]].shingles, units[p[2]].shingles, settings.similarity)}

\* In the order of the report: by first, then by second.
NotAfter(p, q) == p[1] < q[1] \/ (p[1] = q[1] /\ p[2] <= q[2])
Sorted(pairs) ==
  [i \in 1..Cardinality(pairs) |->
     CHOOSE p \in pairs : Cardinality({q \in pairs : NotAfter(q, p)}) = i]

-----------------------------------------------------------------------------
\* SLP020: each unit of a pair is reported with its lowest partner.
Partners(pairs, u) == {p[2] : p \in {q \in pairs : q[1] = u}}
                        \cup {p[1] : p \in {q \in pairs : q[2] = u}}
Involved(pairs) == {p[1] : p \in pairs} \cup {p[2] : p \in pairs}
CloneFindings(pairs) == [u \in Involved(pairs) |-> Min(Partners(pairs, u))]

-----------------------------------------------------------------------------
\* The duplication of a profile: pairs with both units in it, and its largest
\* cluster.
CloneStatsFor(profile, unitProfiles, pairs) ==
  LET InProfile(p) == profile \in unitProfiles[p[1]] /\ profile \in unitProfiles[p[2]]
      inner == Sorted({p \in pairs : InProfile(p)})
      parent == FoldLeft(Union, [u \in DOMAIN unitProfiles |-> u], inner)
      inClones == Involved(ToSet(inner))
      Size(root) == Cardinality({u \in inClones : DsuFind(parent, u) = root})
  IN  [pairs |-> Len(inner), inClones |-> Cardinality(inClones),
       functions |-> Cardinality({u \in DOMAIN unitProfiles : profile \in unitProfiles[u]}),
       largestCluster |-> Max({0} \cup {Size(u) : u \in inClones})]

=============================================================================

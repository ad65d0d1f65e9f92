------------------------------ MODULE RiskBands ------------------------------
(***************************************************************************)
(* The bands measures fall into, the rollup of one measure over a project, *)
(* and the badges made of it (sloplint_metrics: risk, aggregate, report,   *)
(* badge; sloplint: badges).                                               *)
(*                                                                         *)
(* Values of a measure are sequences of numbers, one per unit.  A ratio is *)
(* the pair of its numerator and denominator.                              *)
(***************************************************************************)
EXTENDS Integers, Sequences, FiniteSetsExt, SequencesExt

\* The inclusive upper bounds of the first three of the four bands.
Bounds == [cyclomatic |-> <<10, 20, 50>>, cognitive |-> <<5, 15, 40>>,
           arity |-> <<4, 6, 10>>,        wmc |-> <<20, 50, 200>>,
           noc |-> <<1, 5, 20>>,          cbo |-> <<4, 9, 20>>,
           rfc |-> <<20, 50, 100>>,       nloc |-> <<250, 500, 1000>>]

FunctionMeasures == {"cyclomatic", "cognitive", "arity"}
ClassMeasures == {"wmc", "noc", "cbo", "rfc"}

Tiers == 1..4  \* low, moderate, high, very high

Tier(measure, value) ==
  1 + Cardinality({b \in 1..3 : value > Bounds[measure][b]})

Histogram(measure, values) ==
  [t \in Tiers |-> Cardinality({i \in DOMAIN values : Tier(measure, values[i]) = t})]

\* The worst band that is occupied; 0 when there is no unit.
WorstTier(histogram) == Max({0} \cup {t \in Tiers : histogram[t] > 0})

Total(values) == FoldSeq(LAMBDA v, sum : v + sum, 0, values)
Largest(values) == Max({0} \cup ToSet(values))

\* The nearest-rank percentile: the value at rank ceil(n p / 100) of the
\* sorted values, 0 of none.
Percentile(values, p) ==
  LET n == Len(values)
      ceiling == (p * n + 99) \div 100
      rank == IF ceiling < 1 THEN 1 ELSE IF ceiling > n THEN n ELSE ceiling
  IN  IF n = 0 THEN 0 ELSE SortSeq(values, <)[rank]

-----------------------------------------------------------------------------
\* One measure over all units: its band histogram, maximum, 95th percentile,
\* and mean as a ratio.
Rollup(measure, values) ==
  [risk |-> Histogram(measure, values), max |-> Largest(values),
   p95 |-> Percentile(values, 95), mean |-> <<Total(values), Len(values)>>]

LogicFunctionMinCognitive == 5
TopLevelMinLogic == 15

\* A module with logic enough, at least 6/10 of it at top level.
Undecomposed(file) ==
  /\ file.topLevel >= TopLevelMinLogic
  /\ 10 * file.topLevel >= 6 * (file.topLevel + file.inFunctions)

\* The panel of a sequence of measured files.
Aggregate(files) ==
  LET functions == FlattenSeq([i \in DOMAIN files |-> files[i].functions])
      classes == FlattenSeq([i \in DOMAIN files |-> files[i].classes])
      Of(units, measure) == [i \in DOMAIN units |-> units[i][measure]]
      Measured(m) == IF m \in FunctionMeasures THEN functions ELSE IF m \in ClassMeasures THEN classes ELSE files
      logic == SelectSeq(functions, LAMBDA f : f.cognitive >= LogicFunctionMinCognitive)
      public == SelectSeq(functions, LAMBDA f : f.public)
                  \o SelectSeq(classes, LAMBDA c : c.public)
      Share(units, Test(_)) == <<Len(SelectSeq(units, Test)), Len(units)>>
      annotated(f) == f.returns /\ f.typed = f.annotatable
  IN  [files |-> Len(files), functions |-> Len(functions), classes |-> Len(classes),
       roll |-> [m \in FunctionMeasures \cup ClassMeasures \cup {"nloc"} |-> Rollup(m, Of(Measured(m), m))],
       loc |-> Total(Of(files, "loc")),
       avgFunctionLoc |-> <<Total(Of(functions, "loc")), Len(functions)>>,
       maxLogicFunctionLoc |-> Largest(Of(logic, "loc")),
       maxNesting |-> Largest(Of(functions, "nesting")),
       comments |-> <<Total(Of(files, "comments")), Total(Of(files, "loc"))>>,
       documented |-> Share(public, LAMBDA u : u.docLines > 0),
       docRatio |-> <<Total(Of(functions, "docLines")), Total(Of(functions, "ncss"))>>,
       broad |-> <<Total(Of(files, "broad")), Total(Of(files, "handlers"))>>,
       swallowed |-> <<Total(Of(files, "swallowed")), Total(Of(files, "handlers"))>>,
       typed |-> <<Total(Of(functions, "typed")), Total(Of(functions, "annotatable"))>>,
       fullyAnnotated |-> Share(functions, annotated),
       undecomposed |-> Len(SelectSeq(files, Undecomposed))]

\* How many units are in the worst band of each distribution.
GodUnits(panel) ==
  [m \in {"cognitive", "cyclomatic", "wmc", "nloc"} |-> panel.roll[m].risk[4]]

-----------------------------------------------------------------------------
\* Colours by rank: 0 green, 1 yellow, 2 red.
AtLeast(ratio, percent) == 100 * ratio[1] >= percent * ratio[2]

\* Lower is better: red from `fail` on, yellow from `warn` on.  A ratio of
\* nothing is 0.
ForValue(ratio, warn, fail) ==
  IF ratio[2] = 0 THEN 0
  ELSE IF ratio[1] >= fail * ratio[2] THEN 2 ELSE IF ratio[1] >= warn * ratio[2] THEN 1 ELSE 0

\* Higher is better, in percent.
ForShareHigh(ratio, warn, good) ==
  IF ratio[2] = 0 THEN 2
  ELSE IF AtLeast(ratio, good) THEN 0 ELSE IF AtLeast(ratio, warn) THEN 1 ELSE 2

ForShare(ratio, warn, fail) ==
  IF ratio[2] = 0 THEN 0
  ELSE IF AtLeast(ratio, fail) THEN 2 ELSE IF AtLeast(ratio, warn) THEN 1 ELSE 0

\* The colour of a band: none and low are green, the two worst are red.
TierColor(tier) == IF tier <= 1 THEN 0 ELSE IF tier = 2 THEN 1 ELSE 2

Badge(message, color) == [message |-> message, color |-> color]

\* The badges of a panel, by slug.  A risk badge shows the peak beside the
\* worst band.
MetricBadges(panel) ==
  LET roll == panel.roll
      Peak(m) == <<roll[m].max, 1>>
      Risk(m) == Badge(<<roll[m].max, WorstTier(roll[m].risk)>>,
                       TierColor(WorstTier(roll[m].risk)))
  IN  [avgFunctionLoc |-> Badge(panel.avgFunctionLoc, ForValue(panel.avgFunctionLoc, 30, 60)),
       maxCyclomatic |-> Badge(roll.cyclomatic.max, ForValue(Peak("cyclomatic"), 10, 20)),
       cyclomaticRisk |-> Risk("cyclomatic"),
       maxCognitive |-> Badge(roll.cognitive.max, ForValue(Peak("cognitive"), 15, 30)),
       cognitiveRisk |-> Risk("cognitive"),
       maxNesting |-> Badge(panel.maxNesting, ForValue(<<panel.maxNesting, 1>>, 4, 6)),
       commentDensity |-> Badge(panel.comments, ForShare(panel.comments, 20, 40)),
       docstringCoverage |-> Badge(panel.documented, ForShareHigh(panel.documented, 50, 80))]

MetricSlugs == <<"avgFunctionLoc", "maxCyclomatic", "cyclomaticRisk", "maxCognitive",
                 "cognitiveRisk", "maxNesting", "commentDensity", "docstringCoverage">>

\* One badge over the named metrics, with the worst colour among them; unknown
\* slugs are skipped.
SummaryBadge(badges, slugs) ==
  LET known == SelectSeq(slugs, LAMBDA s : s \in DOMAIN badges)
  IN  Badge([i \in DOMAIN known |-> <<known[i], badges[known[i]].message>>],
            Max({0} \cup {badges[known[i]].color : i \in DOMAIN known}))

=============================================================================

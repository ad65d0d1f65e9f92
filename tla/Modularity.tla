----------------------------- MODULE Modularity -----------------------------
(***************************************************************************)
(* Louvain community detection (modularity.rs), on a weighted undirected   *)
(* graph over the nodes 1..n.                                              *)
(*                                                                         *)
(* A weight is a function of two nodes; on the diagonal stand the self-    *)
(* loops that aggregation makes.  The code works with floating-point gains *)
(* w - tot * degree / m2 and takes a gain for greater when it exceeds the  *)
(* other by more than 1e-12.  Here every gain is multiplied by m2 and is   *)
(* an integer: gains that differ do so by at least 1/m2, and rounding      *)
(* stays far below the tolerance, so both compare alike for m2 < 10^12.    *)
(***************************************************************************)
EXTENDS Sequences, FiniteSets, Sums

VARIABLES
  phase,    \* "idle", "move", "grow" or "found"
  base,     \* the weights of the graph communities are sought in
  m2,       \* the sum of its degrees, kept through all levels
  weight,   \* the weights of the current level
  degree,   \* the degrees of its nodes
  origin,   \* node of the graph -> node of the current level
  comm,     \* node of the level -> community, named by a node
  tot,      \* community -> sum of the degrees of its members
  visit,    \* the node that local moving visits next
  moved     \* whether a node has moved in this pass

louvainVars == <<phase, base, m2, weight, degree, origin, comm, tot, visit, moved>>

-----------------------------------------------------------------------------
Nodes(w) == {p[1] : p \in DOMAIN w}
Size(w) == Cardinality(Nodes(w))

\* The undirected projection: a mutual import counts twice.
Undirected(n, arrows) ==
  [p \in (1..n) \X (1..n) |-> IF p[1] = p[2] THEN 0 ELSE arrows[<<p[1], p[2]>>] + arrows[<<p[2], p[1]>>]]

Neighbours(w, u) == {v \in Nodes(w) \ {u} : w[<<u, v>>] > 0}

\* Self-loops count twice.
Degree(w, u) == w[<<u, u>>] + SumOf([v \in Nodes(w) |-> w[<<u, v>>]])

M2(w) == SumOf([u \in Nodes(w) |-> Degree(w, u)])

\* What a partition's modularity is when multiplied by m2 squared.
ScaledQ(w, part) ==
  LET total == M2(w)
      communities == {part[u] : u \in Nodes(w)}
      Members(c) == {u \in Nodes(w) : part[u] = c}
      Internal(c) ==
        SumOf([u \in Members(c) |-> w[<<u, u>>] + SumOf([v \in Members(c) |-> w[<<u, v>>]])])
      Total(c) == SumOf([u \in Members(c) |-> Degree(w, u)])
  IN  SumOf([c \in communities |-> total * Internal(c) - Total(c) * Total(c)])

\* Dense ids in the order in which the communities are first seen.
Renumber(part, n) ==
  LET first(c) == Min({u \in 1..n : part[u] = c})
  IN  [u \in 1..n |-> Cardinality({first(part[v]) : v \in {x \in 1..n : first(part[x]) <= first(part[u])}})]

\* (Mutant) Every edge inside a community is met from both of its ends.
AggregateTwice(w, dense) ==
  LET Ends(c) == {u \in Nodes(w) : dense[u] = c}
      communities == {dense[u] : u \in Nodes(w)}
      Between(c, d) == SumOf([u \in Ends(c) |-> SumOf([v \in Ends(d) |-> w[<<u, v>>]])])
  IN  [p \in communities \X communities |-> Between(p[1], p[2])]

\* Communities become nodes: the edges between two of them one edge, those
\* inside one, each met once, and the self-loops of its members its self-loop.
Aggregate(w, dense) ==
  LET Ends(c) == {u \in Nodes(w) : dense[u] = c}
      communities == {dense[u] : u \in Nodes(w)}
      Between(c, d) == SumOf([u \in Ends(c) |-> SumOf([v \in Ends(d) |-> w[<<u, v>>]])])
      Inside(c) ==
        SumOf([u \in Ends(c) |-> SumOf([v \in {v \in Ends(c) : v >= u} |-> w[<<u, v>>]])])
  IN  [p \in communities \X communities |->
         IF p[1] = p[2] THEN Inside(p[1]) ELSE Between(p[1], p[2])]

-----------------------------------------------------------------------------
LouvainInit ==
  /\ phase = "idle"
  /\ base = <<>>
  /\ m2 = 0
  /\ weight = <<>>
  /\ degree = <<>>
  /\ origin = <<>>
  /\ comm = <<>>
  /\ tot = <<>>
  /\ visit = 1
  /\ moved = FALSE

\* A level of local moving starts with every node a community of its own; a
\* graph without edges has none to move.
StartLevel(w, sum) ==
  /\ weight' = w
  /\ comm' = [u \in Nodes(weight') |-> u]
  /\ degree' = [u \in Nodes(weight') |-> Degree(weight', u)]
  /\ tot' = degree'
  /\ visit' = 1
  /\ moved' = FALSE
  /\ phase' = IF sum = 0 THEN "grow" ELSE "move"

Begin(w) ==
  /\ phase = "idle"
  /\ base' = w
  /\ m2' = M2(base')
  /\ origin' = [u \in Nodes(base') |-> u]
  /\ StartLevel(base', m2')

\* A node's edges into a community, itself left out.
WeightTo(u, c) ==
  SumOf([v \in {v \in Neighbours(weight, u) : comm[v] = c} |-> weight[<<u, v>>]])

\* (Mutant) The node's own degree still counts for its community.
TotStale(u, c) == tot[c]

\* The total of a community when u has been taken out of its own.
TotWithout(u, c) == IF c = comm[u] THEN tot[c] - degree[u] ELSE tot[c]

Gain(u, c) == WeightTo(u, c) * m2 - TotWithout(u, c) * degree[u]

\* (Mutant) A community that is as good as the node's own will do.
BestOrEqual(u) ==
  LET around == {comm[v] : v \in Neighbours(weight, u)} \cup {comm[u]}
      gain == [c \in around |-> Gain(u, c)]
      best == {c \in around : \A d \in around : gain[c] >= gain[d]}
  IN  IF best = {comm[u]} THEN comm[u] ELSE Min(best \ {comm[u]})

\* The community u goes to: its own unless a neighbour's gains more, the
\* lowest of those that gain most.
BestCommunity(u) ==
  LET around == {comm[v] : v \in Neighbours(weight, u)} \cup {comm[u]}
      gain == [c \in around |-> Gain(u, c)]
      best == {c \in around : \A d \in around : gain[c] >= gain[d]}
  IN  IF comm[u] \in best THEN comm[u] ELSE Min(best)

Visit ==
  /\ phase = "move"
  /\ visit <= Size(weight)
  /\ \E c \in {BestCommunity(visit)} :
       /\ tot' = [d \in DOMAIN tot |->
                    TotWithout(visit, d) + (IF d = c THEN degree[visit] ELSE 0)]
       /\ comm' = [comm EXCEPT ![visit] = c]
       /\ moved' = (moved \/ c # comm[visit])
  /\ visit' = visit + 1
  /\ UNCHANGED <<phase, base, m2, weight, degree, origin>>

\* A pass is over: another one if a node moved.
EndPass ==
  /\ phase = "move"
  /\ visit > Size(weight)
  /\ IF moved THEN visit' = 1 /\ moved' = FALSE /\ phase' = phase
              ELSE phase' = "grow" /\ UNCHANGED <<visit, moved>>
  /\ UNCHANGED <<base, m2, weight, degree, origin, comm, tot>>

\* The level's communities are the next level's nodes.
Grow ==
  /\ phase = "grow"
  /\ \E dense \in {Renumber(comm, Size(weight))} :
       /\ origin' = [u \in DOMAIN origin |-> dense[origin[u]]]
       /\ IF Cardinality({dense[u] : u \in DOMAIN dense}) = Size(weight)
          THEN /\ phase' = "found"
               /\ UNCHANGED <<weight, degree, comm, tot, visit, moved>>
          ELSE StartLevel(Aggregate(weight, dense), m2)
  /\ UNCHANGED <<base, m2>>

LouvainNext == Visit \/ EndPass \/ Grow

-----------------------------------------------------------------------------
\* The partition of the graph that the level's communities stand for; once
\* it is found, `origin` holds it.
Lifted ==
  IF phase = "found" THEN origin ELSE [u \in DOMAIN origin |-> comm[origin[u]]]

=============================================================================

--------------------------------- MODULE Dsu ---------------------------------
(***************************************************************************)
(* Disjoint sets by union and find with path compression, as they are      *)
(* written out in sloplint::compute for the clusters of duplicates and in  *)
(* sloplint_metrics::cohesion for the components of a class.  `parent`     *)
(* maps an element to itself at a root.                                    *)
(***************************************************************************)
EXTENDS Integers, Sequences, FiniteSetsExt

PathToRoot(parent, x) ==
  LET path[y \in DOMAIN parent] ==
        IF parent[y] = y THEN {y} ELSE {y} \cup path[parent[y]]
  IN  path[x]

DsuFind(parent, x) == CHOOSE y \in PathToRoot(parent, x) : parent[y] = y

\* Every element on the way to the root is hung below it.
Compressed(parent, x) ==
  LET root == DsuFind(parent, x)
  IN  FoldSet(LAMBDA y, hung : [hung EXCEPT ![y] = root], parent, PathToRoot(parent, x))

\* (Mutant) The element itself is relinked, not its root.
LinkUnits(parent, pair) == [parent EXCEPT ![pair[1]] = DsuFind(parent, pair[2])]

Union(parent, pair) ==
  LET found == Compressed(Compressed(parent, pair[1]), pair[2])
  IN  [found EXCEPT ![DsuFind(found, pair[1])] = DsuFind(found, pair[2])]

-----------------------------------------------------------------------------
(* What the forests are to find (for the properties). *)

\* No pair leads out of S, or into it.
Keeps(S, pairs) == \A p \in pairs : p[1] \in S <=> p[2] \in S

\* The elements of D that chains of pairs link to x: they are in every set
\* with x that no pair leaves.
Group(pairs, D, x) ==
  LET closed == {S \in SUBSET D : x \in S /\ Keeps(S, pairs)}
  IN  {z \in D : \A S \in closed : z \in S}

=============================================================================

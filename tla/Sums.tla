-------------------------------- MODULE Sums --------------------------------
(***************************************************************************)
(* The sum of the values of a function, and numbered things in order.      *)
(***************************************************************************)
EXTENDS Integers, FiniteSetsExt

SumOf(f) == FoldSet(LAMBDA n, total : total + f[n], 0, DOMAIN f)

\* Numbers in ascending order.
InOrder(numbers) ==
  [i \in 1..Cardinality(numbers) |->
     CHOOSE n \in numbers : Cardinality({m \in numbers : m <= n}) = i]

\* What stands at some of the places of a sequence.
Chosen(seq, places) == [i \in DOMAIN InOrder(places) |-> seq[InOrder(places)[i]]]

=============================================================================

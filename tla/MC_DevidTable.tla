--------------------------- MODULE MC_DevidTable ----------------------------
(***************************************************************************)
(* DevidTable with six device ids, one more than the smallest table has    *)
(* slots, and hashes that collide entirely or in part.                     *)
(***************************************************************************)
EXTENDS DevidTable, TLC

CONSTANTS a, b, c, d, e, f

MCStrings == {a, b, c, d, e, f}

AllCollide == [s \in MCStrings |-> 5]
SomeCollide == a :> 5 @@ b :> 5 @@ c :> 5 @@ d :> 3 @@ e :> 14 @@ f :> 0

MCHashes == {AllCollide, SomeCollide}

\* a, b and c have the same hash in both.
Symmetry == Permutations({a, b, c})
=============================================================================

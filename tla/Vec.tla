-------------------------------- MODULE Vec --------------------------------
(***************************************************************************)
(* Vectors the code rebuilds element by element: a loop over the old one    *)
(* pushes onto a new one the elements it keeps, as the contracts do to take *)
(* an element out (contracts/lineproof-queue-factory/src/lib.rs,            *)
(* remove_slug), and as Array.filter does in the backend's routes.          *)
(***************************************************************************)
EXTENDS Integers, Sequences

\* The elements of s that are in K, in their order; kept[i] is the new vector after i
\* rounds of the loop.
Kept(s, K) ==
    LET kept[i \in 0..Len(s)] ==
          IF i = 0 THEN <<>>
          ELSE IF s[i] \in K THEN Append(kept[i - 1], s[i]) ELSE kept[i - 1]
    IN  kept[Len(s)]
=============================================================================

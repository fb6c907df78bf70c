--------------------------- MODULE MCUniqueTable ---------------------------
(***************************************************************************)
(* Instance of UniqueTable for TLC: two variables (ids 1, 2), five table   *)
(* nodes (ids 3..7) and five keys, a table limited to 4 chains            *)
(* (Limit = 2).  The table doubles from 1 to 2 and from 2 to 4 chains,    *)
(* the second time with two nodes in one chain, and a fifth node goes     *)
(* into a table that has stopped growing.  With these inputs the real     *)
(* hash_primes put the three binary nodes in one chain at every size, and *)
(* the slice and the constant in other chains once the table has doubled. *)
(***************************************************************************)
EXTENDS UniqueTable

\* btor_hash_bv is outside btorexp.c; any fixed function of the bits will do
MCConstHash == (0 :> 7) @@ (2 :> 5)

\* 1 and 2 are the same node: 1 is odd and is stored as its negation 2
MCConstInputs == {1, 2}

MCSliceInputs == {<<1, 1, 0>>}

\* and(2, 1) is sorted to and(1, 2); ult is not commutative
MCBvInputs == {<<"and", 2, 1>>, <<"ult", 1, 2>>, <<"ult", 2, 1>>}

MCCommutative == {"and"}
=============================================================================

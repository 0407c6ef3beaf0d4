-------------------------- MODULE MCTokenFamilies --------------------------
(* A small instance of TokenFamilies for TLC. *)
EXTENDS TokenFamilies, TLC

CONSTANTS read, write

MCScopes == {{read}, {read, write}}

TokenSymmetry == Permutations(Code) \union Permutations(Family)
                 \union Permutations(Pair) \union Permutations(Secret)
                 \union Permutations(Client)
=============================================================================

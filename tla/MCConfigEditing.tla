-------------------------- MODULE MCConfigEditing --------------------------
(* A small instance of ConfigEditing for TLC. *)
EXTENDS ConfigEditing, TLC

CONSTANTS c1, c2, s1, s2, s3, usd

Rule(look, on) == [look |-> look, on |-> on]

(* s2 adds a category to s1; s3 drops the one s1 has. *)
MCRules == s1 :> (c1 :> Rule(7, TRUE))
           @@ s2 :> (c1 :> Rule(7, TRUE) @@ c2 :> Rule(30, TRUE))
           @@ s3 :> (c2 :> Rule(30, FALSE))
MCCurrencyOf == s1 :> usd @@ s2 :> usd @@ s3 :> usd

EditorSymmetry == Permutations(Editor)
=============================================================================

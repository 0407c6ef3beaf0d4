---------------------------- MODULE MCSingleUser ----------------------------
(* A small instance of SingleUser for TLC: one request lists its accounts unsorted. *)
EXTENDS SingleUser, TLC

MCRequests ==
    {[mode |-> "full", accounts |-> <<2, 1>>], [mode |-> "incremental", accounts |-> <<1>>]}

RunSymmetry == Permutations(Run)
=============================================================================

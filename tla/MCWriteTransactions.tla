------------------------ MODULE MCWriteTransactions ------------------------
(* A small instance of WriteTransactions for TLC: s2 replaces the category of s1. *)
EXTENDS WriteTransactions, TLC

CONSTANTS c1, c2, s1, s2, acc1, usd, p, a, b1, b2

Rule(look, on) == [look |-> look, on |-> on]

MCRules == (s1 :> (c1 :> Rule(1, TRUE)))
           @@ (s2 :> (c2 :> Rule(2, TRUE)))
MCCurrencyOf == s1 :> usd @@ s2 :> usd

Tx(src, date, pend, repl, cats) ==
    [acct |-> acc1, src |-> src, date |-> date, pend |-> pend, repl |-> repl,
     cur |-> usd, cats |-> cats]

MCBatches ==
    {[key |-> b1, items |-> {Tx(p, 1, TRUE, NoSource, {c1})}],
     [key |-> b2, items |-> {Tx(a, 2, FALSE, p, {c1})}],
     [key |-> b1, items |-> {Tx(p, 2, FALSE, NoSource, {c2})}]}
MCRequests ==
    {[mode |-> "full", from |-> 1, to |-> 2, accounts |-> {acc1}],
     [mode |-> "incremental", from |-> 2, to |-> 3, accounts |-> {acc1}]}

RunSymmetry == Permutations(Run)
=============================================================================

-------------------------- MODULE MCDashboardReads --------------------------
(* A small instance of DashboardReads for TLC. *)
EXTENDS DashboardReads, TLC

CONSTANTS c1, c2, s1, s2, acc1, usd, p, a, b1, b2

Rule(look, on) == [look |-> look, on |-> on]

MCRules == (s1 :> (c1 :> Rule(1, TRUE) @@ c2 :> Rule(2, TRUE)))
           @@ (s2 :> (c1 :> Rule(2, TRUE) @@ c2 :> Rule(1, FALSE)))
MCCurrencyOf == s1 :> usd @@ s2 :> usd

Tx(src, date, pend, repl, cats) ==
    [acct |-> acc1, src |-> src, date |-> date, pend |-> pend, repl |-> repl,
     cur |-> usd, cats |-> cats]

MCBatches ==
    {[key |-> b1, items |-> {Tx(p, 1, TRUE, NoSource, {c1, c2})}],
     [key |-> b2, items |-> {Tx(a, 2, FALSE, p, {c1})}]}
MCRequests ==
    {[mode |-> "full", from |-> 1, to |-> 2, accounts |-> {acc1}],
     [mode |-> "incremental", from |-> 2, to |-> 3, accounts |-> {acc1}]}

RunSymmetry == Permutations(Run)
=============================================================================

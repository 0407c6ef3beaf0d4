----------------------------- MODULE MCUpgrade -----------------------------
(* A small instance of Upgrade for TLC: one configuration, damaged. *)
EXTENDS Upgrade, TLC

CONSTANTS c1, s1, acc1, usd, p, a, b1, b2

MCRules == s1 :> (c1 :> [look |-> 1, on |-> TRUE])
MCCurrencyOf == s1 :> usd
MCScaled == 1 :> 2 @@ 2 :> 2

Tx(src, pend, repl) ==
    [acct |-> acc1, src |-> src, date |-> 2, pend |-> pend, repl |-> repl,
     cur |-> usd, cats |-> {c1}]

MCBatches == {[key |-> b1, items |-> {Tx(p, TRUE, NoSource)}],
              [key |-> b2, items |-> {Tx(a, FALSE, p)}]}
MCRequests ==
    {[mode |-> "full", from |-> 1, to |-> 2, accounts |-> {acc1}],
     [mode |-> "incremental", from |-> 2, to |-> 2, accounts |-> {acc1}]}

RunSymmetry == Permutations(Run)
=============================================================================

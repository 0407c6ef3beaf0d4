--------------------------- MODULE MCRefreshClient ---------------------------
(* A small instance of RefreshClient for TLC. *)
EXTENDS RefreshClient, TLC

CONSTANTS c1, s1, s2, acc1, usd, p, a, b1, b2, x1, x2

Rule(look) == c1 :> [look |-> look, on |-> TRUE]

MCRules == s1 :> Rule(1) @@ s2 :> Rule(2)
MCCurrencyOf == s1 :> usd @@ s2 :> usd

Tx(src, pend, repl) ==
    [acct |-> acc1, src |-> src, date |-> 2, pend |-> pend, repl |-> repl,
     cur |-> usd, cats |-> {c1}]
Hold == [key |-> b1, items |-> {Tx(p, TRUE, NoSource)}]
Posted == [key |-> b2, items |-> {Tx(a, FALSE, p)}]

MCBatches == {Hold, Posted}
MCFeed == s1 :> <<Hold>> @@ s2 :> <<Hold, Posted>>

MCRequests ==
    {[mode |-> "full", from |-> 1, to |-> 2, accounts |-> {acc1}],
     [mode |-> "incremental", from |-> 2, to |-> 2, accounts |-> {acc1}]}
MCAccounts == x1 :> {{acc1}} @@ x2 :> {{acc1}}
=============================================================================

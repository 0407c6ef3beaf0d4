--------------------------- MODULE MCRefreshRuns ---------------------------
(* Small instances of RefreshRuns for TLC. *)
EXTENDS RefreshRuns, TLC

CONSTANTS c1, c2, s1, s2, acc1, acc2, usd, eur, p, a, o, b1, b2, b3

Rule(look, on) == [look |-> look, on |-> on]

(* s1 -> s2 widens c1's window, disables c2 and changes the currency. *)
MCRules == (s1 :> (c1 :> Rule(1, TRUE) @@ c2 :> Rule(2, TRUE)))
           @@ (s2 :> (c1 :> Rule(2, TRUE) @@ c2 :> Rule(1, FALSE)))
MCCurrencyOf == s1 :> usd @@ s2 :> eur

Tx(acct, src, date, pend, repl, cur, cats) ==
    [acct |-> acct, src |-> src, date |-> date, pend |-> pend, repl |-> repl,
     cur |-> cur, cats |-> cats]
Request(mode, from, to, accounts) ==
    [mode |-> mode, from |-> from, to |-> to, accounts |-> accounts]
BatchOf(key, items) == [key |-> key, items |-> items]

(* a pending transaction, the posted one that replaces it, and an old one *)
Hold == Tx(acc1, p, 2, TRUE, NoSource, usd, {c1, c2})
Posted == Tx(acc1, a, 2, FALSE, p, usd, {c1})
Old == Tx(acc1, o, 1, FALSE, NoSource, usd, {c2})
Other == Tx(acc2, a, 2, FALSE, NoSource, usd, {c1})
Euro == Tx(acc1, o, 2, FALSE, NoSource, eur, {c1})

MCBatches == {BatchOf(b1, {Hold, Old}), BatchOf(b2, {Posted}), BatchOf(b3, {Euro}),
              BatchOf(b3, {Other})}
MCRequests == {Request("full", 1, 2, {acc1}), Request("full", 1, 2, {acc1, acc2}),
               Request("incremental", 2, 3, {acc1})}

RunSymmetry == Permutations(Run)
=============================================================================

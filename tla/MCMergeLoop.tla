---------------------------- MODULE MCMergeLoop ----------------------------
(* All stagings of up to three items over a ledger of up to two rows. *)
EXTENDS MergeLoop, FiniteSets, TLC

CONSTANTS acc, p, q, r, usd, c

Tx(src, pend, repl, date) ==
    [acct |-> acc, src |-> src, date |-> date, pend |-> pend, repl |-> repl,
     cur |-> usd, cats |-> {c}]

Universe ==
    {Tx(s, TRUE, NoSource, 1) : s \in {p, q, r}}
    \union {Tx(s, FALSE, t, 2) : s \in {p, q, r}, t \in {p, q, r, NoSource}}

MCItems == {i \in Universe : i.repl # i.src}

MCStagings == {S \in SUBSET MCItems : Cardinality(S) <= 3}

Present(pend) == RowOf(Tx(p, pend, NoSource, 1), 1, earlier, earlier)

MCLedgers ==
    {[id \in Identity |-> IF id[2] = p THEN x ELSE IF id[2] = q THEN y ELSE NoTx] :
        x, y \in {NoTx, Present(TRUE), Present(FALSE)}}
=============================================================================

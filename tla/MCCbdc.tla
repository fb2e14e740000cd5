------------------------------- MODULE MCCbdc -------------------------------
(* An instance of CbdcOps: a mint, its retry with a new nonce, a burn under   *)
(* the same key without a nonce, a mint without a key, one that is refused.   *)
EXTENDS CbdcOps, TLC

CONSTANTS h1, h2

Request(nonce, ts, op, key) == [nonce |-> nonce, ts |-> ts, op |-> op, key |-> key,
                                authentic |-> TRUE]
MCMessage ==
    {Request("n1", 2, "mint", "k1"), Request("n2", 4, "mint", "k1"),
     Request(NoNonce, 0, "burn", "k1"), Request("n3", 3, "mint", NoKey),
     [Request("n3", 3, "mint", NoKey) EXCEPT !.authentic = FALSE]}

HandlerSymmetry == Permutations(Handler)
=============================================================================

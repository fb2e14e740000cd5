------------------------------ MODULE MCDexRpc ------------------------------
(* Instances of DexRpc: one asset, alice sells and bob buys. *)
EXTENDS DexRpc, TLC

CONSTANTS alice, bob, grda, w1, w2

MCInitAsset == [a \in Asset |-> [x \in Address |-> IF x = alice THEN 2 ELSE 0]]
MCCreator == [a \in Asset |-> alice]
MCInitGrd == [x \in Address |-> IF x = bob THEN 2 ELSE 0]
\* HTTP workers are interchangeable.
WorkerSymmetry == Permutations({w1, w2})
=============================================================================

---------------------------- MODULE MCDexSerial ----------------------------
(* An instance of DexSerial: one worker, one asset, alice sells, bob buys. *)
EXTENDS DexSerial

CONSTANTS alice, bob, grda, w1

MCInitAsset == [a \in Asset |-> [x \in Address |-> IF x = alice THEN 3 ELSE 0]]
MCCreator == [a \in Asset |-> alice]
MCInitGrd == [x \in Address |-> IF x = bob THEN 4 ELSE 0]
=============================================================================

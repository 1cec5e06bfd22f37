---------------------------- MODULE MCMultipliers ----------------------------
(***************************************************************************)
(* Two accounts, the second with its key known to G1 with and without the  *)
(* prefix, two of G1's channels, and the catalogues that matter: complete, *)
(* one key gone and another multiplier, a stale channel that disagrees,    *)
(* two variants that disagree, and nothing shown.                          *)
(***************************************************************************)
EXTENDS Multipliers, TLC

a1 == "a1"
a2 == "a2"
MCAccounts == {a1, a2}
MCKeys     == {"k1", "k2", "sk-k2"}
MCKeysOf   == (a1 :> {"k1"}) @@ (a2 :> {"k2", "sk-k2"})
MCLocalRatio == (a1 :> 1) @@ (a2 :> 2)
MCBases    == {"p", "q"}

Chan(s, x, y, z) == [status |-> s, tokens |-> ("k1" :> x) @@ ("k2" :> y) @@ ("sk-k2" :> z)]
Pair(c, d) == (1 :> c) @@ (2 :> d)
MCChannels == 1..2
MCCatalogues ==
  {Pair(Chan("ready", 1, 0, 0), Chan("ready", 0, 1, 0)),
   Pair(Chan("ready", 2, 0, 0), Chan("ignored", 0, 1, 0)),
   Pair(Chan("ready", 1, 1, 0), Chan("stale", 2, 0, 0)),
   Pair(Chan("ready", 0, 1, 2), Chan("ready", 0, 0, 0)),
   Pair(Chan("ignored", 0, 0, 0), Chan("ignored", 0, 0, 0))}
=============================================================================

------------------------------ MODULE MCCleanup ------------------------------
(***************************************************************************)
(* Cleanup of three channels in two groups that share channel 2, two of    *)
(* them per round at most, after one round of observation.                 *)
(***************************************************************************)
EXTENDS Cleanup, TLC

MCChannels == 1..3
MCGroups   == 1..2
MCGroupsOf == (1 :> {1}) @@ (2 :> {1, 2}) @@ (3 :> {2})
=============================================================================

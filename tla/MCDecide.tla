------------------------------ MODULE MCDecide ------------------------------
(***************************************************************************)
(* Decide on five channels and two groups. Group 1 holds channels 1, 2 and *)
(* 3, group 2 holds 3, 4 and 5: channel 3 serves both, and its primary     *)
(* group is 1. Channel 5 has no samples; in service it is the reserve that *)
(* lets group 2 lose 3 and 4, but for its budget, and switched off it      *)
(* leaves group 2 with no more than these two. Two rounds: the second      *)
(* starts from whatever the first left.                                    *)
(***************************************************************************)
EXTENDS Decide, TLC

MCChannels == 1..5
MCGroups   == 1..2
MCGroupsOf == (1 :> {1}) @@ (2 :> {1}) @@ (3 :> {1, 2}) @@ (4 :> {2}) @@
              (5 :> {2})

MCPolicyBase ==
  [breaker |-> TRUE, hardFatal |-> TRUE, minPool |-> 1, minScore |-> 60, maxSwitch |-> 1,
   httpDegradeOnly |-> FALSE, latencyDegradeOnly |-> TRUE, cooldown |-> 2,
   recovery |-> TRUE, target |-> 70, degrade |-> TRUE, degradeBelow |-> 65,
   autoSchedulable |-> TRUE]

MCPolicy == (1 :> [MCPolicyBase EXCEPT !.maxSwitch = 2]) @@ (2 :> MCPolicyBase)

MCGood  == [seen |-> TRUE, score |-> 100, fatal |-> FALSE, quota |-> FALSE,
            trigger |-> "none", pricey |-> FALSE, ready |-> TRUE, active |-> TRUE,
            win |-> "none"]
MCFresh == [MCGood EXCEPT !.seen = FALSE, !.ready = FALSE]
MCBad   == [MCGood EXCEPT !.score = 20, !.trigger = "http", !.ready = FALSE]
MCWorse == [MCBad EXCEPT !.score = 10]
MCSlow  == [MCGood EXCEPT !.score = 80, !.trigger = "latency"]
MCAuth  == [MCBad EXCEPT !.score = 0, !.fatal = TRUE, !.trigger = "instant"]
MCQuota == [MCBad EXCEPT !.score = 40, !.quota = TRUE, !.win = "rate_limited"]
MCDear  == [MCGood EXCEPT !.pricey = TRUE]
MCDownAuth == [MCAuth EXCEPT !.active = FALSE]

MCEvidenceOf ==
  (1 :> {MCGood, MCWorse, MCAuth}) @@
  (2 :> {MCBad, MCSlow}) @@
  (3 :> {MCGood, MCBad, MCDear}) @@
  (4 :> {MCBad, MCQuota, MCDownAuth}) @@
  (5 :> {MCFresh})

MCModesOf == (1 :> {"managed", "paused"}) @@ (2 :> {"managed"}) @@
             (3 :> {"managed"}) @@ (4 :> {"managed", "excluded"}) @@
             (5 :> {"managed"})

\* Everything in service, or channels 2 and 5 found switched off.
MCInitialUp == {[c \in 1..5 |-> TRUE], [c \in 1..5 |-> c \notin {2, 5}]}
============================================================================

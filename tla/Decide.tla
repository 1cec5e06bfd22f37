------------------------------- MODULE Decide -------------------------------
(***************************************************************************)
(* The decision pipeline of a scheduling round (engine/decide.go and the   *)
(* pool arithmetic of engine/round.go), run over and over: a round takes a *)
(* snapshot of every channel, decides in the fixed order                   *)
(*   lists -> recovery -> multiplier breaker -> hard breaker               *)
(*         -> soft breaker -> grading                                      *)
(* and then writes the schedulable flag back and persists the health.      *)
(* Breakers handle one channel per step, because each verdict looks at the *)
(* verdicts given before it; the groups of a breaker are visited in any    *)
(* order, as Go ranges over a map.                                         *)
(*                                                                         *)
(* What a round observes of a channel is one record of Evidence: whether   *)
(* there are samples, the final score, the fatal override, the latest      *)
(* sample being a quota error, which soft trigger fires, the upstream      *)
(* multiplier being over its threshold, the sample-based recovery          *)
(* conditions, and the account's activity and traffic window on sub2api.   *)
(* Weights, scaling and priorities are not modelled here: they change      *)
(* neither a health nor the schedulable flag.                              *)
(***************************************************************************)
EXTENDS Integers, FiniteSets

CONSTANTS
  Channels,      \* account ids managed by Guardian (naturals: ties are broken by id)
  Groups,        \* ids of the managed groups (naturals: the least is a channel's primary)
  GroupsOf,      \* [Channels -> non-empty SUBSET Groups], managedGroupIDs
  Policy,        \* [Groups -> PolicyType], the effective policy of each group
  EvidenceOf,    \* [Channels -> SUBSET Evidence], what a round may observe
  ModesOf,       \* [Channels -> SUBSET Modes], the operator's lists
  InitialUp,     \* subset of [Channels -> BOOLEAN]: schedulable flags Guardian may find
  MaxRounds      \* bound: rounds taken, also the clock (one unit per round)

Healths == {"unknown", "healthy", "degraded", "fused", "excluded", "survivor", "paused"}
Modes   == {"managed", "excluded", "paused"}
Phases  == {"idle", "multiplier", "hard", "soft", "grade", "apply"}

PolicyType ==
  [breaker : BOOLEAN, hardFatal : BOOLEAN, minPool : Nat, minScore : Nat,
   maxSwitch : Nat, httpDegradeOnly : BOOLEAN, latencyDegradeOnly : BOOLEAN,
   cooldown : Nat, recovery : BOOLEAN, target : Nat,
   degrade : BOOLEAN, degradeBelow : Nat, autoSchedulable : BOOLEAN]

Evidence ==
  [seen : BOOLEAN, score : Nat, fatal : BOOLEAN, quota : BOOLEAN,
   trigger : {"none", "instant", "http", "latency"}, pricey : BOOLEAN,
   ready : BOOLEAN, active : BOOLEAN, win : {"none", "rate_limited", "blocked"}]

ASSUME ChannelsAssumption ==
  /\ Channels \subseteq Nat /\ IsFiniteSet(Channels)
  /\ Groups \subseteq Nat
  /\ GroupsOf \in [Channels -> SUBSET Groups]
  /\ \A c \in Channels : \E g \in GroupsOf[c] : \A h \in GroupsOf[c] : g <= h

ASSUME PolicyAssumption ==
  /\ Policy \in [Groups -> PolicyType]
  /\ EvidenceOf \in [Channels -> SUBSET Evidence]
  /\ \A c \in Channels : EvidenceOf[c] # {}
  /\ ModesOf \in [Channels -> SUBSET Modes]
  /\ InitialUp \subseteq [Channels -> BOOLEAN]
  /\ MaxRounds \in Nat

VARIABLES
  up,        \* [Channels -> BOOLEAN]: schedulable on sub2api
  st,        \* [Channels -> [health, until]]: the persisted ChannelState
  now,       \* the clock, in rounds
  phase,     \* where the round is
  mode,      \* which list each channel is on in this round
  ev,        \* what this round observed
  want,      \* [Channels -> [health, sched, until]]: ch.desired
  group,     \* groups the current breaker still has to visit, and the one it visits
  handled,   \* channels the current breaker has dealt with
  softFuses, \* [Groups -> Nat]: r.softFuses
  fusedNow,  \* channels a breaker fused in this round
  softFused, \* those of fusedNow the soft breaker fused
  keptNow    \* channels a breaker kept as survivors in this round

round == <<mode, ev, want, group, handled, softFuses, fusedNow, softFused, keptNow>>
vars  == <<up, st, now, phase, round>>

Primary(c) == CHOOSE g \in GroupsOf[c] : \A h \in GroupsOf[c] : g <= h
PolicyOf(c) == Policy[Primary(c)]
Members(g) == {c \in Channels : g \in GroupsOf[c]}
Managed(c) == mode[c] = "managed"

----------------------------------------------------------------------------
\* The pool arithmetic of round.go.

\* Account.UpstreamBlock: activity first, then the schedulable flag, then the windows.
UpstreamBlock(c) ==
  IF ~ev[c].active THEN "disabled"
  ELSE IF ~up[c] THEN "unschedulable"
  ELSE ev[c].win

\* Mutant: a survivor counts only if it would count anyway.
AliveOnMerit(c, minScore) ==
  /\ Managed(c)
  /\ UpstreamBlock(c) \in {"none", "unschedulable"}
  /\ want[c].health \notin {"fused", "excluded", "paused"}
  /\ up[c] /\ (~ev[c].seen \/ ev[c].score >= minScore)

\* Whether a channel counts as one of its group's living members.
Alive(c, minScore) ==
  /\ Managed(c)
  /\ UpstreamBlock(c) \in {"none", "unschedulable"}
  /\ want[c].health \notin {"fused", "excluded", "paused"}
  /\ \/ want[c].health = "survivor"
     \/ up[c] /\ (~ev[c].seen \/ ev[c].score >= minScore)

AliveIn(g) == {c \in Members(g) : Alive(c, Policy[g].minScore)}

\* aliveCountExcluding
AliveExcluding(g, c) == Cardinality(AliveIn(g) \ {c})

\* Mutant: only the primary group is asked.
FuseBlockedInPrimary(c) == AliveExcluding(Primary(c), c) < PolicyOf(c).minPool

\* fuseBlockedByAnyGroup: the schedulable flag belongs to the account, so every
\* group the account serves must keep its pool.
FuseBlocked(c) == \E g \in GroupsOf[c] : AliveExcluding(g, c) < Policy[g].minPool

\* Mutant: the budget of the primary group alone.
BudgetBlockedInPrimary(c) == softFuses[Primary(c)] >= PolicyOf(c).maxSwitch

\* softFuseBudgetBlocked
BudgetBlocked(c) == \E g \in GroupsOf[c] : softFuses[g] >= Policy[g].maxSwitch

----------------------------------------------------------------------------
\* The first phases: every channel is judged on its own.

\* initDesired: keep the present situation, but never inherit a list.
InitDesired(c) ==
  [health |-> IF st[c].health \in {"excluded", "paused"} THEN "unknown" ELSE st[c].health,
   sched  |-> up[c],
   until  |-> st[c].until]

\* Mutant: the cooldown is not waited for.
MayRecoverEarly(c, e, t) == PolicyOf(c).recovery /\ e.ready /\ e.score >= PolicyOf(c).target

\* applyRecovery's conditions for a channel whose persisted health is fused.
MayRecover(c, e, t) ==
  LET p == PolicyOf(c) IN
  /\ p.recovery
  /\ t >= st[c].until
  /\ e.ready /\ e.score >= p.target

\* Mutant: recovery overrides the operator's pause.
RecoveredThroughPause(c, m, e, t) ==
  LET d == InitDesired(c) IN
  IF m = "excluded" THEN [d EXCEPT !.health = "excluded"]
  ELSE IF st[c].health # "fused" /\ m = "paused"
    THEN [health |-> "paused", sched |-> FALSE, until |-> 0]
  ELSE IF st[c].health # "fused" THEN d
  ELSE IF MayRecover(c, e, t) THEN [health |-> "healthy", sched |-> TRUE, until |-> 0]
  ELSE [d EXCEPT !.sched = FALSE]

\* applyExclusion, applyPause, applyRecovery, in this order.
ListsAndRecovery(c, m, e, t) ==
  LET d == InitDesired(c) IN
  CASE m = "excluded" -> [d EXCEPT !.health = "excluded"]
    [] m = "paused"   -> [health |-> "paused", sched |-> FALSE, until |-> 0]
    [] m = "managed" /\ st[c].health # "fused" -> d
    [] m = "managed" /\ st[c].health = "fused" /\ MayRecover(c, e, t) ->
         [health |-> "healthy", sched |-> TRUE, until |-> 0]
    [] OTHER -> [d EXCEPT !.sched = FALSE]

\* Mutant: the cooldown ends before it begins.
FuseBackdated(c) == [health |-> "fused", sched |-> FALSE, until |-> now - PolicyOf(c).cooldown]

\* fuse and keepAsSurvivor, as the new desired value of c.
Fuse(c) == [health |-> "fused", sched |-> FALSE, until |-> now + PolicyOf(c).cooldown]
KeepAsSurvivor(c) == [want[c] EXCEPT !.health = "survivor", !.sched = TRUE]

\* The tail the three breakers share: protect the pools or take c out of them.
FuseOrKeep(c) ==
  IF FuseBlocked(c)
    THEN /\ want' = [want EXCEPT ![c] = KeepAsSurvivor(c)]
         /\ keptNow' = keptNow \cup {c}
         /\ UNCHANGED fusedNow
    ELSE /\ want' = [want EXCEPT ![c] = Fuse(c)]
         /\ fusedNow' = fusedNow \cup {c}
         /\ keptNow' = keptNow \ {c}

----------------------------------------------------------------------------
\* The breakers.

NoGroup == [todo |-> {}, at |-> {}]
AllGroups == [todo |-> Groups, at |-> {}]

Breakable(c) == Managed(c) /\ want[c].health # "fused" /\ c \notin handled

PriceHits == {c \in Channels : Breakable(c) /\ ev[c].pricey}

HardHits(g) ==
  {c \in Channels : /\ Policy[g].breaker /\ Policy[g].hardFatal
                    /\ Primary(c) = g
                    /\ Breakable(c) /\ ev[c].seen /\ ev[c].fatal}

\* isRateLimited: the upstream's own window, or the latest sample.
RateLimited(c) == UpstreamBlock(c) = "rate_limited" \/ (ev[c].seen /\ ev[c].quota)

\* Mutant: rate limiting does not spare a channel.
TriggerDespiteLimit(c) == ev[c].trigger

\* softBreakerReason
Trigger(c) == IF RateLimited(c) THEN "none" ELSE ev[c].trigger

SoftHits(g) ==
  {c \in Channels : /\ Policy[g].breaker
                    /\ Primary(c) = g
                    /\ Breakable(c) /\ Trigger(c) # "none"}

\* degradeOnly
DegradeOnly(c) ==
  \/ Trigger(c) = "http" /\ PolicyOf(c).httpDegradeOnly
  \/ Trigger(c) = "latency" /\ PolicyOf(c).latencyDegradeOnly

\* sortedMembers walked from its end: lowest score first, then highest id.
Ranks(c, d) ==
  \/ ev[c].score < ev[d].score
  \/ ev[c].score = ev[d].score /\ c >= d

First(c, S) == c \in S /\ \A d \in S : Ranks(c, d)

\* r.channels is in the order of ids.
MultiplierBreaker(c) ==
  /\ phase = "multiplier"
  /\ c \in PriceHits /\ \A d \in PriceHits : c <= d
  /\ FuseOrKeep(c)
  /\ handled' = handled \cup {c}
  /\ UNCHANGED <<up, st, now, phase, mode, ev, group, softFuses, softFused>>

HardBreaker(g, c) ==
  /\ phase = "hard" /\ g \in group.at /\ First(c, HardHits(g))
  /\ FuseOrKeep(c)
  /\ handled' = handled \cup {c}
  /\ UNCHANGED <<up, st, now, phase, mode, ev, group, softFuses, softFused>>

\* markDegraded
SoftDegrade(c) ==
  /\ want' = IF want[c].health = "survivor" THEN want
             ELSE [want EXCEPT ![c].health = "degraded"]
  /\ UNCHANGED <<softFuses, fusedNow, softFused, keptNow>>

SoftOutOfBudget == UNCHANGED <<want, softFuses, fusedNow, softFused, keptNow>>

SoftFuse(c) ==
  /\ FuseOrKeep(c)
  /\ softFuses' = IF FuseBlocked(c) THEN softFuses
                  ELSE [g \in Groups |-> softFuses[g] + IF g \in GroupsOf[c] THEN 1 ELSE 0]
  /\ softFused' = IF FuseBlocked(c) THEN softFused ELSE softFused \cup {c}

SoftBreaker(g, c) ==
  /\ phase = "soft" /\ g \in group.at /\ First(c, SoftHits(g))
  /\ \/ DegradeOnly(c) /\ SoftDegrade(c)
     \/ ~DegradeOnly(c) /\ BudgetBlocked(c) /\ SoftOutOfBudget
     \/ ~DegradeOnly(c) /\ ~BudgetBlocked(c) /\ SoftFuse(c)
  /\ handled' = handled \cup {c}
  /\ UNCHANGED <<up, st, now, phase, mode, ev, group>>

----------------------------------------------------------------------------
\* The course of a round.

Observations == {f \in [Channels -> UNION {EvidenceOf[c] : c \in Channels}] :
                   \A c \in Channels : f[c] \in EvidenceOf[c]}
Lists        == {f \in [Channels -> Modes] : \A c \in Channels : f[c] \in ModesOf[c]}

\* Between rounds the round's own data is gone.
NoEvidence == [c \in Channels |-> CHOOSE e \in EvidenceOf[c] : TRUE]
NoLists    == [c \in Channels |-> "managed"]
NoWant     == [c \in Channels |-> [health |-> "unknown", sched |-> FALSE, until |-> 0]]

\* buildRound, collect and scores, then the phases that judge channels one by one.
BeginRound ==
  /\ phase = "idle" /\ now < MaxRounds
  /\ now' = now + 1
  /\ ev' \in Observations
  /\ mode' \in Lists
  /\ want' = [c \in Channels |-> ListsAndRecovery(c, mode'[c], ev'[c], now')]
  /\ phase' = "multiplier"
  /\ UNCHANGED <<up, st, group, handled, softFuses, fusedNow, softFused, keptNow>>

EndMultiplier ==
  /\ phase = "multiplier" /\ PriceHits = {}
  /\ phase' = "hard" /\ group' = AllGroups /\ handled' = {}
  /\ UNCHANGED <<up, st, now, mode, ev, want, softFuses, fusedNow, softFused, keptNow>>

\* The next iteration of "for groupID, members := range r.groupMembers".
NextGroup(g) ==
  /\ phase \in {"hard", "soft"} /\ g \in group.todo
  /\ \A h \in group.at : IF phase = "hard" THEN HardHits(h) = {} ELSE SoftHits(h) = {}
  /\ group' = [todo |-> group.todo \ {g}, at |-> {g}]
  /\ UNCHANGED <<up, st, now, phase, mode, ev, want, handled, softFuses, fusedNow,
                 softFused, keptNow>>

EndHard ==
  /\ phase = "hard" /\ group.todo = {} /\ \A h \in group.at : HardHits(h) = {}
  /\ phase' = "soft" /\ group' = AllGroups /\ handled' = {}
  /\ UNCHANGED <<up, st, now, mode, ev, want, softFuses, fusedNow, softFused, keptNow>>

EndSoft ==
  /\ phase = "soft" /\ group.todo = {} /\ \A h \in group.at : SoftHits(h) = {}
  /\ phase' = "grade" /\ group' = NoGroup /\ handled' = {}
  /\ UNCHANGED <<up, st, now, mode, ev, want, softFuses, fusedNow, softFused, keptNow>>

\* gradeHealth
Graded(c) ==
  IF want[c].health \in {"fused", "excluded", "survivor", "paused"} THEN want[c]
  ELSE [want[c] EXCEPT !.health =
          IF ~ev[c].seen THEN "unknown"
          ELSE IF PolicyOf(c).degrade /\ ev[c].score < PolicyOf(c).degradeBelow
            THEN "degraded" ELSE "healthy"]

Grade ==
  /\ phase = "grade"
  /\ want' = [c \in Channels |-> Graded(c)]
  /\ phase' = "apply"
  /\ UNCHANGED <<up, st, now, mode, ev, group, handled, softFuses, fusedNow, softFused,
                 keptNow>>

\* Mutant: a failed write is persisted as if it had taken effect.
EffectiveIgnoringFailure(c, stuck) == want[c].health

\* effectiveHealth: what is persisted as the health after the writes.
EffectiveHealth(c, stuck) == IF c \in stuck THEN st[c].health ELSE want[c].health

\* applyAll and persist: the flags that differ are written; a write that fails, or is
\* switched off by AutoApply, leaves its channel stuck. An excluded channel gets its
\* baseline back, whatever it was.
ApplyAndPersist ==
  /\ phase = "apply"
  /\ LET diff    == {c \in Channels : mode[c] # "excluded" /\ want[c].sched # up[c]}
         preview == {c \in diff : ~PolicyOf(c).autoSchedulable}
     IN \E failed \in SUBSET (diff \ preview) :
        \E restored \in [{c \in Channels : mode[c] = "excluded"} -> BOOLEAN] :
          LET stuck == preview \cup failed IN
          /\ up' = [c \in Channels |->
                      IF mode[c] = "excluded" THEN restored[c]
                      ELSE IF c \in stuck THEN up[c] ELSE want[c].sched]
          /\ st' = [c \in Channels |->
                      [health |-> EffectiveHealth(c, stuck), until |-> want[c].until]]
  /\ phase' = "idle"
  /\ softFuses' = [g \in Groups |-> 0]
  /\ fusedNow' = {} /\ softFused' = {} /\ keptNow' = {}
  /\ ev' = NoEvidence /\ mode' = NoLists /\ want' = NoWant
  /\ UNCHANGED <<now, group, handled>>

Init ==
  /\ up \in InitialUp
  /\ st = [c \in Channels |-> [health |-> "unknown", until |-> 0]]
  /\ now = 0 /\ phase = "idle"
  /\ mode = NoLists
  /\ ev = NoEvidence /\ want = NoWant
  /\ group = NoGroup /\ handled = {}
  /\ softFuses = [g \in Groups |-> 0]
  /\ fusedNow = {} /\ softFused = {} /\ keptNow = {}

Next ==
  \/ BeginRound
  \/ \E c \in Channels : MultiplierBreaker(c)
  \/ EndMultiplier
  \/ \E g \in Groups, c \in Channels : HardBreaker(g, c) \/ SoftBreaker(g, c)
  \/ \E g \in Groups : NextGroup(g)
  \/ EndHard
  \/ EndSoft
  \/ Grade
  \/ ApplyAndPersist

Spec == Init /\ [][Next]_vars

----------------------------------------------------------------------------
\* Properties.

Desired == [health : Healths, sched : BOOLEAN, until : Nat]

TypeOK ==
  /\ up \in [Channels -> BOOLEAN]
  /\ st \in [Channels -> [health : Healths, until : Nat]]
  /\ now \in Nat /\ phase \in Phases
  /\ mode \in [Channels -> Modes]
  /\ ev \in [Channels -> Evidence]
  /\ want \in [Channels -> Desired]
  /\ group \in [todo : SUBSET Groups, at : SUBSET Groups]
  /\ handled \in SUBSET Channels
  /\ softFuses \in [Groups -> Nat]
  /\ fusedNow \in SUBSET Channels /\ softFused \in SUBSET Channels
  /\ keptNow \in SUBSET Channels

\* The pool floor (README "保底", fuseBlockedByAnyGroup): whatever the order in which
\* the three breakers visit the groups, once a breaker has fused a channel, every group
\* the channel serves still counts at least MinPoolSize living members, and it keeps
\* counting them while the rest of the round is decided.
FloorKept ==
  \A c \in fusedNow : \A g \in GroupsOf[c] :
    Cardinality(AliveIn(g)) >= Policy[g].minPool

\* The switch budget (applySoftBreaker): no group loses more than MaxSwitchPerRound
\* members to the soft breaker in a round, members whose primary group is another one
\* included.
BudgetKept ==
  \A g \in Groups :
    Cardinality({c \in softFused : g \in GroupsOf[c]}) <= Policy[g].maxSwitch

\* Survivors are not kept twice for one place in the pool (the comment on survivors in
\* aliveCountExcluding): of the channels that serve a single group and that sub2api does
\* not itself hold back, a round keeps at most MinPoolSize as survivors of the group.
KeptFor(g) ==
  {c \in keptNow : GroupsOf[c] = {g} /\ UpstreamBlock(c) \in {"none", "unschedulable"}}

NoSurplusSurvivors == \A g \in Groups : Cardinality(KeptFor(g)) <= Policy[g].minPool

\* The operator's pause outranks recovery and every breaker (decide's first comment):
\* from the moment the lists are applied, a paused channel is wanted off and paused.
PauseWins ==
  phase # "idle" =>
    \A c \in Channels : mode[c] = "paused" => want[c].health = "paused" /\ ~want[c].sched

\* A fused channel stays fused until its cooldown has passed, unless an operator's list
\* takes it (applyRecovery): evidence of health alone never brings it back early.
CooldownHolds ==
  [][\A c \in Channels :
       st[c].health = "fused" /\ st'[c].health \notin {"fused", "paused", "excluded"}
         => now >= st[c].until]_vars

\* Rate limiting alone never fuses a channel (isRateLimited, "限流的渠道一律不熔断"):
\* a channel that is limited, has no fatal error and is not over its price threshold
\* is not newly persisted as fused.
LimitedNeverFused ==
  [][\A c \in Channels :
       (ev[c].seen /\ ev[c].quota /\ ~ev[c].fatal /\ ~ev[c].pricey)
         => ~(st[c].health # "fused" /\ st'[c].health = "fused")]_vars

\* A health that says which way traffic goes is only entered when the flag followed
\* (effectiveHealth): a channel becomes fused or paused only if it is off on sub2api
\* after the round, and becomes a survivor only if it is on.
HealthTookEffect ==
  [][\A c \in Channels : st'[c].health # st[c].health =>
       /\ st'[c].health \in {"fused", "paused"} => ~up'[c]
       /\ st'[c].health = "survivor" => up'[c]]_vars

\* The comment in applySoftBreaker: the lowest score is judged first, "保证被熔断的总是最差的
\* 渠道". So among the channels of one primary group, none that the soft breaker fuses scores
\* above one that it keeps as a survivor in the same round.
WorstIsFused ==
  \A c \in softFused, d \in keptNow :
    (Primary(c) = Primary(d) /\ ~ev[d].fatal /\ ~ev[d].pricey) => ev[c].score <= ev[d].score
============================================================================

---------------------------- MODULE DecideProofs ----------------------------
(***************************************************************************)
(* Proofs about Decide, for every set of channels and groups, every policy *)
(* and every evidence: the type invariant, and that the floor of every     *)
(* pool, the switch budget and the number of survivors hold through a      *)
(* round, whatever order the groups are visited in. Then what a round      *)
(* makes of a single channel: the operator's pause wins, a cooldown is     *)
(* waited for, rate limiting does not fuse, and the health that is         *)
(* persisted has taken effect.                                             *)
(***************************************************************************)
EXTENDS Decide, FiniteSetTheorems, TLAPS

\* A channel's primary group is one of its groups.
LEMMA PrimaryType ==
  \A c \in Channels : Primary(c) \in GroupsOf[c] /\ Primary(c) \in Groups
BY ChannelsAssumption DEF Primary

\* What a policy holds has its type.
LEMMA PolicyFacts ==
  \A g \in Groups :
    /\ Policy[g] \in PolicyType
    /\ Policy[g].minPool \in Nat /\ Policy[g].maxSwitch \in Nat
    /\ Policy[g].cooldown \in Nat
BY PolicyAssumption DEF PolicyType

\* Between rounds, too, the evidence has its type.
LEMMA DefaultEvidence == NoEvidence \in [Channels -> Evidence]
BY PolicyAssumption DEF NoEvidence

\* What a round may observe is evidence of every channel.
LEMMA ObservationType == Observations \subseteq [Channels -> Evidence]
<1> SUFFICES ASSUME NEW f \in Observations PROVE f \in [Channels -> Evidence]
  OBVIOUS
<1>1. f \in [Channels -> UNION {EvidenceOf[c] : c \in Channels}]
  BY DEF Observations
<1>2. \A c \in Channels : f[c] \in EvidenceOf[c] /\ EvidenceOf[c] \subseteq Evidence
  BY PolicyAssumption DEF Observations
<1> QED BY <1>1, <1>2

----------------------------------------------------------------------------
\* What the phases that judge a channel on its own return.
LEMMA ListsType ==
  ASSUME TypeOK, NEW c \in Channels, NEW m \in Modes, NEW e \in Evidence, NEW t \in Nat
  PROVE  ListsAndRecovery(c, m, e, t) \in Desired
BY DEF TypeOK, ListsAndRecovery, InitDesired, Desired, Healths, Modes

\* gradeHealth returns a desired value.
LEMMA GradedType ==
  ASSUME TypeOK, NEW c \in Channels
  PROVE  Graded(c) \in Desired
BY DEF TypeOK, Graded, Desired, Healths

\* fuse and keepAsSurvivor return desired values.
LEMMA FuseType ==
  ASSUME TypeOK, NEW c \in Channels
  PROVE  Fuse(c) \in Desired /\ KeepAsSurvivor(c) \in Desired
<1>1. PolicyOf(c).cooldown \in Nat
  BY PrimaryType, PolicyFacts DEF PolicyOf
<1>2. now + PolicyOf(c).cooldown \in Nat
  BY <1>1 DEF TypeOK
<1>3. Fuse(c) \in Desired
  BY <1>2 DEF Fuse, Desired, Healths
<1>4. KeepAsSurvivor(c) \in Desired
  BY DEF TypeOK, KeepAsSurvivor, Desired, Healths
<1> QED BY <1>3, <1>4

\* The common tail of the breakers keeps the types of what it changes.
LEMMA FuseOrKeepType ==
  ASSUME TypeOK, NEW c \in Channels, FuseOrKeep(c)
  PROVE  /\ want' \in [Channels -> Desired]
         /\ fusedNow' \in SUBSET Channels /\ keptNow' \in SUBSET Channels
BY FuseType DEF TypeOK, FuseOrKeep

\* The types hold at the start.
LEMMA InitType == Init => TypeOK
<1> SUFFICES ASSUME Init PROVE TypeOK
  OBVIOUS
<1>1. mode \in [Channels -> Modes] /\ want \in [Channels -> Desired]
  BY DEF Init, NoLists, NoWant, Modes, Desired, Healths
<1>2. ev \in [Channels -> Evidence]
  BY DefaultEvidence DEF Init
<1>3. st \in [Channels -> [health : Healths, until : Nat]]
  BY DEF Init, Healths
<1> QED
  BY <1>1, <1>2, <1>3, PolicyAssumption DEF Init, TypeOK, Phases, NoGroup

\* Every step of a round keeps the types.
LEMMA NextType == TypeOK /\ [Next]_vars => TypeOK'
<1> SUFFICES ASSUME TypeOK, [Next]_vars PROVE TypeOK'
  OBVIOUS
<1>1. CASE BeginRound
  <2>1. ev' \in [Channels -> Evidence] /\ mode' \in [Channels -> Modes]
    BY <1>1, ObservationType DEF BeginRound, Lists
  <2>2. now' \in Nat
    BY <1>1 DEF BeginRound, TypeOK
  <2>3. want' \in [Channels -> Desired]
    BY <1>1, <2>1, <2>2, ListsType DEF BeginRound
  <2> QED BY <1>1, <2>1, <2>2, <2>3 DEF BeginRound, TypeOK, Phases
<1>2. ASSUME NEW c \in Channels, MultiplierBreaker(c) PROVE TypeOK'
  BY <1>2, FuseOrKeepType DEF MultiplierBreaker, TypeOK
<1>3. ASSUME NEW g \in Groups, NEW c \in Channels, HardBreaker(g, c) PROVE TypeOK'
  BY <1>3, FuseOrKeepType DEF HardBreaker, TypeOK
<1>4. ASSUME NEW g \in Groups, NEW c \in Channels, SoftBreaker(g, c) PROVE TypeOK'
  <2>1. CASE SoftDegrade(c)
    <3>1. want' \in [Channels -> Desired]
      BY <2>1 DEF SoftDegrade, TypeOK, Desired, Healths
    <3> QED BY <1>4, <2>1, <3>1 DEF SoftBreaker, SoftDegrade, TypeOK
  <2>2. CASE SoftOutOfBudget
    BY <1>4, <2>2 DEF SoftBreaker, SoftOutOfBudget, TypeOK
  <2>3. CASE SoftFuse(c)
    <3>1. softFuses' \in [Groups -> Nat] /\ softFused' \in SUBSET Channels
      BY <2>3 DEF SoftFuse, TypeOK
    <3> QED BY <1>4, <2>3, <3>1, FuseOrKeepType DEF SoftBreaker, SoftFuse, TypeOK
  <2> QED BY <1>4, <2>1, <2>2, <2>3 DEF SoftBreaker
<1>5. CASE EndMultiplier \/ EndHard \/ EndSoft
  BY <1>5 DEF EndMultiplier, EndHard, EndSoft, TypeOK, Phases, AllGroups, NoGroup
<1>6. ASSUME NEW g \in Groups, NextGroup(g) PROVE TypeOK'
  BY <1>6 DEF NextGroup, TypeOK
<1>7. CASE Grade
  BY <1>7, GradedType DEF Grade, TypeOK, Phases
<1>8. CASE ApplyAndPersist
  <2>1. up' \in [Channels -> BOOLEAN] /\ st' \in [Channels -> [health : Healths, until : Nat]]
    BY <1>8 DEF ApplyAndPersist, EffectiveHealth, TypeOK, Desired
  <2>2. want' \in [Channels -> Desired] /\ mode' \in [Channels -> Modes]
    BY <1>8 DEF ApplyAndPersist, NoWant, NoLists, Desired, Healths, Modes
  <2> QED BY <1>8, <2>1, <2>2, DefaultEvidence DEF ApplyAndPersist, TypeOK, Phases
<1>9. CASE UNCHANGED vars
  BY <1>9 DEF vars, round, TypeOK
<1> QED
  BY <1>1, <1>2, <1>3, <1>4, <1>5, <1>6, <1>7, <1>8, <1>9 DEF Next

\* Every state of Decide has its type.
THEOREM TypeCorrect == Spec => []TypeOK
BY InitType, NextType, PTL DEF Spec

----------------------------------------------------------------------------
\* The inductive invariant. Besides the three properties it says that the history
\* variables tell the truth: what a breaker fused is still wanted fused, what it kept is
\* still wanted as a survivor, both are managed, the counters count the soft fuses, and
\* nothing of this is left over between rounds.

FusedMarked  == \A c \in fusedNow : want[c].health = "fused"
KeptMarked   == \A c \in keptNow : Managed(c) /\ want[c].health = "survivor"
SoftAreFused == softFused \subseteq fusedNow
SoftOf(g)    == {c \in softFused : g \in GroupsOf[c]}
CountersTell == \A g \in Groups : softFuses[g] = Cardinality(SoftOf(g))
FreshRound   == phase = "idle" => fusedNow = {} /\ softFused = {} /\ keptNow = {}

IInv ==
  /\ TypeOK
  /\ FusedMarked /\ KeptMarked /\ SoftAreFused /\ CountersTell /\ FreshRound
  /\ FloorKept /\ BudgetKept /\ NoSurplusSurvivors

\* Every set of channels is finite, so its cardinality is a number.
LEMMA FiniteChannels ==
  \A S \in SUBSET Channels : IsFiniteSet(S) /\ Cardinality(S) \in Nat
<1>1. \A S \in SUBSET Channels : IsFiniteSet(S)
  BY ChannelsAssumption, FS_Subset
<1> QED BY <1>1, FS_CardinalityType

\* The pools stay above their floors as long as no living member is lost.
LEMMA FloorKeptWithoutLoss ==
  ASSUME TypeOK, TypeOK', FloorKept, fusedNow' \subseteq fusedNow,
         \A g \in Groups : AliveIn(g) \subseteq AliveIn(g)'
  PROVE  FloorKept'
<1> SUFFICES ASSUME NEW c \in fusedNow', NEW g \in GroupsOf[c]
             PROVE  Cardinality(AliveIn(g)') >= Policy[g].minPool
  BY DEF FloorKept
<1>1. c \in Channels /\ g \in Groups /\ Policy[g].minPool \in Nat
  BY ChannelsAssumption, PolicyFacts DEF TypeOK
<1>2. Cardinality(AliveIn(g)) >= Policy[g].minPool
  BY DEF FloorKept
<1>3. AliveIn(g) \in SUBSET Channels /\ AliveIn(g)' \in SUBSET Channels
  BY DEF AliveIn, Members
<1>4. Cardinality(AliveIn(g)) <= Cardinality(AliveIn(g)')
  BY <1>1, <1>3, FiniteChannels, FS_Subset
<1>5. Cardinality(AliveIn(g)) \in Nat /\ Cardinality(AliveIn(g)') \in Nat
  BY <1>3, FiniteChannels
<1> QED BY <1>1, <1>2, <1>4, <1>5

\* A breaker that takes c out of the pools asks every group of c first.
LEMMA FuseKeepsFloor ==
  ASSUME TypeOK, TypeOK', FloorKept, NEW c \in Channels, ~FuseBlocked(c),
         fusedNow' \subseteq fusedNow \cup {c},
         \A g \in Groups : AliveIn(g) \ {c} \subseteq AliveIn(g)'
  PROVE  FloorKept'
<1> SUFFICES ASSUME NEW d \in fusedNow', NEW g \in GroupsOf[d]
             PROVE  Cardinality(AliveIn(g)') >= Policy[g].minPool
  BY DEF FloorKept
<1>1. d \in Channels /\ g \in Groups /\ Policy[g].minPool \in Nat
  BY ChannelsAssumption, PolicyFacts DEF TypeOK
<1>2. Cardinality(AliveIn(g) \ {c}) >= Policy[g].minPool
  <2>1. CASE g \in GroupsOf[c]
    <3>1. ~(Cardinality(AliveIn(g) \ {c}) < Policy[g].minPool)
      BY <2>1 DEF FuseBlocked, AliveExcluding
    <3>2. Cardinality(AliveIn(g) \ {c}) \in Nat
      BY FiniteChannels DEF AliveIn, Members
    <3> QED BY <1>1, <3>1, <3>2
  <2>2. CASE g \notin GroupsOf[c]
    <3>1. AliveIn(g) \ {c} = AliveIn(g)
      BY <2>2 DEF AliveIn, Members
    <3>2. d \in fusedNow
      BY <2>2
    <3> QED BY <3>1, <3>2 DEF FloorKept
  <2> QED BY <2>1, <2>2
<1>3. AliveIn(g) \ {c} \in SUBSET Channels /\ AliveIn(g)' \in SUBSET Channels
  BY DEF AliveIn, Members
<1>4. Cardinality(AliveIn(g) \ {c}) <= Cardinality(AliveIn(g)')
  BY <1>1, <1>3, FiniteChannels, FS_Subset
<1>5. Cardinality(AliveIn(g) \ {c}) \in Nat /\ Cardinality(AliveIn(g)') \in Nat
  BY <1>3, FiniteChannels
<1> QED BY <1>1, <1>2, <1>4, <1>5

\* Keeping c as a survivor costs one place of a pool that lacks one.
LEMMA KeepCostsOnePlace ==
  ASSUME IInv, TypeOK', NEW c \in Channels, FuseBlocked(c), Managed(c),
         keptNow' = keptNow \cup {c}, UNCHANGED <<up, ev>>
  PROVE  NoSurplusSurvivors'
<1> SUFFICES ASSUME NEW g \in Groups
             PROVE  Cardinality(KeptFor(g)') <= Policy[g].minPool
  BY DEF NoSurplusSurvivors
<1>1. /\ AliveIn(g) \in SUBSET Channels
      /\ KeptFor(g) \in SUBSET Channels /\ KeptFor(g)' \in SUBSET Channels
  BY DEF AliveIn, Members, KeptFor, IInv, TypeOK
<1>2. Policy[g].minPool \in Nat
  BY PolicyFacts
<1>3. KeptFor(g)' \subseteq KeptFor(g) \cup {c}
  BY DEF KeptFor, UpstreamBlock
<1>4. CASE c \in KeptFor(g)'
  <2>1. GroupsOf[c] = {g}
    BY <1>4 DEF KeptFor
  <2>2. Cardinality(AliveIn(g) \ {c}) < Policy[g].minPool
    BY <2>1 DEF FuseBlocked, AliveExcluding
  <2>3. KeptFor(g) \subseteq AliveIn(g)
    BY DEF KeptFor, AliveIn, Members, Alive, IInv, KeptMarked, TypeOK
  <2>4. KeptFor(g)' \subseteq (AliveIn(g) \ {c}) \cup {c}
    BY <1>3, <2>3
  <2>5. /\ IsFiniteSet((AliveIn(g) \ {c}) \cup {c})
        /\ Cardinality((AliveIn(g) \ {c}) \cup {c}) = Cardinality(AliveIn(g) \ {c}) + 1
        /\ Cardinality(AliveIn(g) \ {c}) \in Nat
    BY <1>1, FiniteChannels, FS_AddElement
  <2>6. Cardinality(KeptFor(g)') <= Cardinality((AliveIn(g) \ {c}) \cup {c})
    BY <2>4, <2>5, FS_Subset
  <2>7. Cardinality(KeptFor(g)') \in Nat
    BY <1>1, FiniteChannels
  <2> QED BY <1>2, <2>2, <2>5, <2>6, <2>7
<1>5. CASE c \notin KeptFor(g)'
  <2>1. KeptFor(g)' \subseteq KeptFor(g)
    BY <1>3, <1>5
  <2>2. Cardinality(KeptFor(g)') <= Cardinality(KeptFor(g))
    BY <1>1, <2>1, FiniteChannels, FS_Subset
  <2>3. Cardinality(KeptFor(g)) <= Policy[g].minPool
    BY DEF IInv, NoSurplusSurvivors
  <2>4. Cardinality(KeptFor(g)') \in Nat /\ Cardinality(KeptFor(g)) \in Nat
    BY <1>1, FiniteChannels
  <2> QED BY <1>2, <2>2, <2>3, <2>4
<1> QED BY <1>4, <1>5

\* Fewer survivors kept means fewer kept for each group.
LEMMA SurvivorsDoNotGrow ==
  ASSUME IInv, TypeOK', keptNow' \subseteq keptNow, UNCHANGED <<up, ev>>
  PROVE  NoSurplusSurvivors'
<1> SUFFICES ASSUME NEW g \in Groups
             PROVE  Cardinality(KeptFor(g)') <= Policy[g].minPool
  BY DEF NoSurplusSurvivors
<1>1. KeptFor(g)' \subseteq KeptFor(g)
  BY DEF KeptFor, UpstreamBlock
<1>2. KeptFor(g) \in SUBSET Channels /\ KeptFor(g)' \in SUBSET Channels
  BY DEF KeptFor, IInv, TypeOK
<1>3. Cardinality(KeptFor(g)') <= Cardinality(KeptFor(g))
  BY <1>1, <1>2, FiniteChannels, FS_Subset
<1>4. Cardinality(KeptFor(g)) <= Policy[g].minPool
  BY DEF IInv, NoSurplusSurvivors
<1>5. Cardinality(KeptFor(g)') \in Nat /\ Cardinality(KeptFor(g)) \in Nat
  BY <1>2, FiniteChannels
<1> QED BY <1>3, <1>4, <1>5, PolicyFacts

\* The soft-fuse counters count, and stay within the budget, when c is fused in budget.
LEMMA SoftFuseCounts ==
  ASSUME IInv, TypeOK', NEW c \in Channels, want[c].health # "fused", ~BudgetBlocked(c),
         softFused' = softFused \cup {c},
         softFuses' = [g \in Groups |-> softFuses[g] + IF g \in GroupsOf[c] THEN 1 ELSE 0]
  PROVE  CountersTell' /\ BudgetKept'
<1> SUFFICES ASSUME NEW g \in Groups
             PROVE  /\ softFuses'[g] = Cardinality(SoftOf(g)')
                    /\ Cardinality(SoftOf(g)') <= Policy[g].maxSwitch
  BY DEF CountersTell, BudgetKept, SoftOf
<1>1. SoftOf(g) \in SUBSET Channels /\ softFuses[g] \in Nat /\ Policy[g].maxSwitch \in Nat
  BY PolicyFacts DEF SoftOf, IInv, TypeOK
<1>2. softFuses[g] = Cardinality(SoftOf(g)) /\ Cardinality(SoftOf(g)) <= Policy[g].maxSwitch
  BY DEF IInv, CountersTell, BudgetKept, SoftOf
<1>3. CASE g \in GroupsOf[c]
  <2>1. c \notin softFused
    BY DEF IInv, SoftAreFused, FusedMarked
  <2>2. SoftOf(g)' = SoftOf(g) \cup {c}
    BY <1>3 DEF SoftOf
  <2>3. Cardinality(SoftOf(g)') = Cardinality(SoftOf(g)) + 1
    BY <1>1, <2>1, <2>2, FiniteChannels, FS_AddElement DEF SoftOf
  <2>4. softFuses'[g] = softFuses[g] + 1
    BY <1>3
  <2>5. softFuses[g] < Policy[g].maxSwitch
    BY <1>1, <1>3 DEF BudgetBlocked
  <2> QED BY <1>1, <1>2, <2>3, <2>4, <2>5
<1>4. CASE g \notin GroupsOf[c]
  <2>1. SoftOf(g)' = SoftOf(g) /\ softFuses'[g] = softFuses[g]
    BY <1>1, <1>4 DEF SoftOf
  <2> QED BY <1>2, <2>1
<1> QED BY <1>3, <1>4

\* A step that fuses nobody softly keeps the counters right.
LEMMA CountersKept ==
  ASSUME CountersTell, BudgetKept, UNCHANGED <<softFused, softFuses>>
  PROVE  CountersTell' /\ BudgetKept'
BY DEF CountersTell, BudgetKept, SoftOf

\* What the common tail of the breakers preserves, when c may be broken.
LEMMA FuseOrKeepPreserves ==
  ASSUME IInv, TypeOK', NEW c \in Channels, Breakable(c), FuseOrKeep(c),
         UNCHANGED <<up, ev, mode, phase>>, phase # "idle"
  PROVE  FusedMarked' /\ KeptMarked' /\ FreshRound' /\ FloorKept' /\ NoSurplusSurvivors'
<1>1. Managed(c) /\ want[c].health # "fused" /\ c \notin fusedNow
  BY DEF Breakable, IInv, FusedMarked
<1>2. FreshRound'
  BY DEF FreshRound
<1>3. \A d \in Channels : d # c => want'[d] = want[d]
  BY DEF FuseOrKeep, IInv, TypeOK
<1>4. CASE FuseBlocked(c)
  <2>1. /\ want'[c].health = "survivor"
        /\ keptNow' = keptNow \cup {c} /\ fusedNow' = fusedNow
    <3>1. want[c] \in Desired /\ want'[c] = KeepAsSurvivor(c)
      BY <1>4 DEF FuseOrKeep, IInv, TypeOK
    <3>2. KeepAsSurvivor(c).health = "survivor"
      BY <3>1 DEF KeepAsSurvivor, Desired
    <3> QED BY <1>4, <3>1, <3>2 DEF FuseOrKeep
  <2>2. FusedMarked' /\ KeptMarked'
    BY <1>1, <1>3, <2>1 DEF FusedMarked, KeptMarked, Managed, IInv, TypeOK
  <2>3. \A g \in Groups : AliveIn(g) \subseteq AliveIn(g)'
    BY <1>3, <2>1 DEF AliveIn, Members, Alive, Managed, UpstreamBlock
  <2>4. FloorKept'
    BY <2>1, <2>3, FloorKeptWithoutLoss DEF IInv
  <2>5. NoSurplusSurvivors'
    BY <1>1, <1>4, <2>1, KeepCostsOnePlace
  <2> QED BY <1>2, <2>2, <2>4, <2>5
<1>5. CASE ~FuseBlocked(c)
  <2>1. /\ want'[c].health = "fused"
        /\ keptNow' = keptNow \ {c} /\ fusedNow' = fusedNow \cup {c}
    BY <1>5 DEF FuseOrKeep, Fuse, IInv, TypeOK
  <2>2. FusedMarked' /\ KeptMarked'
    BY <1>1, <1>3, <2>1 DEF FusedMarked, KeptMarked, Managed, IInv, TypeOK
  <2>3. \A g \in Groups : AliveIn(g) \ {c} \subseteq AliveIn(g)'
    BY <1>3, <2>1 DEF AliveIn, Members, Alive, Managed, UpstreamBlock
  <2>4. FloorKept'
    BY <1>5, <2>1, <2>3, FuseKeepsFloor DEF IInv
  <2>5. NoSurplusSurvivors'
    BY <2>1, SurvivorsDoNotGrow
  <2> QED BY <1>2, <2>2, <2>4, <2>5
<1> QED BY <1>4, <1>5

\* Nothing of a round is left when it ends.
LEMMA NothingKept ==
  ASSUME fusedNow' = {}, softFused' = {}, keptNow' = {}, softFuses' = [g \in Groups |-> 0]
  PROVE  /\ FusedMarked' /\ KeptMarked' /\ SoftAreFused' /\ CountersTell' /\ FreshRound'
         /\ FloorKept' /\ BudgetKept' /\ NoSurplusSurvivors'
<1>1. \A g : SoftOf(g)' = {} /\ KeptFor(g)' = {}
  BY DEF SoftOf, KeptFor
<1>2. BudgetKept'
  BY FS_EmptySet, PolicyFacts DEF BudgetKept
<1>3. NoSurplusSurvivors'
  BY <1>1, FS_EmptySet, PolicyFacts DEF NoSurplusSurvivors
<1>4. CountersTell'
  BY <1>1, FS_EmptySet DEF CountersTell
<1> QED
  BY <1>2, <1>3, <1>4 DEF FusedMarked, KeptMarked, SoftAreFused, FreshRound, FloorKept

\* No round has begun at the start, so nothing is fused, counted or kept.
LEMMA InitInvariant == Init => IInv
<1> SUFFICES ASSUME Init PROVE IInv
  OBVIOUS
<1>1. fusedNow = {} /\ softFused = {} /\ keptNow = {} /\ softFuses = [g \in Groups |-> 0]
  BY DEF Init
<1>2. \A g : SoftOf(g) = {} /\ KeptFor(g) = {}
  BY <1>1 DEF SoftOf, KeptFor
<1>3. BudgetKept
  BY <1>1, FS_EmptySet, PolicyFacts DEF BudgetKept
<1>4. NoSurplusSurvivors
  BY <1>2, FS_EmptySet, PolicyFacts DEF NoSurplusSurvivors
<1>5. CountersTell
  BY <1>1, <1>2, FS_EmptySet DEF CountersTell
<1> QED
  BY <1>1, <1>3, <1>4, <1>5, InitType
     DEF IInv, FusedMarked, KeptMarked, SoftAreFused, FreshRound, FloorKept

\* Every step of a round keeps the strengthened invariant.
LEMMA NextInvariant == IInv /\ [Next]_vars => IInv'
<1> SUFFICES ASSUME IInv, [Next]_vars PROVE IInv'
  OBVIOUS
<1> USE DEF IInv
<1>0. TypeOK'
  BY NextType
<1>1. CASE BeginRound
  <2>1. fusedNow = {} /\ softFused = {} /\ keptNow = {}
    BY <1>1 DEF BeginRound, FreshRound
  <2>2. UNCHANGED <<softFuses, fusedNow, softFused, keptNow>>
    BY <1>1 DEF BeginRound
  <2>3. CountersTell' /\ BudgetKept'
    BY <2>2, CountersKept
  <2>4. \A g \in Groups : KeptFor(g)' = {}
    BY <2>1, <2>2 DEF KeptFor
  <2>5. NoSurplusSurvivors'
    <3> SUFFICES ASSUME NEW g \in Groups
                 PROVE  Cardinality(KeptFor(g)') <= Policy[g].minPool
      BY DEF NoSurplusSurvivors
    <3>1. Cardinality(KeptFor(g)') = 0
      BY <2>4, FS_EmptySet
    <3> QED BY <3>1, PolicyFacts
  <2> QED
    BY <1>0, <2>1, <2>2, <2>3, <2>5
       DEF FusedMarked, KeptMarked, SoftAreFused, FreshRound, FloorKept
<1>2. ASSUME NEW c \in Channels, MultiplierBreaker(c) PROVE IInv'
  <2>1. /\ Breakable(c) /\ FuseOrKeep(c) /\ phase # "idle"
        /\ UNCHANGED <<up, ev, mode, phase, softFused, softFuses>>
    BY <1>2 DEF MultiplierBreaker, PriceHits
  <2>2. CountersTell' /\ BudgetKept'
    BY <2>1, CountersKept
  <2>3. SoftAreFused'
    BY <2>1 DEF SoftAreFused, FuseOrKeep
  <2> QED BY <1>0, <2>1, <2>2, <2>3, FuseOrKeepPreserves
<1>3. ASSUME NEW g \in Groups, NEW c \in Channels, HardBreaker(g, c) PROVE IInv'
  <2>1. /\ Breakable(c) /\ FuseOrKeep(c) /\ phase # "idle"
        /\ UNCHANGED <<up, ev, mode, phase, softFused, softFuses>>
    BY <1>3 DEF HardBreaker, HardHits, First
  <2>2. CountersTell' /\ BudgetKept'
    BY <2>1, CountersKept
  <2>3. SoftAreFused'
    BY <2>1 DEF SoftAreFused, FuseOrKeep
  <2> QED BY <1>0, <2>1, <2>2, <2>3, FuseOrKeepPreserves
<1>4. ASSUME NEW g \in Groups, NEW c \in Channels, SoftBreaker(g, c) PROVE IInv'
  <2>1. /\ Breakable(c) /\ phase = "soft" /\ phase' = "soft"
        /\ UNCHANGED <<up, ev, mode, phase>>
    BY <1>4 DEF SoftBreaker, SoftHits, First
  <2>2. CASE SoftDegrade(c)
    <3>1. UNCHANGED <<softFuses, fusedNow, softFused, keptNow>>
      BY <2>2 DEF SoftDegrade
    <3>2. /\ \A d \in Channels : d # c => want'[d] = want[d]
          /\ want[c].health # "survivor" => want'[c].health = "degraded"
          /\ want[c].health = "survivor" => want'[c] = want[c]
      BY <2>2 DEF SoftDegrade, TypeOK, Desired
    <3>3. FusedMarked' /\ KeptMarked'
      BY <2>1, <3>1, <3>2 DEF FusedMarked, KeptMarked, Breakable, Managed, TypeOK
    <3>4. \A g1 \in Groups : AliveIn(g1) \subseteq AliveIn(g1)'
      BY <2>1, <3>2 DEF AliveIn, Members, Alive, Managed, UpstreamBlock
    <3>5. FloorKept'
      BY <1>0, <3>1, <3>4, FloorKeptWithoutLoss
    <3>6. NoSurplusSurvivors'
      BY <1>0, <2>1, <3>1, SurvivorsDoNotGrow
    <3> QED
      BY <1>0, <2>1, <3>1, <3>3, <3>5, <3>6, CountersKept DEF SoftAreFused, FreshRound
  <2>3. CASE SoftOutOfBudget
    <3>1. UNCHANGED <<want, softFuses, fusedNow, softFused, keptNow>>
      BY <2>3 DEF SoftOutOfBudget
    <3>2. FusedMarked' /\ KeptMarked'
      BY <2>1, <3>1 DEF FusedMarked, KeptMarked, Managed
    <3>3. \A g1 \in Groups : AliveIn(g1) \subseteq AliveIn(g1)'
      BY <2>1, <3>1 DEF AliveIn, Members, Alive, Managed, UpstreamBlock
    <3>4. FloorKept'
      BY <1>0, <3>1, <3>3, FloorKeptWithoutLoss
    <3>5. NoSurplusSurvivors'
      BY <1>0, <2>1, <3>1, SurvivorsDoNotGrow
    <3> QED
      BY <1>0, <2>1, <3>1, <3>2, <3>4, <3>5, CountersKept DEF SoftAreFused, FreshRound
  <2>4. CASE ~BudgetBlocked(c) /\ SoftFuse(c)
    <3>1. FuseOrKeep(c) /\ want[c].health # "fused"
      BY <2>1, <2>4 DEF SoftFuse, Breakable
    <3>2. CASE FuseBlocked(c)
      <4>1. UNCHANGED <<softFused, softFuses, fusedNow>>
        BY <2>4, <3>2 DEF SoftFuse, FuseOrKeep
      <4> QED
        BY <1>0, <2>1, <3>1, <4>1, CountersKept, FuseOrKeepPreserves DEF SoftAreFused
    <3>3. CASE ~FuseBlocked(c)
      <4>1. /\ softFused' = softFused \cup {c} /\ fusedNow' = fusedNow \cup {c}
            /\ softFuses' = [g1 \in Groups |->
                              softFuses[g1] + IF g1 \in GroupsOf[c] THEN 1 ELSE 0]
        BY <2>4, <3>3 DEF SoftFuse, FuseOrKeep
      <4>2. CountersTell' /\ BudgetKept'
        BY <1>0, <2>4, <3>1, <4>1, SoftFuseCounts
      <4> QED
        BY <1>0, <2>1, <3>1, <4>1, <4>2, FuseOrKeepPreserves DEF SoftAreFused
    <3> QED BY <3>2, <3>3
  <2> QED BY <1>4, <2>2, <2>3, <2>4 DEF SoftBreaker
<1>5. CASE EndMultiplier \/ EndHard \/ EndSoft \/ (\E g \in Groups : NextGroup(g))
           \/ UNCHANGED vars
  <2>1. /\ UNCHANGED <<up, ev, mode, want, softFuses, fusedNow, softFused, keptNow>>
        /\ phase' = "idle" => phase = "idle"
    BY <1>5 DEF EndMultiplier, EndHard, EndSoft, NextGroup, vars, round
  <2>2. FusedMarked' /\ KeptMarked' /\ FreshRound' /\ SoftAreFused'
    BY <2>1 DEF FusedMarked, KeptMarked, Managed, FreshRound, SoftAreFused
  <2>3. \A g \in Groups : AliveIn(g) \subseteq AliveIn(g)'
    BY <2>1 DEF AliveIn, Members, Alive, Managed, UpstreamBlock
  <2>4. FloorKept'
    BY <1>0, <2>1, <2>3, FloorKeptWithoutLoss
  <2>5. NoSurplusSurvivors'
    BY <1>0, <2>1, SurvivorsDoNotGrow
  <2> QED BY <1>0, <2>1, <2>2, <2>4, <2>5, CountersKept
<1>6. CASE Grade
  <2>1. /\ UNCHANGED <<up, ev, mode, softFuses, fusedNow, softFused, keptNow>>
        /\ phase' = "apply"
    BY <1>6 DEF Grade
  <2>2. \A c \in Channels :
          /\ want[c].health \in {"fused", "excluded", "survivor", "paused"}
               => want'[c] = want[c]
          /\ want[c].health \notin {"fused", "excluded", "survivor", "paused"}
               => want'[c].health \in {"unknown", "degraded", "healthy"}
    <3> TAKE c \in Channels
    <3>1. want[c] \in Desired /\ want'[c] = Graded(c)
      BY <1>6 DEF Grade, TypeOK
    <3> QED BY <3>1 DEF Graded, Desired
  <2>3. FusedMarked' /\ KeptMarked' /\ FreshRound' /\ SoftAreFused'
    BY <2>1, <2>2 DEF FusedMarked, KeptMarked, Managed, FreshRound, SoftAreFused, TypeOK
  <2>4. \A g \in Groups : AliveIn(g) \subseteq AliveIn(g)'
    BY <2>1, <2>2 DEF AliveIn, Members, Alive, Managed, UpstreamBlock
  <2>5. FloorKept'
    BY <1>0, <2>1, <2>4, FloorKeptWithoutLoss
  <2>6. NoSurplusSurvivors'
    BY <1>0, <2>1, SurvivorsDoNotGrow
  <2> QED BY <1>0, <2>1, <2>3, <2>5, <2>6, CountersKept
<1>7. CASE ApplyAndPersist
  <2>1. /\ fusedNow' = {} /\ softFused' = {} /\ keptNow' = {}
        /\ softFuses' = [g \in Groups |-> 0]
    BY <1>7 DEF ApplyAndPersist
  <2> QED BY <1>0, <2>1, NothingKept
<1> QED
  BY <1>1, <1>2, <1>3, <1>4, <1>5, <1>6, <1>7 DEF Next

\* The strengthened invariant holds in every state of every behaviour.
THEOREM Invariance == Spec => []IInv
BY InitInvariant, NextInvariant, PTL DEF Spec

\* No breaker takes a pool below its floor.
THEOREM PoolFloor == Spec => []FloorKept
<1>1. IInv => FloorKept
  BY DEF IInv
<1> QED BY <1>1, Invariance, PTL

\* The soft breaker stays within every group's budget.
THEOREM SwitchBudget == Spec => []BudgetKept
<1>1. IInv => BudgetKept
  BY DEF IInv
<1> QED BY <1>1, Invariance, PTL

\* No group keeps more survivors than its pool asks for.
THEOREM SurvivorsBounded == Spec => []NoSurplusSurvivors
<1>1. IInv => NoSurplusSurvivors
  BY DEF IInv
<1> QED BY <1>1, Invariance, PTL

----------------------------------------------------------------------------
\* What a round makes of a channel.

\* c's latest sample is a quota error, and nothing but the soft breaker could fuse it.
OnlyLimited(c) == ev[c].seen /\ ev[c].quota /\ ~ev[c].fatal /\ ~ev[c].pricey

\* What a round wants of c agrees with the operator's lists, with the flag it wants, with
\* the cooldown, and with the rate limit.
Verdict(c) ==
  /\ mode[c] = "paused" => want[c].health = "paused"
  /\ mode[c] = "excluded" => want[c].health = "excluded"
  /\ mode[c] = "managed" => want[c].health \notin {"paused", "excluded"}
  /\ want[c].health \in {"fused", "paused"} => ~want[c].sched
  /\ want[c].health = "survivor" /\ st[c].health # "survivor" => want[c].sched
  /\ st[c].health = "fused" /\ want[c].health \notin {"fused", "paused", "excluded"}
       => now >= st[c].until
  /\ OnlyLimited(c) /\ st[c].health # "fused" => want[c].health # "fused"

Verdicts == phase # "idle" => \A c \in Channels : Verdict(c)

\* The phases that judge a channel on its own give such verdicts.
LEMMA ListsVerdict ==
  ASSUME TypeOK, NEW c \in Channels, NEW m \in Modes, NEW e \in Evidence, NEW t \in Nat
  PROVE  LET d == ListsAndRecovery(c, m, e, t) IN
         /\ m = "paused" => d.health = "paused"
         /\ m = "excluded" => d.health = "excluded"
         /\ m = "managed" => d.health \notin {"paused", "excluded"}
         /\ d.health \in {"fused", "paused"} => ~d.sched
         /\ d.health = "survivor" => st[c].health = "survivor"
         /\ st[c].health = "fused" /\ d.health \notin {"fused", "paused", "excluded"}
              => t >= st[c].until
         /\ d.health = "fused" => st[c].health = "fused"
BY DEF TypeOK, ListsAndRecovery, MayRecover, InitDesired, Modes, Healths

\* A breaker that may handle c, for a reason other than a rate limit, keeps the verdicts.
LEMMA BreakVerdict ==
  ASSUME TypeOK, NEW c \in Channels, Breakable(c), ~OnlyLimited(c), FuseOrKeep(c),
         \A d \in Channels : Verdict(d), UNCHANGED <<st, now, mode, ev>>
  PROVE  \A d \in Channels : Verdict(d)'
<1> SUFFICES ASSUME NEW d \in Channels PROVE Verdict(d)'
  OBVIOUS
<1>1. want' = [want EXCEPT ![c] = KeepAsSurvivor(c)] \/ want' = [want EXCEPT ![c] = Fuse(c)]
  BY DEF FuseOrKeep
<1>2. mode[c] = "managed" /\ want[c].health # "fused"
  BY DEF Breakable, Managed
<1>3. CASE d # c
  BY <1>1, <1>3 DEF TypeOK, Verdict, OnlyLimited
<1>4. CASE d = c
  <2>1. \/ want'[c].health = "fused" /\ ~want'[c].sched
        \/ want'[c].health = "survivor" /\ want'[c].sched
    <3>1. want[c] \in Desired
      BY DEF TypeOK
    <3>2. want'[c] = KeepAsSurvivor(c) \/ want'[c] = Fuse(c)
      BY <1>1 DEF TypeOK
    <3>3. KeepAsSurvivor(c).health = "survivor" /\ KeepAsSurvivor(c).sched = TRUE
      BY <3>1 DEF Desired, KeepAsSurvivor
    <3>4. Fuse(c).health = "fused" /\ Fuse(c).sched = FALSE
      BY DEF Fuse
    <3> HIDE DEF KeepAsSurvivor, Fuse
    <3> QED BY <3>2, <3>3, <3>4
  <2>2. st[c].health = "fused" => now >= st[c].until
    BY <1>2 DEF Verdict
  <2> QED BY <1>2, <1>4, <2>1, <2>2 DEF Verdict, OnlyLimited
<1> QED BY <1>3, <1>4

\* A rate limit by itself gives the soft breaker no trigger.
LEMMA LimitGivesNoTrigger ==
  ASSUME NEW g \in Groups, NEW c \in SoftHits(g)
  PROVE  Breakable(c) /\ ~OnlyLimited(c)
BY DEF SoftHits, Trigger, RateLimited, OnlyLimited

\* No round has begun at the start.
LEMMA InitVerdicts == Init => Verdicts
BY DEF Init, Verdicts

\* Every step of a round keeps the verdicts of all channels.
LEMMA NextVerdicts == TypeOK /\ Verdicts /\ [Next]_vars => Verdicts'
<1> SUFFICES ASSUME TypeOK, Verdicts, [Next]_vars PROVE Verdicts'
  OBVIOUS
<1>1. CASE BeginRound
  <2> SUFFICES ASSUME NEW c \in Channels PROVE Verdict(c)'
    BY DEF Verdicts
  <2>1. ev' \in [Channels -> Evidence] /\ mode' \in [Channels -> Modes] /\ now' \in Nat
    BY <1>1, ObservationType DEF BeginRound, Lists, TypeOK
  <2>2. want'[c] = ListsAndRecovery(c, mode'[c], ev'[c], now') /\ st' = st
    BY <1>1 DEF BeginRound
  <2> HIDE <1>1
  <2> QED BY <2>1, <2>2, ListsVerdict DEF Verdict
<1>2. ASSUME NEW c \in Channels, MultiplierBreaker(c) PROVE Verdicts'
  <2>1. Breakable(c) /\ ~OnlyLimited(c) /\ \A d \in Channels : Verdict(d)
    BY <1>2 DEF MultiplierBreaker, PriceHits, OnlyLimited, Verdicts
  <2> QED BY <1>2, <2>1, BreakVerdict DEF MultiplierBreaker, Verdicts
<1>3. ASSUME NEW g \in Groups, NEW c \in Channels, HardBreaker(g, c) PROVE Verdicts'
  <2>1. Breakable(c) /\ ~OnlyLimited(c) /\ \A d \in Channels : Verdict(d)
    BY <1>3 DEF HardBreaker, First, HardHits, OnlyLimited, Verdicts
  <2> QED BY <1>3, <2>1, BreakVerdict DEF HardBreaker, Verdicts
<1>4. ASSUME NEW g \in Groups, NEW c \in Channels, SoftBreaker(g, c) PROVE Verdicts'
  <2>1. Breakable(c) /\ ~OnlyLimited(c) /\ \A d \in Channels : Verdict(d)
    BY <1>4, LimitGivesNoTrigger DEF SoftBreaker, First, Verdicts
  <2>2. CASE SoftDegrade(c)
    <3> SUFFICES ASSUME NEW d \in Channels PROVE Verdict(d)'
      BY DEF Verdicts
    <3>1. mode[c] = "managed" /\ Verdict(d)
      BY <2>1 DEF Breakable, Managed
    <3>2. UNCHANGED <<st, now, mode, ev>>
      BY <1>4 DEF SoftBreaker
    <3>3. CASE want'[d] = want[d]
      BY <3>1, <3>2, <3>3 DEF Verdict, OnlyLimited
    <3>4. CASE d = c /\ want'[c] = [want[c] EXCEPT !.health = "degraded"]
      <4>1. want'[d].health = "degraded"
        BY <3>4 DEF TypeOK, Desired
      <4>2. st[d].health = "fused" => now >= st[d].until
        BY <2>1, <3>1, <3>4 DEF Breakable, Verdict, Managed
      <4> QED BY <3>1, <3>2, <3>4, <4>1, <4>2 DEF Verdict, OnlyLimited
    <3> QED BY <2>2, <3>3, <3>4 DEF SoftDegrade, TypeOK
  <2>3. CASE SoftOutOfBudget
    BY <1>4, <2>1, <2>3 DEF SoftBreaker, SoftOutOfBudget, Verdicts, Verdict, OnlyLimited
  <2>4. CASE SoftFuse(c)
    BY <1>4, <2>1, <2>4, BreakVerdict DEF SoftBreaker, SoftFuse, Verdicts
  <2> QED BY <1>4, <2>2, <2>3, <2>4 DEF SoftBreaker
<1>5. CASE EndMultiplier \/ EndHard \/ EndSoft \/ \E g \in Groups : NextGroup(g)
  BY <1>5 DEF EndMultiplier, EndHard, EndSoft, NextGroup, Verdicts, Verdict, OnlyLimited
<1>6. CASE Grade
  <2> SUFFICES ASSUME NEW c \in Channels PROVE Verdict(c)'
    BY DEF Verdicts
  <2>1. Verdict(c) /\ want'[c] = Graded(c) /\ UNCHANGED <<st, now, mode, ev>>
    BY <1>6 DEF Grade, Verdicts
  <2>2. CASE want[c].health \in {"fused", "excluded", "survivor", "paused"}
    BY <2>1, <2>2 DEF Graded, Verdict, OnlyLimited
  <2>3. CASE want[c].health \notin {"fused", "excluded", "survivor", "paused"}
    <3>1. Graded(c).health \in {"unknown", "degraded", "healthy"}
      BY <2>3 DEF Graded, TypeOK, Desired
    <3> QED BY <2>1, <2>3, <3>1 DEF Verdict, OnlyLimited
  <2> QED BY <2>2, <2>3
<1>7. CASE ApplyAndPersist
  BY <1>7 DEF ApplyAndPersist, Verdicts
<1>8. CASE UNCHANGED vars
  BY <1>8 DEF vars, round, Verdicts, Verdict, OnlyLimited
<1> QED
  BY <1>1, <1>2, <1>3, <1>4, <1>5, <1>6, <1>7, <1>8 DEF Next

\* In every state the verdicts of a round are what the theorems below need.
THEOREM VerdictsHold == Spec => []Verdicts
<1>1. Init => Verdicts
  BY InitVerdicts
<1>2. TypeOK /\ Verdicts /\ [Next]_vars => Verdicts'
  BY NextVerdicts
<1> QED BY <1>1, <1>2, TypeCorrect, PTL DEF Spec

\* A paused channel is wanted off and paused from the moment the lists are applied.
THEOREM PauseOutranks == Spec => []PauseWins
<1>1. Verdicts => PauseWins
  BY DEF Verdicts, Verdict, PauseWins
<1> QED BY <1>1, VerdictsHold, PTL

----------------------------------------------------------------------------
\* What a step may do to the persisted states: they change at the end of a round only.
LEMMA OnlyApplyPersists ==
  ASSUME TypeOK, [Next]_vars, st' # st
  PROVE  ApplyAndPersist
BY DEF Next, vars, round, BeginRound, MultiplierBreaker, EndMultiplier, HardBreaker,
       SoftBreaker, NextGroup, EndHard, EndSoft, Grade

\* What is persisted: the old health if the write did not take effect, else the wanted one.
LEMMA PersistedHealth ==
  ASSUME TypeOK, Verdicts, ApplyAndPersist, NEW c \in Channels
  PROVE  /\ Verdict(c)
         /\ st'[c].health # st[c].health =>
              st'[c].health = want[c].health /\ (mode[c] # "excluded" => up'[c] = want[c].sched)
<1>1. Verdict(c)
  BY DEF ApplyAndPersist, Verdicts
<1>2. PICK stuck \in SUBSET Channels :
        /\ st'[c].health = EffectiveHealth(c, stuck)
        /\ mode[c] # "excluded" /\ c \notin stuck => up'[c] = want[c].sched
  BY DEF ApplyAndPersist
<1> QED BY <1>1, <1>2 DEF EffectiveHealth

\* The cooldown of a fused channel is waited for.
THEOREM CooldownKept == Spec => CooldownHolds
<1>1. TypeOK /\ Verdicts /\ [Next]_vars =>
        [\A c \in Channels :
           st[c].health = "fused" /\ st'[c].health \notin {"fused", "paused", "excluded"}
             => now >= st[c].until]_vars
  BY OnlyApplyPersists, PersistedHealth DEF Verdict
<1> QED BY <1>1, TypeCorrect, VerdictsHold, PTL DEF Spec, CooldownHolds

\* Rate limiting alone does not fuse.
THEOREM LimitedSpared == Spec => LimitedNeverFused
<1>1. TypeOK /\ Verdicts /\ [Next]_vars =>
        [\A c \in Channels :
           (ev[c].seen /\ ev[c].quota /\ ~ev[c].fatal /\ ~ev[c].pricey)
             => ~(st[c].health # "fused" /\ st'[c].health = "fused")]_vars
  BY OnlyApplyPersists, PersistedHealth DEF Verdict, OnlyLimited
<1> QED BY <1>1, TypeCorrect, VerdictsHold, PTL DEF Spec, LimitedNeverFused

\* A health that says which way traffic goes is entered only when the flag followed.
THEOREM HealthIsEffective == Spec => HealthTookEffect
<1>1. TypeOK /\ Verdicts /\ [Next]_vars =>
        [\A c \in Channels : st'[c].health # st[c].health =>
           /\ st'[c].health \in {"fused", "paused"} => ~up'[c]
           /\ st'[c].health = "survivor" => up'[c]]_vars
  BY OnlyApplyPersists, PersistedHealth DEF Verdict
<1> QED BY <1>1, TypeCorrect, VerdictsHold, PTL DEF Spec, HealthTookEffect
============================================================================

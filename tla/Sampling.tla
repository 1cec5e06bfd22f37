------------------------------ MODULE Sampling ------------------------------
(***************************************************************************)
(* How Guardian learns of a channel and what it makes of that              *)
(* (engine/collect.go, scoring, store/samples.go and the tests of          *)
(* engine/decide.go on the samples): every round pulls the requests        *)
(* sub2api served lately and probes the channel when it is time to; every  *)
(* answer becomes a sample, the latest samples become a score, and the     *)
(* score takes the channel out of the pool or back. Out of the pool it     *)
(* serves no requests, so that its probes are all that can bring it back.  *)
(*                                                                         *)
(* One channel, in a group that can spare it: the pool's floor, the        *)
(* administrator's lists and the write-back are the concern of Decide and  *)
(* ChannelSync. Time is counted in units; an age is capped where no test   *)
(* tells it from a greater one. Requests come at most one a unit. A round  *)
(* takes less than a unit, and one begins in every unit.                   *)
(***************************************************************************)
EXTENDS Integers, Sequences, FiniteSets, FiniteSetsExt

CONSTANTS
  Answers,    \* what the channel may answer, of type Answer
  Policy,     \* the effective policy, of type PolicyType
  Switches,   \* the settings of the switches an administrator chooses from
  MaxUpsets   \* bound: changes of the channel and the switches, failures, stops

Words   == {"quota", "auth", "fatal", "network"}
Answer  == [success : BOOLEAN, status : Nat, words : SUBSET Words,
            slow : BOOLEAN, crawl : BOOLEAN, timeout : BOOLEAN]
Events  == {"perfect", "slow", "unknown", "gateway", "quota", "probe_fail", "fatal"}
PolicyType ==
  [score : [Events -> 0..100], shortWindow : Nat \ {0}, longWindow : Nat \ {0},
   latestWeight : 0..100, shortRatio : 0..100, gatewayCodes : SUBSET Nat, instantCodes : SUBSET Nat,
   httpWindow : Nat \ {0}, httpFailures : Nat \ {0}, httpBelow : 0..100, httpDegradeOnly : BOOLEAN,
   slowWindow : Nat \ {0}, slowTimes : Nat \ {0}, slowDegradeOnly : BOOLEAN,
   target : 0..100, successes : Nat \ {0}, hold : Nat, cooldown : Nat, recoverEvery : Nat,
   probeEvery : Nat, fresh : Nat, refresh : Nat, lookback : Nat, keep : Nat \ {0}]

ASSUME SamplingAssumption ==
  /\ Answers \subseteq Answer
  /\ Policy \in PolicyType
  /\ Policy.shortWindow <= Policy.longWindow
  /\ Policy.httpFailures <= Policy.httpWindow /\ Policy.slowTimes <= Policy.slowWindow
  /\ Switches \subseteq [probe : BOOLEAN, recovery : BOOLEAN, traffic : BOOLEAN, skip : BOOLEAN]
  /\ MaxUpsets \in Nat

Never == -1                          \* the zero time
\* No test tells these ages from greater ones.
OldSample  == Max({Policy.hold, Policy.fresh, Policy.lookback + 1})
OldProbe   == Max({Policy.recoverEvery, Policy.probeEvery})
OldTraffic == Policy.refresh
Sample == [src : {"traffic", "probe"}, age : 0..OldSample, answer : Answer]

VARIABLES
  cond,     \* what the channel answers at present
  served,   \* sub2api's record of requests, by age: of each unit no answer or one
  on,       \* the switches of the policy
  samples,  \* table samples, the latest first
  st,       \* the stored state: [health, cool, probe, traffic, sample]
  mem,      \* the copy of it that the round works on
  pc,       \* "idle", "pull", "rows", "probe", "judge"
  row,      \* the age of the request that the pull stores next
  want,     \* whether the round is to probe
  ran,      \* whether a round has begun in this unit
  upsets    \* how much of MaxUpsets is used

vars == <<cond, served, on, samples, st, mem, pc, row, want, ran, upsets>>

calm  == upsets = MaxUpsets
Upset == ~calm /\ upsets' = upsets + 1
Interrupted == [success |-> FALSE, status |-> 0, words |-> {"network"},
                slow |-> FALSE, crawl |-> FALSE, timeout |-> FALSE]

----------------------------------------------------------------------------
\* What an answer is worth.

Authless(a) == "auth" \notin a.words
\* 429 and 402 say it; otherwise the words do, unless they also speak of credentials.
Exhausted(a) == a.status \in {402, 429} \/ ("quota" \in a.words /\ Authless(a))
Fatal(a)     == a.status \in {401, 402, 403} \/ "fatal" \in a.words
Classify(a) ==
  IF ~a.success /\ Exhausted(a) THEN "quota"
  ELSE IF Fatal(a) THEN "fatal"
  ELSE IF a.success THEN (IF a.slow THEN "slow" ELSE "perfect")
  ELSE IF a.status \in Policy.gatewayCodes THEN "gateway"
  ELSE IF a.timeout \/ (a.status = 0 /\ "network" \in a.words) THEN "probe_fail"
  ELSE "unknown"
Event(s)   == Classify(s.answer)
Failure(s) == Event(s) \notin {"perfect", "slow"}

Latest(ss, n) == SubSeq(ss, 1, Min({n, Len(ss)}))
CountGatewayFailures(ss, n) ==
  Cardinality({i \in DOMAIN Latest(ss, n) : Event(ss[i]) \in {"gateway", "probe_fail"}})
CountSlowResponses(ss, n) == Cardinality({i \in DOMAIN Latest(ss, n) : ss[i].answer.crawl})
HasFatal(ss, n) == \E i \in DOMAIN Latest(ss, n) : Event(ss[i]) = "fatal"
Score(s) == Policy.score[Event(s)]
\* The latest sample has a weight of its own; of the rest each weighs half of the one
\* before it.
ShortScore(ss) ==
  LET w == Latest(ss, Policy.shortWindow)
      n == Len(w)
      raw(i) == 2 ^ (n - i)
      rest == SumSet({0} \cup {2 ^ (n - i) : i \in 2..n}) IN
  IF n = 1 THEN Score(w[1])
  ELSE (Policy.latestWeight * Score(w[1]) * rest
         + (100 - Policy.latestWeight) * MapThenSumSet(LAMBDA i : Score(w[i]) * raw(i), 2..n))
       \div (100 * rest)
LongScore(ss) ==
  LET w == Latest(ss, Policy.longWindow) IN
  MapThenSumSet(LAMBDA i : Score(w[i]), DOMAIN w) \div Len(w)
Final(ss) ==
  IF ss = <<>> THEN 0
  ELSE IF Event(ss[1]) = "fatal" THEN Policy.score["fatal"]
  ELSE (ShortScore(ss) * Policy.shortRatio + LongScore(ss) * (100 - Policy.shortRatio)) \div 100
\* How many of the latest samples in a row were successes.
Streak(ss) == Max({0} \cup {n \in DOMAIN ss : \A i \in 1..n : ~Failure(ss[i])})

----------------------------------------------------------------------------
\* When to look.

OlderThan(age, limit) == age = Never \/ age >= limit

\* Mutant: the switch of the probes also stops those of a channel out of the pool.
ShouldProbeSwitched(s) ==
  /\ on.probe
  /\ IF s.health = "fused" THEN on.recovery /\ OlderThan(s.probe, Policy.recoverEvery)
     ELSE \/ s.sample = Never
          \/ /\ on.skip => OlderThan(s.sample, Policy.fresh)
             /\ OlderThan(s.probe, Policy.probeEvery)
\* Out of the pool only the switch of the recovery counts.
ShouldProbe(s) ==
  IF s.health = "fused" THEN on.recovery /\ OlderThan(s.probe, Policy.recoverEvery)
  ELSE /\ on.probe
       /\ \/ s.sample = Never
          \/ /\ on.skip => OlderThan(s.sample, Policy.fresh)
             /\ OlderThan(s.probe, Policy.probeEvery)

Begin ==
  /\ pc = "idle" /\ ~ran
  /\ mem' = st /\ want' = ShouldProbe(st) /\ ran' = TRUE
  /\ pc' = IF on.traffic /\ OlderThan(st.traffic, Policy.refresh) THEN "pull"
           ELSE IF want' THEN "probe" ELSE "judge"
  /\ UNCHANGED <<cond, served, on, samples, st, row, upsets>>

\* Mutant: the row that came in last goes first.
InsertFirst(ss, s) == <<s>> \o ss
\* A row goes before those that are not younger: ORDER BY occurred_at DESC, id DESC.
Insert(ss, s) ==
  LET k == Cardinality({i \in DOMAIN ss : ss[i].age < s.age}) IN
  SubSeq(ss, 1, k) \o <<s>> \o SubSeq(ss, k + 1, Len(ss))
\* Mutant: a request is stored again by every pull that still sees it.
KnownNot(ss, age) == FALSE
\* The unique index on the account and the request.
Known(ss, age) == \E i \in DOMAIN ss : ss[i].src = "traffic" /\ ss[i].age = age

\* pullTraffic: the answer may be lost, then the next pull asks for it again.
AfterPull == IF want THEN "probe" ELSE "judge"
Pull ==
  /\ pc = "pull"
  /\ \/ mem' = [mem EXCEPT !.traffic = 0] /\ pc' = "rows" /\ UNCHANGED upsets
     \/ Upset /\ pc' = AfterPull /\ UNCHANGED mem
  /\ UNCHANGED <<cond, served, on, samples, st, want, ran, row>>

\* The requests come from the latest to the oldest, and each is stored by itself: one that
\* cannot be is left to the next pull. A request without an id, which the code passes over, is
\* not counted among those served.
NewRow == served[row] # {} /\ ~Known(samples, row)
Request(a) == [src |-> "traffic", age |-> row, answer |-> a]
Row ==
  /\ pc = "rows"
  /\ \/ ~NewRow /\ UNCHANGED <<samples, upsets>>
     \/ /\ NewRow
        /\ \E a \in served[row] : samples' = Insert(samples, Request(a))
        /\ UNCHANGED upsets
     \/ NewRow /\ Upset /\ UNCHANGED samples
  /\ IF row < Policy.lookback THEN row' = row + 1 /\ UNCHANGED pc
                              ELSE row' = 0 /\ pc' = AfterPull
  /\ UNCHANGED <<cond, served, on, st, mem, want, ran>>

\* probeOne: a probe whose sample cannot be written counts as not made.
Probed(a) == Insert(samples, [src |-> "probe", age |-> 0, answer |-> a])
Probe ==
  /\ pc = "probe"
  /\ \/ /\ samples' = Probed(cond) /\ mem' = [mem EXCEPT !.probe = 0]
        /\ UNCHANGED upsets
     \/ Upset /\ UNCHANGED <<samples, mem>>
  /\ pc' = "judge"
  /\ UNCHANGED <<cond, served, on, st, row, want, ran>>

\* The round is cancelled, or the process stops: what it has in memory is lost. A
\* probe that is cancelled is stored as a failed one.
Stop ==
  /\ Upset
  /\ pc # "idle"
  /\ \/ pc = "probe" /\ samples' = Probed(Interrupted)
     \/ UNCHANGED samples
  /\ pc' = "idle" /\ row' = 0 /\ mem' = st /\ want' = FALSE
  /\ UNCHANGED <<cond, served, on, st, ran>>

----------------------------------------------------------------------------
\* What to make of it.

\* applyRecovery, on the samples.
Recovers(ss, s) ==
  /\ s.health = "fused" /\ on.recovery /\ s.cool = 0
  /\ ~HasFatal(ss, Policy.successes)
  /\ Final(ss) >= Policy.target /\ Streak(ss) >= Policy.successes
  /\ ss # <<>> => ss[Streak(ss)].age >= Policy.hold

FatalOverride(ss) == ss # <<>> /\ Event(ss[1]) = "fatal"
FailsOften(ss) ==
  /\ CountGatewayFailures(ss, Policy.httpWindow) >= Policy.httpFailures
  /\ Final(ss) < Policy.httpBelow
\* softBreakerReason, with what is only degraded left out: the first reason counts.
Trips(ss) ==
  /\ ss # <<>> /\ Event(ss[1]) # "quota"
  /\ \/ ss[1].answer.status \in Policy.instantCodes
     \/ FailsOften(ss) /\ ~Policy.httpDegradeOnly
     \/ /\ ~FailsOften(ss) /\ ~Policy.slowDegradeOnly
        /\ CountSlowResponses(ss, Policy.slowWindow) >= Policy.slowTimes

\* The channel comes back first, and may be taken out again at once.
Verdict(ss, s) ==
  LET stays == s.health = "fused" /\ ~Recovers(ss, s) IN
  IF stays THEN s
  ELSE IF FatalOverride(ss) \/ Trips(ss)
  THEN [s EXCEPT !.health = "fused", !.cool = Policy.cooldown]
  ELSE [s EXCEPT !.health = "pool", !.cool = 0]

\* loadSamplesAndScore, decide, persist, maintenance. Without its samples the channel
\* has no score: it is left as it is.
Judge ==
  /\ pc = "judge"
  /\ LET ss == Latest(samples, Policy.longWindow) IN
     \/ /\ st' = [Verdict(ss, mem) EXCEPT !.sample = IF ss = <<>> THEN @ ELSE ss[1].age]
        /\ UNCHANGED upsets
     \/ Upset /\ st' = mem
  /\ samples' = Latest(samples, Policy.keep)
  /\ pc' = "idle" /\ mem' = st' /\ want' = FALSE
  /\ UNCHANGED <<cond, served, on, row, ran>>

----------------------------------------------------------------------------
\* The environment.

Older(age, old) == IF age = Never THEN Never ELSE Min({old, age + 1})
\* A unit passes; a channel in the pool may serve a request.
Tick ==
  /\ pc = "idle"
  /\ \E a \in {{}} \cup (IF st.health = "pool" THEN {{cond}} ELSE {}) :
       served' = [age \in 0..Policy.lookback |-> IF age = 0 THEN a ELSE served[age - 1]]
  /\ samples' = [i \in DOMAIN samples |-> [samples[i] EXCEPT !.age = Older(@, OldSample)]]
  /\ st' = [st EXCEPT !.probe = Older(@, OldProbe), !.traffic = Older(@, OldTraffic),
                      !.sample = Older(@, OldSample), !.cool = IF @ = 0 THEN 0 ELSE @ - 1]
  /\ mem' = st' /\ ran' = FALSE
  /\ UNCHANGED <<cond, on, pc, row, want, upsets>>
\* The channel breaks or mends; an administrator turns switches.
Turn ==
  /\ Upset /\ pc \in {"idle", "probe"}
  /\ cond' \in Answers \ {cond}
  /\ UNCHANGED <<served, on, samples, st, mem, pc, row, want, ran>>
Switch ==
  /\ Upset /\ pc = "idle"
  /\ on' \in Switches \ {on}
  /\ UNCHANGED <<cond, served, samples, st, mem, pc, row, want, ran>>

Init ==
  /\ cond \in Answers /\ on \in Switches
  /\ served = [age \in 0..Policy.lookback |-> {}] /\ samples = <<>>
  /\ st = [health |-> "pool", cool |-> 0, probe |-> Never, traffic |-> Never, sample |-> Never]
  /\ mem = st /\ pc = "idle" /\ row = 0 /\ want = FALSE /\ ran = FALSE /\ upsets = 0

Step == Begin \/ Pull \/ Row \/ Probe \/ Judge
Next == Step \/ Stop \/ Tick \/ Turn \/ Switch

\* The loop starts round after round, a round goes on, and time passes.
Spec == Init /\ [][Next]_vars /\ WF_vars(Step) /\ WF_vars(Tick)

----------------------------------------------------------------------------
\* Properties.

\* The variables keep their types, a round begins from what is stored, and no request
\* is kept twice, although the pulls overlap.
TypeOK ==
  /\ cond \in Answers /\ on \in Switches /\ upsets \in 0..MaxUpsets
  /\ served \in [0..Policy.lookback -> {{}} \cup {{a} : a \in Answers}]
  /\ \A i \in DOMAIN samples :
       /\ samples[i].age \in 0..OldSample /\ samples[i].src \in {"traffic", "probe"}
       /\ samples[i].answer \in Answers \cup {Interrupted}
  /\ \A s \in {st, mem} : /\ s.health \in {"pool", "fused"} /\ s.cool \in 0..Policy.cooldown
                          /\ s.probe \in Never..OldProbe /\ s.traffic \in Never..OldTraffic
                          /\ s.sample \in Never..OldSample
  /\ pc \in {"idle", "pull", "rows", "probe", "judge"} /\ row \in 0..Policy.lookback
  /\ want \in BOOLEAN /\ ran \in BOOLEAN
  /\ pc = "idle" => mem = st
  /\ \A i, j \in DOMAIN samples : /\ samples[i].src = "traffic" /\ samples[j].src = "traffic"
                                  /\ i # j /\ samples[i].age <= Policy.lookback
                                  => samples[i].age # samples[j].age

\* What happened at the latest n moments of which a sample tells, by the age of the
\* samples, however they came in.
Happened(n) ==
  {i \in DOMAIN samples :
     Cardinality({j \in DOMAIN samples : samples[j].age < samples[i].age}) < n}

\* A channel leaves the pool only for what happened last: a fatal or forbidden answer,
\* or as many different bad ones as the breaker asks for among those it looks at. It
\* comes back only when the last answers are good.
Grounded ==
  [][/\ (st.health = "pool" /\ st'.health = "fused") =>
          \/ \E i \in Happened(1) : \/ Event(samples[i]) = "fatal"
                                 \/ samples[i].answer.status \in Policy.instantCodes
          \/ Cardinality({i \in Happened(Policy.httpWindow) : Failure(samples[i])})
               >= Policy.httpFailures
          \/ Cardinality({i \in Happened(Policy.slowWindow) : samples[i].answer.crawl})
               >= Policy.slowTimes
     /\ (st.health = "fused" /\ st'.health = "pool") =>
          \E i \in Happened(1) : ~Failure(samples[i])]_vars

\* A channel that is well for good, and may recover, does not stay out of the pool:
\* it is probed although it serves no requests, whatever the other switches say and
\* whatever was stored of it (README.md, on the way back into the pool).
Well    == Classify(cond) = "perfect" /\ ~cond.crawl
Returns == <>[](Well /\ on.recovery) => []<>(st.health = "pool")
=============================================================================

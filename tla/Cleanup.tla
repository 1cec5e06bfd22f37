------------------------------- MODULE Cleanup -------------------------------
(***************************************************************************)
(* Fatal cleanup (engine/cleanup.go), the last step of a round before its  *)
(* states are saved: channels that keep failing fatally are put on the     *)
(* operator's pause list, disabled on sub2api, or deleted there.           *)
(*                                                                         *)
(* It decides from what the round loaded at its start (the lists, the      *)
(* accounts, the eligible-since times), minutes before it acts. Every      *)
(* request and every save is a step of its own: it may fail, a request may *)
(* take effect and be reported as failed, the process may crash, and       *)
(* handlers of the API read the policy row and write it back whole while   *)
(* cleanup does the same (cleanupByPause), and manual operations do so     *)
(* with the state row of a channel.                                        *)
(*                                                                         *)
(* What makes a channel a candidate (failures in the window, no rate       *)
(* limit, not a survivor) is one bit of a round's observation: each of     *)
(* these guards resets the channel's observation time in the same way.     *)
(* Time passes in rounds; an age of 0 stands for the zero time, and ages   *)
(* saturate once the observation time has passed.                          *)
(***************************************************************************)
EXTENDS Naturals, FiniteSets

CONSTANTS
  Channels,      \* account ids (naturals: candidates are handled in their order)
  Groups,        \* the guarded groups
  GroupsOf,      \* [Channels -> non-empty SUBSET Groups]
  Actions,       \* the actions that may be configured
  MaxPerRound,   \* channels taken out per round, at most
  KeepLast,      \* KeepLastInGroup
  MinAge,        \* MinFusedMinutes, in rounds
  MaxUpsets      \* bound: failures, crashes, edits on sub2api and requests of operators

Steps == {"pick", "read", "intent", "save", "send", "rollback", "predisable", "delete", "drop"}

ASSUME CleanupAssumption ==
  /\ Channels \subseteq Nat /\ IsFiniteSet(Channels)
  /\ GroupsOf \in [Channels -> SUBSET Groups]
  /\ Actions \subseteq {"pause", "disable", "delete"}
  /\ MaxPerRound \in Nat \ {0} /\ MinAge \in Nat /\ KeepLast \in BOOLEAN
  /\ MaxUpsets \in Nat

Site == [there : BOOLEAN, active : BOOLEAN, up : BOOLEAN]
Row  == [excluded : SUBSET Channels, paused : SUBSET Channels]
Ages == 0..(MinAge + 1)
Ops  == [at : {"idle", "save", "state"}, who : SUBSET Channels, row : Row, since : Ages]
Seen == [members : SUBSET Channels, active : SUBSET Channels, up : SUBSET Channels,
         excluded : SUBSET Channels, paused : SUBSET Channels]

VARIABLES
  action,    \* the configured action
  site,      \* [Channels -> Site]: the accounts on sub2api
  row,       \* the policy row, as far as cleanup reads or writes it
  scope,     \* the channels of guarded groups
  base,      \* the channels that have a baseline
  since,     \* [Channels -> Ages]: CleanupEligibleSince as stored
  phase,     \* "idle", "collect", "clean" or "persist"
  seen,      \* what the round has loaded
  mem,       \* [Channels -> Ages]: CleanupEligibleSince in the round's memory
  queue,     \* the candidates still to handle
  done,      \* r.cleanedUp
  job,       \* the candidate in hand: its step, and the row read for it
  op,        \* the request of an operator that has read the policy row or a state row
  upsets,
  taken,     \* history: channels this round's cleanup has taken out, reported or not
  blind,     \* history: one of them was reported as failed
  clear,     \* history: the channels this round's verdict found to be no candidates
  stale,     \* history: the channels whose last such verdict was overwritten
  okAgo      \* history: rounds since such a verdict was stored

round   == <<phase, seen, mem, queue, done, job>>
history == <<taken, blind, clear, stale, okAgo>>
vars    == <<action, site, row, scope, base, since, round, op, upsets, history>>

Upset == upsets < MaxUpsets /\ upsets' = upsets + 1
Members(g) == {c \in seen.members : g \in GroupsOf[c]}

NoJob  == [at |-> "pick", row |-> [excluded |-> {}, paused |-> {}]]
NoSeen == [members |-> {}, active |-> {}, up |-> {}, excluded |-> {}, paused |-> {}]
Idle   == [c \in Channels |-> 0]
NoOp   == [at |-> "idle", who |-> {}, row |-> NoJob.row, since |-> 0]

Older(n) == IF n <= MinAge THEN n + 1 ELSE n
Aged(n)  == IF n = 0 THEN 0 ELSE Older(n)

----------------------------------------------------------------------------
\* The round up to its candidates.

\* Sync and buildRound. States of accounts that are gone are deleted.
BeginRound ==
  /\ phase = "idle" /\ phase' = "collect"
  /\ LET there == {c \in Channels : site[c].there} IN
     /\ seen' = [members  |-> there \cap scope,
                 active   |-> {c \in there : site[c].active},
                 up       |-> {c \in there : site[c].up},
                 excluded |-> row.excluded,
                 paused   |-> row.paused]
     /\ since' = [c \in Channels |-> IF c \in there THEN Aged(since[c]) ELSE 0]
     /\ mem' = since'
  /\ op' = [op EXCEPT !.since = Aged(@)]
  /\ okAgo' = [c \in Channels |-> Older(okAgo[c])]
  /\ UNCHANGED <<action, site, row, scope, base, queue, done, job, upsets, taken, blind,
                 clear, stale>>

\* Mutant: a channel that is no candidate keeps the time it once became one.
ObservedForGood(c, failing) ==
  IF c \in failing /\ c \notin seen.excluded /\ mem[c] = 0 THEN 1 ELSE mem[c]

\* collectCleanupCandidates, on the eligible-since time of one channel.
Observed(c, failing) ==
  IF c \in failing /\ c \notin seen.excluded
  THEN IF mem[c] = 0 THEN 1 ELSE mem[c]
  ELSE 0

Candidates(ages, failing) ==
  {c \in seen.members : c \in failing /\ c \notin seen.excluded /\ ages[c] > MinAge}

\* applyAll before cleanup, whose verdicts and failures are not cleanup's: a candidate's flag
\* may be switched, but not on if it is paused, and an excluded channel may be given back.
Flippable(cands) ==
  {c \in cands : site[c].there /\ (c \in seen.up \/ c \notin seen.paused)}

Verdict(failing) ==
  [c \in Channels |-> IF c \in seen.members THEN Observed(c, failing) ELSE mem[c]]

Switched(flip, back) ==
  [c \in Channels |-> IF c \in flip THEN [site[c] EXCEPT !.up = c \notin seen.up]
                      ELSE IF c \in back THEN [site[c] EXCEPT !.active = TRUE, !.up = TRUE]
                      ELSE site[c]]

Judge ==
  /\ phase = "collect" /\ phase' = "clean"
  /\ \E failing \in SUBSET seen.members :
       \E flip \in SUBSET Flippable(Candidates(Verdict(failing), failing)),
          back \in SUBSET {c \in seen.excluded \cap base : site[c].there} :
         /\ mem' = Verdict(failing)
         /\ queue' = Candidates(Verdict(failing), failing)
         /\ seen' = [seen EXCEPT !.up = (@ \ flip) \cup (flip \ @)]
         /\ site' = Switched(flip, back)
         /\ base' = (base \cup flip) \ back
         /\ clear' = seen.members \ (failing \ seen.excluded)
  /\ UNCHANGED <<action, row, scope, since, done, job, op, upsets, taken, blind, stale, okAgo>>

----------------------------------------------------------------------------
\* One candidate after another.

\* Mutant: the snapshot is taken for the truth, the channels taken out included.
SurvivingInSnapshot(g, c) == {d \in Members(g) : d # c /\ d \notin seen.excluded}

\* survivingMembers
Surviving(g, c) == {d \in Members(g) : d # c /\ d \notin seen.excluded /\ d \notin done}

\* The guard of executeCleanup.
LastOfAGroup(c) == KeepLast /\ \E g \in GroupsOf[c] : Surviving(g, c) = {}

At(step, c) ==
  /\ phase = "clean" /\ job.at = step
  /\ c \in queue /\ \A d \in queue : c <= d

Goto(step) == job' = [job EXCEPT !.at = step] /\ UNCHANGED <<queue, done>>

\* Mutant: a candidate that was left alone uses up the round's quota.
LeftCounted(c) == queue' = queue \ {c} /\ done' = done \cup {c} /\ job' = NoJob

\* executeCleanup returns false: the candidate has not been dealt with.
Left(c) == queue' = queue \ {c} /\ job' = NoJob /\ UNCHANGED done

\* It returns true.
Dealt(c) == queue' = queue \ {c} /\ done' = done \cup {c} /\ job' = NoJob

\* applyCleanup's quota and executeCleanup's head.
Pick(c) ==
  /\ At("pick", c)
  /\ \/ (Cardinality(done) >= MaxPerRound \/ LastOfAGroup(c)) /\ Left(c)
     \/ /\ Cardinality(done) < MaxPerRound /\ ~LastOfAGroup(c)
        /\ \/ action = "pause" /\ Goto("read")
           \/ action = "disable" /\ c \in seen.active /\ Goto("intent")
           \/ action = "disable" /\ c \notin seen.active /\ Left(c)
           \/ action = "delete" /\ c \in seen.up /\ Goto("predisable")
           \/ action = "delete" /\ c \notin seen.up /\ Goto("delete")
  /\ UNCHANGED <<action, site, row, scope, base, since, phase, seen, mem, op, upsets, history>>

\* cleanupByPause reads the row afresh.
ReadRow(c) ==
  /\ At("read", c)
  /\ IF c \in row.paused THEN Left(c)
     ELSE job' = [at |-> "intent", row |-> row] /\ UNCHANGED <<queue, done>>
  /\ UNCHANGED <<action, site, row, scope, base, since, phase, seen, mem, op, upsets, history>>

\* ensureBaseline and persistManagedIntent.
Intent(c) ==
  /\ At("intent", c)
  /\ base' = base \cup {c}
  /\ Goto(IF action = "pause" THEN "save" ELSE "send")
  /\ UNCHANGED <<action, site, row, scope, since, phase, seen, mem, op, upsets, history>>

\* The row read before goes back with the channel on its pause list.
SaveRow(c) ==
  /\ At("save", c)
  /\ row' = [job.row EXCEPT !.paused = @ \cup {c}]
  /\ taken' = taken \cup {c}
  /\ IF c \in seen.up THEN Goto("send") ELSE Dealt(c)
  /\ UNCHANGED <<action, site, scope, base, since, phase, seen, mem, op, upsets, blind, clear,
                 stale, okAgo>>

\* SetSchedulable(false) of a pause, UpdateAccount of a disable.
Send(c) ==
  /\ At("send", c)
  /\ site' = IF action = "pause" THEN [site EXCEPT ![c].up = FALSE]
             ELSE [site EXCEPT ![c].active = FALSE]
  /\ taken' = taken \cup {c}
  /\ \/ Dealt(c) /\ UNCHANGED <<upsets, blind>>
     \/ /\ Upset /\ blind' = TRUE
        /\ IF action = "pause" THEN Goto("rollback") ELSE Left(c)
  /\ UNCHANGED <<action, row, scope, base, since, phase, seen, mem, op, clear, stale, okAgo>>

SendLost(c) ==
  /\ At("send", c) /\ Upset
  /\ IF action = "pause" THEN Goto("rollback") ELSE Left(c)
  /\ UNCHANGED <<action, site, row, scope, base, since, phase, seen, mem, op, history>>

\* The pause is taken back from the row as it was read; an error here is ignored.
Rollback(c) ==
  /\ At("rollback", c)
  /\ \/ /\ row' = [job.row EXCEPT !.paused = @ \ {c}]
        /\ taken' = taken \ {c}
        /\ UNCHANGED <<upsets, blind>>
     \/ Upset /\ blind' = TRUE /\ UNCHANGED <<row, taken>>
  /\ Left(c)
  /\ UNCHANGED <<action, site, scope, base, since, phase, seen, mem, op, clear, stale, okAgo>>

\* Traffic is taken off first; whether that works does not matter.
Predisable(c) ==
  /\ At("predisable", c)
  /\ \/ site' = [site EXCEPT ![c].up = FALSE] /\ UNCHANGED upsets
     \/ Upset /\ UNCHANGED site
  /\ Goto("delete")
  /\ UNCHANGED <<action, row, scope, base, since, phase, seen, mem, op, history>>

Delete(c) ==
  /\ At("delete", c)
  /\ site' = [site EXCEPT ![c].there = FALSE]
  /\ taken' = taken \cup {c}
  /\ \/ Goto("drop") /\ UNCHANGED <<upsets, blind>>
     \/ Upset /\ blind' = TRUE /\ Left(c)
  /\ UNCHANGED <<action, row, scope, base, since, phase, seen, mem, op, clear, stale, okAgo>>

DeleteLost(c) ==
  /\ At("delete", c) /\ Upset
  /\ Left(c)
  /\ UNCHANGED <<action, site, row, scope, base, since, phase, seen, mem, op, history>>

\* The baseline of the deleted account goes too; an error is ignored.
Drop(c) ==
  /\ At("drop", c)
  /\ \/ base' = base \ {c} /\ UNCHANGED upsets
     \/ Upset /\ UNCHANGED base
  /\ Dealt(c)
  /\ UNCHANGED <<action, site, row, scope, since, phase, seen, mem, op, history>>

\* The database refuses the row, the baseline or the intent.
StoreFails(c) ==
  /\ At("read", c) \/ At("intent", c) \/ At("save", c)
  /\ Upset /\ Left(c)
  /\ UNCHANGED <<action, site, row, scope, base, since, phase, seen, mem, op, history>>

EndClean ==
  /\ phase = "clean" /\ queue = {} /\ phase' = "persist"
  /\ UNCHANGED <<action, site, row, scope, base, since, seen, mem, queue, done, job, op, upsets,
                 history>>

\* Mutant: what was dealt with outlives its round.
RoundOverButDone ==
  /\ phase' = "idle" /\ seen' = NoSeen /\ mem' = Idle /\ queue' = {} /\ done' = done
  /\ job' = NoJob /\ taken' = {} /\ blind' = FALSE /\ clear' = {}

RoundOver ==
  /\ phase' = "idle" /\ seen' = NoSeen /\ mem' = Idle /\ queue' = {} /\ done' = {}
  /\ job' = NoJob /\ taken' = {} /\ blind' = FALSE /\ clear' = {}

\* persist, complete or stopped by an error after some of the channels.
Persist ==
  /\ phase = "persist"
  /\ \E saved \in {seen.members} \cup {{d \in seen.members : d < c} : c \in seen.members} :
       /\ IF saved = seen.members THEN UNCHANGED upsets ELSE Upset
       /\ since' = [c \in Channels |-> IF c \in saved THEN mem[c] ELSE since[c]]
       /\ okAgo' = [c \in Channels |-> IF c \in saved \cap clear THEN 0 ELSE okAgo[c]]
       /\ stale' = stale \ (saved \cap clear)
  /\ RoundOver
  /\ UNCHANGED <<action, site, row, scope, base, op>>

\* The round fails or is cancelled before its decisions.
Abort ==
  /\ phase = "collect" /\ Upset
  /\ RoundOver
  /\ UNCHANGED <<action, site, row, scope, base, since, op, stale, okAgo>>

----------------------------------------------------------------------------
\* Everybody else.

\* What a handler may make of the row: the lists with or without a channel, or other settings.
Edited(c) ==
  {row, [row EXCEPT !.excluded = @ \cup {c}], [row EXCEPT !.excluded = @ \ {c}],
        [row EXCEPT !.paused = @ \cup {c}],   [row EXCEPT !.paused = @ \ {c}]}

\* A handler reads the policy row...
RequestEdit(c) ==
  /\ op.at = "idle" /\ Upset
  /\ \E edited \in Edited(c) : op' = [NoOp EXCEPT !.at = "save", !.row = edited]
  /\ UNCHANGED <<action, site, row, scope, base, since, round, history>>

\* ...and writes it back whole.
SaveEdit ==
  /\ op.at = "save"
  /\ row' = op.row /\ op' = NoOp
  /\ UNCHANGED <<action, site, scope, base, since, round, upsets, history>>

\* A manual operation or a probe loads the state row of a channel (loadChannel)...
LoadState(c) ==
  /\ op.at = "idle" /\ Upset /\ site[c].there
  /\ op' = [NoOp EXCEPT !.at = "state", !.who = {c}, !.since = since[c]]
  /\ UNCHANGED <<action, site, row, scope, base, since, round, history>>

\* ...and saves it whole after its requests; which of the other fields it changes does not
\* matter here.
SaveState(c) ==
  /\ op.at = "state" /\ c \in op.who
  /\ since' = [since EXCEPT ![c] = op.since]
  /\ stale' = IF since[c] = op.since THEN stale ELSE stale \cup {c}
  /\ op' = NoOp
  /\ UNCHANGED <<action, site, row, scope, base, round, upsets, taken, blind, clear, okAgo>>

\* An administrator edits or deletes the account, or takes it out of the guarded groups.
AdminEdit(c) ==
  /\ Upset /\ site[c].there
  /\ \/ site' = [site EXCEPT ![c].active = ~@] /\ UNCHANGED scope
     \/ site' = [site EXCEPT ![c].there = FALSE] /\ UNCHANGED scope
     \/ scope' = (scope \ {c}) \cup ({c} \ scope) /\ UNCHANGED site
  /\ UNCHANGED <<action, row, base, since, round, op, history>>

Crash ==
  /\ Upset /\ (phase # "idle" \/ op.at # "idle")
  /\ RoundOver /\ op' = NoOp
  /\ UNCHANGED <<action, site, row, scope, base, since, stale, okAgo>>

----------------------------------------------------------------------------
Init ==
  /\ action \in Actions
  /\ site = [c \in Channels |-> [there |-> TRUE, active |-> TRUE, up |-> TRUE]]
  /\ row = [excluded |-> {}, paused |-> {}]
  /\ scope = Channels /\ base = {}
  /\ since = Idle
  /\ phase = "idle" /\ seen = NoSeen /\ mem = Idle /\ queue = {} /\ done = {} /\ job = NoJob
  /\ op = NoOp /\ upsets = 0
  /\ taken = {} /\ blind = FALSE /\ clear = {} /\ stale = {} /\ okAgo = Idle

Handle(c) ==
  \/ Pick(c) \/ ReadRow(c) \/ Intent(c) \/ SaveRow(c) \/ Send(c) \/ SendLost(c)
  \/ Rollback(c) \/ Predisable(c) \/ Delete(c) \/ DeleteLost(c) \/ Drop(c) \/ StoreFails(c)

Round == BeginRound \/ Judge \/ (\E c \in Channels : Handle(c)) \/ EndClean \/ Persist

Next ==
  \/ Round \/ Abort \/ SaveEdit \/ Crash
  \/ \E c \in Channels : RequestEdit(c) \/ LoadState(c) \/ SaveState(c) \/ AdminEdit(c)

\* The heartbeat starts round after round, and a round that has begun goes on.
Spec == Init /\ [][Next]_vars /\ WF_vars(Round)

----------------------------------------------------------------------------
\* Properties.

TypeOK ==
  /\ action \in Actions
  /\ site \in [Channels -> Site] /\ row \in Row
  /\ scope \in SUBSET Channels /\ base \in SUBSET Channels
  /\ since \in [Channels -> Ages] /\ mem \in [Channels -> Ages] /\ okAgo \in [Channels -> Ages]
  /\ phase \in {"idle", "collect", "clean", "persist"}
  /\ seen \in Seen
  /\ queue \in SUBSET seen.members /\ done \in SUBSET seen.members
  /\ job \in [at : Steps, row : Row]
  /\ op \in Ops
  /\ upsets \in 0..MaxUpsets
  /\ taken \in SUBSET Channels /\ blind \in BOOLEAN /\ clear \in SUBSET seen.members
  /\ stale \in SUBSET Channels

\* KeepLastInGroup within a round (executeCleanup): as long as no request took effect that
\* was reported as failed, each group of a channel that this round took out still has a
\* member that is not excluded and that this round left alone.
LastSpared ==
  KeepLast /\ ~blind =>
    \A c \in taken : \A g \in GroupsOf[c] :
      Members(g) \ (seen.excluded \cup taken) # {}

\* The observation time (collectCleanupCandidates): a channel is taken out only if no
\* verdict stored within the last MinAge rounds found it to be no candidate, whatever
\* rounds failed or crashed in between, unless a manual operation has put back the state
\* row that it had read before that verdict.
ObservedLongEnough ==
  [][\A c \in taken' \ taken : c \in stale \/ okAgo[c] > MinAge]_vars

\* The quota is for channels that were dealt with: a channel that stays a candidate, that
\* is not the last of a group, and that is not paused, disabled or gone is not passed over
\* for ever in favour of others.
Spareable(c) ==
  /\ c \in scope /\ c \notin row.excluded
  /\ \A g \in GroupsOf[c] :
       \E d \in scope \ {c} : g \in GroupsOf[d] /\ d \notin row.excluded /\ site[d].there

Out(c) == \/ ~site[c].there
          \/ action = "pause" /\ c \in row.paused
          \/ action = "disable" /\ ~site[c].active

NobodyPassedOver ==
  \A c \in Channels : []<>(since[c] = 0 \/ ~Spareable(c) \/ Out(c))

\* cleanup.go:126: "最短观察期从“首次持续满足处置条件”起算": the observation counts from when the
\* channel began to be a candidate without a break. So the last stored verdict that it is
\* none lies at least as far back as the observation.
ObservedWithoutBreak ==
  [][\A c \in taken' \ taken : okAgo[c] > MinAge]_vars

\* README: "keep_last_in_group 为真时绝不处置分组内最后一个渠道". So when cleanup has dealt with a
\* channel, each of its groups has another member that takes part in the scheduling: not
\* excluded, not on the pause list, not disabled.
LastInServiceSpared ==
  [][KeepLast => \A c \in done' \ done : \A g \in GroupsOf[c] :
       \E d \in Members(g) \ done' :
         d \notin seen.excluded \cup row.paused /\ d \in seen.active]_vars
============================================================================

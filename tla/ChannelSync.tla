---------------------------- MODULE ChannelSync ----------------------------
(***************************************************************************)
(* One channel between Guardian and sub2api (engine/apply.go, manual.go):  *)
(* how a round and an operator's manual operation write its account, and   *)
(* how they give it back.                                                  *)
(*                                                                         *)
(* Before its first change Guardian saves the account as its baseline, and *)
(* before every change the value it is about to write as the "managed"     *)
(* value of the field. A field that still has its managed value is         *)
(* Guardian's to restore; any other value belongs to whoever set it.       *)
(*                                                                         *)
(* Two workers run the same steps with different jobs: the round, one at a *)
(* time under engine.mu, and a manual operation, which takes no lock. Each *)
(* works from copies it loaded earlier. A request to sub2api succeeds, is  *)
(* lost, or takes effect and is reported as failed (a timeout). The        *)
(* process may crash between any two steps: memory goes, the database      *)
(* stays. The administrator of sub2api may edit the account at any time.   *)
(*                                                                         *)
(* The fields of UpdateAccount (priority, load_factor, concurrency, ...)   *)
(* are the set Tuned and travel in one request; "sched" has its own. All   *)
(* AutoApply switches are on. Unknown, healthy and degraded are one        *)
(* health, "graded": the difference is Decide's.                           *)
(***************************************************************************)
EXTENDS Integers, FiniteSets

CONSTANTS
  Tuned,         \* the fields that UpdateAccount writes
  Values,        \* the values of a tuned field
  Operations,    \* the manual operations that may arrive, a subset of Manual
  Original,      \* [Fields -> Nat]: the account as Guardian finds it
  Watched,       \* the fields whose history is recorded, for the properties that need it
  MaxUpsets      \* bound: failures, crashes, external edits and manual operations

Fields == Tuned \cup {"sched"}
Off == 0
On  == 1
Nil == -1
ValuesOf(f) == IF f = "sched" THEN {Off, On} ELSE Values
Account == {a \in [Fields -> Values \cup {Off, On}] : \A f \in Fields : a[f] \in ValuesOf(f)}

Manual  == {"fuse", "pause", "resume", "update", "recover", "restoreAll"}

ASSUME SyncAssumption ==
  /\ "sched" \notin Tuned /\ IsFiniteSet(Tuned)
  /\ Values \subseteq Nat /\ Watched \subseteq Fields
  /\ Original \in Account
  /\ Operations \subseteq Manual
  /\ MaxUpsets \in Nat

Healths == {"graded", "fused", "survivor", "excluded", "paused"}
Scopes  == {"managed", "excluded", "unmanaged"}
Jobs    == Manual \cup {"none", "round", "apply", "handback", "leave"}
PCs     == {"idle", "synced", "collect", "load", "intent", "tuned", "sched",
            "restoreTuned", "restoreSched", "drop", "finish"}
Workers == {"round", "manual"}

Managed  == [Fields -> Values \cup {Off, On, Nil}]
Baseline == [held : BOOLEAN, orig : Account, managed : Managed]
NoBase   == [held |-> FALSE, orig |-> Original, managed |-> [f \in Fields |-> Nil]]

Worker ==
  [job : Jobs, pc : PCs,
   acc : Account, base : Baseline, was : Healths,  \* the copies it works from
   health : Healths, val : Account,                \* what it wants
   todo : SUBSET Fields,                           \* the fields it will write
   stuck : BOOLEAN]                                \* ch.apply.schedulableStuck

VARIABLES
  site,      \* the account on sub2api
  cache,     \* the local catalogue's copy of it
  base,      \* the stored baseline
  st,        \* the stored health
  scope,     \* managed, on the exclusion list, or in no guarded group
  paused,    \* on the operator's pause list
  good,      \* the evidence: recovery conditions met, or a breaker firing
  proc,      \* [Workers -> Worker]
  upsets,    \* how much of MaxUpsets is used
  ours,      \* history: watched fields whose value on sub2api is Guardian's and not the original
  unsure,    \* history: watched fields whose last recorded intent has not taken effect
  clean      \* history: no manual operation has overlapped a round or restored
             \*   from an outdated copy of the account

stored  == <<base, st, scope, paused>>
history == <<ours, unsure, clean>>
vars    == <<site, cache, stored, good, proc, upsets, history>>

IdleWorker ==
  [job |-> "none", pc |-> "idle", acc |-> Original, base |-> NoBase,
   was |-> "graded", health |-> "graded", val |-> Original, todo |-> {}, stuck |-> FALSE]

Idle(w) == proc[w].pc = "idle"
Upset == upsets < MaxUpsets /\ upsets' = upsets + 1
IsRound(w) == w = "round"
At(w, pc) == proc[w].pc = pc

Becomes(w, p) == proc' = [proc EXCEPT ![w] = p]

----------------------------------------------------------------------------
\* The environment.

AdminEdit(f, v) ==
  /\ Upset
  /\ site[f] # v
  /\ site' = [site EXCEPT ![f] = v]
  /\ ours' = ours \ {f}
  /\ UNCHANGED <<cache, stored, good, proc, unsure, clean>>

Evidence ==
  /\ good' = ~good
  /\ UNCHANGED <<site, cache, stored, proc, upsets, history>>

\* excludeChannel, and the account entering or leaving the guarded groups.
SetScope(s) ==
  /\ scope # s
  /\ scope' = s
  /\ UNCHANGED <<site, cache, base, st, paused, good, proc, upsets, history>>

Crash ==
  /\ Upset
  /\ \E w \in Workers : ~Idle(w)
  /\ proc' = [w \in Workers |-> IdleWorker]
  /\ UNCHANGED <<site, cache, stored, good, history>>

----------------------------------------------------------------------------
\* The writes, shared by both workers.

\* A worker that still has the fields "todo" to write keeps no more than it needs.
Writing(p, todo) ==
  [IdleWorker EXCEPT
     !.job = p.job, !.was = p.was, !.health = p.health, !.stuck = p.stuck, !.todo = todo,
     !.val = [f \in Fields |-> IF f \in todo THEN p.val[f] ELSE @[f]],
     !.pc = IF todo \cap Tuned # {} THEN "tuned"
            ELSE IF "sched" \in todo THEN "sched" ELSE "finish"]

\* Its last step: to save the state.
Finishing(p) == Writing(p, {})

\* Mutant: the original is what the empty baseline says, not what the account says.
CapturedEmpty(acc) == [NoBase EXCEPT !.held = TRUE, !.orig = NoBase.managed]

\* ensureBaseline: the account as it was loaded becomes the baseline.
Captured(acc) == [NoBase EXCEPT !.held = TRUE, !.orig = acc]

\* Mutant: the account is saved again although a baseline is held.
EnsureBaselineAgain(w) ==
  LET p == proc[w] IN
  /\ At(w, "intent")
  /\ base' = Captured(p.acc)
  /\ Becomes(w, [p EXCEPT !.base = Captured(p.acc)])
  /\ UNCHANGED <<site, cache, st, scope, paused, good, upsets, history>>

EnsureBaseline(w) ==
  LET p == proc[w] IN
  /\ At(w, "intent") /\ ~p.base.held
  /\ base' = Captured(p.acc)
  /\ Becomes(w, [p EXCEPT !.base = Captured(p.acc)])
  /\ UNCHANGED <<site, cache, st, scope, paused, good, upsets, history>>

\* Mutant: the managed values stay as they were.
IntentNotRecorded(b, val, todo) == b

\* persistManagedIntent
WithIntent(b, val, todo) ==
  [b EXCEPT !.managed = [f \in Fields |-> IF f \in todo THEN val[f] ELSE @[f]]]

Intent(w) ==
  LET p == proc[w] IN
  /\ At(w, "intent") /\ p.base.held
  /\ base' = WithIntent(p.base, p.val, p.todo)
  /\ Becomes(w, Writing(p, p.todo))
  /\ unsure' = unsure \cup (p.todo \cap Watched)
  /\ UNCHANGED <<site, cache, st, scope, paused, good, upsets, ours, clean>>

\* The database refuses the baseline or the intent: nothing is written.
IntentFails(w) ==
  LET p == proc[w] IN
  /\ At(w, "intent") /\ Upset
  /\ Becomes(w, IF IsRound(w) THEN Finishing([p EXCEPT !.stuck = "sched" \in p.todo])
                ELSE IdleWorker)
  /\ UNCHANGED <<site, cache, stored, good, history>>

\* A request that sets the fields S of the account to val. "How" is what becomes of it.
\* The value RecoverAccount sets is the operator's, not Guardian's: it has no intent.
Send(w, S, val, how) ==
  /\ IF how = "ok" THEN UNCHANGED upsets ELSE Upset
  /\ IF how = "lost" THEN UNCHANGED <<site, ours, unsure>>
     ELSE /\ site' = [f \in Fields |-> IF f \in S THEN val[f] ELSE site[f]]
          /\ ours' = (ours \ S) \cup
                     {f \in S \cap Watched : proc[w].job # "recover" /\ val[f] # base.orig[f]}
          /\ unsure' = unsure \ S
  /\ UNCHANGED <<cache, stored, good, clean>>

Outcomes == {"ok", "lost", "dark"}

\* UpdateAccount: a round goes on whatever happened, a manual update stops at an error.
WriteTuned(w, how) ==
  LET p == proc[w]
      S == p.todo \cap Tuned
  IN /\ At(w, "tuned")
     /\ Send(w, S, p.val, how)
     /\ Becomes(w, IF how # "ok" /\ ~IsRound(w) THEN IdleWorker
                   ELSE Writing(p, p.todo \ Tuned))

\* SetSchedulable
WriteSched(w, how) ==
  LET p == proc[w] IN
  /\ At(w, "sched")
  /\ Send(w, {"sched"}, p.val, how)
  /\ Becomes(w, IF how # "ok" /\ ~IsRound(w) THEN IdleWorker
                ELSE Finishing([p EXCEPT !.stuck = how # "ok"]))

----------------------------------------------------------------------------
\* restoreBaseline. A round that could not complete it remembers so in "stuck".

\* The fields that differ from the baseline and still have the value Guardian gave them.
Restorable(b, acc) ==
  {f \in Fields : b.orig[f] # acc[f] /\ b.managed[f] = acc[f]}

RestoreFrom(b, acc) ==
  IF Restorable(b, acc) \cap Tuned # {} THEN "restoreTuned"
  ELSE IF "sched" \in Restorable(b, acc) THEN "restoreSched"
  ELSE "drop"

\* Where a job goes when its restore has ended, complete or not.
AfterRestore(p) ==
  CASE p.job \in {"handback", "leave"} -> [Finishing(p) EXCEPT !.stuck = p.base.held]
    [] p.job = "recover"               -> Writing(p, {"sched"})
    [] OTHER                           -> IdleWorker

RestoreTuned(w, how) ==
  LET p    == proc[w]
      S    == Restorable(p.base, p.acc) \cap Tuned
      seen == [f \in Fields |-> IF f \in S THEN p.base.orig[f] ELSE p.acc[f]]
  IN /\ At(w, "restoreTuned")
     /\ Send(w, S, p.base.orig, how)
     /\ Becomes(w, IF how = "ok" THEN [p EXCEPT !.acc = seen, !.pc = RestoreFrom(p.base, seen)]
                   ELSE AfterRestore(p))

RestoreSched(w, how) ==
  LET p == proc[w] IN
  /\ At(w, "restoreSched")
  /\ Send(w, {"sched"}, p.base.orig, how)
  /\ Becomes(w, IF how = "ok"
                THEN [p EXCEPT !.acc["sched"] = p.base.orig["sched"], !.pc = "drop"]
                ELSE AfterRestore(p))

\* DeleteBaseline, conflicts or not.
DropBaseline(w) ==
  LET p == proc[w] IN
  /\ At(w, "drop")
  /\ base' = NoBase
  /\ Becomes(w, AfterRestore([p EXCEPT !.base = NoBase]))
  /\ UNCHANGED <<site, cache, st, scope, paused, good, upsets, history>>

DropFails(w) ==
  LET p == proc[w] IN
  /\ At(w, "drop") /\ Upset
  /\ Becomes(w, AfterRestore(p))
  /\ UNCHANGED <<site, cache, stored, good, history>>

----------------------------------------------------------------------------
\* The round.

\* runOnce up to Sync: the catalogue takes over the account as it is.
RoundSync ==
  /\ Idle("round")
  /\ cache' = site
  /\ Becomes("round", [IdleWorker EXCEPT !.job = "round", !.pc = "synced"])
  /\ clean' = (clean /\ Idle("manual"))
  /\ UNCHANGED <<site, stored, good, upsets, ours, unsure>>

\* buildRound: accounts, states, baselines and the policy as they are now.
RoundBuild ==
  LET job == CASE scope = "excluded"  -> "handback"
               [] scope = "unmanaged" -> "leave"
               [] OTHER               -> "apply"
  IN /\ At("round", "synced")
     /\ Becomes("round",
          [IdleWorker EXCEPT
             !.job = job, !.pc = "collect", !.acc = cache, !.base = base, !.was = st,
             !.health = IF scope = "managed" /\ paused THEN "paused" ELSE @])
     /\ UNCHANGED <<site, cache, stored, good, upsets, history>>

\* A failed request before the decisions, a cancelled round, or a database error in persist.
RoundAbort ==
  /\ proc["round"].pc \in {"synced", "collect", "finish"}
  /\ Upset
  /\ Becomes("round", IdleWorker)
  /\ UNCHANGED <<site, cache, stored, good, history>>

\* initDesired
Inherited(h) == IF h \in {"excluded", "paused"} THEN "graded" ELSE h

\* Mutant: the evidence is trusted over the operator's pause.
VerdictsIgnoringPause(p) ==
  CASE p.was = "fused" /\ good -> {[health |-> "graded", sched |-> On]}
    [] OTHER -> {[health |-> Inherited(p.was), sched |-> p.acc["sched"]]}

\* Mutant: recovery switches the channel on and forgets to clear its health.
VerdictsKeepingFused(p) ==
  CASE p.health = "paused" -> {[health |-> "paused", sched |-> Off]}
    [] p.health # "paused" /\ p.was = "fused" ->
         {[health |-> "fused", sched |-> IF good THEN On ELSE Off]}
    [] OTHER -> {[health |-> Inherited(p.was), sched |-> p.acc["sched"]],
                 [health |-> "fused", sched |-> Off]}

\* What decide may want of the channel: recovery or a breaker, by the evidence.
Verdicts(p) ==
  LET keep == [health |-> Inherited(p.was), sched |-> p.acc["sched"]] IN
  CASE p.health = "paused" -> {[health |-> "paused", sched |-> Off]}
    [] p.health # "paused" /\ p.was = "fused" ->
         IF good THEN {[health |-> "graded", sched |-> On]}
         ELSE {[health |-> "fused", sched |-> Off]}
    [] OTHER ->
         IF good THEN {keep}
         ELSE {keep, [health |-> "fused", sched |-> Off], [health |-> "survivor", sched |-> On]}

\* decide and the head of applyChannel, for a channel of the guarded groups.
RoundDecide ==
  LET p == proc["round"] IN
  /\ At("round", "collect") /\ p.job = "apply"
  /\ \E v \in Verdicts(p), tuned \in [Tuned -> Values] :
       LET val  == [f \in Fields |-> IF f = "sched" THEN v.sched ELSE tuned[f]]
           todo == {f \in Fields : val[f] # p.acc[f]}
           q    == [p EXCEPT !.health = v.health, !.val = val, !.todo = todo, !.pc = "intent"]
       IN Becomes("round", IF todo = {} THEN Finishing(q) ELSE q)
  /\ UNCHANGED <<site, cache, stored, good, upsets, history>>

\* Mutant: a channel already known as excluded is taken for given back.
RoundGiveBackOnce ==
  LET p == proc["round"] IN
  /\ At("round", "collect") /\ p.job \in {"handback", "leave"}
  /\ Becomes("round", IF p.base.held /\ p.was # "excluded"
                      THEN [p EXCEPT !.pc = RestoreFrom(p.base, p.acc)] ELSE Finishing(p))
  /\ UNCHANGED <<site, cache, stored, good, upsets, history>>

\* applyChannel on an excluded channel; persistUnmanaged, which reads the state afresh, on
\* one that left the scope.
RoundGiveBack ==
  LET p == [proc["round"] EXCEPT !.was = IF proc["round"].job = "leave" THEN st ELSE @] IN
  /\ At("round", "collect") /\ p.job \in {"handback", "leave"}
  /\ Becomes("round", IF p.base.held THEN [p EXCEPT !.pc = RestoreFrom(p.base, p.acc)]
                      ELSE Finishing(p))
  /\ UNCHANGED <<site, cache, stored, good, upsets, history>>

\* effectiveHealth
EffectiveHealth(p) == IF p.stuck THEN p.was ELSE p.health

\* persist; persistUnmanaged leaves the health it read to a channel it could not restore.
Persist ==
  LET p == proc["round"] IN
  /\ At("round", "finish")
  /\ st' = CASE p.job = "apply"    -> EffectiveHealth(p)
             [] p.job = "handback" -> "excluded"
             [] OTHER              -> IF p.stuck THEN p.was ELSE "graded"
  /\ Becomes("round", IdleWorker)
  /\ UNCHANGED <<site, cache, base, scope, paused, good, upsets, history>>

----------------------------------------------------------------------------
\* Manual operations.

\* The request arrives; pauseChannel changes the list before it calls SetPaused.
ManualStart(job) ==
  /\ Idle("manual") /\ Upset
  /\ paused' = CASE job = "pause" -> TRUE [] job = "resume" -> FALSE [] OTHER -> paused
  /\ Becomes("manual", [IdleWorker EXCEPT !.job = job, !.pc = "load"])
  /\ clean' = (clean /\ Idle("round"))
  /\ UNCHANGED <<site, cache, base, st, scope, good, ours, unsure>>

\* What the operation wants of the account it loaded.
Wanted(job, acc) ==
  CASE job \in {"fuse", "pause"}     -> {[acc EXCEPT !["sched"] = Off]}
    [] job \in {"resume", "recover"} -> {[acc EXCEPT !["sched"] = On]}
    [] job = "update"                -> Account
    [] OTHER                         -> {acc}

\* An update writes the tuned fields it is given, new values or not, but the schedulable
\* flag only if it differs.
ToWrite(job, val, acc) ==
  IF job = "update" THEN {{f \in Fields : val[f] # acc[f]} \cup S : S \in SUBSET Tuned}
  ELSE {{"sched"}}

HealthAfter(job) ==
  CASE job = "fuse" -> "fused" [] job = "pause" -> "paused" [] OTHER -> "graded"

\* loadChannel (RestoreAll: the baselines and store.Account): the copies come from the
\* database, the account from the catalogue.
ManualLoad ==
  LET p == proc["manual"] IN
  /\ At("manual", "load")
  /\ \E val \in Wanted(p.job, cache) : \E todo \in ToWrite(p.job, val, cache) :
       LET q == [p EXCEPT
                   !.acc = cache, !.base = base, !.health = HealthAfter(p.job), !.val = val,
                   !.todo = todo,
                   !.pc = IF p.job \in {"recover", "restoreAll"}
                          THEN RestoreFrom(base, cache) ELSE "intent"]
       IN Becomes("manual", IF q.pc # "intent" /\ ~base.held THEN AfterRestore(q) ELSE q)
  /\ clean' = (clean /\ (p.job \in {"recover", "restoreAll"} => cache = site))
  /\ UNCHANGED <<site, cache, stored, good, upsets, ours, unsure>>

\* The state is saved and the account read back (refreshAccount may fail quietly).
ManualFinish ==
  LET p == proc["manual"] IN
  /\ At("manual", "finish")
  /\ st' = IF p.job = "update" THEN st ELSE p.health
  /\ \/ cache' = site /\ UNCHANGED upsets
     \/ Upset /\ UNCHANGED cache
  /\ Becomes("manual", IdleWorker)
  /\ UNCHANGED <<site, base, scope, paused, good, history>>

\* The operation cannot load the channel, or cannot save its state.
ManualAbort ==
  /\ proc["manual"].pc \in {"load", "finish"}
  /\ Upset
  /\ Becomes("manual", IdleWorker)
  /\ UNCHANGED <<site, cache, stored, good, history>>

----------------------------------------------------------------------------
Init ==
  /\ site = Original /\ cache = Original
  /\ base = NoBase
  /\ st = "graded"
  /\ scope = "managed" /\ paused = FALSE
  /\ good \in BOOLEAN
  /\ proc = [w \in Workers |-> IdleWorker]
  /\ upsets = 0
  /\ ours = {} /\ unsure = {} /\ clean = TRUE

Step(w) ==
  \/ EnsureBaseline(w)
  \/ Intent(w)
  \/ IntentFails(w)
  \/ DropBaseline(w)
  \/ DropFails(w)
  \/ \E how \in Outcomes :
       \/ WriteTuned(w, how)
       \/ WriteSched(w, how)
       \/ RestoreTuned(w, how)
       \/ RestoreSched(w, how)

RoundStep  == RoundSync \/ RoundBuild \/ RoundAbort \/ RoundDecide \/ RoundGiveBack
              \/ Persist \/ Step("round")
ManualStep == ManualLoad \/ ManualFinish \/ ManualAbort \/ Step("manual")

Environment ==
  \/ \E f \in Fields : \E v \in ValuesOf(f) : AdminEdit(f, v)
  \/ Evidence
  \/ \E s \in Scopes : SetScope(s)
  \/ Crash
  \/ \E job \in Operations : ManualStart(job)

Next == RoundStep \/ ManualStep \/ Environment

\* The heartbeat starts a round again and again, and a round and a manual operation that
\* have begun go on: every request ends, at the latest by its timeout.
Spec == Init /\ [][Next]_vars /\ WF_vars(RoundStep) /\ WF_vars(ManualStep)

----------------------------------------------------------------------------
\* Properties.

TypeOK ==
  /\ site \in Account /\ cache \in Account
  /\ base \in Baseline /\ st \in Healths
  /\ scope \in Scopes /\ paused \in BOOLEAN /\ good \in BOOLEAN
  /\ proc \in [Workers -> Worker]
  /\ upsets \in 0..MaxUpsets
  /\ ours \in SUBSET Fields /\ unsure \in SUBSET Fields
  /\ clean \in BOOLEAN

\* Whatever Guardian writes it can take back (applyChannel's first constraint, and the
\* comment on persistManagedIntent): a value it put on sub2api, crash and timeout
\* included, is the managed value of a stored baseline, unless a later intent for that
\* field never took effect, or a manual operation overlapped a round or restored from an
\* outdated copy.
Ownership ==
  clean => \A f \in ours \ unsure : base.held /\ base.managed[f] = site[f]

\* As long as no manual operation interferes, the workers, their copies, failed requests and
\* crashes cannot be told from a Custody that acts on the account and the record directly:
\* the original is saved once and not overwritten until it is given back, no request sets
\* anything but a value on record, and the record outlives what Guardian has lent
\* (ensureBaseline, persistManagedIntent, restoreBaseline).
Ledger == INSTANCE Custody WITH
  account <- site, saved <- base, lent <- ours, doubt <- unsure, trusted <- clean
InCustody == Ledger!CustodySpec

\* A pause the operator leaves in place ends with the channel off and shown as paused,
\* whatever raced with it.
PauseLands ==
  <>[](paused /\ scope = "managed") => <>[](site["sched"] = Off /\ st = "paused")

\* A channel left out of Guardian's scope is eventually given back: no baseline stays.
HandsBack == <>[](scope # "managed") => <>[](~base.held)

\* A fused channel whose evidence stays good does not stay fused.
FusedRecovers ==
  <>[](good /\ scope = "managed" /\ ~paused) => <>[](st # "fused")

\* applyChannel: the baseline is captured first, "保证任何时候都能还原用户的原始配置". So, as
\* long as no manual operation interferes, no value of Guardian's outlives the baseline.
NothingLeftBehind == clean /\ ~base.held => ours = {}

\* README: "随时可以一键交还控制权". A "restore all" that meets no failure and no round leaves
\* nothing of Guardian's on the account.
RestoreAllGivesBack ==
  [][(DropBaseline("manual") /\ proc["manual"].job = "restoreAll"
        /\ Idle("round") /\ unsure = {}) => ours' = {}]_vars

\* persist: "界面因此不会声称渠道已被摘掉而实际仍在接流量". A round that failed to switch a
\* channel off does not persist it as fused or paused.
ClaimIsTrue ==
  [][(Persist /\ proc["round"].stuck /\ proc["round"].health \in {"fused", "paused"}
        /\ site["sched"] = On) => st' \notin {"fused", "paused"}]_vars
============================================================================

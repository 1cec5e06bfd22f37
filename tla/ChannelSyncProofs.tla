------------------------- MODULE ChannelSyncProofs -------------------------
(***************************************************************************)
(* Proofs about ChannelSync, for any fields, values, operations and number *)
(* of upsets: what Guardian wrote to sub2api it can take back.             *)
(***************************************************************************)
EXTENDS ChannelSync, TLAPS

\* A round and a manual operation do not overlap.
OneBusy == Idle("round") \/ Idle("manual")

\* Guardian's value on sub2api is backed by the stored baseline, and differs from the original.
Backed ==
  /\ ours \subseteq Watched
  /\ \A f \in ours \ unsure : base.held /\ base.managed[f] = site[f] /\ site[f] # base.orig[f]

\* The copies a worker goes by are those it would load now, as far as the step it is at uses
\* them: the baseline up to the intent and in a restore, the intent while it writes, the
\* account (or the catalogue it will be read from) when it gives fields back.
Fresh(w) ==
  LET p == proc[w] IN
  /\ p.pc \in {"collect", "intent", "restoreTuned", "restoreSched", "drop"} => p.base = base
  /\ (p.pc \in {"tuned", "sched"} /\ p.job # "recover") =>
        (base.held /\ \A f \in p.todo : base.managed[f] = p.val[f])
  /\ (p.pc = "sched" /\ p.job # "recover") => "sched" \in p.todo
  /\ (\/ p.pc \in {"restoreTuned", "restoreSched", "drop"}
      \/ (p.pc = "collect" /\ p.job \in {"handback", "leave"})) =>
        \A f \in ours : p.acc[f] = site[f]
  /\ p.pc = "synced" => \A f \in ours : cache[f] = site[f]
  /\ p.pc = "restoreSched" => Restorable(p.base, p.acc) \cap Tuned = {}
  /\ p.pc = "drop" => Restorable(p.base, p.acc) = {}

Sound == clean => OneBusy /\ Backed /\ \A w \in Workers : Fresh(w)

IInv == TypeOK /\ Sound

----------------------------------------------------------------------------
\* The operators.

\* An account takes over some fields of another.
LEMMA AccountMerge ==
  ASSUME NEW a \in Account, NEW b \in Account, NEW S
  PROVE  [f \in Fields |-> IF f \in S THEN a[f] ELSE b[f]] \in Account
<1> QED
  BY DEF Account

LEMMA NoBaseType == NoBase \in Baseline
<1> QED
  BY SyncAssumption DEF NoBase, Baseline, Managed

LEMMA IdleWorkerType ==
  /\ IdleWorker \in Worker
  /\ IdleWorker.pc = "idle"
<1> QED
  BY SyncAssumption, NoBaseType DEF IdleWorker, Worker, Jobs, PCs, Healths, Manual

LEMMA CapturedType ==
  ASSUME NEW acc \in Account
  PROVE  Captured(acc) \in Baseline /\ Captured(acc).held
<1> QED
  BY NoBaseType DEF Captured, Baseline, NoBase

LEMMA IntentType ==
  ASSUME NEW b \in Baseline, NEW val \in Account, NEW todo \in SUBSET Fields
  PROVE  /\ WithIntent(b, val, todo) \in Baseline
         /\ WithIntent(b, val, todo).held = b.held
         /\ WithIntent(b, val, todo).orig = b.orig
         /\ \A f \in Fields : WithIntent(b, val, todo).managed[f] =
                                IF f \in todo THEN val[f] ELSE b.managed[f]
<1> QED
  BY DEF WithIntent, Baseline, Managed, Account

\* What a worker keeps that still has fields to write.
LEMMA WritingType ==
  ASSUME NEW p \in Worker, NEW todo \in SUBSET Fields
  PROVE  /\ Writing(p, todo) \in Worker
         /\ Writing(p, todo).pc \in {"tuned", "sched", "finish"}
         /\ Writing(p, todo).job = p.job
         /\ Writing(p, todo).todo = todo
         /\ Writing(p, todo).pc = "sched" => "sched" \in todo
         /\ \A f \in todo : Writing(p, todo).val[f] = p.val[f]
<1>1. /\ p.job \in Jobs /\ p.was \in Healths /\ p.health \in Healths /\ p.stuck \in BOOLEAN
      /\ p.val \in Account
  BY DEF Worker
<1>2. [f \in Fields |-> IF f \in todo THEN p.val[f] ELSE Original[f]] \in Account
  BY <1>1, SyncAssumption, AccountMerge
<1>3. IdleWorker.val = Original
  BY DEF IdleWorker
<1> DEFINE Kept == [f \in Fields |-> IF f \in todo THEN p.val[f] ELSE Original[f]]
           Then == IF todo \cap Tuned # {} THEN "tuned"
                   ELSE IF "sched" \in todo THEN "sched" ELSE "finish"
<1>4. Writing(p, todo) =
        [IdleWorker EXCEPT !.job = p.job, !.was = p.was, !.health = p.health,
                           !.stuck = p.stuck, !.todo = todo, !.val = Kept, !.pc = Then]
  BY <1>3 DEF Writing
<1>5. Then \in {"tuned", "sched", "finish"} /\ (Then = "sched" => "sched" \in todo)
  OBVIOUS
<1>6. Kept \in Account /\ \A f \in todo : Kept[f] = p.val[f]
  BY <1>2
<1> HIDE DEF Kept, Then
<1>7. Writing(p, todo) =
        [job |-> p.job, pc |-> Then, acc |-> Original, base |-> NoBase, was |-> p.was,
         health |-> p.health, val |-> Kept, todo |-> todo, stuck |-> p.stuck]
  BY <1>4 DEF IdleWorker
<1> QED
  BY <1>1, <1>5, <1>6, <1>7, SyncAssumption, NoBaseType DEF Worker, PCs

LEMMA FinishingType ==
  ASSUME NEW p \in Worker
  PROVE  Finishing(p) \in Worker /\ Finishing(p).pc = "finish"
<1>1. Finishing(p) \in Worker
  BY WritingType DEF Finishing
<1>2. Finishing(p).pc = "finish"
  BY DEF Finishing, Writing, IdleWorker
<1> QED
  BY <1>1, <1>2

\* After a restore a worker writes the operator's recovery, saves its state, or is done.
LEMMA AfterRestoreType ==
  ASSUME NEW p \in Worker
  PROVE  /\ AfterRestore(p) \in Worker
         /\ \/ AfterRestore(p).pc \in {"finish", "idle"}
            \/ AfterRestore(p).pc \in {"tuned", "sched"} /\ AfterRestore(p).job = "recover"
<1>1. CASE p.job \in {"handback", "leave"}
  <2>1. AfterRestore(p) = [Finishing(p) EXCEPT !.stuck = p.base.held]
    BY <1>1 DEF AfterRestore
  <2>2. p.base.held \in BOOLEAN
    BY DEF Worker, Baseline
  <2> QED
    BY <2>1, <2>2, FinishingType DEF Worker
<1>2. CASE p.job = "recover"
  <2>1. AfterRestore(p) = Writing(p, {"sched"})
    BY <1>2 DEF AfterRestore
  <2>2. {"sched"} \in SUBSET Fields
    BY DEF Fields
  <2> QED
    BY <1>2, <2>1, <2>2, WritingType
<1>3. CASE p.job \notin {"handback", "leave", "recover"}
  <2>1. AfterRestore(p) = IdleWorker
    BY <1>3 DEF AfterRestore
  <2> QED
    BY <2>1, IdleWorkerType
<1> QED
  BY <1>1, <1>2, <1>3

LEMMA RestoreFromType ==
  ASSUME NEW b, NEW acc
  PROVE  /\ RestoreFrom(b, acc) \in {"restoreTuned", "restoreSched", "drop"}
         /\ Restorable(b, acc) \in SUBSET Fields
         /\ RestoreFrom(b, acc) = "restoreSched" => Restorable(b, acc) \cap Tuned = {}
         /\ RestoreFrom(b, acc) = "drop" => Restorable(b, acc) = {}
<1> QED
  BY DEF RestoreFrom, Restorable, Fields

\* A worker's step changes that worker alone.
LEMMA BecomesType ==
  ASSUME proc \in [Workers -> Worker], NEW w \in Workers, NEW p \in Worker, Becomes(w, p)
  PROVE  /\ proc' \in [Workers -> Worker]
         /\ proc'[w] = p
         /\ \A u \in Workers \ {w} : proc'[u] = proc[u]
<1> QED
  BY DEF Becomes

\* What a request leaves behind.
LEMMA SendType ==
  ASSUME TypeOK, NEW w \in Workers, NEW S \in SUBSET Fields, NEW val \in Account, NEW how,
         Send(w, S, val, how)
  PROVE  /\ site' \in Account /\ ours' \in SUBSET Fields /\ unsure' \in SUBSET Fields
         /\ upsets' \in 0..MaxUpsets
         /\ UNCHANGED <<cache, base, st, scope, paused, good, clean>>
<1>1. site' \in Account
  BY AccountMerge DEF Send, TypeOK
<1>2. upsets' \in 0..MaxUpsets
  BY SyncAssumption DEF Send, Upset, TypeOK
<1>3. Watched \subseteq Fields
  BY SyncAssumption
<1> QED
  BY <1>1, <1>2, <1>3 DEF Send, TypeOK, stored

----------------------------------------------------------------------------
\* Types.

LEMMA WorkerFields ==
  ASSUME NEW p \in Worker
  PROVE  /\ p.acc \in Account /\ p.base \in Baseline /\ p.val \in Account
         /\ p.base.orig \in Account
         /\ p.was \in Healths /\ p.health \in Healths /\ p.todo \in SUBSET Fields
<1> QED
  BY DEF Worker, Baseline

LEMMA Stuck ==
  ASSUME NEW p \in Worker, NEW b \in BOOLEAN
  PROVE  [p EXCEPT !.stuck = b] \in Worker /\ [p EXCEPT !.stuck = b].pc = p.pc
<1> QED
  BY DEF Worker

\* The types hold at the start.
LEMMA InitType == Init => TypeOK
<1> SUFFICES ASSUME Init PROVE TypeOK
  OBVIOUS
<1>1. proc \in [Workers -> Worker]
  BY IdleWorkerType DEF Init
<1>2. /\ site \in Account /\ cache \in Account /\ base \in Baseline
      /\ st \in Healths /\ scope \in Scopes
      /\ upsets \in 0..MaxUpsets
      /\ ours \in SUBSET Fields /\ unsure \in SUBSET Fields
  BY SyncAssumption, NoBaseType DEF Init, Healths, Scopes
<1>3. paused \in BOOLEAN /\ good \in BOOLEAN /\ clean \in BOOLEAN
  BY DEF Init
<1> QED
  BY <1>1, <1>2, <1>3 DEF TypeOK

\* The steps of the environment.
LEMMA EnvironmentType == TypeOK /\ Environment => TypeOK'
<1> SUFFICES ASSUME TypeOK, Environment PROVE TypeOK'
  OBVIOUS
<1> USE DEF stored, history
<1>1. ASSUME NEW f \in Fields, NEW v \in ValuesOf(f), AdminEdit(f, v) PROVE TypeOK'
  <2>1. site' \in Account
    BY <1>1 DEF AdminEdit, TypeOK, Account, ValuesOf
  <2> QED
    BY <1>1, <2>1, SyncAssumption DEF AdminEdit, TypeOK, Upset
<1>2. CASE Evidence
  BY <1>2 DEF Evidence, TypeOK
<1>3. ASSUME NEW s \in Scopes, SetScope(s) PROVE TypeOK'
  BY <1>3 DEF SetScope, TypeOK
<1>4. CASE Crash
  <2>1. proc' \in [Workers -> Worker]
    BY <1>4, IdleWorkerType DEF Crash
  <2> QED
    BY <1>4, <2>1, SyncAssumption DEF Crash, TypeOK, Upset
<1>5. ASSUME NEW job \in Operations, ManualStart(job) PROVE TypeOK'
  <2>1. job \in Jobs /\ job \in Manual
    BY SyncAssumption DEF Jobs
  <2>2. [IdleWorker EXCEPT !.job = job, !.pc = "load"] \in Worker
    BY <2>1, IdleWorkerType DEF Worker, PCs
  <2>3. proc' \in [Workers -> Worker]
    BY <1>5, <2>2, BecomesType DEF ManualStart, Workers, TypeOK
  <2>4. paused' \in BOOLEAN
    <3>1. job = "pause" => paused' = TRUE
      BY <1>5 DEF ManualStart
    <3>2. job = "resume" => paused' = FALSE
      BY <1>5 DEF ManualStart
    <3>3. job \notin {"pause", "resume"} => paused' = paused
      BY <1>5 DEF ManualStart
    <3> QED
      BY <3>1, <3>2, <3>3 DEF TypeOK
  <2>5. clean' \in BOOLEAN
    BY <1>5 DEF ManualStart, TypeOK
  <2>6. upsets' \in 0..MaxUpsets
    BY <1>5, SyncAssumption DEF ManualStart, Upset, TypeOK
  <2>7. UNCHANGED <<site, cache, base, st, scope, good, ours, unsure>>
    BY <1>5 DEF ManualStart
  <2> QED
    BY <2>3, <2>4, <2>5, <2>6, <2>7 DEF TypeOK
<1> QED
  BY <1>1, <1>2, <1>3, <1>4, <1>5 DEF Environment

\* The writes both workers share.
LEMMA StepType ==
  ASSUME TypeOK, NEW w \in Workers, Step(w)
  PROVE  TypeOK'
<1> USE DEF stored, history
<1> DEFINE p == proc[w]
<1>p. p \in Worker
  BY DEF TypeOK
<1>f. /\ p.acc \in Account /\ p.base \in Baseline /\ p.val \in Account /\ p.base.orig \in Account
      /\ p.todo \in SUBSET Fields
  BY <1>p, WorkerFields
<1> HIDE DEF p
<1>1. CASE EnsureBaseline(w)
  <2>1. [p EXCEPT !.base = Captured(p.acc)] \in Worker
    BY <1>p, <1>f, CapturedType DEF Worker
  <2>2. proc' \in [Workers -> Worker]
    BY <1>1, <2>1, BecomesType DEF EnsureBaseline, TypeOK, p
  <2> QED
    BY <1>1, <2>2, <1>f, CapturedType DEF EnsureBaseline, TypeOK, p
<1>2. CASE Intent(w)
  <2>1. proc' \in [Workers -> Worker]
    BY <1>2, <1>p, <1>f, WritingType, BecomesType DEF Intent, TypeOK, p
  <2> QED
    BY <1>2, <2>1, <1>f, IntentType, SyncAssumption DEF Intent, TypeOK, p
<1>3. CASE IntentFails(w)
  <2>1. [p EXCEPT !.stuck = "sched" \in p.todo] \in Worker
    <3>1. ("sched" \in p.todo) \in BOOLEAN
      OBVIOUS
    <3> QED BY <1>p, <3>1, Stuck, Zenon
  <2>2. proc' \in [Workers -> Worker]
    BY <1>3, <2>1, FinishingType, IdleWorkerType, BecomesType DEF IntentFails, TypeOK, p
  <2> QED
    BY <1>3, <2>2, SyncAssumption DEF IntentFails, Upset, TypeOK
<1>4. CASE DropBaseline(w)
  <2>1. [p EXCEPT !.base = NoBase] \in Worker
    BY <1>p, NoBaseType DEF Worker
  <2>2. proc' \in [Workers -> Worker]
    BY <1>4, <2>1, AfterRestoreType, BecomesType DEF DropBaseline, TypeOK, p
  <2> QED
    BY <1>4, <2>2, NoBaseType DEF DropBaseline, TypeOK
<1>5. CASE DropFails(w)
  <2>1. proc' \in [Workers -> Worker]
    BY <1>5, <1>p, AfterRestoreType, BecomesType DEF DropFails, TypeOK, p
  <2> QED
    BY <1>5, <2>1, SyncAssumption DEF DropFails, Upset, TypeOK
<1>6. ASSUME NEW how \in Outcomes, WriteTuned(w, how) PROVE TypeOK'
  <2>1. p.todo \ Tuned \in SUBSET Fields /\ p.todo \cap Tuned \in SUBSET Fields
    BY <1>f
  <2>2. proc' \in [Workers -> Worker]
    BY <1>6, <1>p, <2>1, WritingType, IdleWorkerType, BecomesType DEF WriteTuned, TypeOK, p
  <2>3. Send(w, p.todo \cap Tuned, p.val, how)
    BY <1>6 DEF WriteTuned, p
  <2> QED
    BY <2>1, <2>2, <2>3, <1>f, SendType DEF TypeOK
<1>7. ASSUME NEW how \in Outcomes, WriteSched(w, how) PROVE TypeOK'
  <2>1. [p EXCEPT !.stuck = how # "ok"] \in Worker
    <3>1. (how # "ok") \in BOOLEAN
      OBVIOUS
    <3> QED BY <1>p, <3>1, Stuck, Zenon
  <2>2. proc' \in [Workers -> Worker]
    BY <1>7, <2>1, FinishingType, IdleWorkerType, BecomesType DEF WriteSched, TypeOK, p
  <2>3. Send(w, {"sched"}, p.val, how) /\ {"sched"} \in SUBSET Fields
    BY <1>7 DEF WriteSched, p, Fields
  <2> QED
    BY <2>2, <2>3, <1>f, SendType DEF TypeOK
<1>8. ASSUME NEW how \in Outcomes, RestoreTuned(w, how) PROVE TypeOK'
  <2> DEFINE S == Restorable(p.base, p.acc) \cap Tuned
             seen == [f \in Fields |-> IF f \in S THEN p.base.orig[f] ELSE p.acc[f]]
             q == [p EXCEPT !.acc = seen, !.pc = RestoreFrom(p.base, seen)]
  <2>1. S \in SUBSET Fields /\ Send(w, S, p.base.orig, how)
    BY <1>8 DEF RestoreTuned, Restorable, p
  <2>2. seen \in Account
    BY <1>f, AccountMerge
  <2>3. q \in Worker
    BY <1>p, <2>2, RestoreFromType DEF Worker, PCs
  <2>4. \/ Becomes(w, q)
        \/ Becomes(w, AfterRestore(p))
    BY <1>8 DEF RestoreTuned, p
  <2> HIDE DEF q, S
  <2>5. proc' \in [Workers -> Worker]
    BY <1>p, <2>3, <2>4, AfterRestoreType, BecomesType DEF TypeOK
  <2> QED
    BY <2>1, <2>5, <1>f, SendType DEF TypeOK
<1>9. ASSUME NEW how \in Outcomes, RestoreSched(w, how) PROVE TypeOK'
  <2> DEFINE seen == [p.acc EXCEPT !["sched"] = p.base.orig["sched"]]
             q == [p EXCEPT !.acc = seen, !.pc = "drop"]
  <2>1. {"sched"} \in SUBSET Fields /\ Send(w, {"sched"}, p.base.orig, how)
    BY <1>9 DEF RestoreSched, Fields, p
  <2>2. seen \in Account
    BY <1>f DEF Account, ValuesOf
  <2>3. q \in Worker
    BY <1>p, <2>2 DEF Worker, PCs
  <2>4. \/ Becomes(w, q)
        \/ Becomes(w, AfterRestore(p))
    BY <1>9 DEF RestoreSched, p
  <2> HIDE DEF q
  <2>5. proc' \in [Workers -> Worker]
    BY <1>p, <2>3, <2>4, AfterRestoreType, BecomesType DEF TypeOK
  <2> QED
    BY <2>1, <2>5, <1>f, SendType DEF TypeOK
<1> QED
  BY <1>1, <1>2, <1>3, <1>4, <1>5, <1>6, <1>7, <1>8, <1>9 DEF Step

\* A verdict is a health and a value of the schedulable flag.
LEMMA VerdictsType ==
  ASSUME NEW p \in Worker, NEW v \in Verdicts(p)
  PROVE  v.health \in Healths /\ v.sched \in {Off, On}
<1>1. p.acc["sched"] \in {Off, On}
  BY DEF Worker, Account, Fields, ValuesOf
<1>2. Inherited(p.was) \in Healths
  BY DEF Worker, Inherited, Healths
<1>3. CASE p.health = "paused"
  BY <1>3 DEF Verdicts, Healths
<1>4. CASE p.health # "paused" /\ p.was = "fused"
  <2>1. v \in {[health |-> "graded", sched |-> On], [health |-> "fused", sched |-> Off]}
    BY <1>4 DEF Verdicts
  <2> QED
    BY <2>1 DEF Healths
<1>5. CASE p.health # "paused" /\ p.was # "fused"
  <2>1. v \in {[health |-> Inherited(p.was), sched |-> p.acc["sched"]],
               [health |-> "fused", sched |-> Off], [health |-> "survivor", sched |-> On]}
    BY <1>5 DEF Verdicts
  <2> QED
    BY <2>1, <1>1, <1>2 DEF Healths
<1> QED
  BY <1>3, <1>4, <1>5

\* The account a verdict and some tuned values ask for.
LEMMA DesiredType ==
  ASSUME NEW sched \in {Off, On}, NEW tuned \in [Tuned -> Values]
  PROVE  [f \in Fields |-> IF f = "sched" THEN sched ELSE tuned[f]] \in Account
<1> QED
  BY DEF Account, Fields, ValuesOf

\* The steps of a round before and after its writes.
LEMMA RoundType == TypeOK /\ RoundStep => TypeOK'
<1> SUFFICES ASSUME TypeOK, RoundStep PROVE TypeOK'
  OBVIOUS
<1> USE DEF stored, history
<1> DEFINE p == proc["round"]
<1>p. p \in Worker /\ "round" \in Workers
  BY DEF TypeOK, Workers
<1> HIDE DEF p
<1>1. CASE RoundSync
  <2>1. [IdleWorker EXCEPT !.job = "round", !.pc = "synced"] \in Worker
    BY IdleWorkerType DEF Worker, Jobs, PCs
  <2>2. proc' \in [Workers -> Worker]
    BY <1>1, <1>p, <2>1, BecomesType DEF RoundSync, TypeOK
  <2>3. clean' \in BOOLEAN
    BY <1>1 DEF RoundSync, TypeOK
  <2>4. UNCHANGED <<site, stored, good, upsets, ours, unsure>> /\ cache' = site
    BY <1>1 DEF RoundSync
  <2> QED
    BY <2>2, <2>3, <2>4 DEF TypeOK
<1>2. CASE RoundBuild
  <2>1. PICK job \in Jobs, h \in Healths :
          Becomes("round", [IdleWorker EXCEPT !.job = job, !.pc = "collect", !.acc = cache,
                              !.base = base, !.was = st, !.health = h])
    BY <1>2 DEF RoundBuild, Jobs, Healths, IdleWorker
  <2>2. [IdleWorker EXCEPT !.job = job, !.pc = "collect", !.acc = cache,
                           !.base = base, !.was = st, !.health = h] \in Worker
    BY IdleWorkerType DEF Worker, PCs, TypeOK
  <2>3. proc' \in [Workers -> Worker]
    BY <1>p, <2>1, <2>2, BecomesType DEF TypeOK
  <2> QED
    BY <1>2, <2>3 DEF RoundBuild, TypeOK
<1>3. CASE RoundAbort
  <2>1. proc' \in [Workers -> Worker]
    BY <1>3, <1>p, IdleWorkerType, BecomesType DEF RoundAbort, TypeOK
  <2> QED
    BY <1>3, <2>1, SyncAssumption DEF RoundAbort, Upset, TypeOK
<1>4. CASE RoundDecide
  <2>1. PICK v \in Verdicts(p), tuned \in [Tuned -> Values] :
          LET val  == [f \in Fields |-> IF f = "sched" THEN v.sched ELSE tuned[f]]
              todo == {f \in Fields : val[f] # p.acc[f]}
              q    == [p EXCEPT !.health = v.health, !.val = val, !.todo = todo, !.pc = "intent"]
          IN Becomes("round", IF todo = {} THEN Finishing(q) ELSE q)
    BY <1>4 DEF RoundDecide, p
  <2> DEFINE val  == [f \in Fields |-> IF f = "sched" THEN v.sched ELSE tuned[f]]
             todo == {f \in Fields : val[f] # p.acc[f]}
             q    == [p EXCEPT !.health = v.health, !.val = val, !.todo = todo, !.pc = "intent"]
  <2>2. v.health \in Healths /\ v.sched \in {Off, On}
    BY <1>p, VerdictsType
  <2>3. val \in Account
    BY <2>2, DesiredType
  <2>4. todo \in SUBSET Fields
    OBVIOUS
  <2> HIDE DEF val, todo
  <2>5. q \in Worker
    BY <1>p, <2>2, <2>3, <2>4 DEF Worker, PCs
  <2>6. Becomes("round", q) \/ Becomes("round", Finishing(q))
    BY <2>1 DEF val, todo
  <2> HIDE DEF q
  <2>7. proc' \in [Workers -> Worker]
    BY <1>p, <2>5, <2>6, FinishingType, BecomesType DEF TypeOK
  <2> QED
    BY <1>4, <2>7 DEF RoundDecide, TypeOK
<1>5. CASE RoundGiveBack
  <2> DEFINE r == [p EXCEPT !.was = IF p.job = "leave" THEN st ELSE @]
  <2>1. r \in Worker
    BY <1>p DEF TypeOK, Worker
  <2>2. [r EXCEPT !.pc = RestoreFrom(r.base, r.acc)] \in Worker
    BY <2>1, RestoreFromType DEF Worker, PCs
  <2>3. \/ Becomes("round", [r EXCEPT !.pc = RestoreFrom(r.base, r.acc)])
        \/ Becomes("round", Finishing(r))
    BY <1>5 DEF RoundGiveBack, p
  <2> HIDE DEF r
  <2>4. proc' \in [Workers -> Worker]
    BY <1>p, <2>1, <2>2, <2>3, FinishingType, BecomesType DEF TypeOK
  <2> QED
    BY <1>5, <2>4 DEF RoundGiveBack, TypeOK
<1>6. CASE Persist
  <2>1. proc' \in [Workers -> Worker]
    BY <1>6, <1>p, IdleWorkerType, BecomesType DEF Persist, TypeOK
  <2>2. st' \in Healths
    BY <1>6, <1>p DEF Persist, EffectiveHealth, Worker, Healths, p
  <2> QED
    BY <1>6, <2>1, <2>2 DEF Persist, TypeOK
<1>7. CASE Step("round")
  BY <1>7, <1>p, StepType
<1> QED
  BY <1>1, <1>2, <1>3, <1>4, <1>5, <1>6, <1>7 DEF RoundStep

\* What an operation wants is an account, and the fields it writes are fields of one.
LEMMA WantedType ==
  ASSUME NEW job \in Jobs, NEW acc \in Account
  PROVE  /\ HealthAfter(job) \in Healths
         /\ \A val \in Wanted(job, acc) :
              val \in Account /\ ToWrite(job, val, acc) \subseteq SUBSET Fields
<1>1. \A x \in {Off, On} : [acc EXCEPT !["sched"] = x] \in Account
  BY DEF Account, ValuesOf
<1>2. ASSUME NEW val \in Wanted(job, acc) PROVE val \in Account
  <2>1. CASE job \in {"fuse", "pause"}
    BY <1>1, <1>2, <2>1 DEF Wanted
  <2>2. CASE job \in {"resume", "recover"}
    BY <1>1, <1>2, <2>2 DEF Wanted
  <2>3. CASE job = "update"
    BY <1>2, <2>3 DEF Wanted
  <2>4. CASE job \notin {"fuse", "pause", "resume", "recover", "update"}
    BY <1>2, <2>4 DEF Wanted
  <2> QED
    BY <2>1, <2>2, <2>3, <2>4
<1>3. ASSUME NEW val PROVE ToWrite(job, val, acc) \subseteq SUBSET Fields
  BY DEF ToWrite, Fields
<1>4. HealthAfter(job) \in Healths
  BY DEF HealthAfter, Healths
<1> QED
  BY <1>2, <1>3, <1>4

\* The steps of a manual operation before and after its writes.
LEMMA ManualType == TypeOK /\ ManualStep => TypeOK'
<1> SUFFICES ASSUME TypeOK, ManualStep PROVE TypeOK'
  OBVIOUS
<1> USE DEF stored, history
<1> DEFINE p == proc["manual"]
<1>p. p \in Worker /\ "manual" \in Workers
  BY DEF TypeOK, Workers
<1> HIDE DEF p
<1>1. CASE ManualLoad
  <2>0. /\ HealthAfter(p.job) \in Healths
        /\ \A val \in Wanted(p.job, cache) :
             val \in Account /\ ToWrite(p.job, val, cache) \subseteq SUBSET Fields
    BY <1>p, WantedType DEF TypeOK, Worker
  <2>1. PICK val \in Account, todo \in SUBSET Fields, pc \in PCs :
          LET q == [p EXCEPT !.acc = cache, !.base = base, !.health = HealthAfter(p.job),
                             !.val = val, !.todo = todo, !.pc = pc]
          IN Becomes("manual", AfterRestore(q)) \/ Becomes("manual", q)
    BY <1>1, <2>0, RestoreFromType DEF ManualLoad, PCs, p
  <2> DEFINE q == [p EXCEPT !.acc = cache, !.base = base, !.health = HealthAfter(p.job),
                            !.val = val, !.todo = todo, !.pc = pc]
  <2>3. q \in Worker
    BY <1>p, <2>0 DEF TypeOK, Worker
  <2> HIDE DEF q
  <2>4. proc' \in [Workers -> Worker]
    BY <1>p, <2>1, <2>3, AfterRestoreType, BecomesType DEF TypeOK, q
  <2>5. clean' \in BOOLEAN
    BY <1>1 DEF ManualLoad, TypeOK
  <2>6. UNCHANGED <<site, cache, stored, good, upsets, ours, unsure>>
    BY <1>1 DEF ManualLoad
  <2> QED
    BY <2>4, <2>5, <2>6 DEF TypeOK
<1>2. CASE ManualFinish
  <2>1. proc' \in [Workers -> Worker]
    BY <1>2, <1>p, IdleWorkerType, BecomesType DEF ManualFinish, TypeOK
  <2>2. st' \in Healths /\ cache' \in Account /\ upsets' \in 0..MaxUpsets
    BY <1>2, <1>p, SyncAssumption DEF ManualFinish, Upset, TypeOK, Worker, p
  <2> QED
    BY <1>2, <2>1, <2>2 DEF ManualFinish, TypeOK
<1>3. CASE ManualAbort
  <2>1. proc' \in [Workers -> Worker]
    BY <1>3, <1>p, IdleWorkerType, BecomesType DEF ManualAbort, TypeOK
  <2> QED
    BY <1>3, <2>1, SyncAssumption DEF ManualAbort, Upset, TypeOK
<1>4. CASE Step("manual")
  BY <1>4, <1>p, StepType
<1> QED
  BY <1>1, <1>2, <1>3, <1>4 DEF ManualStep

\* Every step keeps the types.
LEMMA NextType == TypeOK /\ [Next]_vars => TypeOK'
<1> SUFFICES ASSUME TypeOK, [Next]_vars PROVE TypeOK'
  OBVIOUS
<1>1. CASE UNCHANGED vars
  BY <1>1 DEF vars, stored, history, TypeOK
<1> QED
  BY <1>1, RoundType, ManualType, EnvironmentType DEF Next

\* The state of the account, of the copies of it, of the database and of the two workers is
\* of its type.
THEOREM TypeCorrect == Spec => []TypeOK
<1> QED
  BY InitType, NextType, PTL DEF Spec

----------------------------------------------------------------------------
\* Ownership.

\* Nothing is asked of a worker that is idle, about to load, about to save its state, or
\* writing what the operator recovers.
LEMMA FreshAtRest ==
  ASSUME NEW w \in Workers,
         \/ proc'[w].pc \in {"idle", "load", "finish"}
         \/ proc'[w].pc \in {"tuned", "sched"} /\ proc'[w].job = "recover"
  PROVE  Fresh(w)'
<1> QED
  BY DEF Fresh

\* While one worker is busy the other is idle, so only the one that steps is to be looked at.
LEMMA Alone ==
  ASSUME Sound, clean, NEW w \in Workers,
         ~Idle(w) \/ (\A u \in Workers \ {w} : Idle(u)),
         \A u \in Workers \ {w} : proc'[u] = proc[u],
         Backed', Fresh(w)'
  PROVE  Sound'
<1>1. \A u \in Workers \ {w} : Idle(u)
  BY DEF Sound, OneBusy, Workers
<1>2. \A u \in Workers \ {w} : Fresh(u)'
  BY <1>1, FreshAtRest DEF Idle
<1>3. OneBusy'
  BY <1>1 DEF OneBusy, Idle, Workers
<1> QED
  BY <1>2, <1>3 DEF Sound

\* A request keeps Guardian's values backed when it writes what an intent recorded, what the
\* baseline says, or what the operator recovers.
LEMMA SendBacked ==
  ASSUME TypeOK, Backed, NEW w \in Workers, NEW S \in SUBSET Fields, NEW val \in Account, NEW how,
         Send(w, S, val, how),
         \/ proc[w].job = "recover"
         \/ base.held /\ \A f \in S : base.managed[f] = val[f]
         \/ \A f \in S : val[f] = base.orig[f]
  PROVE  Backed'
<1>1. base' = base
  BY DEF Send, stored
<1>2. CASE how = "lost"
  BY <1>1, <1>2 DEF Send, Backed
<1>3. CASE how # "lost"
  <2>1. /\ site' = [f \in Fields |-> IF f \in S THEN val[f] ELSE site[f]]
        /\ ours' = (ours \ S) \cup
                     {f \in S \cap Watched : proc[w].job # "recover" /\ val[f] # base.orig[f]}
        /\ unsure' = unsure \ S
    BY <1>3 DEF Send
  <2>2. ours' \subseteq Watched /\ Watched \subseteq Fields
    BY <2>1, SyncAssumption DEF Backed
  <2>3. ASSUME NEW f \in ours' \ unsure'
        PROVE  base.held /\ base.managed[f] = site'[f] /\ site'[f] # base.orig[f]
    <3>1. f \in Fields
      BY <2>2
    <3>2. CASE f \in S
      BY <2>1, <2>3, <3>1, <3>2
    <3>3. CASE f \notin S
      BY <2>1, <2>3, <3>1, <3>3 DEF Backed
    <3> QED
      BY <3>2, <3>3
  <2> QED
    BY <1>1, <2>2, <2>3 DEF Backed
<1> QED
  BY <1>2, <1>3

\* The writes both workers share.
LEMMA StepSound ==
  ASSUME TypeOK, Sound, NEW w \in Workers, Step(w)
  PROVE  Sound'
<1> SUFFICES ASSUME clean' PROVE Sound'
  BY DEF Sound
<1> DEFINE p == proc[w]
<1>p. p \in Worker
  BY DEF TypeOK
<1>f. /\ p.acc \in Account /\ p.base \in Baseline /\ p.val \in Account /\ p.base.orig \in Account
      /\ p.todo \in SUBSET Fields
  BY <1>p, WorkerFields
<1>c. clean
  BY DEF Step, EnsureBaseline, Intent, IntentFails, DropBaseline, DropFails, WriteTuned,
         WriteSched, RestoreTuned, RestoreSched, Send, history
<1>s. OneBusy /\ Backed /\ Fresh(w)
  BY <1>c DEF Sound
<1>t. proc \in [Workers -> Worker] /\ Watched \subseteq Fields
  BY SyncAssumption DEF TypeOK
<1> HIDE DEF p
<1>1. CASE EnsureBaseline(w)
  <2> DEFINE q == [p EXCEPT !.base = Captured(p.acc)]
  <2>1. q \in Worker /\ q.pc = "intent" /\ q.base = Captured(p.acc)
    BY <1>1, <1>p, <1>f, CapturedType DEF Worker, EnsureBaseline, At, p
  <2>2. base' = Captured(p.acc) /\ Becomes(w, q) /\ ~Idle(w)
    BY <1>1 DEF EnsureBaseline, At, Idle, p
  <2> HIDE DEF q
  <2>3. proc'[w] = q /\ \A u \in Workers \ {w} : proc'[u] = proc[u]
    BY <1>t, <2>1, <2>2, BecomesType
  <2>4. ours \subseteq unsure
    BY <1>1, <1>s DEF EnsureBaseline, At, Fresh, Backed
  <2>5. Backed'
    BY <1>1, <1>s, <2>4 DEF EnsureBaseline, Backed, history
  <2>6. Fresh(w)'
    BY <2>1, <2>2, <2>3 DEF Fresh
  <2> QED
    BY <1>c, <2>2, <2>3, <2>5, <2>6, Alone
<1>2. CASE Intent(w)
  <2> DEFINE q == Writing(p, p.todo)
  <2>1. /\ q \in Worker /\ q.pc \in {"tuned", "sched", "finish"} /\ q.job = p.job
        /\ q.todo = p.todo /\ \A f \in p.todo : q.val[f] = p.val[f]
        /\ q.pc = "sched" => "sched" \in p.todo
    BY <1>p, <1>f, WritingType
  <2>2. /\ Becomes(w, q) /\ ~Idle(w) /\ p.base = base /\ p.base.held
        /\ base' = WithIntent(p.base, p.val, p.todo)
        /\ unsure' = unsure \cup (p.todo \cap Watched)
        /\ UNCHANGED <<site, cache, ours>>
    BY <1>2, <1>s DEF Intent, At, Idle, Fresh, p
  <2> HIDE DEF q
  <2>3. proc'[w] = q /\ \A u \in Workers \ {w} : proc'[u] = proc[u]
    BY <1>t, <2>1, <2>2, BecomesType
  <2>4. /\ base'.held /\ base'.orig = base.orig
        /\ \A f \in Fields : base'.managed[f] = IF f \in p.todo THEN p.val[f] ELSE base.managed[f]
    BY <1>f, <2>2, IntentType
  <2>5. Backed'
    BY <1>s, <1>t, <2>2, <2>4 DEF Backed
  <2>6. Fresh(w)'
    BY <1>f, <2>1, <2>3, <2>4 DEF Fresh
  <2> QED
    BY <1>c, <2>2, <2>3, <2>5, <2>6, Alone
<1>3. CASE IntentFails(w)
  <2>1. [p EXCEPT !.stuck = "sched" \in p.todo] \in Worker
    <3>1. ("sched" \in p.todo) \in BOOLEAN
      OBVIOUS
    <3> QED BY <1>p, <3>1, Stuck, Zenon
  <2>2. PICK q \in Worker : Becomes(w, q) /\ q.pc \in {"finish", "idle"}
    BY <1>3, <2>1, FinishingType, IdleWorkerType DEF IntentFails, p
  <2>3. proc'[w] = q /\ \A u \in Workers \ {w} : proc'[u] = proc[u]
    BY <1>t, <2>2, BecomesType
  <2>4. Backed' /\ ~Idle(w)
    BY <1>3, <1>s DEF IntentFails, Backed, stored, history, At, Idle
  <2>5. Fresh(w)'
    BY <2>2, <2>3, FreshAtRest
  <2> QED
    BY <1>c, <2>3, <2>4, <2>5, Alone
<1>4. CASE DropBaseline(w)
  <2>1. [p EXCEPT !.base = NoBase] \in Worker
    BY <1>p, NoBaseType DEF Worker
  <2> DEFINE q == AfterRestore([p EXCEPT !.base = NoBase])
  <2>2. q \in Worker /\ Becomes(w, q) /\ ~Idle(w)
    BY <1>4, <2>1, AfterRestoreType DEF DropBaseline, At, Idle, p
  <2>3. \/ q.pc \in {"finish", "idle"}
        \/ q.pc \in {"tuned", "sched"} /\ q.job = "recover"
    BY <2>1, AfterRestoreType
  <2> HIDE DEF q
  <2>4. proc'[w] = q /\ \A u \in Workers \ {w} : proc'[u] = proc[u]
    BY <1>t, <2>2, BecomesType
  <2>5. ours \ unsure = {}
    <3> SUFFICES ASSUME NEW f \in ours \ unsure PROVE FALSE
      OBVIOUS
    <3>1. p.base = base /\ p.acc[f] = site[f] /\ Restorable(p.base, p.acc) = {}
      BY <1>4, <1>s DEF DropBaseline, At, Fresh, p
    <3>2. base.managed[f] = site[f] /\ site[f] # base.orig[f] /\ f \in Fields
      BY <1>s, <1>t DEF Backed
    <3> QED
      BY <3>1, <3>2 DEF Restorable
  <2>6. Backed'
    BY <1>4, <1>s, <2>5 DEF DropBaseline, Backed, history
  <2>7. Fresh(w)'
    BY <2>3, <2>4, FreshAtRest
  <2> QED
    BY <1>c, <2>2, <2>4, <2>6, <2>7, Alone
<1>5. CASE DropFails(w)
  <2> DEFINE q == AfterRestore(p)
  <2>2. q \in Worker /\ Becomes(w, q) /\ ~Idle(w)
    BY <1>5, <1>p, AfterRestoreType DEF DropFails, At, Idle, p
  <2>3. \/ q.pc \in {"finish", "idle"}
        \/ q.pc \in {"tuned", "sched"} /\ q.job = "recover"
    BY <1>p, AfterRestoreType
  <2> HIDE DEF q
  <2>4. proc'[w] = q /\ \A u \in Workers \ {w} : proc'[u] = proc[u]
    BY <1>t, <2>2, BecomesType
  <2>5. Backed'
    BY <1>5, <1>s DEF DropFails, Backed, stored, history
  <2>6. Fresh(w)'
    BY <2>3, <2>4, FreshAtRest
  <2> QED
    BY <1>c, <2>2, <2>4, <2>5, <2>6, Alone
<1>6. ASSUME NEW how \in Outcomes, WriteTuned(w, how) PROVE Sound'
  <2>1. p.todo \ Tuned \in SUBSET Fields /\ p.todo \cap Tuned \in SUBSET Fields
    BY <1>f
  <2>2. Send(w, p.todo \cap Tuned, p.val, how) /\ ~Idle(w) /\ base' = base
    BY <1>6 DEF WriteTuned, Send, stored, At, Idle, p
  <2>3. p.job = "recover" \/ (base.held /\ \A f \in p.todo : base.managed[f] = p.val[f])
    BY <1>6, <1>s DEF WriteTuned, At, Fresh, p
  <2>4. Backed'
    BY <1>s, <1>f, <2>1, <2>2, <2>3, SendBacked DEF p
  <2> DEFINE r == Writing(p, p.todo \ Tuned)
  <2>5. /\ r \in Worker /\ r.pc \in {"tuned", "sched", "finish"} /\ r.job = p.job
        /\ r.todo = p.todo \ Tuned /\ \A f \in p.todo \ Tuned : r.val[f] = p.val[f]
        /\ r.pc = "sched" => "sched" \in p.todo \ Tuned
    BY <1>p, <2>1, WritingType
  <2>6. Becomes(w, IdleWorker) \/ Becomes(w, r)
    BY <1>6 DEF WriteTuned, p
  <2> HIDE DEF r
  <2>7. CASE Becomes(w, r)
    <3>1. proc'[w] = r /\ \A u \in Workers \ {w} : proc'[u] = proc[u]
      BY <1>t, <2>5, <2>7, BecomesType
    <3>2. Fresh(w)'
      BY <2>2, <2>3, <2>5, <3>1 DEF Fresh
    <3> QED
      BY <1>c, <2>2, <2>4, <3>1, <3>2, Alone
  <2>8. CASE Becomes(w, IdleWorker)
    <3>1. proc'[w] = IdleWorker /\ \A u \in Workers \ {w} : proc'[u] = proc[u]
      BY <1>t, <2>8, IdleWorkerType, BecomesType
    <3>2. Fresh(w)'
      BY <3>1, IdleWorkerType, FreshAtRest
    <3> QED
      BY <1>c, <2>2, <2>4, <3>1, <3>2, Alone
  <2> QED
    BY <2>6, <2>7, <2>8
<1>7. ASSUME NEW how \in Outcomes, WriteSched(w, how) PROVE Sound'
  <2>1. [p EXCEPT !.stuck = how # "ok"] \in Worker
    <3>1. (how # "ok") \in BOOLEAN
      OBVIOUS
    <3> QED BY <1>p, <3>1, Stuck, Zenon
  <2>2. /\ Send(w, {"sched"}, p.val, how) /\ {"sched"} \in SUBSET Fields /\ ~Idle(w)
    BY <1>7 DEF WriteSched, Fields, At, Idle, p
  <2>3. p.job = "recover" \/ (base.held /\ base.managed["sched"] = p.val["sched"])
    BY <1>7, <1>s DEF WriteSched, At, Fresh, p
  <2>4. Backed'
    BY <1>s, <1>f, <2>2, <2>3, SendBacked DEF p
  <2>5. PICK q \in Worker : Becomes(w, q) /\ q.pc \in {"finish", "idle"}
    BY <1>7, <2>1, FinishingType, IdleWorkerType DEF WriteSched, p
  <2>6. proc'[w] = q /\ \A u \in Workers \ {w} : proc'[u] = proc[u]
    BY <1>t, <2>5, BecomesType
  <2>7. Fresh(w)'
    BY <2>5, <2>6, FreshAtRest
  <2> QED
    BY <1>c, <2>2, <2>4, <2>6, <2>7, Alone
<1>8. ASSUME NEW how \in Outcomes, RestoreTuned(w, how) PROVE Sound'
  <2> DEFINE S == Restorable(p.base, p.acc) \cap Tuned
             seen == [f \in Fields |-> IF f \in S THEN p.base.orig[f] ELSE p.acc[f]]
             q == [p EXCEPT !.acc = seen, !.pc = RestoreFrom(p.base, seen)]
  <2>1. S \in SUBSET Fields /\ Send(w, S, p.base.orig, how) /\ ~Idle(w) /\ base' = base
    BY <1>8 DEF RestoreTuned, Restorable, Send, stored, At, Idle, p
  <2>2. p.base = base /\ \A f \in ours : p.acc[f] = site[f]
    BY <1>8, <1>s DEF RestoreTuned, At, Fresh, p
  <2>3. Backed'
    <3> HIDE DEF S
    <3> QED BY <1>s, <1>f, <2>1, <2>2, SendBacked
  <2>4. seen \in Account
    BY <1>f, AccountMerge
  <2>5. q \in Worker /\ q.acc = seen /\ q.base = base /\ q.pc = RestoreFrom(p.base, seen)
    BY <1>p, <2>2, <2>4, RestoreFromType DEF Worker, PCs
  <2>6. \/ how = "ok" /\ Becomes(w, q)
        \/ Becomes(w, AfterRestore(p))
    BY <1>8 DEF RestoreTuned, p
  <2>7. CASE how = "ok" /\ Becomes(w, q)
    <3>1. \A f \in ours' : seen[f] = site'[f]
      <4>1. /\ site' = [f \in Fields |-> IF f \in S THEN p.base.orig[f] ELSE site[f]]
            /\ ours' \subseteq ours \ S
        BY <2>1, <2>2, <2>7 DEF Send
      <4>2. ours \subseteq Fields
        BY <1>s, <1>t DEF Backed
      <4> HIDE DEF S
      <4> QED
        BY <4>1, <4>2, <2>2
    <3> HIDE DEF q, S, seen
    <3>2. proc'[w] = q /\ \A u \in Workers \ {w} : proc'[u] = proc[u]
      BY <1>t, <2>5, <2>7, BecomesType
    <3>3. Fresh(w)'
      BY <2>1, <2>2, <2>5, <3>1, <3>2, RestoreFromType DEF Fresh
    <3> QED
      BY <1>c, <2>1, <2>3, <3>2, <3>3, Alone
  <2>8. CASE Becomes(w, AfterRestore(p))
    <3>1. proc'[w] = AfterRestore(p) /\ \A u \in Workers \ {w} : proc'[u] = proc[u]
      BY <1>t, <1>p, <2>8, AfterRestoreType, BecomesType
    <3>2. Fresh(w)'
      BY <1>p, <3>1, AfterRestoreType, FreshAtRest
    <3> QED
      BY <1>c, <2>1, <2>3, <3>1, <3>2, Alone
  <2> QED
    BY <2>6, <2>7, <2>8
<1>9. ASSUME NEW how \in Outcomes, RestoreSched(w, how) PROVE Sound'
  <2> DEFINE seen == [p.acc EXCEPT !["sched"] = p.base.orig["sched"]]
             q == [p EXCEPT !.acc = seen, !.pc = "drop"]
  <2>1. /\ {"sched"} \in SUBSET Fields /\ Send(w, {"sched"}, p.base.orig, how) /\ ~Idle(w)
        /\ base' = base
    BY <1>9 DEF RestoreSched, Fields, Send, stored, At, Idle, p
  <2>2. /\ p.base = base /\ \A f \in ours : p.acc[f] = site[f]
        /\ Restorable(p.base, p.acc) \cap Tuned = {}
    BY <1>9, <1>s DEF RestoreSched, At, Fresh, p
  <2>3. Backed'
    BY <1>s, <1>f, <2>1, <2>2, SendBacked
  <2>4. seen \in Account /\ \A f \in Fields \ {"sched"} : seen[f] = p.acc[f]
    BY <1>f DEF Account, ValuesOf
  <2>5. seen["sched"] = p.base.orig["sched"]
    BY <1>f, <2>1 DEF Account
  <2>6. q \in Worker /\ q.acc = seen /\ q.base = base /\ q.pc = "drop"
    BY <1>p, <2>2, <2>4 DEF Worker, PCs
  <2>7. \/ how = "ok" /\ Becomes(w, q)
        \/ Becomes(w, AfterRestore(p))
    BY <1>9 DEF RestoreSched, p
  <2>8. CASE how = "ok" /\ Becomes(w, q)
    <3>1. \A f \in ours' : seen[f] = site'[f]
      <4>1. /\ site' = [f \in Fields |-> IF f \in {"sched"} THEN p.base.orig[f] ELSE site[f]]
            /\ ours' \subseteq ours \ {"sched"}
        BY <2>1, <2>2, <2>8 DEF Send
      <4>2. ours \subseteq Fields
        BY <1>s, <1>t DEF Backed
      <4> HIDE DEF seen
      <4> QED
        BY <4>1, <4>2, <2>2, <2>4
    <3>2. Restorable(base, seen) = {}
      <4> HIDE DEF seen
      <4> QED BY <2>2, <2>4, <2>5 DEF Restorable, Fields
    <3> HIDE DEF q, seen
    <3>3. proc'[w] = q /\ \A u \in Workers \ {w} : proc'[u] = proc[u]
      BY <1>t, <2>6, <2>8, BecomesType
    <3>4. Fresh(w)'
      BY <2>1, <2>6, <3>1, <3>2, <3>3 DEF Fresh
    <3> QED
      BY <1>c, <2>1, <2>3, <3>3, <3>4, Alone
  <2>9. CASE Becomes(w, AfterRestore(p))
    <3>1. proc'[w] = AfterRestore(p) /\ \A u \in Workers \ {w} : proc'[u] = proc[u]
      BY <1>t, <1>p, <2>9, AfterRestoreType, BecomesType
    <3>2. Fresh(w)'
      BY <1>p, <3>1, AfterRestoreType, FreshAtRest
    <3> QED
      BY <1>c, <2>1, <2>3, <3>1, <3>2, Alone
  <2> QED
    BY <2>7, <2>8, <2>9
<1> QED
  BY <1>1, <1>2, <1>3, <1>4, <1>5, <1>6, <1>7, <1>8, <1>9 DEF Step

\* The steps of a round before and after its writes.
LEMMA RoundSound == TypeOK /\ Sound /\ RoundStep => Sound'
<1> SUFFICES ASSUME TypeOK, Sound, RoundStep, clean' PROVE Sound'
  BY DEF Sound
<1>7. CASE Step("round")
  BY <1>7, StepSound DEF Workers
<1> SUFFICES ASSUME ~Step("round") PROVE Sound'
  BY <1>7
<1> DEFINE p == proc["round"]
<1>p. p \in Worker /\ "round" \in Workers
  BY DEF TypeOK, Workers
<1>f. p.acc \in Account /\ p.base \in Baseline
  BY <1>p, WorkerFields
<1>t. proc \in [Workers -> Worker]
  BY DEF TypeOK
<1>c. clean
  BY DEF RoundStep, RoundSync, RoundBuild, RoundAbort, RoundDecide, RoundGiveBack, Persist, history
<1>s. OneBusy /\ Backed /\ Fresh("round")
  BY <1>c, <1>p DEF Sound
<1>b. Backed'
  BY <1>s DEF RoundStep, RoundSync, RoundBuild, RoundAbort, RoundDecide, RoundGiveBack, Persist,
              Backed, stored, history
<1> HIDE DEF p
<1>1. CASE RoundSync
  <2> DEFINE q == [IdleWorker EXCEPT !.job = "round", !.pc = "synced"]
  <2>1. q \in Worker /\ q.pc = "synced"
    BY IdleWorkerType DEF Worker, Jobs, PCs
  <2>2. Becomes("round", q) /\ cache' = site /\ site' = site /\ Idle("manual")
    BY <1>1 DEF RoundSync
  <2> HIDE DEF q
  <2>3. proc'["round"] = q /\ \A u \in Workers \ {"round"} : proc'[u] = proc[u]
    BY <1>t, <1>p, <2>1, <2>2, BecomesType
  <2>4. Fresh("round")'
    BY <2>1, <2>2, <2>3 DEF Fresh
  <2>5. \A u \in Workers \ {"round"} : Idle(u)
    BY <2>2 DEF Workers
  <2> QED
    BY <1>b, <1>c, <1>p, <2>3, <2>4, <2>5, Alone
<1>2. CASE RoundBuild
  <2>1. PICK job \in Jobs, h \in Healths :
          Becomes("round", [IdleWorker EXCEPT !.job = job, !.pc = "collect", !.acc = cache,
                              !.base = base, !.was = st, !.health = h])
    BY <1>2 DEF RoundBuild, Jobs, Healths, IdleWorker
  <2> DEFINE q == [IdleWorker EXCEPT !.job = job, !.pc = "collect", !.acc = cache,
                                     !.base = base, !.was = st, !.health = h]
  <2>2. q \in Worker /\ q.pc = "collect" /\ q.acc = cache /\ q.base = base
    BY IdleWorkerType DEF Worker, PCs, TypeOK
  <2>3. /\ ~Idle("round") /\ UNCHANGED <<site, base, ours>>
        /\ \A f \in ours : cache[f] = site[f]
    BY <1>2, <1>s DEF RoundBuild, At, Idle, Fresh, stored, history
  <2> HIDE DEF q
  <2>4. proc'["round"] = q /\ \A u \in Workers \ {"round"} : proc'[u] = proc[u]
    BY <1>t, <1>p, <2>1, <2>2, BecomesType DEF q
  <2>5. Fresh("round")'
    BY <2>2, <2>3, <2>4 DEF Fresh
  <2> QED
    BY <1>b, <1>c, <1>p, <2>3, <2>4, <2>5, Alone
<1>3. CASE RoundAbort \/ Persist
  <2>1. Becomes("round", IdleWorker) /\ ~Idle("round")
    BY <1>3 DEF RoundAbort, Persist, At, Idle
  <2>2. proc'["round"] = IdleWorker /\ \A u \in Workers \ {"round"} : proc'[u] = proc[u]
    BY <1>t, <1>p, <2>1, IdleWorkerType, BecomesType
  <2>3. Fresh("round")'
    BY <1>p, <2>2, IdleWorkerType, FreshAtRest
  <2> QED
    BY <1>b, <1>c, <1>p, <2>1, <2>2, <2>3, Alone
<1>4. CASE RoundDecide
  <2>1. PICK v \in Verdicts(p), tuned \in [Tuned -> Values] :
          LET val  == [f \in Fields |-> IF f = "sched" THEN v.sched ELSE tuned[f]]
              todo == {f \in Fields : val[f] # p.acc[f]}
              q    == [p EXCEPT !.health = v.health, !.val = val, !.todo = todo, !.pc = "intent"]
          IN Becomes("round", IF todo = {} THEN Finishing(q) ELSE q)
    BY <1>4 DEF RoundDecide, p
  <2> DEFINE val  == [f \in Fields |-> IF f = "sched" THEN v.sched ELSE tuned[f]]
             todo == {f \in Fields : val[f] # p.acc[f]}
             q    == [p EXCEPT !.health = v.health, !.val = val, !.todo = todo, !.pc = "intent"]
  <2>2. v.health \in Healths /\ v.sched \in {Off, On}
    BY <1>p, VerdictsType
  <2>3. val \in Account
    BY <2>2, DesiredType
  <2>4. todo \in SUBSET Fields
    OBVIOUS
  <2> HIDE DEF val, todo
  <2>5. q \in Worker /\ q.pc = "intent" /\ q.base = p.base
    BY <1>p, <2>2, <2>3, <2>4 DEF Worker, PCs
  <2>6. Becomes("round", q) \/ Becomes("round", Finishing(q))
    BY <2>1 DEF val, todo
  <2>7. ~Idle("round") /\ p.base = base /\ base' = base
    BY <1>4, <1>s DEF RoundDecide, At, Idle, Fresh, stored, p
  <2> HIDE DEF q
  <2>8. /\ proc'["round"] \in {q, Finishing(q)}
        /\ \A u \in Workers \ {"round"} : proc'[u] = proc[u]
    BY <1>t, <1>p, <2>5, <2>6, FinishingType, BecomesType
  <2>9. Fresh("round")'
    <3>1. CASE proc'["round"] = q
      BY <2>5, <2>7, <3>1 DEF Fresh
    <3>2. CASE proc'["round"] = Finishing(q)
      BY <1>p, <2>5, <3>2, FinishingType, FreshAtRest
    <3> QED
      BY <2>8, <3>1, <3>2
  <2> QED
    BY <1>b, <1>c, <1>p, <2>7, <2>8, <2>9, Alone
<1>5. CASE RoundGiveBack
  <2> DEFINE r == [p EXCEPT !.was = IF p.job = "leave" THEN st ELSE @]
             q == [r EXCEPT !.pc = RestoreFrom(p.base, p.acc)]
  <2>1. r \in Worker /\ r.base = p.base /\ r.acc = p.acc
    BY <1>p DEF TypeOK, Worker
  <2>2. q \in Worker /\ q.base = p.base /\ q.acc = p.acc /\ q.pc = RestoreFrom(p.base, p.acc)
    BY <2>1, RestoreFromType DEF Worker, PCs
  <2>3. Becomes("round", q) \/ Becomes("round", Finishing(r))
    BY <1>5 DEF RoundGiveBack, p
  <2>4. /\ ~Idle("round") /\ p.base = base /\ UNCHANGED <<site, base, ours>>
        /\ \A f \in ours : p.acc[f] = site[f]
    BY <1>5, <1>s DEF RoundGiveBack, At, Idle, Fresh, stored, history, p
  <2> HIDE DEF q, r
  <2>5. /\ proc'["round"] \in {q, Finishing(r)}
        /\ \A u \in Workers \ {"round"} : proc'[u] = proc[u]
    BY <1>t, <1>p, <2>1, <2>2, <2>3, FinishingType, BecomesType
  <2>6. Fresh("round")'
    <3>1. CASE proc'["round"] = q
      BY <2>2, <2>4, <3>1, RestoreFromType DEF Fresh
    <3>2. CASE proc'["round"] = Finishing(r)
      BY <1>p, <2>1, <3>2, FinishingType, FreshAtRest
    <3> QED
      BY <2>5, <3>1, <3>2
  <2> QED
    BY <1>b, <1>c, <1>p, <2>4, <2>5, <2>6, Alone
<1> QED
  BY <1>1, <1>2, <1>3, <1>4, <1>5 DEF RoundStep

\* The steps of a manual operation before and after its writes.
LEMMA ManualSound == TypeOK /\ Sound /\ ManualStep => Sound'
<1> SUFFICES ASSUME TypeOK, Sound, ManualStep, clean' PROVE Sound'
  BY DEF Sound
<1>4. CASE Step("manual")
  BY <1>4, StepSound DEF Workers
<1> SUFFICES ASSUME ~Step("manual") PROVE Sound'
  BY <1>4
<1> DEFINE p == proc["manual"]
<1>p. p \in Worker /\ "manual" \in Workers
  BY DEF TypeOK, Workers
<1>t. proc \in [Workers -> Worker]
  BY DEF TypeOK
<1>c. clean
  BY DEF ManualStep, ManualLoad, ManualFinish, ManualAbort, history
<1>s. OneBusy /\ Backed /\ Fresh("manual")
  BY <1>c, <1>p DEF Sound
<1>b. Backed' /\ ~Idle("manual")
  BY <1>s DEF ManualStep, ManualLoad, ManualFinish, ManualAbort, Backed, stored, history, At, Idle
<1> HIDE DEF p
<1>1. CASE ManualLoad
  <2>0. /\ HealthAfter(p.job) \in Healths
        /\ \A val \in Wanted(p.job, cache) :
             val \in Account /\ ToWrite(p.job, val, cache) \subseteq SUBSET Fields
    BY <1>p, WantedType DEF TypeOK, Worker
  <2>1. PICK val \in Account, todo \in SUBSET Fields :
          LET q == [p EXCEPT !.acc = cache, !.base = base, !.health = HealthAfter(p.job),
                             !.val = val, !.todo = todo,
                             !.pc = IF p.job \in {"recover", "restoreAll"}
                                    THEN RestoreFrom(base, cache) ELSE "intent"]
          IN Becomes("manual", AfterRestore(q)) \/ Becomes("manual", q)
    BY <1>1, <2>0 DEF ManualLoad, p
  <2> DEFINE pc == IF p.job \in {"recover", "restoreAll"}
                   THEN RestoreFrom(base, cache) ELSE "intent"
             q == [p EXCEPT !.acc = cache, !.base = base, !.health = HealthAfter(p.job),
                            !.val = val, !.todo = todo, !.pc = pc]
  <2>2. pc \in PCs
    BY RestoreFromType DEF PCs
  <2>3. pc = "intent" \/ (pc = RestoreFrom(base, cache) /\ cache = site)
    BY <1>1 DEF ManualLoad, p
  <2> HIDE DEF pc
  <2>4. q \in Worker /\ q.acc = cache /\ q.base = base /\ q.pc = pc
    BY <1>p, <2>0, <2>2 DEF TypeOK, Worker
  <2>5. Becomes("manual", AfterRestore(q)) \/ Becomes("manual", q)
    BY <2>1 DEF pc
  <2> HIDE DEF q
  <2>6. /\ proc'["manual"] \in {q, AfterRestore(q)}
        /\ \A u \in Workers \ {"manual"} : proc'[u] = proc[u]
    BY <1>t, <1>p, <2>4, <2>5, AfterRestoreType, BecomesType
  <2>7. UNCHANGED <<site, cache, base, ours>>
    BY <1>1 DEF ManualLoad, stored
  <2>8. Fresh("manual")'
    <3>1. CASE proc'["manual"] = q
      BY <2>3, <2>4, <2>7, <3>1, RestoreFromType DEF Fresh
    <3>2. CASE proc'["manual"] = AfterRestore(q)
      BY <1>p, <2>4, <3>2, AfterRestoreType, FreshAtRest
    <3> QED
      BY <2>6, <3>1, <3>2
  <2> QED
    BY <1>b, <1>c, <1>p, <2>6, <2>8, Alone
<1>2. CASE ManualFinish \/ ManualAbort
  <2>1. Becomes("manual", IdleWorker)
    BY <1>2 DEF ManualFinish, ManualAbort
  <2>2. proc'["manual"] = IdleWorker /\ \A u \in Workers \ {"manual"} : proc'[u] = proc[u]
    BY <1>t, <1>p, <2>1, IdleWorkerType, BecomesType
  <2>3. Fresh("manual")'
    BY <1>p, <2>2, IdleWorkerType, FreshAtRest
  <2> QED
    BY <1>b, <1>c, <1>p, <2>2, <2>3, Alone
<1> QED
  BY <1>1, <1>2 DEF ManualStep

\* The steps of the environment: an edit by the administrator makes the field his.
LEMMA EnvironmentSound == TypeOK /\ Sound /\ Environment => Sound'
<1> SUFFICES ASSUME TypeOK, Sound, Environment, clean' PROVE Sound'
  BY DEF Sound
<1>1. ASSUME NEW f \in Fields, NEW v \in ValuesOf(f), AdminEdit(f, v) PROVE Sound'
  <2>1. /\ site' = [site EXCEPT ![f] = v] /\ ours' = ours \ {f}
        /\ UNCHANGED <<cache, base, proc, unsure, clean>>
    BY <1>1 DEF AdminEdit, stored
  <2>2. site \in [Fields -> Values \cup {Off, On}] /\ Watched \subseteq Fields
    BY SyncAssumption DEF TypeOK, Account
  <2>3. OneBusy /\ Backed /\ \A w \in Workers : Fresh(w)
    BY <2>1 DEF Sound
  <2>4. \A g \in ours' : g \in ours /\ site'[g] = site[g]
    BY <2>1, <2>2, <2>3 DEF Backed
  <2>5. Backed'
    BY <2>1, <2>3, <2>4 DEF Backed
  <2>6. \A w \in Workers : Fresh(w)'
    BY <2>1, <2>3, <2>4 DEF Fresh
  <2> QED
    BY <2>1, <2>3, <2>5, <2>6 DEF Sound, OneBusy, Idle
<1>2. CASE Evidence
  BY <1>2 DEF Evidence, Sound, OneBusy, Idle, Backed, Fresh, stored, history
<1>3. ASSUME NEW s \in Scopes, SetScope(s) PROVE Sound'
  BY <1>3 DEF SetScope, Sound, OneBusy, Idle, Backed, Fresh, history
<1>4. CASE Crash
  <2>1. \A w \in Workers : proc'[w].pc = "idle"
    BY <1>4, IdleWorkerType DEF Crash
  <2>2. \A w \in Workers : Fresh(w)'
    BY <2>1, FreshAtRest
  <2>3. OneBusy' /\ Backed'
    BY <1>4, <2>1 DEF Crash, Sound, OneBusy, Idle, Backed, Workers, stored, history
  <2> QED
    BY <2>2, <2>3 DEF Sound
<1>5. ASSUME NEW job \in Operations, ManualStart(job) PROVE Sound'
  <2> DEFINE q == [IdleWorker EXCEPT !.job = job, !.pc = "load"]
  <2>1. q \in Worker /\ q.pc = "load"
    BY SyncAssumption, IdleWorkerType DEF Worker, Jobs, PCs
  <2>2. /\ Becomes("manual", q) /\ clean /\ Idle("round")
        /\ UNCHANGED <<site, base, ours, unsure>>
    BY <1>5 DEF ManualStart
  <2> HIDE DEF q
  <2>3. "manual" \in Workers /\ \A u \in Workers \ {"manual"} : Idle(u)
    BY <2>2 DEF Workers
  <2>4. proc'["manual"] = q /\ \A u \in Workers \ {"manual"} : proc'[u] = proc[u]
    BY <2>1, <2>2, <2>3, BecomesType DEF TypeOK
  <2>5. Fresh("manual")'
    BY <2>1, <2>3, <2>4, FreshAtRest
  <2>6. Backed'
    BY <2>2 DEF Sound, Backed
  <2> QED
    BY <2>2, <2>3, <2>4, <2>5, <2>6, Alone
<1> QED
  BY <1>1, <1>2, <1>3, <1>4, <1>5 DEF Environment

LEMMA InitSound == Init => Sound
<1> SUFFICES ASSUME Init PROVE Sound
  OBVIOUS
<1>1. \A w \in Workers : Idle(w)
  BY IdleWorkerType DEF Init, Idle
<1>2. \A w \in Workers : Fresh(w)
  BY <1>1 DEF Fresh, Idle
<1> QED
  BY <1>1, <1>2 DEF Init, Sound, OneBusy, Backed, Workers

LEMMA Inductive ==
  /\ Init => IInv
  /\ IInv /\ [Next]_vars => IInv'
<1>1. Init => IInv
  BY InitType, InitSound DEF IInv
<1>2. ASSUME IInv, [Next]_vars PROVE IInv'
  <2>1. TypeOK'
    BY <1>2, NextType DEF IInv
  <2>2. ASSUME UNCHANGED vars PROVE Sound'
    BY <1>2, <2>2 DEF vars, stored, history, IInv, Sound, OneBusy, Idle, Backed, Fresh
  <2>3. ASSUME Next PROVE Sound'
    BY <1>2, <2>3, RoundSound, ManualSound, EnvironmentSound DEF Next, IInv
  <2> QED
    BY <1>2, <2>1, <2>2, <2>3 DEF IInv
<1> QED
  BY <1>1, <1>2

\* What Guardian wrote to sub2api, failures and crashes included, is the managed value of a
\* stored baseline: it can be taken back.
THEOREM WritesOwned == Spec => []Ownership
<1>1. IInv => Ownership
  BY DEF IInv, Sound, Backed, Ownership
<1> QED
  BY Inductive, <1>1, PTL DEF Spec

----------------------------------------------------------------------------
\* Custody.

\* What a worker has made sure of when it comes to a step: no operator's recovery goes through
\* an intent, a restore has a baseline to go by, and it sends the flag only to give it back.
Ready(p) ==
  /\ p.pc \in {"intent", "tuned"} => p.job # "recover"
  /\ p.pc \in {"restoreTuned", "restoreSched", "drop"} => p.base.held
  /\ p.pc = "restoreSched" => "sched" \in Restorable(p.base, p.acc)

Staged == \A w \in Workers : Ready(proc[w])

LEMMA ReadyAtRest ==
  ASSUME NEW p, p.pc \in {"idle", "synced", "collect", "load", "sched", "finish"}
  PROVE  Ready(p)
<1> QED
  BY DEF Ready

\* A worker that goes on writing is ready, unless it recovers and has more than the flag left.
LEMMA ReadyToWrite ==
  ASSUME NEW p \in Worker, NEW todo \in SUBSET Fields, p.job # "recover" \/ todo \cap Tuned = {}
  PROVE  Ready(Writing(p, todo))
<1>1. /\ Writing(p, todo).pc \in {"tuned", "sched", "finish"} /\ Writing(p, todo).job = p.job
  BY WritingType
<1>2. todo \cap Tuned = {} => Writing(p, todo).pc # "tuned"
  BY DEF Writing, IdleWorker
<1> QED
  BY <1>1, <1>2 DEF Ready

LEMMA ReadyAfterRestore ==
  ASSUME NEW p \in Worker
  PROVE  Ready(AfterRestore(p))
<1>1. CASE p.job = "recover"
  <2>1. AfterRestore(p) = Writing(p, {"sched"})
    BY <1>1 DEF AfterRestore
  <2>2. {"sched"} \in SUBSET Fields /\ {"sched"} \cap Tuned = {}
    BY SyncAssumption DEF Fields
  <2> QED
    BY <2>1, <2>2, ReadyToWrite
<1>2. CASE p.job # "recover"
  <2>1. AfterRestore(p).pc \in {"finish", "idle"}
    <3>1. CASE p.job \in {"handback", "leave"}
      <4>1. AfterRestore(p) = [Finishing(p) EXCEPT !.stuck = p.base.held]
        BY <3>1 DEF AfterRestore
      <4> QED
        BY <4>1, FinishingType DEF Worker
    <3>2. CASE p.job \notin {"handback", "leave"}
      BY <1>2, <3>2, IdleWorkerType DEF AfterRestore
    <3> QED
      BY <3>1, <3>2
  <2> QED
    BY <2>1, ReadyAtRest
<1> QED
  BY <1>1, <1>2

LEMMA ReadyToRestore ==
  ASSUME NEW p \in Worker, p.base.held, p.pc = RestoreFrom(p.base, p.acc)
  PROVE  Ready(p)
<1> QED
  BY DEF Ready, RestoreFrom

LEMMA StagedBy ==
  ASSUME TypeOK, Staged, NEW w \in Workers, NEW p \in Worker, Becomes(w, p), Ready(p)
  PROVE  Staged'
<1> QED
  BY BecomesType DEF TypeOK, Staged

LEMMA StepStaged ==
  ASSUME TypeOK, Staged, NEW w \in Workers, Step(w)
  PROVE  Staged'
<1> DEFINE p == proc[w]
<1>p. p \in Worker /\ Ready(p)
  BY DEF TypeOK, Staged
<1>f. /\ p.acc \in Account /\ p.base \in Baseline /\ p.val \in Account /\ p.base.orig \in Account
      /\ p.todo \in SUBSET Fields
  BY <1>p, WorkerFields
<1> HIDE DEF p
<1>1. CASE EnsureBaseline(w)
  <2> DEFINE q == [p EXCEPT !.base = Captured(p.acc)]
  <2>1. q \in Worker /\ q.pc = "intent" /\ q.job = p.job
    BY <1>1, <1>p, <1>f, CapturedType DEF Worker, EnsureBaseline, At, p
  <2>2. Becomes(w, q) /\ p.job # "recover"
    BY <1>1, <1>p DEF EnsureBaseline, Ready, At, p
  <2> HIDE DEF q
  <2> QED
    BY <2>1, <2>2, StagedBy DEF Ready
<1>2. CASE Intent(w)
  <2>1. Becomes(w, Writing(p, p.todo)) /\ p.job # "recover"
    BY <1>2, <1>p DEF Intent, Ready, At, p
  <2> QED
    BY <1>p, <1>f, <2>1, ReadyToWrite, WritingType, StagedBy
<1>3. CASE IntentFails(w)
  <2>1. [p EXCEPT !.stuck = "sched" \in p.todo] \in Worker
    <3>1. ("sched" \in p.todo) \in BOOLEAN
      OBVIOUS
    <3> QED BY <1>p, <3>1, Stuck, Zenon
  <2>2. PICK q \in Worker : Becomes(w, q) /\ q.pc \in {"finish", "idle"}
    BY <1>3, <2>1, FinishingType, IdleWorkerType DEF IntentFails, p
  <2> QED
    BY <2>2, ReadyAtRest, StagedBy
<1>4. CASE DropBaseline(w) \/ DropFails(w)
  <2>1. [p EXCEPT !.base = NoBase] \in Worker
    BY <1>p, NoBaseType DEF Worker
  <2>2. PICK r \in Worker : Becomes(w, AfterRestore(r))
    BY <1>4, <1>p, <2>1 DEF DropBaseline, DropFails, p
  <2> QED
    BY <2>2, AfterRestoreType, ReadyAfterRestore, StagedBy
<1>5. ASSUME NEW how \in Outcomes, WriteTuned(w, how) PROVE Staged'
  <2>1. p.todo \ Tuned \in SUBSET Fields /\ (p.todo \ Tuned) \cap Tuned = {}
    BY <1>f
  <2>2. Becomes(w, IdleWorker) \/ Becomes(w, Writing(p, p.todo \ Tuned))
    BY <1>5 DEF WriteTuned, p
  <2> QED
    BY <1>p, <2>1, <2>2, ReadyToWrite, WritingType, IdleWorkerType, ReadyAtRest, StagedBy
<1>6. ASSUME NEW how \in Outcomes, WriteSched(w, how) PROVE Staged'
  <2>1. [p EXCEPT !.stuck = how # "ok"] \in Worker
    <3>1. (how # "ok") \in BOOLEAN
      OBVIOUS
    <3> QED BY <1>p, <3>1, Stuck, Zenon
  <2>2. PICK q \in Worker : Becomes(w, q) /\ q.pc \in {"finish", "idle"}
    BY <1>6, <2>1, FinishingType, IdleWorkerType DEF WriteSched, p
  <2> QED
    BY <2>2, ReadyAtRest, StagedBy
<1>7. ASSUME NEW how \in Outcomes, RestoreTuned(w, how) PROVE Staged'
  <2> DEFINE S == Restorable(p.base, p.acc) \cap Tuned
             seen == [f \in Fields |-> IF f \in S THEN p.base.orig[f] ELSE p.acc[f]]
             q == [p EXCEPT !.acc = seen, !.pc = RestoreFrom(p.base, seen)]
  <2>1. seen \in Account
    BY <1>f, AccountMerge
  <2>2. Becomes(w, q) \/ Becomes(w, AfterRestore(p))
    BY <1>7 DEF RestoreTuned, p
  <2> HIDE DEF seen
  <2>3. q \in Worker /\ q.acc = seen /\ q.base = p.base /\ q.pc = RestoreFrom(p.base, seen)
    BY <1>p, <2>1, RestoreFromType DEF Worker, PCs
  <2>4. p.base.held
    BY <1>7, <1>p DEF RestoreTuned, At, Ready, p
  <2> HIDE DEF q
  <2> QED
    BY <1>p, <2>2, <2>3, <2>4, ReadyToRestore, AfterRestoreType, ReadyAfterRestore, StagedBy
<1>8. ASSUME NEW how \in Outcomes, RestoreSched(w, how) PROVE Staged'
  <2> DEFINE seen == [p.acc EXCEPT !["sched"] = p.base.orig["sched"]]
             q == [p EXCEPT !.acc = seen, !.pc = "drop"]
  <2>1. seen \in Account
    BY <1>f DEF Account, ValuesOf
  <2>2. Becomes(w, q) \/ Becomes(w, AfterRestore(p))
    BY <1>8 DEF RestoreSched, p
  <2> HIDE DEF seen
  <2>3. q \in Worker /\ q.base = p.base /\ q.pc = "drop"
    BY <1>p, <2>1 DEF Worker, PCs
  <2>4. p.base.held
    BY <1>8, <1>p DEF RestoreSched, At, Ready, p
  <2> HIDE DEF q
  <2>5. Ready(q)
    BY <2>3, <2>4 DEF Ready
  <2> QED
    BY <1>p, <2>2, <2>3, <2>5, AfterRestoreType, ReadyAfterRestore, StagedBy
<1> QED
  BY <1>1, <1>2, <1>3, <1>4, <1>5, <1>6, <1>7, <1>8 DEF Step

LEMMA RoundStaged == TypeOK /\ Staged /\ RoundStep => Staged'
<1> SUFFICES ASSUME TypeOK, Staged, RoundStep PROVE Staged'
  OBVIOUS
<1>7. CASE Step("round")
  BY <1>7, StepStaged DEF Workers
<1> DEFINE p == proc["round"]
<1>p. p \in Worker /\ "round" \in Workers
  BY DEF TypeOK, Workers
<1> HIDE DEF p
<1>1. CASE RoundSync
  <2> DEFINE q == [IdleWorker EXCEPT !.job = "round", !.pc = "synced"]
  <2>1. q \in Worker /\ q.pc = "synced" /\ Becomes("round", q)
    BY <1>1, IdleWorkerType DEF RoundSync, Worker, Jobs, PCs
  <2> HIDE DEF q
  <2> QED
    BY <1>p, <2>1, ReadyAtRest, StagedBy
<1>2. CASE RoundBuild
  <2>1. PICK job \in Jobs, h \in Healths :
          Becomes("round", [IdleWorker EXCEPT !.job = job, !.pc = "collect", !.acc = cache,
                              !.base = base, !.was = st, !.health = h])
    BY <1>2 DEF RoundBuild, Jobs, Healths, IdleWorker
  <2> DEFINE q == [IdleWorker EXCEPT !.job = job, !.pc = "collect", !.acc = cache,
                                     !.base = base, !.was = st, !.health = h]
  <2>2. q \in Worker /\ q.pc = "collect" /\ Becomes("round", q)
    BY <2>1, IdleWorkerType DEF Worker, PCs, TypeOK
  <2> HIDE DEF q
  <2> QED
    BY <1>p, <2>2, ReadyAtRest, StagedBy
<1>3. CASE RoundAbort \/ Persist
  <2>1. Becomes("round", IdleWorker)
    BY <1>3 DEF RoundAbort, Persist
  <2> QED
    BY <1>p, <2>1, IdleWorkerType, ReadyAtRest, StagedBy
<1>4. CASE RoundDecide
  <2>1. PICK v \in Verdicts(p), tuned \in [Tuned -> Values] :
          LET val  == [f \in Fields |-> IF f = "sched" THEN v.sched ELSE tuned[f]]
              todo == {f \in Fields : val[f] # p.acc[f]}
              q    == [p EXCEPT !.health = v.health, !.val = val, !.todo = todo, !.pc = "intent"]
          IN Becomes("round", IF todo = {} THEN Finishing(q) ELSE q)
    BY <1>4 DEF RoundDecide, p
  <2> DEFINE val  == [f \in Fields |-> IF f = "sched" THEN v.sched ELSE tuned[f]]
             todo == {f \in Fields : val[f] # p.acc[f]}
             q    == [p EXCEPT !.health = v.health, !.val = val, !.todo = todo, !.pc = "intent"]
  <2>2. v.health \in Healths /\ v.sched \in {Off, On}
    BY <1>p, VerdictsType
  <2>3. val \in Account
    BY <2>2, DesiredType
  <2>4. todo \in SUBSET Fields
    OBVIOUS
  <2> HIDE DEF val, todo
  <2>5. q \in Worker /\ q.pc = "intent" /\ q.job = "apply"
    BY <1>4, <1>p, <2>2, <2>3, <2>4 DEF RoundDecide, Worker, PCs, p
  <2>6. Becomes("round", q) \/ Becomes("round", Finishing(q))
    BY <2>1 DEF val, todo
  <2> HIDE DEF q
  <2>7. Ready(q) /\ Ready(Finishing(q))
    BY <2>5, FinishingType, ReadyAtRest DEF Ready
  <2> QED
    BY <1>p, <2>5, <2>6, <2>7, FinishingType, StagedBy
<1>5. CASE RoundGiveBack
  <2> DEFINE r == [p EXCEPT !.was = IF p.job = "leave" THEN st ELSE @]
             q == [r EXCEPT !.pc = RestoreFrom(p.base, p.acc)]
  <2>1. r \in Worker /\ r.base = p.base /\ r.acc = p.acc
    BY <1>p DEF TypeOK, Worker
  <2>2. q \in Worker /\ q.base = p.base /\ q.acc = p.acc /\ q.pc = RestoreFrom(p.base, p.acc)
    BY <2>1, RestoreFromType DEF Worker, PCs
  <2>3. (p.base.held /\ Becomes("round", q)) \/ Becomes("round", Finishing(r))
    BY <1>5 DEF RoundGiveBack, p
  <2> HIDE DEF q, r
  <2> QED
    BY <1>p, <2>1, <2>2, <2>3, ReadyToRestore, FinishingType, ReadyAtRest, StagedBy
<1> QED
  BY <1>1, <1>2, <1>3, <1>4, <1>5, <1>7 DEF RoundStep

LEMMA ManualStaged == TypeOK /\ Staged /\ ManualStep => Staged'
<1> SUFFICES ASSUME TypeOK, Staged, ManualStep PROVE Staged'
  OBVIOUS
<1>4. CASE Step("manual")
  BY <1>4, StepStaged DEF Workers
<1> DEFINE p == proc["manual"]
<1>p. p \in Worker /\ "manual" \in Workers
  BY DEF TypeOK, Workers
<1> HIDE DEF p
<1>1. CASE ManualLoad
  <2>0. /\ HealthAfter(p.job) \in Healths
        /\ \A val \in Wanted(p.job, cache) :
             val \in Account /\ ToWrite(p.job, val, cache) \subseteq SUBSET Fields
    BY <1>p, WantedType DEF TypeOK, Worker
  <2>1. PICK val \in Account, todo \in SUBSET Fields :
          LET q == [p EXCEPT !.acc = cache, !.base = base, !.health = HealthAfter(p.job),
                             !.val = val, !.todo = todo,
                             !.pc = IF p.job \in {"recover", "restoreAll"}
                                    THEN RestoreFrom(base, cache) ELSE "intent"]
          IN Becomes("manual", IF q.pc # "intent" /\ ~base.held THEN AfterRestore(q) ELSE q)
    BY <1>1, <2>0 DEF ManualLoad, p
  <2> DEFINE pc == IF p.job \in {"recover", "restoreAll"}
                   THEN RestoreFrom(base, cache) ELSE "intent"
             q == [p EXCEPT !.acc = cache, !.base = base, !.health = HealthAfter(p.job),
                            !.val = val, !.todo = todo, !.pc = pc]
  <2>2. pc \in PCs
    BY RestoreFromType DEF PCs
  <2>3. (pc = "intent" /\ p.job # "recover") \/ pc = RestoreFrom(base, cache)
    OBVIOUS
  <2> HIDE DEF pc
  <2>4. q \in Worker /\ q.acc = cache /\ q.base = base /\ q.pc = pc /\ q.job = p.job
    BY <1>p, <2>0, <2>2 DEF TypeOK, Worker
  <2>5. Becomes("manual", IF q.pc # "intent" /\ ~base.held THEN AfterRestore(q) ELSE q)
    BY <2>1 DEF pc
  <2> HIDE DEF q
  <2>6. CASE q.pc # "intent" /\ ~base.held
    BY <1>p, <2>4, <2>5, <2>6, AfterRestoreType, ReadyAfterRestore, StagedBy
  <2>7. CASE q.pc = "intent"
    <3>1. q.job # "recover"
      BY <2>3, <2>4, <2>7, RestoreFromType
    <3>2. Ready(q)
      BY <2>7, <3>1 DEF Ready
    <3> QED
      BY <1>p, <2>4, <2>5, <2>7, <3>2, StagedBy
  <2>8. CASE q.pc # "intent" /\ base.held
    <3>1. Ready(q)
      BY <2>3, <2>4, <2>8, ReadyToRestore
    <3> QED
      BY <1>p, <2>4, <2>5, <2>8, <3>1, StagedBy
  <2> QED
    BY <2>6, <2>7, <2>8
<1>2. CASE ManualFinish \/ ManualAbort
  <2>1. Becomes("manual", IdleWorker)
    BY <1>2 DEF ManualFinish, ManualAbort
  <2> QED
    BY <1>p, <2>1, IdleWorkerType, ReadyAtRest, StagedBy
<1> QED
  BY <1>1, <1>2, <1>4 DEF ManualStep

LEMMA EnvironmentStaged == TypeOK /\ Staged /\ Environment => Staged'
<1> SUFFICES ASSUME TypeOK, Staged, Environment PROVE Staged'
  OBVIOUS
<1>1. CASE proc' = proc
  BY <1>1 DEF Staged
<1>2. CASE Crash
  <2>1. \A w \in Workers : proc'[w] = IdleWorker
    BY <1>2 DEF Crash
  <2> QED
    BY <2>1, IdleWorkerType, ReadyAtRest DEF Staged
<1>3. ASSUME NEW job \in Operations, ManualStart(job) PROVE Staged'
  <2> DEFINE q == [IdleWorker EXCEPT !.job = job, !.pc = "load"]
  <2>1. q \in Worker /\ q.pc = "load" /\ Becomes("manual", q)
    BY <1>3, SyncAssumption, IdleWorkerType DEF ManualStart, Worker, Jobs, PCs
  <2> HIDE DEF q
  <2> QED
    BY <2>1, ReadyAtRest, StagedBy DEF Workers
<1> QED
  BY <1>1, <1>2, <1>3 DEF Environment, AdminEdit, Evidence, SetScope

LEMMA InitStaged == Init => Staged
<1> QED
  BY IdleWorkerType, ReadyAtRest DEF Init, Staged

----------------------------------------------------------------------------
\* Every step of ChannelSync is a step of Custody, or one that Custody does not see.

Unseen == UNCHANGED <<site, base, ours, unsure>>

\* A request sends what was announced, gives back what was saved, or sets the flag for the
\* operator.
LEMMA SendKept ==
  ASSUME TypeOK, NEW w \in Workers, NEW S \in SUBSET Fields, NEW val \in Account, NEW how,
         Send(w, S, val, how),
         \/ /\ proc[w].job # "recover" /\ base.held
            /\ \A f \in S : base.managed[f] = val[f]
         \/ /\ base.held
            /\ \A f \in S : /\ val[f] = base.orig[f]
                            /\ base.managed[f] # Nil /\ base.managed[f] # base.orig[f]
         \/ proc[w].job = "recover" /\ S = {"sched"}
  PROVE  Ledger!Kept \/ Unseen
<1>1. base' = base
  BY DEF Send, stored
<1>2. CASE how = "lost"
  BY <1>1, <1>2 DEF Send, Unseen
<1>3. CASE how # "lost"
  <2>1. /\ site' = [f \in Fields |-> IF f \in S THEN val[f] ELSE site[f]]
        /\ ours' = (ours \ S) \cup
                     {f \in S \cap Watched : proc[w].job # "recover" /\ val[f] # base.orig[f]}
        /\ unsure' = unsure \ S
    BY <1>3 DEF Send
  <2>2. CASE /\ proc[w].job # "recover" /\ base.held
             /\ \A f \in S : base.managed[f] = val[f]
    <3>1. \A f \in S : base.managed[f] # Nil
      <4>1. \A f \in Fields : val[f] \in Values \cup {Off, On}
        BY DEF Account
      <4>2. Nil \notin Values \cup {Off, On}
        BY SyncAssumption DEF Nil, Off, On
      <4> QED
        BY <2>2, <4>1, <4>2
    <3>2. site' = [f \in Fields |-> IF f \in S THEN base.managed[f] ELSE site[f]]
      BY <2>1, <2>2
    <3>3. ours' = (ours \ S) \cup {f \in S \cap Watched : base.managed[f] # base.orig[f]}
      BY <2>1, <2>2
    <3>4. Ledger!Write
      BY <1>1, <2>1, <2>2, <3>1, <3>2, <3>3 DEF Ledger!Write, Ledger!Sets
    <3> QED
      BY <3>4 DEF Ledger!Kept
  <2>3. CASE /\ base.held
             /\ \A f \in S : /\ val[f] = base.orig[f]
                             /\ base.managed[f] # Nil /\ base.managed[f] # base.orig[f]
    <3>1. site' = [f \in Fields |-> IF f \in S THEN base.orig[f] ELSE site[f]]
      BY <2>1, <2>3
    <3>2. ours' = ours \ S
      BY <2>1, <2>3
    <3>3. Ledger!GiveBack
      BY <1>1, <2>1, <2>3, <3>1, <3>2 DEF Ledger!GiveBack, Ledger!Sets
    <3> QED
      BY <3>3 DEF Ledger!Kept
  <2>4. CASE proc[w].job = "recover" /\ S = {"sched"}
    <3>1. ours' = ours \ {"sched"} /\ "sched" \in Fields /\ unsure' = unsure \ {"sched"}
      BY <2>1, <2>4 DEF Fields
    <3>2. \A g \in Fields \ {"sched"} : site'[g] = site[g]
      BY <2>1, <2>4
    <3>3. Ledger!Edit
      BY <1>1, <3>1, <3>2 DEF Ledger!Edit
    <3> QED
      BY <3>3 DEF Ledger!Kept
  <2> QED
    BY <2>2, <2>3, <2>4
<1> QED
  BY <1>2, <1>3

LEMMA StepKept ==
  ASSUME TypeOK, Sound, Staged, clean, NEW w \in Workers, Step(w)
  PROVE  Ledger!Kept \/ Unseen
<1> DEFINE p == proc[w]
<1>p. p \in Worker /\ Ready(p) /\ Fresh(w) /\ Backed
  BY DEF TypeOK, Sound, Staged
<1>f. /\ p.acc \in Account /\ p.base \in Baseline /\ p.val \in Account /\ p.base.orig \in Account
      /\ p.todo \in SUBSET Fields
  BY <1>p, WorkerFields
<1> HIDE DEF p
<1>1. CASE EnsureBaseline(w)
  <2>1. ~base.held /\ base' = Captured(p.acc) /\ UNCHANGED <<site, ours, unsure>>
    BY <1>1, <1>p DEF EnsureBaseline, At, Fresh, history, p
  <2>2. Captured(p.acc).held /\ \A f \in Fields : Captured(p.acc).managed[f] = Nil
    BY DEF Captured, NoBase
  <2>3. Ledger!Save
    BY <2>1, <2>2 DEF Ledger!Save
  <2> QED
    BY <2>3 DEF Ledger!Kept
<1>2. CASE Intent(w)
  <2>1. /\ p.base = base /\ p.base.held
        /\ base' = WithIntent(p.base, p.val, p.todo)
        /\ unsure' = unsure \cup (p.todo \cap Watched)
        /\ UNCHANGED <<site, ours>>
    BY <1>2, <1>p DEF Intent, At, Fresh, p
  <2>2. /\ base'.held /\ base'.orig = base.orig
        /\ \A f \in Fields : base'.managed[f] = IF f \in p.todo THEN p.val[f] ELSE base.managed[f]
    BY <1>f, <2>1, IntentType
  <2>3. \A f \in Fields : p.val[f] # Nil
    <3>1. \A f \in Fields : p.val[f] \in Values \cup {Off, On}
      BY <1>f DEF Account
    <3>2. Nil \notin Values \cup {Off, On}
      BY SyncAssumption DEF Nil, Off, On
    <3> QED
      BY <3>1, <3>2
  <2>4. Ledger!Announce
    BY <1>f, <2>1, <2>2, <2>3 DEF Ledger!Announce
  <2> QED
    BY <2>4 DEF Ledger!Kept
<1>3. CASE IntentFails(w) \/ DropFails(w)
  BY <1>3 DEF IntentFails, DropFails, stored, history, Unseen
<1>4. CASE DropBaseline(w)
  <2>1. ours \ unsure = {}
    <3> SUFFICES ASSUME NEW f \in ours \ unsure PROVE FALSE
      OBVIOUS
    <3>1. p.base = base /\ p.acc[f] = site[f] /\ Restorable(p.base, p.acc) = {}
      BY <1>4, <1>p DEF DropBaseline, At, Fresh, p
    <3>2. base.managed[f] = site[f] /\ site[f] # base.orig[f] /\ f \in Fields
      BY <1>p, SyncAssumption DEF Backed
    <3> QED
      BY <3>1, <3>2 DEF Restorable
  <2>2. ~base'.held /\ UNCHANGED <<site, ours, unsure>>
    BY <1>4 DEF DropBaseline, NoBase, history
  <2>3. Ledger!Forget
    BY <2>1, <2>2 DEF Ledger!Forget
  <2> QED
    BY <2>3 DEF Ledger!Kept
<1>5. ASSUME NEW how \in Outcomes, WriteTuned(w, how) PROVE Ledger!Kept \/ Unseen
  <2>1. Send(w, p.todo \cap Tuned, p.val, how) /\ p.todo \cap Tuned \in SUBSET Fields
    BY <1>5, <1>f DEF WriteTuned, p
  <2>2. p.job # "recover" /\ base.held /\ \A f \in p.todo : base.managed[f] = p.val[f]
    BY <1>5, <1>p DEF WriteTuned, At, Fresh, Ready, p
  <2> QED
    BY <1>f, <2>1, <2>2, SendKept DEF p
<1>6. ASSUME NEW how \in Outcomes, WriteSched(w, how) PROVE Ledger!Kept \/ Unseen
  <2>1. Send(w, {"sched"}, p.val, how) /\ {"sched"} \in SUBSET Fields
    BY <1>6 DEF WriteSched, Fields, p
  <2>2. p.job = "recover" \/ (base.held /\ base.managed["sched"] = p.val["sched"])
    BY <1>6, <1>p DEF WriteSched, At, Fresh, p
  <2> QED
    BY <1>f, <2>1, <2>2, SendKept DEF p
<1>7. ASSUME NEW how \in Outcomes, RestoreTuned(w, how) PROVE Ledger!Kept \/ Unseen
  <2> DEFINE S == Restorable(p.base, p.acc) \cap Tuned
  <2>1. S \in SUBSET Fields /\ Send(w, S, p.base.orig, how)
    BY <1>7 DEF RestoreTuned, Restorable, p
  <2>2. p.base = base /\ base.held
    BY <1>7, <1>p DEF RestoreTuned, At, Fresh, Ready, p
  <2>3. \A f \in S : base.managed[f] = p.acc[f] /\ base.orig[f] # p.acc[f] /\ f \in Fields
    BY <2>2 DEF Restorable
  <2>4. \A f \in Fields : p.acc[f] # Nil
    <3>1. \A f \in Fields : p.acc[f] \in Values \cup {Off, On}
      BY <1>f DEF Account
    <3>2. Nil \notin Values \cup {Off, On}
      BY SyncAssumption DEF Nil, Off, On
    <3> QED
      BY <3>1, <3>2
  <2> HIDE DEF S
  <2> QED
    BY <1>f, <2>1, <2>2, <2>3, <2>4, SendKept
<1>8. ASSUME NEW how \in Outcomes, RestoreSched(w, how) PROVE Ledger!Kept \/ Unseen
  <2>1. {"sched"} \in SUBSET Fields /\ Send(w, {"sched"}, p.base.orig, how)
    BY <1>8 DEF RestoreSched, Fields, p
  <2>2. /\ p.base = base /\ base.held /\ "sched" \in Restorable(p.base, p.acc)
    BY <1>8, <1>p DEF RestoreSched, At, Fresh, Ready, p
  <2>3. base.managed["sched"] = p.acc["sched"] /\ base.orig["sched"] # p.acc["sched"]
    BY <2>2 DEF Restorable
  <2>4. p.acc["sched"] # Nil
    <3>1. p.acc["sched"] \in Values \cup {Off, On}
      BY <1>f, <2>1 DEF Account
    <3>2. Nil \notin Values \cup {Off, On}
      BY SyncAssumption DEF Nil, Off, On
    <3> QED
      BY <3>1, <3>2
  <2> QED
    BY <1>f, <2>1, <2>2, <2>3, <2>4, SendKept
<1> QED
  BY <1>1, <1>2, <1>3, <1>4, <1>5, <1>6, <1>7, <1>8 DEF Step

LEMMA NextKept ==
  ASSUME TypeOK, Sound, Staged, [Next]_vars
  PROVE  [Ledger!CustodyNext]_(Ledger!custodyVars)
<1> SUFFICES ASSUME clean' PROVE clean /\ (Ledger!Kept \/ Unseen) /\ clean' = clean
  BY DEF Ledger!CustodyNext, Ledger!custodyVars, Unseen, TypeOK
<1>t. clean \in BOOLEAN
  BY DEF TypeOK
<1>1. CASE \E w \in Workers : Step(w)
  <2>1. clean' = clean
    BY <1>1 DEF Step, EnsureBaseline, Intent, IntentFails, DropBaseline, DropFails, WriteTuned,
                WriteSched, RestoreTuned, RestoreSched, Send, history
  <2> QED
    BY <1>1, <2>1, StepKept
<1>2. CASE RoundStep /\ ~Step("round")
  <2>1. Unseen /\ clean
    BY <1>2 DEF RoundStep, RoundSync, RoundBuild, RoundAbort, RoundDecide, RoundGiveBack, Persist,
                stored, history, Unseen
  <2> QED
    BY <1>t, <2>1
<1>3. CASE ManualStep /\ ~Step("manual")
  <2>1. Unseen /\ clean
    BY <1>3 DEF ManualStep, ManualLoad, ManualFinish, ManualAbort, stored, history, Unseen
  <2> QED
    BY <1>t, <2>1
<1>4. ASSUME NEW f \in Fields, NEW v \in ValuesOf(f), AdminEdit(f, v)
      PROVE  clean /\ (Ledger!Kept \/ Unseen) /\ clean' = clean
  <2>1. /\ site' = [site EXCEPT ![f] = v] /\ ours' = ours \ {f}
        /\ UNCHANGED <<base, unsure, clean>>
    BY <1>4 DEF AdminEdit, stored
  <2>2. \A g \in Fields \ {f} : site'[g] = site[g]
    BY <2>1 DEF TypeOK, Account
  <2>3. Ledger!Edit
    BY <2>1, <2>2 DEF Ledger!Edit
  <2> QED
    BY <1>t, <2>1, <2>3 DEF Ledger!Kept
<1>5. CASE Environment /\ ~\E f \in Fields : \E v \in ValuesOf(f) : AdminEdit(f, v)
  <2>1. Unseen /\ clean
    BY <1>5 DEF Environment, Evidence, SetScope, Crash, ManualStart, stored, history, Unseen
  <2> QED
    BY <1>t, <2>1
<1>6. CASE UNCHANGED vars
  BY <1>6 DEF vars, stored, history, Unseen
<1> QED
  BY <1>1, <1>2, <1>3, <1>4, <1>5, <1>6 DEF Next, Workers, RoundStep, ManualStep, Environment

\* Rounds and manual operations that work from copies, with requests that are lost or answered
\* too late and crashes at any step, act on the account as Custody does: the original is saved
\* once, only announced values are sent, and nothing is forgotten that is still lent.
THEOREM KeptInCustody == Spec => InCustody
<1>1. Init => Ledger!Empty
  BY DEF Init, NoBase, Ledger!Empty
<1>2. Init => Staged
  BY InitStaged
<1>3. TypeOK /\ Staged /\ [Next]_vars => Staged'
  <2> SUFFICES ASSUME TypeOK, Staged, [Next]_vars PROVE Staged'
    OBVIOUS
  <2>1. CASE UNCHANGED vars
    BY <2>1 DEF vars, Staged
  <2> QED
    BY <2>1, RoundStaged, ManualStaged, EnvironmentStaged DEF Next
<1>4. Spec => []IInv
  BY Inductive, PTL DEF Spec
<1>5. IInv /\ Staged /\ [Next]_vars => [Ledger!CustodyNext]_(Ledger!custodyVars)
  BY NextKept DEF IInv
<1>6. IInv => TypeOK
  BY DEF IInv
<1> QED
  BY <1>1, <1>2, <1>3, <1>4, <1>5, <1>6, PTL DEF Spec, InCustody, Ledger!CustodySpec

\* What makes Ownership hold is all in the promise: whatever keeps accounts in custody owns
\* what it writes.
THEOREM CustodyOwns == InCustody => []Ownership
<1> DEFINE Inv == clean => /\ ours \subseteq Watched
                           /\ \A f \in ours \ unsure : base.held /\ base.managed[f] = site[f]
<1>1. Ledger!Empty => Inv
  BY DEF Ledger!Empty
<1>2. Inv /\ [Ledger!CustodyNext]_(Ledger!custodyVars) => Inv'
  <2> SUFFICES ASSUME Inv, Ledger!CustodyNext, clean' PROVE Inv'
    BY DEF Ledger!custodyVars
  <2>1. clean /\ Ledger!Kept /\ ours \subseteq Fields
    BY SyncAssumption DEF Ledger!CustodyNext
  <2>2. CASE Ledger!Edit
    BY <2>1, <2>2 DEF Ledger!Edit
  <2>3. CASE Ledger!Save
    BY <2>1, <2>3 DEF Ledger!Save
  <2>4. CASE Ledger!Announce
    BY <2>1, <2>4 DEF Ledger!Announce
  <2>5. CASE Ledger!Write
    BY <2>1, <2>5 DEF Ledger!Write, Ledger!Sets
  <2>6. CASE Ledger!GiveBack
    BY <2>1, <2>6 DEF Ledger!GiveBack, Ledger!Sets
  <2>7. CASE Ledger!Forget
    BY <2>1, <2>7 DEF Ledger!Forget
  <2> QED
    BY <2>1, <2>2, <2>3, <2>4, <2>5, <2>6, <2>7 DEF Ledger!Kept
<1>3. Inv => Ownership
  BY DEF Ownership
<1> QED
  BY <1>1, <1>2, <1>3, PTL DEF InCustody, Ledger!CustodySpec
=============================================================================

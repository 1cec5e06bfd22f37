--------------------------- MODULE ChannelMonitor ---------------------------
(***************************************************************************)
(* An upstream channel and its monitoring tasks (internal/channelmanager,  *)
(* store/upstream_channels.go, api/upstream_channels.go). A job holds the  *)
(* channel's lock while it makes its requests and saves what it read: the  *)
(* scheduler's run of the due tasks, or an administrator's sync, balance   *)
(* query or move of a token to another group. The scheduler's run then     *)
(* compares what it read with what each task saw last and records alerts.  *)
(* The editor of the tasks takes no lock. Every save can fail, and the     *)
(* process can stop between any two steps.                                 *)
(*                                                                         *)
(* Names, messages, page sizes and JSON shapes are left out; a group is a  *)
(* name with a ratio, a balance is low or not.                             *)
(***************************************************************************)
EXTENDS Integers, FiniteSets

CONSTANTS
  Groups,     \* the groups a site may have
  Ratios,     \* the ratios
  Default,    \* the ratio a group shows when the user's own ratios cannot be read
  Tasks,      \* the monitoring tasks of the channel
  Plans,      \* [Tasks -> Kinds]: what the tasks may be at the start
  Edits,      \* changes of a task's type an administrator may make: <<from, to>>
  MaxUpsets   \* bound: changes of the site, edits, administrators' jobs, failures, stops

None == 0
GroupKinds == {"group_added", "group_removed", "group_ratio_change"}
Kinds == GroupKinds \cup {"low_balance", "burn_rate"}
View == [Groups -> Ratios \cup {None}]      \* the groups of a site and their ratios

ASSUME ChannelMonitorAssumption ==
  /\ Groups # {} /\ IsFiniteSet(Groups) /\ IsFiniteSet(Tasks)
  /\ Ratios \subseteq Nat \ {None}
  /\ Default \in Ratios
  /\ Plans \subseteq [Tasks -> Kinds] /\ Plans # {}
  /\ Edits \subseteq Kinds \X Kinds
  /\ MaxUpsets \in Nat

NoView == [g \in Groups |-> None - 1]       \* nothing cached, no baseline
Views  == View \cup {NoView}
Site   == [groups : View, used : SUBSET Groups, low : BOOLEAN]
Cache  == [groups : Views, used : SUBSET Groups, gv : Nat, tv : Nat]
Auth   == [manual : BOOLEAN, acc : BOOLEAN, ref : BOOLEAN, pass : BOOLEAN]
Task   == [on : BOOLEAN, kind : Kinds, due : BOOLEAN, cooled : BOOLEAN, base : Views]
Copy   == [task : Tasks, kind : Kinds, cooled : BOOLEAN]   \* a task as the scheduler read it
PCs    == {"idle", "lock", "mark", "balance", "groups", "tokens", "saveGroups", "saveTokens",
           "synced", "evaluate", "alert", "refused", "move", "reread"}
Works  == {"run", "sync", "balance", "token"}
Job    == [pc : PCs, work : Works, todo : SUBSET Copy, cur : SUBSET Copy, names : SUBSET Groups,
           before : [groups : Views, used : SUBSET Groups],
           got : [groups : Views, used : SUBSET Groups, v : Nat],
           acc : BOOLEAN, ref : BOOLEAN]    \* the session, as the job read it
Jobs == {"scheduler", "admin"}

VARIABLES
  site,     \* the channel's own site
  auth,     \* a manual token or a stored session with a password: what the site accepts
  ignored,  \* the channel is ignored
  cache,    \* table upstream_channel_cache: the groups, the groups of the tokens, their versions
  snaps,    \* [old, new]: was the balance low in the first and last snapshot of the window
  tasks,    \* [Tasks -> Task]: the tasks, with their state
  lock,     \* who holds the channel's lock, or "free"
  job,      \* [Jobs -> Job]
  seeding,  \* [task -> Views] of the edits whose baseline is still to be saved
  upsets,   \* how much of MaxUpsets is used
  ver,      \* history: how often the site's groups and tokens have changed
  chg,      \* history: [Groups -> the version of the last change of the group]
  told,     \* history: [Tasks -> [Groups -> the version a task last announced]]
  wrong,    \* history: tasks that announced a group that had not changed since
  edited,   \* history: tasks an administrator edited
  misread   \* history: the user's own ratios could not be read once

history  == <<ver, chg, told, wrong, edited, misread>>
vars     == <<site, auth, ignored, cache, snaps, tasks, lock, job, seeding, upsets, history>>

Idle == [pc |-> "idle", work |-> "sync", todo |-> {}, cur |-> {}, names |-> {},
         before |-> [groups |-> NoView, used |-> {}],
         got |-> [groups |-> NoView, used |-> {}, v |-> 0], acc |-> FALSE, ref |-> FALSE]
NoSeed == [t \in {} |-> NoView]
calm   == upsets = MaxUpsets
Upset  == ~calm /\ upsets' = upsets + 1

----------------------------------------------------------------------------
\* What a task makes of two views (EvaluateGroupTask, filterGroupsByTokenUsage).

Known(view)   == {g \in Groups : view[g] # None}
Filter(view, used) == IF view = NoView THEN NoView
                      ELSE [g \in Groups |-> IF g \in used THEN view[g] ELSE None]
Added(b, a)   == Known(a) \ Known(b)
Removed(b, a) == Known(b) \ Known(a)
Changed(b, a) == {g \in Known(a) \cap Known(b) : a[g] # b[g]}
Differ(kind, b, a) == IF kind = "group_added" THEN Added(b, a)
                      ELSE IF kind = "group_removed" THEN Removed(b, a)
                      ELSE Changed(b, a)

\* Mutant: a missing baseline is an empty one.
NamesAtOnce(kind, b, a) ==
  Differ(kind, IF b = NoView THEN [g \in Groups |-> None] ELSE b, a)

\* The first look only takes the baseline.
Names(kind, b, a) == IF b = NoView THEN {} ELSE Differ(kind, b, a)

\* Mutant: a low balance triggers only when it becomes low.
TriggeredOnce(kind) == /\ kind \in {"low_balance", "burn_rate"}
                       /\ ~snaps.old /\ snaps.new

\* EvaluateBalanceTask.
Triggered(kind) == \/ kind = "low_balance" /\ snaps.new
                   \/ kind = "burn_rate" /\ ~snaps.old /\ snaps.new

\* The view a task compares with, and the one it keeps.
Before(c, j) ==
  LET base == tasks[c.task].base IN
  IF base # NoView THEN base
  ELSE IF c.kind = "group_ratio_change" THEN Filter(j.before.groups, j.before.used)
  ELSE j.before.groups
After(c) == IF c.kind = "group_ratio_change" THEN Filter(cache.groups, cache.used)
            ELSE cache.groups

----------------------------------------------------------------------------
\* Requests. A job that finds its session refused refreshes it, or logs in, and
\* saves the new session, but goes on with the copy of the channel it began
\* with; a manual token is used as it is. A refresh ends the refresh token.

Accepted(j)  == IF auth.manual THEN auth.acc ELSE auth.acc /\ j.acc
Refreshed(j) == ~auth.manual /\ ((auth.ref /\ j.ref) \/ auth.pass)
Authorized(n) ==   \* a request of job n gets through, with a new session if it needs one
  \/ Accepted(job[n]) /\ UNCHANGED auth
  \/ ~Accepted(job[n]) /\ Refreshed(job[n]) /\ auth' = [auth EXCEPT !.acc = TRUE, !.ref = TRUE]
Refused(n) == ~Accepted(job[n]) /\ ~Refreshed(job[n]) /\ UNCHANGED auth
\* The job after the request: its copy of the session is worthless once replaced.
Asked(n) == IF Accepted(job[n]) THEN job[n] ELSE [job[n] EXCEPT !.acc = FALSE, !.ref = FALSE]

At(n, pc)      == job[n].pc = pc
Goto(n, j, pc) == job' = [job EXCEPT ![n] = [j EXCEPT !.pc = pc]] /\ UNCHANGED lock

\* Mutant: only a job that reaches its end gives the lock back.
DoneHolding(n) == /\ job' = [job EXCEPT ![n] = Idle]
                  /\ lock' = IF job[n].pc \in {"evaluate", "alert", "synced"} THEN "free" ELSE lock
\* The job is over: the lock is free again.
Done(n) == job' = [job EXCEPT ![n] = Idle] /\ lock' = "free"

\* A request that is refused or fails ends the job. A run whose manual token is
\* refused alerts first.
Fails(n) ==
  \/ /\ Refused(n) /\ UNCHANGED upsets
     /\ IF job[n].work = "run" /\ auth.manual THEN Goto(n, job[n], "refused") ELSE Done(n)
  \/ Upset /\ UNCHANGED auth /\ Done(n)
\* A read or a save of the database fails, and the job ends.
Abandon(n) == Upset /\ Done(n)

----------------------------------------------------------------------------
\* The environment. Only requests look at the site, so its changes come right
\* before one; only the scheduler's reading of the tasks looks at what is ignored.

Asking == \E n \in Jobs : job[n].pc \in {"balance", "groups", "tokens", "move", "reread"}

SiteChanges ==
  /\ Upset /\ Asking
  /\ \/ \E g \in Groups, r \in Ratios \cup {None} :
           /\ r # site.groups[g]
           /\ site' = [site EXCEPT !.groups[g] = r]
           /\ ver' = ver + 1
           /\ chg' = [chg EXCEPT ![g] = ver + 1]
     \/ \E g \in Groups :
           /\ site' = [site EXCEPT !.used = IF g \in @ THEN @ \ {g} ELSE @ \cup {g}]
           /\ ver' = ver + 1
           /\ UNCHANGED chg
     \/ /\ site' = [site EXCEPT !.low = ~@]
        /\ UNCHANGED <<ver, chg>>
  /\ UNCHANGED <<auth, ignored, cache, snaps, tasks, lock, job, seeding,
                 told, wrong, edited, misread>>

\* The site ends a session, or the password is changed there; the administrator
\* repairs the access.
AuthChanges ==
  /\ Upset /\ (Asking \/ \E n \in Jobs : At(n, "lock"))
  /\ \/ auth.acc /\ auth' = [auth EXCEPT !.acc = FALSE]
     \/ auth' = [auth EXCEPT !.acc = FALSE, !.ref = FALSE, !.pass = FALSE]
     \/ auth' = [auth EXCEPT !.acc = TRUE, !.ref = TRUE, !.pass = TRUE]
  /\ UNCHANGED <<site, ignored, cache, snaps, tasks, lock, job, seeding, history>>

Ignore ==
  /\ Upset /\ At("scheduler", "idle")
  /\ ignored' = ~ignored
  /\ UNCHANGED <<site, auth, cache, snaps, tasks, lock, job, seeding, history>>

\* Time passes: a task is due, with its cooldown still running or over; a snapshot
\* leaves the window. A run uses the time at which it began for everything, so that
\* time matters only between the runs.
ElapseInterval(t) ==
  /\ At("scheduler", "idle")
  /\ ~tasks[t].due /\ tasks' = [tasks EXCEPT ![t].due = TRUE]
  /\ UNCHANGED <<site, auth, ignored, cache, snaps, lock, job, seeding, upsets, history>>
ElapseCooldown(t) ==
  /\ At("scheduler", "idle")
  /\ ~tasks[t].due \/ tasks[t].cooled
  /\ tasks' = [tasks EXCEPT ![t].due = TRUE, ![t].cooled = FALSE]
  /\ UNCHANGED <<site, auth, ignored, cache, snaps, lock, job, seeding, upsets, history>>
Age ==
  /\ At("scheduler", "idle")
  /\ snaps.old # snaps.new
  /\ snaps' = [snaps EXCEPT !.old = snaps.new]
  /\ UNCHANGED <<site, auth, ignored, cache, tasks, lock, job, seeding, upsets, history>>

\* The process stops, and starts again.
Crash ==
  /\ Upset
  /\ job' = [n \in Jobs |-> Idle] /\ lock' = "free" /\ seeding' = NoSeed
  /\ UNCHANGED <<site, auth, ignored, cache, snaps, tasks, history>>

----------------------------------------------------------------------------
\* The editor of the tasks. A task that becomes a group task, or a group task
\* that is switched on again, gets the cached groups as its baseline, in steps
\* of their own after the update.

Seeds(t, kind, on) == /\ kind \in GroupKinds
                      /\ tasks[t].kind \notin GroupKinds \/ (~tasks[t].on /\ on)
Seed(kind) == IF kind = "group_ratio_change" THEN Filter(cache.groups, cache.used)
              ELSE cache.groups

Edit(t) ==
  /\ Upset
  /\ t \notin DOMAIN seeding
  /\ \E kind \in {tasks[t].kind} \cup {e[2] : e \in {e \in Edits : e[1] = tasks[t].kind}},
        on \in BOOLEAN :
        /\ <<kind, on>> # <<tasks[t].kind, tasks[t].on>>
        /\ tasks' = [tasks EXCEPT ![t].kind = kind, ![t].on = on]
        /\ seeding' = IF Seeds(t, kind, on) /\ cache.groups # NoView
                      THEN [s \in DOMAIN seeding \cup {t} |-> IF s = t THEN Seed(kind) ELSE seeding[s]]
                      ELSE seeding
  /\ edited' = edited \cup {t}
  /\ UNCHANGED <<site, auth, ignored, cache, snaps, lock, job, ver, chg, told, wrong, misread>>

SaveSeed(t) ==
  /\ t \in DOMAIN seeding
  /\ tasks' = [tasks EXCEPT ![t].base = seeding[t]]
  /\ seeding' = [s \in DOMAIN seeding \ {t} |-> seeding[s]]
  /\ UNCHANGED <<site, auth, ignored, cache, snaps, lock, job, upsets, history>>

----------------------------------------------------------------------------
\* Starting a job and taking the lock.

Due == {t \in Tasks : tasks[t].on /\ tasks[t].due}

\* runDueTasks reads the tasks before it waits for the lock.
Pick ==
  /\ At("scheduler", "idle")
  /\ ~ignored /\ Due # {}
  /\ Goto("scheduler",
          [Idle EXCEPT !.work = "run",
                       !.todo = {[task |-> t, kind |-> tasks[t].kind,
                                  cooled |-> tasks[t].cooled] : t \in Due}], "lock")
  /\ UNCHANGED <<site, auth, ignored, cache, snaps, tasks, seeding, upsets, history>>

Ask(work) ==
  /\ Upset
  /\ At("admin", "idle")
  /\ Goto("admin", [Idle EXCEPT !.work = work], "lock")
  /\ UNCHANGED <<site, auth, ignored, cache, snaps, tasks, seeding, history>>

FirstStep(work) == IF work = "run" THEN "mark" ELSE IF work = "token" THEN "move" ELSE "balance"
Syncs(j) == j.work = "sync" \/ (j.work = "run" /\ \E c \in j.todo : c.kind \in GroupKinds)

\* Mutant: the jobs of one channel do not wait for each other.
LockNot(n) ==
  /\ At(n, "lock")
  /\ lock' = n
  /\ job' = [job EXCEPT ![n].pc = FirstStep(job[n].work)]
  /\ UNCHANGED <<site, auth, ignored, cache, snaps, tasks, seeding, upsets, history>>

\* The job reads the channel, with its session, once it has the lock.
Lock(n) ==
  /\ At(n, "lock") /\ lock = "free"
  /\ lock' = n
  /\ job' = [job EXCEPT ![n] = [job[n] EXCEPT !.pc = FirstStep(job[n].work),
                                              !.acc = auth.acc, !.ref = auth.ref]]
  /\ UNCHANGED <<site, auth, ignored, cache, snaps, tasks, seeding, upsets, history>>

----------------------------------------------------------------------------
\* The steps of a job.

\* The run marks its tasks, one by one, then takes the cached groups and tokens
\* as the view from before the sync.
Marked(T) == [t \in Tasks |-> [tasks[t] EXCEPT !.due = @ /\ t \notin T]]
Mark(n) ==
  LET j == job[n] IN
  /\ At(n, "mark")
  /\ \/ /\ tasks' = Marked({c.task : c \in j.todo})
        /\ Goto(n, [j EXCEPT !.before = [groups |-> cache.groups, used |-> cache.used]], "balance")
        /\ UNCHANGED upsets
     \/ /\ \E T \in SUBSET {c.task : c \in j.todo} : tasks' = Marked(T)
        /\ Abandon(n)
  /\ UNCHANGED <<site, auth, ignored, cache, snaps, seeding, history>>

\* The snapshot is saved first; when the log of the query then fails, the job ends all
\* the same.
AskBalance(n) ==
  LET j == Asked(n) IN
  /\ At(n, "balance")
  /\ \/ /\ Authorized(n)
        /\ snaps' = [snaps EXCEPT !.new = site.low]
        /\ \/ /\ IF Syncs(j) THEN Goto(n, j, "groups")
                 ELSE IF j.work = "run" THEN Goto(n, j, "evaluate")
                 ELSE Done(n)
              /\ UNCHANGED upsets
           \/ Abandon(n)
     \/ Fails(n) /\ UNCHANGED snaps
  /\ UNCHANGED <<site, ignored, cache, tasks, seeding, history>>

\* The groups, then the user's own ratios: without those (unless a manual token
\* was refused) the groups' general ratio is taken for the user's.
General(view) == [g \in Groups |-> IF view[g] = None THEN None ELSE Default]
AskGroups(n) ==
  /\ At(n, "groups")
  /\ \/ /\ Authorized(n)
        /\ \/ /\ Goto(n, [Asked(n) EXCEPT !.got.groups = site.groups, !.got.v = ver], "tokens")
              /\ UNCHANGED <<upsets, misread>>
           \/ /\ Upset
              /\ Goto(n, [Asked(n) EXCEPT !.got.groups = General(site.groups), !.got.v = ver],
                      "tokens")
              /\ misread' = TRUE
     \/ Fails(n) /\ UNCHANGED misread
  /\ UNCHANGED <<site, ignored, cache, snaps, tasks, seeding, ver, chg, told, wrong, edited>>

\* Nothing is saved before the groups and the tokens have both been read.
AskTokens(n) ==
  /\ At(n, "tokens")
  /\ \/ /\ Authorized(n)
        /\ Goto(n, [Asked(n) EXCEPT !.got.used = site.used], "saveGroups")
        /\ UNCHANGED upsets
     \/ Fails(n)
  /\ UNCHANGED <<site, ignored, cache, snaps, tasks, seeding, history>>

SaveGroups(n) ==
  LET j == job[n] IN
  /\ At(n, "saveGroups")
  /\ \/ /\ cache' = [cache EXCEPT !.groups = j.got.groups, !.gv = j.got.v]
        /\ Goto(n, j, "saveTokens")
        /\ UNCHANGED upsets
     \/ Abandon(n) /\ UNCHANGED cache
  /\ UNCHANGED <<site, auth, ignored, snaps, tasks, seeding, history>>

\* The end of a sync also marks the channel as synced, which can fail.
SaveTokens(n) ==
  LET j == job[n] IN
  /\ At(n, "saveTokens")
  /\ \/ /\ cache' = [cache EXCEPT !.used = j.got.used, !.tv = j.got.v]
        /\ Goto(n, j, "synced")
        /\ UNCHANGED upsets
     \/ Abandon(n) /\ UNCHANGED cache
  /\ UNCHANGED <<site, auth, ignored, snaps, tasks, seeding, history>>

Synced(n) ==
  /\ At(n, "synced")
  /\ \/ /\ IF job[n].work = "run" THEN Goto(n, job[n], "evaluate") ELSE Done(n)
        /\ UNCHANGED upsets
     \/ Abandon(n)
  /\ UNCHANGED <<site, auth, ignored, cache, snaps, tasks, seeding, history>>

\* An administrator moves a token to another group: the site is told, the cached
\* token is replaced, and the tokens are read again if that is possible. Neither
\* save is checked.
Moved(used, from, to) == (used \ {from}) \cup {to}
MoveToken(n) ==
  /\ At(n, "move")
  /\ \/ /\ Authorized(n)
        /\ \E from \in site.used, to \in Known(site.groups) :
              /\ site' = [site EXCEPT !.used = Moved(@, from, to)]
              /\ \/ cache' = [cache EXCEPT !.used = Moved(@, from, to)] /\ UNCHANGED upsets
                 \/ Upset /\ UNCHANGED cache
        /\ ver' = ver + 1
        /\ Goto(n, Asked(n), "reread")
     \/ /\ site.used = {} \/ Known(site.groups) = {}      \* no such token or group
        /\ Done(n)
        /\ UNCHANGED <<site, auth, cache, ver, upsets>>
     \/ Fails(n) /\ UNCHANGED <<site, cache, ver>>
  /\ UNCHANGED <<ignored, snaps, tasks, seeding, chg, told, wrong, edited, misread>>

RereadTokens(n) ==
  /\ At(n, "reread")
  /\ \/ /\ Authorized(n)
        /\ cache' = [cache EXCEPT !.used = site.used, !.tv = ver]
        /\ Done(n)
        /\ UNCHANGED upsets
     \/ Fails(n) /\ UNCHANGED cache
  /\ UNCHANGED <<site, ignored, snaps, tasks, seeding, history>>

----------------------------------------------------------------------------
\* The evaluation, one task after the other. A group task's new view is saved
\* before its alert is recorded; the alert is kept back during the cooldown
\* that the task had when the scheduler read it.

Look(c, j) == IF c.kind \in GroupKinds THEN Names(c.kind, Before(c, j), After(c)) ELSE {}
NextTask(n, j) == IF j.todo = {} THEN Done(n) ELSE Goto(n, j, "evaluate")

\* Mutant: the new view is saved only with the next look that has nothing to say.
KeptAfterwards(c, names) ==
  IF c.kind \in GroupKinds /\ names = {} THEN After(c) ELSE tasks[c.task].base
\* The view the task compares with from now on.
Kept(c, names) == IF c.kind \in GroupKinds THEN After(c) ELSE tasks[c.task].base

Evaluate(n) ==
  /\ At(n, "evaluate")
  /\ \E c \in job[n].todo :
       LET j == job[n]
           names == Look(c, j)
           rest == [j EXCEPT !.todo = @ \ {c}]
       IN \/ /\ tasks' = [tasks EXCEPT ![c.task].base = Kept(c, names)]
             /\ IF ~c.cooled /\ (names # {} \/ Triggered(c.kind))
                THEN Goto(n, [rest EXCEPT !.cur = {c}, !.names = names], "alert")
                ELSE NextTask(n, rest)
             /\ UNCHANGED upsets
          \/ Abandon(n) /\ UNCHANGED tasks
  /\ UNCHANGED <<site, auth, ignored, cache, snaps, seeding, history>>

\* recordAlert: the messages go out, whatever becomes of them, then the event is
\* recorded and the cooldown begins.
Alert(n) ==
  /\ At(n, "alert")
  /\ \E c \in job[n].cur :
       LET j == job[n]
           t == c.task
       IN /\ told' = [told EXCEPT ![t] = [g \in Groups |->
                                            IF g \in j.names THEN cache.gv ELSE @[g]]]
          /\ wrong' = IF \E g \in j.names : chg[g] <= told[t][g] THEN wrong \cup {t} ELSE wrong
          /\ \/ /\ tasks' = [tasks EXCEPT ![t].cooled = TRUE]
                /\ NextTask(n, [j EXCEPT !.cur = {}, !.names = {}])
                /\ UNCHANGED upsets
             \/ Abandon(n) /\ UNCHANGED tasks
  /\ UNCHANGED <<site, auth, ignored, cache, snaps, seeding, ver, chg, edited, misread>>

\* A refused manual token: an alert for every task of the run that is not in its
\* cooldown, each tried whatever became of the others.
AlertRefused(n) ==
  /\ At(n, "refused")
  /\ \E c \in job[n].todo :
       LET rest == [job[n] EXCEPT !.todo = @ \ {c}] IN
       /\ \/ tasks' = [tasks EXCEPT ![c.task].cooled = @ \/ ~c.cooled] /\ UNCHANGED upsets
          \/ ~c.cooled /\ Upset /\ UNCHANGED tasks
       /\ IF rest.todo = {} THEN Done(n) ELSE Goto(n, rest, "refused")
  /\ UNCHANGED <<site, auth, ignored, cache, snaps, seeding, history>>

----------------------------------------------------------------------------
\* The specification.

Step(n) == \/ Lock(n) \/ Mark(n) \/ AskBalance(n) \/ AskGroups(n) \/ AskTokens(n)
           \/ SaveGroups(n) \/ SaveTokens(n) \/ Synced(n) \/ MoveToken(n) \/ RereadTokens(n)
           \/ Evaluate(n) \/ Alert(n) \/ AlertRefused(n)

\* The tasks exist, with a baseline if the channel has been synced.
Init ==
  /\ site \in [groups : [Groups -> (Ratios \ {Default}) \cup {None}], used : {Groups}, low : {FALSE}]
  /\ auth \in [manual : BOOLEAN, acc : {TRUE}, ref : {TRUE}, pass : {TRUE}]
  /\ ignored = FALSE
  /\ cache \in {[groups |-> NoView, used |-> {}, gv |-> 0, tv |-> 0],
                [groups |-> site.groups, used |-> site.used, gv |-> 0, tv |-> 0]}
  /\ snaps = [old |-> FALSE, new |-> FALSE]
  /\ \E plan \in Plans :
       tasks = [t \in Tasks |-> [on |-> TRUE, kind |-> plan[t], due |-> TRUE, cooled |-> FALSE,
                                 base |-> IF plan[t] \in GroupKinds THEN cache.groups ELSE NoView]]
  /\ lock = "free" /\ job = [n \in Jobs |-> Idle] /\ seeding = NoSeed /\ upsets = 0
  /\ ver = 0 /\ chg = [g \in Groups |-> 0] /\ told = [t \in Tasks |-> [g \in Groups |-> 0]]
  /\ wrong = {} /\ edited = {} /\ misread = FALSE

Next ==
  \/ \E n \in Jobs : Step(n)
  \/ Pick
  \/ \E work \in {"sync", "balance", "token"} : Ask(work)
  \/ \E t \in Tasks : Edit(t) \/ SaveSeed(t) \/ ElapseInterval(t) \/ ElapseCooldown(t)
  \/ SiteChanges \/ AuthChanges \/ Ignore \/ Age \/ Crash

\* The loop runs every minute, a job goes on, time passes.
Fairness ==
  /\ WF_vars(Pick)
  /\ \A n \in Jobs : WF_vars(Step(n))
  /\ \A t \in Tasks : SF_vars(ElapseCooldown(t))

Spec == Init /\ [][Next]_vars /\ Fairness

----------------------------------------------------------------------------
\* Properties.

\* The variables keep their types, and at most one job is past the lock: the jobs
\* of one channel never run at the same time.
TypeOK ==
  /\ site \in Site /\ auth \in Auth /\ ignored \in BOOLEAN /\ cache \in Cache
  /\ snaps \in [old : BOOLEAN, new : BOOLEAN]
  /\ tasks \in [Tasks -> Task]
  /\ lock \in Jobs \cup {"free"} /\ job \in [Jobs -> Job]
  /\ DOMAIN seeding \subseteq Tasks /\ \A t \in DOMAIN seeding : seeding[t] \in Views
  /\ upsets \in 0..MaxUpsets
  /\ \A n \in Jobs : lock = n <=> job[n].pc \notin {"idle", "lock"}

\* An alert names a group only if the group has changed on the site since the task
\* last named it: nothing is announced twice, not after a failure or a restart
\* either, and the first look announces nothing. The exceptions are tasks an
\* administrator edited, and ratios read without the user's own.
AtMostOnce == misread \/ wrong \subseteq edited

\* A cache entry is never replaced by an older reading of the site, whoever reads.
NeverBackwards == [][cache'.gv >= cache.gv /\ cache'.tv >= cache.tv]_cache

\* While the balance is low, the site can be reached and nobody interferes, a
\* low-balance task alerts again and again, once per cooldown.
Reachable  == IF auth.manual THEN auth.acc ELSE auth.acc \/ auth.ref \/ auth.pass
LowWatched(t) == /\ calm /\ site.low /\ ~ignored /\ Reachable
                 /\ tasks[t].on /\ tasks[t].kind = "low_balance"
NagsWhileLow == \A t \in Tasks : <>[]LowWatched(t) => []<>tasks[t].cooled
=============================================================================

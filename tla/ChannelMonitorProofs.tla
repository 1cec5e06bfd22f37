------------------------ MODULE ChannelMonitorProofs ------------------------
(***************************************************************************)
(* Proofs about ChannelMonitor, for any groups, ratios, tasks and edits:   *)
(* types, one job at a time, no reading replaces a newer one, and no       *)
(* change of a group is announced twice.                                   *)
(***************************************************************************)
EXTENDS ChannelMonitor, TLAPS

\* The histories, and what is older than what: nothing cached is newer than the site, nothing
\* announced is newer than the cache; baselines are pending only for edited tasks.
Ages ==
  /\ ver \in Nat /\ chg \in [Groups -> Nat] /\ \A g \in Groups : chg[g] <= ver
  /\ cache.gv <= ver /\ cache.tv <= ver
  /\ told \in [Tasks -> [Groups -> Nat]]
  /\ \A t \in Tasks, g \in Groups : told[t][g] <= cache.gv
  /\ wrong \subseteq Tasks /\ edited \subseteq Tasks /\ misread \in BOOLEAN
  /\ DOMAIN seeding \subseteq edited

\* The view is what the site showed at version v: a group that has not changed since is as it was.
Reading(view, v) == \A g \in Groups : chg[g] <= v => view[g] = site.groups[g]

\* The baseline of task t shows group g as it is now, or leaves it out for no token uses it.
Shows(t, g) == \/ tasks[t].base[g] = site.groups[g]
               \/ tasks[t].kind = "group_ratio_change" /\ tasks[t].base[g] = None

\* A group that has not changed since the task named it is in its baseline as it is now; a task
\* without a baseline has named none.
Stands(t) ==
  IF tasks[t].base = NoView THEN \A g \in Groups : told[t][g] = 0
  ELSE /\ cache.groups # NoView
       /\ \A g \in Groups : chg[g] <= told[t][g] => Shows(t, g)

Faithful ==
  /\ wrong \subseteq edited
  /\ cache.groups # NoView => Reading(cache.groups, cache.gv)
  /\ \A t \in Tasks \ edited : Stands(t)

\* What a job has read but not saved is no older than the cache; its copies of the tasks are true
\* but for those edited since.
Young(j) ==
  /\ j.got.v <= ver
  /\ j.pc \in {"tokens", "saveGroups"} => cache.gv <= j.got.v
  /\ j.pc \in {"tokens", "saveGroups", "saveTokens"} => cache.tv <= j.got.v
  /\ \A c \in j.todo \cup j.cur : c.task \notin edited => c.kind = tasks[c.task].kind

\* The views of a job are readings, and what it is about to announce has changed since it was
\* last named and is in the baseline already.
Honest(j) ==
  /\ j.pc \in {"tokens", "saveGroups"} => j.got.groups # NoView /\ Reading(j.got.groups, j.got.v)
  /\ j.before.groups # NoView => cache.groups # NoView /\ Reading(j.before.groups, 0)
  /\ j.pc = "alert" => \A c \in j.cur : c.task \notin edited => \A g \in j.names :
        /\ chg[g] > told[c.task][g]
        /\ tasks[c.task].base # NoView
        /\ chg[g] <= cache.gv => Shows(c.task, g)

Types ==
  /\ site \in Site /\ auth \in Auth /\ ignored \in BOOLEAN /\ cache \in Cache
  /\ snaps \in [old : BOOLEAN, new : BOOLEAN]
  /\ tasks \in [Tasks -> Task]
  /\ DOMAIN seeding \subseteq Tasks /\ \A t \in DOMAIN seeding : seeding[t] \in Views
  /\ upsets \in 0..MaxUpsets

\* The jobs, and the lock between them.
Working(j) == j.pc \notin {"idle", "lock"}
Jobbing == /\ lock \in Jobs \cup {"free"} /\ job \in [Jobs -> Job]
           /\ \A n \in Jobs : lock = n <=> Working(job[n])

Book == Ages /\ (misread \/ Faithful)
Fit(j) == Young(j) /\ (misread \/ Honest(j))

Inner == Jobbing /\ Book /\ \A n \in Jobs : Fit(job[n])

IInv == Types /\ Inner

----------------------------------------------------------------------------
\* What the pieces are made of.

LEMMA Bounds ==
  /\ Groups # {} /\ MaxUpsets \in Nat
  /\ None = 0 /\ Ratios \subseteq Nat /\ 0 \notin Ratios /\ Default \in Ratios
<1> QED
  BY ChannelMonitorAssumption DEF None

\* No view of a site is the missing one.
LEMMA NoViewIsNone ==
  /\ NoView \notin View /\ NoView \in Views
  /\ \A view \in View : \A g \in Groups : view[g] \in Nat
<1>1. ASSUME NEW view \in View, NEW g \in Groups PROVE view[g] \in Nat /\ NoView[g] \notin Nat
  <2>1. view[g] \in Ratios \cup {0}
    BY DEF View, None
  <2>2. Ratios \cup {0} \subseteq Nat
    BY Bounds
  <2>3. NoView[g] = 0 - 1
    BY DEF NoView, None
  <2>4. 0 - 1 \notin Nat
    OBVIOUS
  <2> QED
    BY <2>1, <2>2, <2>3, <2>4
<1>2. NoView \notin View
  BY <1>1, Bounds
<1> QED
  BY <1>1, <1>2 DEF Views

LEMMA FilterFacts ==
  ASSUME NEW view \in Views, NEW used
  PROVE  /\ Filter(view, used) \in Views
         /\ Filter(view, used) = NoView <=> view = NoView
         /\ view # NoView => \A g \in Groups : Filter(view, used)[g] \in {view[g], None}
<1>1. CASE view = NoView
  BY <1>1, NoViewIsNone DEF Filter
<1>2. CASE view # NoView
  <2> DEFINE f == [g \in Groups |-> IF g \in used THEN view[g] ELSE None]
  <2>1. view \in View
    BY <1>2 DEF Views
  <2>2. f \in View /\ \A g \in Groups : f[g] \in {view[g], None}
    BY <2>1 DEF View
  <2>3. Filter(view, used) = f
    BY <1>2 DEF Filter
  <2> HIDE DEF f
  <2> QED
    BY <1>2, <2>2, <2>3, NoViewIsNone DEF Views
<1> QED
  BY <1>1, <1>2

LEMMA IdleFacts ==
  /\ Idle \in Job /\ Idle.pc = "idle" /\ Idle.todo = {} /\ Idle.cur = {}
  /\ Idle.got.v = 0 /\ Idle.before.groups = NoView /\ ~Working(Idle)
<1> QED
  BY NoViewIsNone DEF Idle, Job, PCs, Works, Working

LEMMA GotoFacts ==
  ASSUME Jobbing, NEW n \in Jobs, NEW j \in Job, NEW pc \in PCs, Goto(n, j, pc)
  PROVE  /\ job' \in [Jobs -> Job] /\ job'[n].pc = pc
         /\ job'[n].work = j.work /\ job'[n].todo = j.todo /\ job'[n].cur = j.cur
         /\ job'[n].names = j.names /\ job'[n].before = j.before /\ job'[n].got = j.got
         /\ \A m \in Jobs \ {n} : job'[m] = job[m]
         /\ lock' = lock
<1> DEFINE q == [j EXCEPT !.pc = pc]
<1>1. /\ q \in Job /\ q.pc = pc /\ q.work = j.work /\ q.todo = j.todo /\ q.cur = j.cur
      /\ q.names = j.names /\ q.before = j.before /\ q.got = j.got
  BY DEF Job
<1>2. job' = [job EXCEPT ![n] = q] /\ lock' = lock
  BY DEF Goto
<1> HIDE DEF q
<1> QED
  BY <1>1, <1>2 DEF Jobbing

\* The holder of the lock goes on with other work.
LEMMA GoesOn ==
  ASSUME Jobbing, NEW n \in Jobs, Working(job[n]), NEW j \in Job, NEW pc \in PCs,
         pc \notin {"idle", "lock"}, Goto(n, j, pc)
  PROVE  Jobbing'
<1>1. /\ job' \in [Jobs -> Job] /\ job'[n].pc = pc
      /\ \A m \in Jobs \ {n} : job'[m] = job[m]
      /\ lock' = lock
  BY GotoFacts
<1> QED
  BY <1>1 DEF Jobbing, Working

\* It is over.
LEMMA IsOver ==
  ASSUME Jobbing, NEW n \in Jobs, Working(job[n]), Done(n)
  PROVE  /\ Jobbing' /\ job'[n] = Idle /\ \A m \in Jobs \ {n} : job'[m] = job[m]
<1>1. /\ job' \in [Jobs -> Job] /\ job'[n] = Idle
      /\ \A m \in Jobs \ {n} : job'[m] = job[m]
      /\ lock' = "free"
  BY IdleFacts DEF Done, Jobbing
<1>2. \A m \in Jobs \ {n} : ~Working(job[m])
  BY DEF Jobbing
<1>3. "free" \notin Jobs
  BY DEF Jobs
<1> QED
  BY <1>1, <1>2, <1>3, IdleFacts DEF Jobbing

\* Only one job works.
LEMMA OthersWait ==
  ASSUME Jobbing, NEW n \in Jobs, Working(job[n]), NEW m \in Jobs \ {n}
  PROVE  job[m].pc \in {"idle", "lock"}
<1> QED
  BY DEF Jobbing, Working

LEMMA UpsetKept ==
  ASSUME Types, Upset
  PROVE  upsets' \in 0..MaxUpsets
<1>1. upsets \in Nat /\ MaxUpsets \in Nat /\ upsets # MaxUpsets /\ upsets <= MaxUpsets
  BY Bounds DEF Types, Upset, calm
<1> QED
  BY <1>1 DEF Upset

----------------------------------------------------------------------------
\* Steps that change nothing that matters to the views.

Undisturbed ==
  /\ UNCHANGED <<cache, ver, chg, told, wrong, misread>> /\ site'.groups = site.groups
  /\ edited \subseteq edited' /\ edited' \subseteq edited \cup Tasks
  /\ DOMAIN seeding' \subseteq DOMAIN seeding \cup edited'
  /\ \A t \in Tasks \ edited' : /\ tasks'[t].kind = tasks[t].kind
                                /\ tasks'[t].base = tasks[t].base

LEMMA BookStays ==
  ASSUME Types, Book, Undisturbed
  PROVE  Book'
<1>1. Ages'
  BY DEF Book, Undisturbed, Ages
<1>2. ASSUME ~misread PROVE Faithful'
  <2>1. \A t \in Tasks \ edited' : Stands(t)'
    BY <1>2 DEF Book, Undisturbed, Faithful, Stands, Shows
  <2> QED
    BY <1>2, <2>1 DEF Book, Undisturbed, Faithful, Reading
<1> QED
  BY <1>1, <1>2 DEF Book, Undisturbed

LEMMA FitStays ==
  ASSUME Types, Book, Undisturbed, NEW n \in Jobs, job[n] \in Job, Fit(job[n]), job'[n] = job[n]
  PROVE  Fit(job[n])'
<1> DEFINE j == job[n]
<1>1. Young(j)'
  <2>1. \A c \in j.todo \cup j.cur : c.task \in Tasks
    BY DEF Job, Copy
  <2> QED
    BY <2>1 DEF Fit, Young, Undisturbed
<1>2. ASSUME ~misread PROVE Honest(j)'
  <2>1. Honest(j)
    BY <1>2 DEF Fit
  <2>2. \A c \in j.cur : c.task \in Tasks
    BY DEF Job, Copy
  <2> QED
    BY <2>1, <2>2 DEF Honest, Reading, Shows, Undisturbed
<1> QED
  BY <1>1, <1>2 DEF Fit, Undisturbed

LEMMA FitOfIdle ==
  ASSUME Book', NEW n \in Jobs, job'[n] = Idle
  PROVE  Fit(job[n])'
<1>1. 0 <= ver'
  BY DEF Book, Ages
<1>2. Young(job[n])'
  BY <1>1, IdleFacts DEF Young
<1>3. Honest(job[n])'
  BY IdleFacts DEF Honest
<1> QED
  BY <1>2, <1>3 DEF Fit

\* A job goes on with what it has read.
LEMMA FitGoes ==
  ASSUME Types, Book, Undisturbed, NEW n \in Jobs, job[n] \in Job, Fit(job[n]),
         job'[n].got.v = job[n].got.v, job'[n].got.groups = job[n].got.groups,
         job'[n].before = job[n].before,
         job'[n].todo \subseteq job[n].todo, job'[n].cur \subseteq job[n].cur,
         job'[n].pc \in {"tokens", "saveGroups"} => job[n].pc \in {"tokens", "saveGroups"},
         job'[n].pc = "saveTokens" => job[n].pc = "saveTokens", job'[n].pc # "alert"
  PROVE  Fit(job[n])'
<1> DEFINE j == job[n]
<1>1. Young(j)'
  <2>1. \A c \in j.todo \cup j.cur : c.task \in Tasks
    BY DEF Job, Copy
  <2>2. \A c \in job'[n].todo \cup job'[n].cur : c \in j.todo \cup j.cur
    OBVIOUS
  <2> QED
    BY <2>1, <2>2 DEF Fit, Young, Undisturbed
<1>2. ASSUME ~misread PROVE Honest(j)'
  <2>1. Honest(j)
    BY <1>2 DEF Fit
  <2> QED
    BY <2>1 DEF Honest, Reading, Undisturbed
<1> QED
  BY <1>1, <1>2 DEF Fit, Undisturbed

LEMMA QuietGoes ==
  ASSUME IInv, Undisturbed, NEW n \in Jobs, Working(job[n]), NEW j \in Job, NEW pc \in PCs,
         Goto(n, j, pc), pc \notin {"idle", "lock", "alert"},
         j.got.v = job[n].got.v, j.got.groups = job[n].got.groups, j.before = job[n].before,
         j.todo \subseteq job[n].todo, j.cur \subseteq job[n].cur,
         pc \in {"tokens", "saveGroups"} => job[n].pc \in {"tokens", "saveGroups"},
         pc = "saveTokens" => job[n].pc = "saveTokens"
  PROVE  Inner'
<1>1. Types /\ Jobbing /\ Book /\ \A m \in Jobs : Fit(job[m]) /\ job[m] \in Job
  BY DEF IInv, Inner, Jobbing
<1>2. Jobbing' /\ Book'
  BY <1>1, GoesOn, BookStays
<1>3. /\ job'[n].pc = pc
      /\ job'[n].todo = j.todo /\ job'[n].cur = j.cur
      /\ job'[n].before = j.before /\ job'[n].got = j.got
      /\ \A m \in Jobs \ {n} : job'[m] = job[m]
  BY <1>1, GotoFacts
<1>4. Fit(job[n])'
  BY <1>1, <1>3, FitGoes
<1>5. \A m \in Jobs \ {n} : Fit(job[m])'
  BY <1>1, <1>3, FitStays
<1> QED
  BY <1>2, <1>4, <1>5 DEF Inner

LEMMA QuietDone ==
  ASSUME IInv, Undisturbed, NEW n \in Jobs, Working(job[n]), Done(n)
  PROVE  Inner'
<1>1. Types /\ Jobbing /\ Book /\ \A m \in Jobs : Fit(job[m]) /\ job[m] \in Job
  BY DEF IInv, Inner, Jobbing
<1>2. Jobbing' /\ Book' /\ job'[n] = Idle /\ \A m \in Jobs \ {n} : job'[m] = job[m]
  BY <1>1, IsOver, BookStays
<1>3. Fit(job[n])'
  BY <1>2, FitOfIdle
<1>4. \A m \in Jobs \ {n} : Fit(job[m])'
  BY <1>1, <1>2, FitStays
<1> QED
  BY <1>2, <1>3, <1>4 DEF Inner

LEMMA QuietWait ==
  ASSUME IInv, Undisturbed, UNCHANGED <<job, lock>>
  PROVE  Inner'
<1>1. Types /\ Jobbing /\ Book /\ \A m \in Jobs : Fit(job[m]) /\ job[m] \in Job
  BY DEF IInv, Inner, Jobbing
<1>2. Jobbing'
  BY <1>1 DEF Jobbing
<1>3. Book' /\ \A m \in Jobs : Fit(job[m])'
  BY <1>1, BookStays, FitStays
<1> QED
  BY <1>2, <1>3 DEF Inner

LEMMA AbandonQuietly ==
  ASSUME IInv, Undisturbed, NEW n \in Jobs, Working(job[n]), Abandon(n)
  PROVE  Inner' /\ upsets' \in 0..MaxUpsets
<1> QED
  BY QuietDone, UpsetKept DEF Abandon, IInv

LEMMA FailQuietly ==
  ASSUME IInv, Undisturbed, NEW n \in Jobs, Working(job[n]), Fails(n)
  PROVE  Inner' /\ upsets' \in 0..MaxUpsets /\ auth' = auth
<1>1. auth' = auth
  BY DEF Fails, Refused
<1>2. upsets' \in 0..MaxUpsets
  BY UpsetKept DEF Fails, IInv, Types
<1>3. CASE Done(n)
  BY <1>1, <1>2, <1>3, QuietDone
<1>4. CASE Goto(n, job[n], "refused")
  <2>1. job[n] \in Job /\ "refused" \in PCs
    BY DEF IInv, Inner, Jobbing, PCs
  <2> QED
    BY <1>1, <1>2, <1>4, <2>1, QuietGoes
<1> QED
  BY <1>3, <1>4 DEF Fails

LEMMA AskedFacts ==
  ASSUME NEW n \in Jobs, job[n] \in Job
  PROVE  /\ Asked(n) \in Job /\ Asked(n).work = job[n].work
         /\ Asked(n).todo = job[n].todo /\ Asked(n).cur = job[n].cur
         /\ Asked(n).names = job[n].names /\ Asked(n).before = job[n].before
         /\ Asked(n).got = job[n].got
<1> DEFINE q == [job[n] EXCEPT !.acc = FALSE, !.ref = FALSE]
<1>1. /\ q \in Job /\ q.work = job[n].work /\ q.todo = job[n].todo /\ q.cur = job[n].cur
      /\ q.names = job[n].names /\ q.before = job[n].before /\ q.got = job[n].got
  BY DEF Job
<1>2. Asked(n) = job[n] \/ Asked(n) = q
  BY DEF Asked
<1> HIDE DEF q
<1> QED
  BY <1>1, <1>2

LEMMA AuthKept ==
  ASSUME Types, NEW n \in Jobs, Authorized(n)
  PROVE  auth' \in Auth
<1>1. auth \in Auth
  BY DEF Types
<1>2. [auth EXCEPT !.acc = TRUE, !.ref = TRUE] \in Auth
  BY <1>1 DEF Auth
<1> QED
  BY <1>1, <1>2 DEF Authorized

----------------------------------------------------------------------------
\* The steps keep the invariant: the environment.

LEMMA EnvironmentStep ==
  ASSUME IInv, AuthChanges \/ Ignore \/ Age
  PROVE  IInv'
<1>1. Undisturbed /\ UNCHANGED <<job, lock>>
  BY DEF AuthChanges, Ignore, Age, Undisturbed, history
<1>2. Inner'
  BY <1>1, QuietWait
<1>3. upsets' \in 0..MaxUpsets /\ Types
  BY UpsetKept DEF AuthChanges, Ignore, Age, IInv, Types
<1>4. auth' \in Auth
  <2>1. auth \in Auth
    BY <1>3 DEF Types
  <2>2. /\ [auth EXCEPT !.acc = FALSE] \in Auth
        /\ [auth EXCEPT !.acc = FALSE, !.ref = FALSE, !.pass = FALSE] \in Auth
        /\ [auth EXCEPT !.acc = TRUE, !.ref = TRUE, !.pass = TRUE] \in Auth
    BY <2>1 DEF Auth
  <2> QED
    BY <2>1, <2>2 DEF AuthChanges, Ignore, Age
<1>5. snaps' \in [old : BOOLEAN, new : BOOLEAN] /\ ignored' \in BOOLEAN
  BY <1>3 DEF Types, AuthChanges, Ignore, Age
<1>6. UNCHANGED <<site, cache, tasks, seeding>>
  BY DEF AuthChanges, Ignore, Age
<1>7. Types'
  BY <1>3, <1>4, <1>5, <1>6 DEF Types
<1> QED
  BY <1>2, <1>7 DEF IInv

\* A task whose state alone changes.
LEMMA TaskFacts ==
  ASSUME Types, NEW t \in Tasks, NEW due \in BOOLEAN, NEW cooled \in BOOLEAN,
         tasks' = [tasks EXCEPT ![t].due = due, ![t].cooled = cooled]
  PROVE  /\ tasks' \in [Tasks -> Task]
         /\ \A u \in Tasks : tasks'[u].kind = tasks[u].kind /\ tasks'[u].base = tasks[u].base
<1> DEFINE q == [tasks[t] EXCEPT !.due = due, !.cooled = cooled]
<1>1. tasks \in [Tasks -> Task] /\ tasks[t] \in Task
  BY DEF Types
<1>2. q \in Task /\ q.kind = tasks[t].kind /\ q.base = tasks[t].base
  BY <1>1 DEF Task
<1>3. tasks' = [tasks EXCEPT ![t] = q]
  BY <1>1
<1> HIDE DEF q
<1> QED
  BY <1>1, <1>2, <1>3

LEMMA ElapseStep ==
  ASSUME IInv, NEW t \in Tasks, ElapseInterval(t) \/ ElapseCooldown(t)
  PROVE  IInv'
<1>1. Types /\ tasks[t] \in Task /\ tasks[t].cooled \in BOOLEAN
  BY DEF IInv, Types, Task
<1>2. /\ tasks' \in [Tasks -> Task]
      /\ \A u \in Tasks : tasks'[u].kind = tasks[u].kind /\ tasks'[u].base = tasks[u].base
  <2>1. CASE ElapseInterval(t)
    <3> DEFINE q == [tasks[t] EXCEPT !.due = TRUE]
    <3>1. q \in Task /\ q.kind = tasks[t].kind /\ q.base = tasks[t].base
      BY <1>1 DEF Task
    <3>2. tasks' = [tasks EXCEPT ![t] = q] /\ tasks \in [Tasks -> Task]
      BY <1>1, <2>1 DEF ElapseInterval, Types
    <3> HIDE DEF q
    <3> QED
      BY <3>1, <3>2
  <2>2. CASE ElapseCooldown(t)
    BY <1>1, <2>2, TaskFacts DEF ElapseCooldown
  <2> QED
    BY <2>1, <2>2
<1>3. /\ Undisturbed /\ UNCHANGED <<job, lock>>
      /\ UNCHANGED <<site, auth, ignored, cache, snaps, seeding, upsets>>
  BY <1>2 DEF ElapseInterval, ElapseCooldown, Undisturbed, history
<1>4. Inner'
  BY <1>3, QuietWait
<1>5. Types'
  BY <1>1, <1>2, <1>3 DEF Types
<1> QED
  BY <1>4, <1>5 DEF IInv

\* The site moves on: a group stays as it is or has changed just now.
SiteMoves ==
  /\ ver' \in Nat /\ ver' >= ver /\ chg' \in [Groups -> Nat]
  /\ \A g \in Groups : /\ chg'[g] <= ver' /\ chg'[g] >= chg[g]
                       /\ \/ chg'[g] = chg[g] /\ site'.groups[g] = site.groups[g]
                          \/ chg'[g] > ver
  /\ cache'.groups = cache.groups /\ cache'.gv = cache.gv /\ cache'.tv = cache.tv
  /\ UNCHANGED <<tasks, seeding, told, wrong, edited, misread>>

LEMMA CacheFacts ==
  ASSUME Types
  PROVE  cache.gv \in Nat /\ cache.tv \in Nat /\ cache.groups \in Views
<1> QED
  BY DEF Types, Cache

LEMMA BookMoves ==
  ASSUME Types, Book, SiteMoves
  PROVE  Book'
<1>1. Ages /\ ver \in Nat /\ cache.gv \in Nat /\ cache.tv \in Nat
  BY CacheFacts DEF Book, Ages
<1>2. Ages'
  BY <1>1 DEF SiteMoves, Ages
<1>3. ASSUME ~misread PROVE Faithful'
  <2>1. Faithful
    BY <1>3 DEF Book
  <2>2. ASSUME NEW g \in Groups, chg'[g] <= ver
        PROVE  chg'[g] = chg[g] /\ site'.groups[g] = site.groups[g]
    <3>1. chg'[g] \in Nat
      BY DEF SiteMoves
    <3> QED
      BY <1>1, <2>2, <3>1 DEF SiteMoves
  <2>3. cache'.groups # NoView => Reading(cache.groups, cache.gv)'
    <3>1. ASSUME cache'.groups # NoView, NEW g \in Groups, chg'[g] <= cache'.gv
          PROVE  cache'.groups[g] = site'.groups[g]
      <4>1. chg'[g] \in Nat /\ cache'.gv = cache.gv /\ cache.gv <= ver
        BY <1>1 DEF SiteMoves, Ages
      <4>2. chg'[g] <= ver
        BY <1>1, <3>1, <4>1
      <4> QED
        BY <2>1, <2>2, <3>1, <4>1, <4>2 DEF SiteMoves, Faithful, Reading
    <3> QED
      BY <3>1 DEF Reading
  <2>4. ASSUME NEW t \in Tasks \ edited PROVE Stands(t)'
    <3>1. Stands(t) /\ told' = told /\ tasks' = tasks /\ cache'.groups = cache.groups
      BY <2>1 DEF SiteMoves, Faithful
    <3>2. ASSUME tasks[t].base # NoView, NEW g \in Groups, chg'[g] <= told[t][g]
          PROVE  Shows(t, g)'
      <4>1. told[t][g] \in Nat /\ told[t][g] <= cache.gv /\ cache.gv <= ver /\ chg'[g] \in Nat
        BY <1>1 DEF Ages, SiteMoves
      <4>2. chg'[g] <= ver
        BY <1>1, <3>2, <4>1
      <4>3. Shows(t, g) /\ site'.groups[g] = site.groups[g]
        BY <2>2, <3>1, <3>2, <4>2 DEF Stands
      <4> QED
        BY <3>1, <4>3 DEF Shows
    <3> QED
      BY <3>1, <3>2 DEF Stands
  <2>5. wrong' \subseteq edited' /\ edited' = edited
    BY <2>1 DEF Faithful, SiteMoves
  <2> QED
    BY <2>3, <2>4, <2>5 DEF Faithful
<1> QED
  BY <1>2, <1>3 DEF Book, SiteMoves

LEMMA FitMoves ==
  ASSUME Types, Book, SiteMoves, NEW n \in Jobs, job[n] \in Job, Fit(job[n]),
         job'[n].got = job[n].got, job'[n].before = job[n].before,
         job'[n].todo = job[n].todo, job'[n].cur = job[n].cur, job'[n].names = job[n].names,
         job'[n].pc = job[n].pc \/ job'[n].pc = "reread"
  PROVE  Fit(job[n])'
<1> DEFINE j == job[n]
<1>1. /\ Ages /\ ver \in Nat /\ cache.gv \in Nat /\ cache.tv \in Nat /\ j.got.v \in Nat
      /\ ver' \in Nat /\ ver <= ver'
  BY CacheFacts DEF Book, Ages, Job, SiteMoves
<1>2. Young(j)'
  <2>1. j.got.v <= ver'
    BY <1>1 DEF Fit, Young
  <2> QED
    BY <2>1 DEF Fit, Young, SiteMoves
<1>3. ASSUME ~misread PROVE Honest(j)'
  <2>1. Honest(j)
    BY <1>3 DEF Fit
  <2>2. ASSUME NEW view, NEW v \in Nat, v <= ver, Reading(view, v)
        PROVE  Reading(view, v)'
    <3>1. ASSUME NEW g \in Groups, chg'[g] <= v PROVE view[g] = site'.groups[g]
      <4>1. chg'[g] \in Nat
        BY DEF SiteMoves
      <4>2. ~(chg'[g] > ver)
        BY <1>1, <2>2, <3>1, <4>1
      <4> QED
        BY <2>2, <3>1, <4>2 DEF SiteMoves, Reading
    <3> QED
      BY <3>1 DEF Reading
  <2>3. j.pc \in {"tokens", "saveGroups"} => Reading(j.got.groups, j.got.v)'
    <3>1. PICK view, v : view = j.got.groups /\ v = j.got.v
      OBVIOUS
    <3>2. v \in Nat /\ v <= ver
      BY <1>1, <3>1 DEF Fit, Young
    <3>3. j.pc \in {"tokens", "saveGroups"} => Reading(view, v)'
      BY <2>1, <2>2, <3>1, <3>2 DEF Honest
    <3> QED
      BY <3>1, <3>3 DEF Reading
  <2>4. j.before.groups # NoView => Reading(j.before.groups, 0)'
    <3>1. PICK view : view = j.before.groups
      OBVIOUS
    <3>2. 0 \in Nat /\ 0 <= ver
      BY <1>1
    <3>3. j.before.groups # NoView => Reading(view, 0)'
      BY <2>1, <2>2, <3>1, <3>2 DEF Honest
    <3> QED
      BY <3>1, <3>3 DEF Reading
  <2>5. ASSUME j.pc = "alert", NEW c \in j.cur, c.task \notin edited, NEW g \in j.names
        PROVE  /\ chg'[g] > told[c.task][g]
               /\ tasks[c.task].base # NoView
               /\ chg'[g] <= cache.gv => Shows(c.task, g)'
    <3>1. c.task \in Tasks /\ g \in Groups
      BY <2>5 DEF Job, Copy
    <3>2. /\ chg[g] > told[c.task][g] /\ tasks[c.task].base # NoView
          /\ chg[g] <= cache.gv => Shows(c.task, g)
      BY <2>1, <2>5 DEF Honest
    <3>3. /\ chg[g] \in Nat /\ chg'[g] \in Nat /\ told[c.task][g] \in Nat
          /\ chg'[g] >= chg[g] /\ cache.gv <= ver
      BY <1>1, <3>1 DEF Ages, SiteMoves
    <3>4. chg'[g] > told[c.task][g]
      BY <3>2, <3>3
    <3>5. ASSUME chg'[g] <= cache.gv PROVE Shows(c.task, g)'
      <4>1. ~(chg'[g] > ver)
        BY <1>1, <3>3, <3>5
      <4>2. chg'[g] = chg[g] /\ site'.groups[g] = site.groups[g]
        BY <3>1, <4>1 DEF SiteMoves
      <4> QED
        BY <3>2, <3>5, <4>2 DEF Shows, SiteMoves
    <3> QED
      BY <3>2, <3>4, <3>5
  <2>6. j.before.groups # NoView => cache'.groups # NoView
    BY <2>1 DEF Honest, SiteMoves
  <2>7. /\ told' = told /\ tasks' = tasks /\ edited' = edited /\ cache'.gv = cache.gv
    BY DEF SiteMoves
  <2>8. j.pc \in {"tokens", "saveGroups"} => j.got.groups # NoView
    BY <2>1 DEF Honest
  <2>9. CASE job'[n].pc = j.pc
    BY <2>3, <2>4, <2>5, <2>6, <2>7, <2>8, <2>9 DEF Honest, Reading
  <2>10. CASE job'[n].pc = "reread"
    BY <2>4, <2>6, <2>10 DEF Honest, Reading
  <2> QED
    BY <2>9, <2>10
<1> QED
  BY <1>2, <1>3 DEF Fit, SiteMoves

LEMMA SiteStep ==
  ASSUME IInv, SiteChanges
  PROVE  IInv'
<1>1. /\ Types /\ Jobbing /\ Book /\ \A n \in Jobs : Fit(job[n]) /\ job[n] \in Job
      /\ ver \in Nat /\ chg \in [Groups -> Nat] /\ \A g \in Groups : chg[g] <= ver
      /\ site \in Site
  BY DEF IInv, Inner, Jobbing, Book, Ages, Types
<1>2. UNCHANGED <<auth, ignored, cache, snaps, tasks, lock, job, seeding,
                  told, wrong, edited, misread>>
  BY DEF SiteChanges
<1>3. SiteMoves /\ site' \in Site
  <2>1. ASSUME NEW g \in Groups, NEW r \in Ratios \cup {None},
               site' = [site EXCEPT !.groups[g] = r], ver' = ver + 1,
               chg' = [chg EXCEPT ![g] = ver + 1]
        PROVE  SiteMoves /\ site' \in Site
    <3> DEFINE view == [site.groups EXCEPT ![g] = r]
    <3>1. site.groups \in View /\ view \in View
      BY <1>1 DEF Site, View
    <3>2. site' = [site EXCEPT !.groups = view]
      BY <2>1
    <3> HIDE DEF view
    <3>3. site' \in Site /\ site'.groups = view
      BY <1>1, <3>1, <3>2 DEF Site
    <3>4. \A h \in Groups : h # g => site'.groups[h] = site.groups[h]
      BY <3>1, <3>3 DEF view, View
    <3>5. /\ ver' \in Nat /\ ver' >= ver /\ chg' \in [Groups -> Nat]
          /\ \A h \in Groups : /\ chg'[h] <= ver' /\ chg'[h] >= chg[h]
                               /\ chg'[h] = IF h = g THEN ver + 1 ELSE chg[h]
      BY <1>1, <2>1
    <3> QED
      BY <1>1, <1>2, <3>3, <3>4, <3>5 DEF SiteMoves
  <2>2. ASSUME site'.groups = site.groups, site' \in Site, ver' = ver + 1 \/ ver' = ver, chg' = chg
        PROVE  SiteMoves /\ site' \in Site
    BY <1>1, <1>2, <2>2 DEF SiteMoves
  <2>3. ASSUME NEW used \in SUBSET Groups
        PROVE  /\ [site EXCEPT !.used = used] \in Site
               /\ [site EXCEPT !.used = used].groups = site.groups
    BY <1>1 DEF Site
  <2>4. /\ [site EXCEPT !.low = ~site.low] \in Site
        /\ [site EXCEPT !.low = ~site.low].groups = site.groups
    BY <1>1 DEF Site
  <2>5. \/ \E g \in Groups, r \in Ratios \cup {None} :
             site' = [site EXCEPT !.groups[g] = r] /\ ver' = ver + 1
               /\ chg' = [chg EXCEPT ![g] = ver + 1]
        \/ /\ chg' = chg /\ (ver' = ver + 1 \/ ver' = ver)
           /\ \/ \E used \in SUBSET Groups : site' = [site EXCEPT !.used = used]
              \/ site' = [site EXCEPT !.low = ~site.low]
    <3>1. \A g \in Groups : site.used \ {g} \in SUBSET Groups /\ site.used \cup {g} \in SUBSET Groups
      BY <1>1 DEF Site
    <3> QED
      BY <3>1 DEF SiteChanges
  <2> QED
    BY <2>1, <2>2, <2>3, <2>4, <2>5
<1>4. Book' /\ \A n \in Jobs : Fit(job[n])'
  BY <1>1, <1>2, <1>3, BookMoves, FitMoves
<1>5. Jobbing'
  BY <1>1, <1>2 DEF Jobbing
<1>6. upsets' \in 0..MaxUpsets
  BY <1>1, UpsetKept DEF SiteChanges
<1>7. Types'
  BY <1>1, <1>2, <1>3, <1>6 DEF Types
<1> QED
  BY <1>4, <1>5, <1>7 DEF IInv, Inner

LEMMA CrashStep ==
  ASSUME IInv, Crash
  PROVE  IInv'
<1>1. Types /\ Book /\ Undisturbed
  BY DEF IInv, Inner, Crash, Undisturbed, NoSeed, history
<1>2. /\ job' \in [Jobs -> Job] /\ lock' = "free" /\ "free" \notin Jobs
      /\ \A n \in Jobs : job'[n] = Idle
  BY IdleFacts DEF Crash, Jobs
<1>3. Jobbing'
  BY <1>2, IdleFacts DEF Jobbing
<1>4. Book'
  BY <1>1, BookStays
<1>5. \A n \in Jobs : Fit(job[n])'
  BY <1>2, <1>4, FitOfIdle
<1>6. upsets' \in 0..MaxUpsets
  BY <1>1, UpsetKept DEF Crash
<1>7. Types'
  BY <1>1, <1>6 DEF Types, Crash, NoSeed
<1> QED
  BY <1>3, <1>4, <1>5, <1>7 DEF IInv, Inner

LEMMA EditStep ==
  ASSUME IInv, NEW t \in Tasks, Edit(t)
  PROVE  IInv'
<1>1. /\ Types /\ tasks \in [Tasks -> Task] /\ tasks[t] \in Task /\ cache.groups \in Views
      /\ DOMAIN seeding \subseteq Tasks /\ \A u \in DOMAIN seeding : seeding[u] \in Views
  BY CacheFacts DEF IInv, Types
<1>2. PICK kind \in Kinds, on \in BOOLEAN :
        /\ tasks' = [tasks EXCEPT ![t].kind = kind, ![t].on = on]
        /\ seeding' = IF Seeds(t, kind, on) /\ cache.groups # NoView
                      THEN [s \in DOMAIN seeding \cup {t} |->
                              IF s = t THEN Seed(kind) ELSE seeding[s]]
                      ELSE seeding
  <2>1. PICK kind \in {tasks[t].kind} \cup {e[2] : e \in {e \in Edits : e[1] = tasks[t].kind}},
             on \in BOOLEAN :
        /\ tasks' = [tasks EXCEPT ![t].kind = kind, ![t].on = on]
        /\ seeding' = IF Seeds(t, kind, on) /\ cache.groups # NoView
                      THEN [s \in DOMAIN seeding \cup {t} |->
                              IF s = t THEN Seed(kind) ELSE seeding[s]]
                      ELSE seeding
    BY Zenon DEF Edit
  <2>2. tasks[t].kind \in Kinds /\ \A e \in Edits : e[2] \in Kinds
    BY <1>1, ChannelMonitorAssumption DEF Task
  <2> QED
    BY <2>1, <2>2
<1>3. /\ tasks' \in [Tasks -> Task]
      /\ \A u \in Tasks \ {t} : tasks'[u] = tasks[u]
  <2> DEFINE q == [tasks[t] EXCEPT !.kind = kind, !.on = on]
  <2>1. q \in Task
    BY <1>1 DEF Task
  <2>2. tasks' = [tasks EXCEPT ![t] = q]
    BY <1>1, <1>2
  <2> HIDE DEF q
  <2> QED
    BY <1>1, <2>1, <2>2
<1>4. /\ DOMAIN seeding' \subseteq DOMAIN seeding \cup {t}
      /\ \A u \in DOMAIN seeding' : seeding'[u] \in Views
  <2>1. Seed(kind) \in Views
    BY <1>1, FilterFacts DEF Seed
  <2> QED
    BY <1>1, <1>2, <2>1
<1>5. edited' = edited \cup {t}
      /\ UNCHANGED <<site, auth, ignored, cache, snaps, lock, job, ver, chg, told, wrong, misread>>
  BY DEF Edit
<1>6. Undisturbed
  BY <1>3, <1>4, <1>5 DEF Undisturbed
<1>7. Inner'
  BY <1>5, <1>6, QuietWait
<1>8. upsets' \in 0..MaxUpsets
  BY <1>1, UpsetKept DEF Edit
<1>9. DOMAIN seeding' \subseteq Tasks
  BY <1>1, <1>4
<1>10. Types'
  BY <1>1, <1>3, <1>4, <1>5, <1>8, <1>9 DEF Types
<1> QED
  BY <1>7, <1>10 DEF IInv

LEMMA SaveSeedStep ==
  ASSUME IInv, NEW t \in Tasks, SaveSeed(t)
  PROVE  IInv'
<1>1. /\ Types /\ tasks \in [Tasks -> Task] /\ tasks[t] \in Task
      /\ DOMAIN seeding \subseteq Tasks /\ \A u \in DOMAIN seeding : seeding[u] \in Views
      /\ DOMAIN seeding \subseteq edited
  BY DEF IInv, Types, Inner, Book, Ages
<1>2. t \in edited /\ seeding[t] \in Views
  BY <1>1 DEF SaveSeed
<1>3. /\ tasks' \in [Tasks -> Task]
      /\ \A u \in Tasks \ {t} : tasks'[u] = tasks[u]
  <2> DEFINE q == [tasks[t] EXCEPT !.base = seeding[t]]
  <2>1. q \in Task
    BY <1>1, <1>2 DEF Task
  <2>2. tasks' = [tasks EXCEPT ![t] = q]
    BY <1>1 DEF SaveSeed
  <2> HIDE DEF q
  <2> QED
    BY <1>1, <2>1, <2>2
<1>4. /\ DOMAIN seeding' \subseteq DOMAIN seeding
      /\ \A u \in DOMAIN seeding' : seeding'[u] \in Views
  BY <1>1 DEF SaveSeed
<1>5. UNCHANGED <<site, auth, ignored, cache, snaps, lock, job, upsets, history>>
  BY DEF SaveSeed
<1>6. Undisturbed
  BY <1>2, <1>3, <1>4, <1>5 DEF Undisturbed, history
<1>7. Inner'
  BY <1>5, <1>6, QuietWait
<1>8. Types'
  BY <1>1, <1>3, <1>4, <1>5 DEF Types
<1> QED
  BY <1>7, <1>8 DEF IInv

----------------------------------------------------------------------------
\* A job begins.

LEMMA JobReady ==
  ASSUME IInv, Undisturbed, UNCHANGED <<ver, cache, edited>>, NEW n \in Jobs, ~Working(job[n]),
         NEW j \in Job, Goto(n, j, "lock"),
         j.got.v = 0, j.before.groups = NoView, j.cur = {},
         \A c \in j.todo : c.kind = tasks'[c.task].kind
  PROVE  Inner'
<1>1. Types /\ Jobbing /\ Book /\ \A m \in Jobs : Fit(job[m]) /\ job[m] \in Job
  BY DEF IInv, Inner, Jobbing
<1>2. /\ job' \in [Jobs -> Job] /\ job'[n].pc = "lock" /\ job'[n].todo = j.todo
      /\ job'[n].cur = j.cur /\ job'[n].before = j.before /\ job'[n].got = j.got
      /\ \A m \in Jobs \ {n} : job'[m] = job[m]
      /\ lock' = lock
  BY <1>1, GotoFacts DEF PCs
<1>3. Jobbing'
  BY <1>1, <1>2 DEF Jobbing, Working
<1>4. Book' /\ \A m \in Jobs \ {n} : Fit(job[m])'
  BY <1>1, <1>2, BookStays, FitStays
<1>5. 0 <= ver'
  BY <1>4 DEF Book, Ages
<1>6. Young(job[n])'
  BY <1>2, <1>5 DEF Young
<1>7. Honest(job[n])'
  BY <1>2 DEF Honest
<1> QED
  BY <1>3, <1>4, <1>6, <1>7 DEF Inner, Fit

LEMMA PickStep ==
  ASSUME IInv, Pick
  PROVE  IInv'
<1> DEFINE T == {[task |-> t, kind |-> tasks[t].kind, cooled |-> tasks[t].cooled] : t \in Due}
           j == [Idle EXCEPT !.work = "run", !.todo = T]
<1>1. Types /\ tasks \in [Tasks -> Task] /\ Due \subseteq Tasks
  BY DEF IInv, Types, Due
<1>2. T \subseteq Copy /\ \A c \in T : c.kind = tasks[c.task].kind
  BY <1>1 DEF Copy, Task
<1>3. UNCHANGED <<site, auth, ignored, cache, snaps, tasks, seeding, upsets, history>>
      /\ job["scheduler"].pc = "idle" /\ Goto("scheduler", j, "lock")
  BY Zenon DEF Pick, At
<1> HIDE DEF T
<1>4. j \in Job /\ j.got.v = 0 /\ j.before.groups = NoView /\ j.cur = {} /\ j.todo = T
  <2>1. Idle \in Job /\ "run" \in Works
    BY IdleFacts DEF Works
  <2> QED
    BY <1>2, <2>1, IdleFacts DEF Job
<1> HIDE DEF j
<1>5. Undisturbed
  BY <1>3 DEF Undisturbed, history
<1>6. "scheduler" \in Jobs /\ ~Working(job["scheduler"])
  BY <1>3 DEF Jobs, Working
<1>7. Inner'
  BY <1>2, <1>3, <1>4, <1>5, <1>6, JobReady DEF history
<1>8. Types'
  BY <1>1, <1>3 DEF Types
<1> QED
  BY <1>7, <1>8 DEF IInv

LEMMA AskStep ==
  ASSUME IInv, NEW work \in {"sync", "balance", "token"}, Ask(work)
  PROVE  IInv'
<1> DEFINE j == [Idle EXCEPT !.work = work]
<1>1. Types /\ upsets' \in 0..MaxUpsets
  BY UpsetKept DEF IInv, Ask
<1>2. UNCHANGED <<site, auth, ignored, cache, snaps, tasks, seeding, history>>
      /\ job["admin"].pc = "idle" /\ Goto("admin", j, "lock")
  BY DEF Ask, At
<1>3. j \in Job /\ j.got.v = 0 /\ j.before.groups = NoView /\ j.cur = {} /\ j.todo = {}
  BY IdleFacts DEF Job, Works
<1> HIDE DEF j
<1>4. Undisturbed
  BY <1>2 DEF Undisturbed, history
<1>5. "admin" \in Jobs /\ ~Working(job["admin"])
  BY <1>2 DEF Jobs, Working
<1>6. Inner'
  BY <1>2, <1>3, <1>4, <1>5, JobReady DEF history
<1>7. Types'
  BY <1>1, <1>2 DEF Types
<1> QED
  BY <1>6, <1>7 DEF IInv

LEMMA LockStep ==
  ASSUME IInv, NEW n \in Jobs, Lock(n)
  PROVE  IInv'
<1> DEFINE q == [job[n] EXCEPT !.pc = FirstStep(job[n].work), !.acc = auth.acc, !.ref = auth.ref]
<1>1. /\ Types /\ Jobbing /\ Book /\ \A m \in Jobs : Fit(job[m]) /\ job[m] \in Job
      /\ auth.acc \in BOOLEAN /\ auth.ref \in BOOLEAN
  BY DEF IInv, Inner, Jobbing, Types, Auth
<1>2. FirstStep(job[n].work) \in {"mark", "move", "balance"}
  BY DEF FirstStep
<1>3. /\ q \in Job /\ q.pc \in {"mark", "move", "balance"} /\ q.todo = job[n].todo
      /\ q.cur = job[n].cur /\ q.before = job[n].before /\ q.got = job[n].got
  BY <1>1, <1>2 DEF Job, PCs
<1>4. /\ lock = "free" /\ lock' = n /\ job' = [job EXCEPT ![n] = q]
      /\ UNCHANGED <<site, auth, ignored, cache, snaps, tasks, seeding, upsets, history>>
  BY DEF Lock
<1> HIDE DEF q
<1>5. Undisturbed
  BY <1>4 DEF Undisturbed, history
<1>6. /\ job' \in [Jobs -> Job] /\ job'[n] = q /\ \A m \in Jobs \ {n} : job'[m] = job[m]
  BY <1>1, <1>3, <1>4 DEF Jobbing
<1>7. Jobbing'
  <2>1. \A m \in Jobs : ~Working(job[m]) /\ m # "free"
    BY <1>1, <1>4 DEF Jobbing, Jobs
  <2>2. Working(job'[n])
    BY <1>3, <1>6 DEF Working
  <2> QED
    BY <1>4, <1>6, <2>1, <2>2 DEF Jobbing
<1>8. Fit(job[n])'
  BY <1>1, <1>3, <1>5, <1>6, FitGoes
<1>9. Book' /\ \A m \in Jobs \ {n} : Fit(job[m])'
  BY <1>1, <1>5, <1>6, BookStays, FitStays
<1>10. Types'
  BY <1>1, <1>4 DEF Types
<1> QED
  BY <1>7, <1>8, <1>9, <1>10 DEF IInv, Inner

\* A job that has nothing unsaved and announces nothing stays as good as it was, whatever is
\* saved beside it.
LEMMA FitBetween ==
  ASSUME NEW n \in Jobs, job[n] \in Job, Fit(job[n]),
         job'[n].pc \notin {"tokens", "saveGroups", "saveTokens", "alert"},
         job'[n].got.v = job[n].got.v, job'[n].before = job[n].before,
         job'[n].todo \subseteq job[n].todo, job'[n].cur \subseteq job[n].cur,
         UNCHANGED <<ver, chg, edited>>, site'.groups = site.groups,
         cache.groups # NoView => cache'.groups # NoView,
         \A t \in Tasks : tasks'[t].kind = tasks[t].kind,
         misread => misread'
  PROVE  Fit(job[n])'
<1>1. Young(job[n])'
  <2>1. \A c \in job[n].todo \cup job[n].cur : c.task \in Tasks
    BY DEF Job, Copy
  <2>2. \A c \in job'[n].todo \cup job'[n].cur : c \in job[n].todo \cup job[n].cur
    OBVIOUS
  <2> QED
    BY <2>1, <2>2 DEF Fit, Young
<1>2. ASSUME ~misread PROVE Honest(job[n])'
  <2>1. Honest(job[n])
    BY <1>2 DEF Fit
  <2> QED
    BY <2>1 DEF Honest, Reading
<1> QED
  BY <1>1, <1>2 DEF Fit

----------------------------------------------------------------------------
\* The requests.

LEMMA MarkedFacts ==
  ASSUME Types, NEW T
  PROVE  /\ Marked(T) \in [Tasks -> Task]
         /\ \A t \in Tasks : /\ Marked(T)[t].kind = tasks[t].kind
                             /\ Marked(T)[t].base = tasks[t].base
<1> DEFINE q(t) == [tasks[t] EXCEPT !.due = tasks[t].due /\ t \notin T]
<1>1. ASSUME NEW t \in Tasks
      PROVE  q(t) \in Task /\ q(t).kind = tasks[t].kind /\ q(t).base = tasks[t].base
  <2>1. tasks[t] \in Task /\ (tasks[t].due /\ t \notin T) \in BOOLEAN
    BY DEF Types
  <2> QED
    BY <2>1 DEF Task
<1>2. Marked(T) = [t \in Tasks |-> q(t)]
  BY DEF Marked
<1> HIDE DEF q
<1> QED
  BY <1>1, <1>2

LEMMA MarkStep ==
  ASSUME IInv, NEW n \in Jobs, Mark(n)
  PROVE  IInv'
<1> DEFINE j == job[n]
           q == [j EXCEPT !.before = [groups |-> cache.groups, used |-> cache.used]]
<1>1. /\ Types /\ Jobbing /\ Book /\ \A m \in Jobs : Fit(job[m]) /\ job[m] \in Job
      /\ cache \in Cache /\ Working(j)
  BY DEF IInv, Inner, Jobbing, Types, Mark, At, Working
<1>2. UNCHANGED <<site, auth, ignored, cache, snaps, seeding, history>>
  BY DEF Mark
<1>3. \/ \E T : tasks' = Marked(T) /\ Goto(n, q, "balance") /\ UNCHANGED upsets
      \/ \E T : tasks' = Marked(T) /\ Abandon(n)
  BY Zenon DEF Mark
<1>4. PICK T : tasks' = Marked(T)
  BY <1>3
<1>5. /\ tasks' \in [Tasks -> Task]
      /\ \A t \in Tasks : tasks'[t].kind = tasks[t].kind /\ tasks'[t].base = tasks[t].base
  BY <1>1, <1>4, MarkedFacts
<1>6. Undisturbed
  BY <1>2, <1>5 DEF Undisturbed, history
<1>7. Inner' /\ upsets' \in 0..MaxUpsets
  <2>1. CASE Abandon(n)
    BY <1>1, <1>6, <2>1, AbandonQuietly
  <2>2. CASE Goto(n, q, "balance") /\ UNCHANGED upsets
    <3>1. /\ q \in Job /\ q.todo = j.todo /\ q.cur = j.cur /\ q.got = j.got
          /\ q.before.groups = cache.groups
      BY <1>1 DEF Job, Cache
    <3> HIDE DEF q
    <3>2. /\ job'[n].pc = "balance" /\ job'[n].todo = j.todo /\ job'[n].cur = j.cur
          /\ job'[n].got = j.got /\ job'[n].before.groups = cache.groups
          /\ \A m \in Jobs \ {n} : job'[m] = job[m]
      <4>1. Goto(n, q, "balance") /\ "balance" \in PCs
        BY <2>2 DEF PCs
      <4> QED
        BY <1>1, <3>1, <4>1, GotoFacts
    <3>3. Jobbing'
      <4>1. Goto(n, q, "balance") /\ "balance" \in PCs
        BY <2>2 DEF PCs
      <4> QED
        BY <1>1, <3>1, <4>1, GoesOn
    <3>4. Book' /\ \A m \in Jobs \ {n} : Fit(job[m])'
      BY <1>1, <1>6, <3>2, BookStays, FitStays
    <3>5. Young(job[n])'
      <4>1. \A c \in j.todo \cup j.cur : c.task \in Tasks
        BY <1>1 DEF Job, Copy
      <4>2. Young(j)
        BY <1>1 DEF Fit
      <4> QED
        BY <1>2, <1>5, <3>2, <4>1, <4>2 DEF Young, history
    <3>6. ASSUME ~misread PROVE Honest(job[n])'
      <4>1. ASSUME cache.groups # NoView, NEW g \in Groups, chg[g] <= 0
            PROVE  cache.groups[g] = site.groups[g]
        <5>1. chg[g] \in Nat /\ cache.gv \in Nat
          BY <1>1, CacheFacts DEF Book, Ages
        <5>2. chg[g] <= cache.gv
          BY <4>1, <5>1
        <5> QED
          BY <1>1, <3>6, <4>1, <5>2 DEF Book, Faithful, Reading
      <4> QED
        BY <1>2, <3>2, <4>1 DEF Honest, Reading, history
    <3>7. Fit(job[n])'
      BY <1>2, <3>5, <3>6 DEF Fit, history
    <3> QED
      BY <1>1, <2>2, <3>3, <3>4, <3>7 DEF Inner, Types
  <2> QED
    BY <1>3, <2>1, <2>2
<1>8. Types'
  BY <1>1, <1>2, <1>5, <1>7 DEF Types
<1> QED
  BY <1>7, <1>8 DEF IInv

LEMMA AskBalanceStep ==
  ASSUME IInv, NEW n \in Jobs, AskBalance(n)
  PROVE  IInv'
<1>1. Types /\ job[n] \in Job /\ Working(job[n]) /\ job[n].pc = "balance"
  BY DEF IInv, Inner, Jobbing, AskBalance, At, Working
<1>2. UNCHANGED <<site, ignored, cache, tasks, seeding, history>>
  BY DEF AskBalance
<1>3. Undisturbed
  BY <1>2 DEF Undisturbed, history
<1>4. /\ Asked(n) \in Job /\ Asked(n).todo = job[n].todo /\ Asked(n).cur = job[n].cur
      /\ Asked(n).before = job[n].before /\ Asked(n).got = job[n].got
  BY <1>1, AskedFacts
<1>5. /\ Inner' /\ upsets' \in 0..MaxUpsets /\ auth' \in Auth
      /\ snaps' \in [old : BOOLEAN, new : BOOLEAN]
  <2>1. CASE Fails(n) /\ UNCHANGED snaps
    BY <1>1, <1>3, <2>1, FailQuietly DEF Types
  <2>2. CASE /\ Authorized(n) /\ snaps' = [snaps EXCEPT !.new = site.low] /\ UNCHANGED upsets
             /\ \/ Goto(n, Asked(n), "groups") \/ Goto(n, Asked(n), "evaluate") \/ Done(n)
    <3>1. auth' \in Auth
      BY <1>1, <2>2, AuthKept
    <3>2. site.low \in BOOLEAN /\ snaps \in [old : BOOLEAN, new : BOOLEAN] /\ upsets \in 0..MaxUpsets
      BY <1>1 DEF Types, Site
    <3>3. snaps' \in [old : BOOLEAN, new : BOOLEAN] /\ upsets' \in 0..MaxUpsets
      BY <2>2, <3>2
    <3>4. Inner'
      <4>1. CASE Done(n)
        BY <1>1, <1>3, <4>1, QuietDone
      <4>2. ASSUME NEW pc \in {"groups", "evaluate"}, Goto(n, Asked(n), pc)
            PROVE  Inner'
        <5>1. pc \in PCs
          BY DEF PCs
        <5> QED
          BY <1>1, <1>3, <1>4, <4>2, <5>1, QuietGoes
      <4> QED
        BY <2>2, <4>1, <4>2
    <3> QED
      BY <3>1, <3>3, <3>4
  <2>3. CASE Authorized(n) /\ snaps' = [snaps EXCEPT !.new = site.low] /\ Abandon(n)
    <3>1. auth' \in Auth
      BY <1>1, <2>3, AuthKept
    <3>2. site.low \in BOOLEAN /\ snaps \in [old : BOOLEAN, new : BOOLEAN]
      BY <1>1 DEF Types, Site
    <3>3. snaps' \in [old : BOOLEAN, new : BOOLEAN]
      BY <2>3, <3>2
    <3>4. Inner' /\ upsets' \in 0..MaxUpsets
      BY <1>1, <1>3, <2>3, QuietDone, UpsetKept DEF Abandon, Types
    <3> QED
      BY <3>1, <3>3, <3>4
  <2> QED
    BY <2>1, <2>2, <2>3 DEF AskBalance
<1>6. Types'
  BY <1>1, <1>2, <1>5 DEF Types
<1> QED
  BY <1>5, <1>6 DEF IInv

LEMMA AskTokensStep ==
  ASSUME IInv, NEW n \in Jobs, AskTokens(n)
  PROVE  IInv'
<1> DEFINE q == [Asked(n) EXCEPT !.got.used = site.used]
<1>1. Types /\ job[n] \in Job /\ Working(job[n]) /\ job[n].pc = "tokens"
  BY DEF IInv, Inner, Jobbing, AskTokens, At, Working
<1>2. UNCHANGED <<site, ignored, cache, snaps, tasks, seeding, history>>
  BY DEF AskTokens
<1>3. Undisturbed
  BY <1>2 DEF Undisturbed, history
<1>4. /\ Asked(n) \in Job /\ Asked(n).todo = job[n].todo /\ Asked(n).cur = job[n].cur
      /\ Asked(n).before = job[n].before /\ Asked(n).got = job[n].got
  BY <1>1, AskedFacts
<1>5. /\ q \in Job /\ q.todo = job[n].todo /\ q.cur = job[n].cur /\ q.before = job[n].before
      /\ q.got.v = job[n].got.v /\ q.got.groups = job[n].got.groups
  <2> DEFINE r == [Asked(n).got EXCEPT !.used = site.used]
  <2>1. Asked(n).got \in [groups : Views, used : SUBSET Groups, v : Nat] /\ site.used \in SUBSET Groups
    BY <1>1, <1>4 DEF Job, Types, Site
  <2>2. /\ r \in [groups : Views, used : SUBSET Groups, v : Nat]
        /\ r.v = job[n].got.v /\ r.groups = job[n].got.groups
    BY <1>4, <2>1
  <2>3. q = [Asked(n) EXCEPT !.got = r]
    OBVIOUS
  <2> HIDE DEF r, q
  <2> QED
    BY <1>4, <2>2, <2>3 DEF Job
<1>6. (Authorized(n) /\ Goto(n, q, "saveGroups") /\ UNCHANGED upsets) \/ Fails(n)
  BY Zenon DEF AskTokens
<1> HIDE DEF q
<1>7. /\ Inner' /\ upsets' \in 0..MaxUpsets /\ auth' \in Auth
  <2>1. CASE Fails(n)
    BY <1>1, <1>3, <2>1, FailQuietly DEF Types
  <2>2. CASE Authorized(n) /\ Goto(n, q, "saveGroups") /\ UNCHANGED upsets
    <3>1. auth' \in Auth
      BY <1>1, <2>2, AuthKept
    <3>2. "saveGroups" \in PCs
      BY DEF PCs
    <3>3. Inner'
      BY <1>1, <1>3, <1>5, <2>2, <3>2, QuietGoes
    <3> QED
      BY <1>1, <2>2, <3>1, <3>3 DEF Types
  <2> QED
    BY <1>6, <2>1, <2>2
<1>8. Types'
  BY <1>1, <1>2, <1>7 DEF Types
<1> QED
  BY <1>7, <1>8 DEF IInv

LEMMA AskGroupsStep ==
  ASSUME IInv, NEW n \in Jobs, AskGroups(n)
  PROVE  IInv'
<1> DEFINE q(view) == [Asked(n) EXCEPT !.got.groups = view, !.got.v = ver]
<1>1. /\ Types /\ Jobbing /\ Book /\ \A m \in Jobs : Fit(job[m]) /\ job[m] \in Job
      /\ Working(job[n]) /\ job[n].pc = "groups"
      /\ site.groups \in View /\ ver \in Nat /\ Ages
  BY DEF IInv, Inner, Jobbing, Book, Ages, Types, Site, AskGroups, At, Working
<1>2. UNCHANGED <<site, ignored, cache, snaps, tasks, seeding, ver, chg, told, wrong, edited>>
  BY DEF AskGroups
<1>3. /\ Asked(n) \in Job /\ Asked(n).todo = job[n].todo /\ Asked(n).cur = job[n].cur
      /\ Asked(n).before = job[n].before /\ Asked(n).got = job[n].got
  BY <1>1, AskedFacts
<1>4. ASSUME NEW view \in View
      PROVE  /\ q(view) \in Job /\ q(view).todo = job[n].todo /\ q(view).cur = job[n].cur
             /\ q(view).before = job[n].before
             /\ q(view).got.v = ver /\ q(view).got.groups = view
  <2> DEFINE r == [Asked(n).got EXCEPT !.groups = view, !.v = ver]
  <2>1. /\ Asked(n).got \in [groups : Views, used : SUBSET Groups, v : Nat]
        /\ view \in Views
    BY <1>3 DEF Job, Views
  <2>2. /\ r \in [groups : Views, used : SUBSET Groups, v : Nat]
        /\ r.v = ver /\ r.groups = view
    BY <1>1, <2>1
  <2>3. q(view) = [Asked(n) EXCEPT !.got = r]
    OBVIOUS
  <2> HIDE DEF r, q
  <2> QED
    BY <1>3, <2>2, <2>3 DEF Job
<1>5. General(site.groups) \in View
  BY <1>1, Bounds DEF General, View, None
<1>6. \/ Authorized(n) /\ Goto(n, q(site.groups), "tokens") /\ UNCHANGED <<upsets, misread>>
      \/ Authorized(n) /\ Upset /\ Goto(n, q(General(site.groups)), "tokens") /\ misread' = TRUE
      \/ Fails(n) /\ UNCHANGED misread
  BY Zenon DEF AskGroups
<1> HIDE DEF q
<1>7. ASSUME NEW view \in View, Authorized(n), Goto(n, q(view), "tokens"),
             \/ misread' = misread /\ view = site.groups
             \/ misread' = TRUE
      PROVE  Inner'
  <2>1. /\ job'[n].pc = "tokens" /\ job'[n].todo = job[n].todo /\ job'[n].cur = job[n].cur
        /\ job'[n].before = job[n].before
        /\ job'[n].got.v = ver /\ job'[n].got.groups = view
        /\ \A m \in Jobs \ {n} : job'[m] = job[m]
    <3>1. "tokens" \in PCs
      BY DEF PCs
    <3> QED
      BY <1>1, <1>4, <1>7, <3>1, GotoFacts
  <2>2. Jobbing'
    <3>1. "tokens" \in PCs
      BY DEF PCs
    <3> QED
      BY <1>1, <1>4, <1>7, <3>1, GoesOn
  <2>3. Book'
    <3>1. Ages'
      BY <1>1, <1>2, <1>7 DEF Ages
    <3>2. ASSUME ~misread' PROVE Faithful'
      <4>1. Faithful
        BY <1>1, <1>7, <3>2 DEF Book
      <4>2. \A t \in Tasks : Stands(t) => Stands(t)'
        BY <1>2 DEF Stands, Shows
      <4> QED
        BY <1>2, <4>1, <4>2 DEF Faithful, Reading
    <3> QED
      BY <3>1, <3>2 DEF Book
  <2>4. Young(job[n])'
    <3>1. ver <= ver /\ cache.gv <= ver /\ cache.tv <= ver
      BY <1>1 DEF Ages
    <3>2. Young(job[n])
      BY <1>1 DEF Fit
    <3> QED
      BY <1>2, <2>1, <3>1, <3>2 DEF Young
  <2>5. ASSUME ~misread' PROVE Honest(job[n])'
    <3>1. Honest(job[n]) /\ view = site.groups
      BY <1>1, <1>7, <2>5 DEF Fit
    <3>2. view # NoView
      BY <1>7, NoViewIsNone
    <3> QED
      BY <1>2, <2>1, <3>1, <3>2 DEF Honest, Reading
  <2>6. ASSUME NEW m \in Jobs \ {n} PROVE Fit(job[m])'
    <3>1. job[m].pc \in {"idle", "lock"} /\ job[m] \in Job /\ Fit(job[m]) /\ job'[m] = job[m]
      BY <1>1, <2>1, OthersWait
    <3> QED
      BY <1>2, <1>7, <3>1, FitBetween
  <2> QED
    BY <2>2, <2>3, <2>4, <2>5, <2>6 DEF Inner, Fit
<1>8. Inner' /\ upsets' \in 0..MaxUpsets /\ auth' \in Auth
  <2>1. CASE Fails(n) /\ UNCHANGED misread
    <3>1. Undisturbed
      BY <1>2, <2>1 DEF Undisturbed
    <3> QED
      BY <1>1, <2>1, <3>1, FailQuietly DEF Types
  <2>2. CASE Authorized(n) /\ Goto(n, q(site.groups), "tokens") /\ UNCHANGED <<upsets, misread>>
    BY <1>1, <1>7, <2>2, AuthKept DEF Types
  <2>3. CASE Authorized(n) /\ Upset /\ Goto(n, q(General(site.groups)), "tokens") /\ misread' = TRUE
    BY <1>1, <1>5, <1>7, <2>3, AuthKept, UpsetKept
  <2> QED
    BY <1>6, <2>1, <2>2, <2>3
<1>9. Types'
  BY <1>1, <1>2, <1>8 DEF Types
<1> QED
  BY <1>8, <1>9 DEF IInv

----------------------------------------------------------------------------
\* The saves.

LEMMA SaveGroupsStep ==
  ASSUME IInv, NEW n \in Jobs, SaveGroups(n)
  PROVE  IInv'
<1> DEFINE j == job[n]
<1>1. /\ Types /\ Jobbing /\ Book /\ \A m \in Jobs : Fit(job[m]) /\ job[m] \in Job
      /\ Working(job[n]) /\ j.pc = "saveGroups" /\ Ages /\ cache \in Cache
      /\ j.got.groups \in Views /\ j.got.v \in Nat
  BY DEF IInv, Inner, Jobbing, Book, Types, Job, SaveGroups, At, Working
<1>2. UNCHANGED <<site, auth, ignored, snaps, tasks, seeding, history>>
  BY DEF SaveGroups
<1>3. CASE Abandon(n) /\ UNCHANGED cache
  <2>1. Undisturbed
    BY <1>2, <1>3 DEF Undisturbed, history
  <2>2. Inner' /\ upsets' \in 0..MaxUpsets
    BY <1>1, <1>3, <2>1, AbandonQuietly
  <2>3. Types'
    BY <1>1, <1>2, <1>3, <2>2 DEF Types
  <2> QED
    BY <2>2, <2>3 DEF IInv
<1>4. CASE /\ cache' = [cache EXCEPT !.groups = j.got.groups, !.gv = j.got.v]
           /\ Goto(n, j, "saveTokens") /\ UNCHANGED upsets
  <2>1. /\ cache' \in Cache /\ cache'.groups = j.got.groups /\ cache'.gv = j.got.v
        /\ cache'.tv = cache.tv
    BY <1>1, <1>4 DEF Cache
  <2>2. /\ Jobbing' /\ job'[n].pc = "saveTokens" /\ job'[n].todo = j.todo /\ job'[n].cur = j.cur
        /\ job'[n].before = j.before /\ job'[n].got = j.got
        /\ \A m \in Jobs \ {n} : job'[m] = job[m]
    <3>1. "saveTokens" \in PCs
      BY DEF PCs
    <3> QED
      BY <1>1, <1>4, <3>1, GotoFacts, GoesOn
  <2>3. /\ j.got.v <= ver /\ cache.gv <= j.got.v /\ cache.tv <= j.got.v
        /\ cache.gv \in Nat /\ cache.tv \in Nat /\ ver \in Nat
    BY <1>1, CacheFacts DEF Fit, Young, Ages
  <2>4. Ages'
    <3>1. ASSUME NEW t \in Tasks, NEW g \in Groups PROVE told[t][g] <= j.got.v
      <4>1. told[t][g] \in Nat /\ told[t][g] <= cache.gv
        BY <1>1 DEF Ages
      <4> QED
        BY <1>1, <2>3, <4>1
    <3> QED
      BY <1>1, <1>2, <2>1, <2>3, <3>1 DEF Ages, history
  <2>5. ASSUME ~misread PROVE Faithful' /\ cache'.groups # NoView
    <3>1. Faithful /\ Reading(j.got.groups, j.got.v) /\ j.got.groups # NoView
      BY <1>1, <2>5 DEF Book, Fit, Honest
    <3>2. Reading(cache.groups, cache.gv)'
      BY <1>2, <2>1, <3>1 DEF Reading, history
    <3>3. ASSUME NEW t \in Tasks, Stands(t) PROVE Stands(t)'
      BY <1>2, <2>1, <3>1, <3>3 DEF Stands, Shows, history
    <3> QED
      BY <1>2, <2>1, <3>1, <3>2, <3>3 DEF Faithful, history
  <2>6. Young(job[n])'
    <3>1. Young(j)
      BY <1>1 DEF Fit
    <3> QED
      BY <1>2, <2>1, <2>2, <2>3, <3>1 DEF Young, history
  <2>7. ASSUME ~misread PROVE Honest(job[n])'
    <3>1. Honest(j)
      BY <1>1, <2>7 DEF Fit
    <3> QED
      BY <1>2, <2>2, <2>5, <2>7, <3>1 DEF Honest, Reading, history
  <2>8. ASSUME NEW m \in Jobs \ {n} PROVE Fit(job[m])'
    <3>1. job[m].pc \in {"idle", "lock"} /\ job[m] \in Job /\ Fit(job[m]) /\ job'[m] = job[m]
      BY <1>1, <2>2, OthersWait
    <3>2. CASE misread
      <4>1. Young(job[m])
        BY <3>1 DEF Fit
      <4>2. Young(job[m])'
        BY <1>2, <3>1, <4>1 DEF Young, history
      <4> QED
        BY <1>2, <3>2, <4>2 DEF Fit, history
    <3>3. CASE ~misread
      BY <1>2, <2>5, <3>1, <3>3, FitBetween DEF history
    <3> QED
      BY <3>2, <3>3
  <2>9. Types'
    BY <1>1, <1>2, <1>4, <2>1 DEF Types
  <2> QED
    BY <1>2, <2>2, <2>4, <2>5, <2>6, <2>7, <2>8, <2>9 DEF IInv, Inner, Book, Fit, history
<1> QED
  BY <1>3, <1>4 DEF SaveGroups

\* The tokens are saved: the groups, and what is said of them, are not touched.
LEMMA TokensSaved ==
  ASSUME IInv, cache'.groups = cache.groups, cache'.gv = cache.gv,
         cache'.tv \in Nat, cache'.tv <= ver,
         UNCHANGED <<site, tasks, seeding, history>>
  PROVE  Book'
<1>1. Ages'
  BY DEF IInv, Inner, Book, Ages, history
<1>2. ASSUME ~misread PROVE Faithful'
  <2>1. Faithful
    BY <1>2 DEF IInv, Inner, Book
  <2>2. \A t \in Tasks : Stands(t) => Stands(t)'
    BY DEF Stands, Shows, history
  <2> QED
    BY <2>1, <2>2 DEF Faithful, Reading, history
<1> QED
  BY <1>1, <1>2 DEF Book, history

LEMMA SaveTokensStep ==
  ASSUME IInv, NEW n \in Jobs, SaveTokens(n)
  PROVE  IInv'
<1> DEFINE j == job[n]
<1>1. /\ Types /\ Jobbing /\ Book /\ \A m \in Jobs : Fit(job[m]) /\ job[m] \in Job
      /\ Working(job[n]) /\ j.pc = "saveTokens" /\ cache \in Cache
      /\ j.got.used \in SUBSET Groups /\ j.got.v \in Nat /\ j.got.v <= ver
  BY DEF IInv, Inner, Jobbing, Types, Job, Fit, Young, SaveTokens, At, Working
<1>2. UNCHANGED <<site, auth, ignored, snaps, tasks, seeding, history>>
  BY DEF SaveTokens
<1>3. CASE Abandon(n) /\ UNCHANGED cache
  <2>1. Undisturbed
    BY <1>2, <1>3 DEF Undisturbed, history
  <2>2. Inner' /\ upsets' \in 0..MaxUpsets
    BY <1>1, <1>3, <2>1, AbandonQuietly
  <2>3. Types'
    BY <1>1, <1>2, <1>3, <2>2 DEF Types
  <2> QED
    BY <2>2, <2>3 DEF IInv
<1>4. CASE /\ cache' = [cache EXCEPT !.used = j.got.used, !.tv = j.got.v]
           /\ Goto(n, j, "synced") /\ UNCHANGED upsets
  <2>1. /\ cache' \in Cache /\ cache'.groups = cache.groups /\ cache'.gv = cache.gv
        /\ cache'.tv = j.got.v
    BY <1>1, <1>4 DEF Cache
  <2>2. /\ Jobbing' /\ job'[n].pc = "synced" /\ job'[n].todo = j.todo /\ job'[n].cur = j.cur
        /\ job'[n].before = j.before /\ job'[n].got = j.got
        /\ \A m \in Jobs \ {n} : job'[m] = job[m]
    <3>1. "synced" \in PCs
      BY DEF PCs
    <3> QED
      BY <1>1, <1>4, <3>1, GotoFacts, GoesOn
  <2>3. Book'
    BY <1>1, <1>2, <2>1, TokensSaved
  <2>4. ASSUME NEW m \in Jobs PROVE Fit(job[m])'
    <3>1. /\ job[m] \in Job /\ Fit(job[m]) /\ job'[m].got = job[m].got
          /\ job'[m].before = job[m].before /\ job'[m].todo = job[m].todo
          /\ job'[m].cur = job[m].cur /\ job'[m].pc \in {"idle", "lock", "synced"}
      BY <1>1, <2>2, OthersWait
    <3> QED
      BY <1>2, <2>1, <3>1, FitBetween DEF history
  <2>5. Types'
    BY <1>1, <1>2, <1>4, <2>1 DEF Types
  <2> QED
    BY <2>2, <2>3, <2>4, <2>5 DEF IInv, Inner
<1> QED
  BY <1>3, <1>4 DEF SaveTokens

LEMMA SyncedStep ==
  ASSUME IInv, NEW n \in Jobs, Synced(n)
  PROVE  IInv'
<1>1. Types /\ job[n] \in Job /\ Working(job[n]) /\ "evaluate" \in PCs
  BY DEF IInv, Inner, Jobbing, Synced, At, Working, PCs
<1>2. UNCHANGED <<site, auth, ignored, cache, snaps, tasks, seeding, history>>
  BY DEF Synced
<1>3. Undisturbed
  BY <1>2 DEF Undisturbed, history
<1>4. Inner' /\ upsets' \in 0..MaxUpsets
  <2>1. CASE Abandon(n)
    BY <1>1, <1>3, <2>1, AbandonQuietly
  <2>2. CASE Goto(n, job[n], "evaluate") /\ UNCHANGED upsets
    BY <1>1, <1>3, <2>2, QuietGoes DEF Types
  <2>3. CASE Done(n) /\ UNCHANGED upsets
    BY <1>1, <1>3, <2>3, QuietDone DEF Types
  <2> QED
    BY <2>1, <2>2, <2>3 DEF Synced
<1>5. Types'
  BY <1>1, <1>2, <1>4 DEF Types
<1> QED
  BY <1>4, <1>5 DEF IInv

LEMMA MoveTokenStep ==
  ASSUME IInv, NEW n \in Jobs, MoveToken(n)
  PROVE  IInv'
<1>1. /\ Types /\ Jobbing /\ Book /\ \A m \in Jobs : Fit(job[m]) /\ job[m] \in Job
      /\ Working(job[n]) /\ Ages /\ cache \in Cache /\ site \in Site
      /\ cache.used \in SUBSET Groups /\ site.used \in SUBSET Groups
      /\ ver \in Nat /\ chg \in [Groups -> Nat] /\ \A g \in Groups : chg[g] <= ver
  BY DEF IInv, Inner, Jobbing, Book, Ages, Types, Cache, Site, MoveToken, At, Working
<1>2. UNCHANGED <<ignored, snaps, tasks, seeding, chg, told, wrong, edited, misread>>
  BY DEF MoveToken
<1>3. CASE Fails(n) /\ UNCHANGED <<site, cache, ver>>
  <2>1. Undisturbed
    BY <1>2, <1>3 DEF Undisturbed
  <2>2. Inner' /\ upsets' \in 0..MaxUpsets /\ auth' = auth
    BY <1>1, <1>3, <2>1, FailQuietly
  <2>3. Types'
    BY <1>1, <1>2, <1>3, <2>2 DEF Types
  <2> QED
    BY <2>2, <2>3 DEF IInv
<1>4. CASE Done(n) /\ UNCHANGED <<site, auth, cache, ver, upsets>>
  <2>1. Undisturbed
    BY <1>2, <1>4 DEF Undisturbed
  <2>2. Inner'
    BY <1>1, <1>4, <2>1, QuietDone
  <2>3. Types'
    BY <1>1, <1>2, <1>4 DEF Types
  <2> QED
    BY <2>2, <2>3 DEF IInv
<1>5. ASSUME Authorized(n), NEW from \in site.used, NEW to \in Known(site.groups),
             site' = [site EXCEPT !.used = Moved(@, from, to)],
             \/ cache' = [cache EXCEPT !.used = Moved(@, from, to)] /\ UNCHANGED upsets
             \/ Upset /\ UNCHANGED cache,
             ver' = ver + 1, Goto(n, Asked(n), "reread")
      PROVE  IInv'
  <2>1. /\ site' \in Site /\ site'.groups = site.groups
        /\ cache' \in Cache /\ cache'.groups = cache.groups /\ cache'.gv = cache.gv
        /\ cache'.tv = cache.tv
    <3>1. /\ Moved(site.used, from, to) \in SUBSET Groups
          /\ Moved(cache.used, from, to) \in SUBSET Groups
      BY <1>1 DEF Moved, Known
    <3> QED
      BY <1>1, <1>5, <3>1 DEF Site, Cache
  <2>2. SiteMoves
    BY <1>1, <1>2, <1>5, <2>1 DEF SiteMoves
  <2>3. /\ Asked(n) \in Job /\ Asked(n).todo = job[n].todo /\ Asked(n).cur = job[n].cur
        /\ Asked(n).names = job[n].names /\ Asked(n).before = job[n].before
        /\ Asked(n).got = job[n].got /\ "reread" \in PCs
    BY <1>1, AskedFacts DEF PCs
  <2>4. /\ Jobbing' /\ job'[n].pc = "reread" /\ job'[n].todo = job[n].todo
        /\ job'[n].cur = job[n].cur /\ job'[n].names = job[n].names
        /\ job'[n].before = job[n].before /\ job'[n].got = job[n].got
        /\ \A m \in Jobs \ {n} : job'[m] = job[m]
    BY <1>1, <1>5, <2>3, GotoFacts, GoesOn
  <2>5. Book' /\ \A m \in Jobs : Fit(job[m])'
    <3>1. ASSUME NEW m \in Jobs PROVE Fit(job[m])'
      <4>1. /\ job'[m].got = job[m].got /\ job'[m].before = job[m].before
            /\ job'[m].todo = job[m].todo /\ job'[m].cur = job[m].cur
            /\ job'[m].names = job[m].names
            /\ job'[m].pc = job[m].pc \/ job'[m].pc = "reread"
        BY <2>4
      <4> QED
        BY <1>1, <2>2, <4>1, FitMoves
    <3> QED
      BY <1>1, <2>2, <3>1, BookMoves
  <2>6. auth' \in Auth /\ upsets' \in 0..MaxUpsets
    BY <1>1, <1>5, AuthKept, UpsetKept DEF Types
  <2>7. Types'
    BY <1>1, <1>2, <2>1, <2>6 DEF Types
  <2> QED
    BY <2>4, <2>5, <2>7 DEF IInv, Inner
<1> QED
  BY <1>3, <1>4, <1>5 DEF MoveToken

LEMMA RereadTokensStep ==
  ASSUME IInv, NEW n \in Jobs, RereadTokens(n)
  PROVE  IInv'
<1>1. /\ Types /\ Jobbing /\ Book /\ \A m \in Jobs : Fit(job[m]) /\ job[m] \in Job
      /\ Working(job[n]) /\ cache \in Cache /\ site.used \in SUBSET Groups /\ ver \in Nat
  BY DEF IInv, Inner, Jobbing, Book, Ages, Types, Site, RereadTokens, At, Working
<1>2. UNCHANGED <<site, ignored, snaps, tasks, seeding, history>>
  BY DEF RereadTokens
<1>3. CASE Fails(n) /\ UNCHANGED cache
  <2>1. Undisturbed
    BY <1>2, <1>3 DEF Undisturbed, history
  <2>2. Inner' /\ upsets' \in 0..MaxUpsets /\ auth' = auth
    BY <1>1, <1>3, <2>1, FailQuietly
  <2>3. Types'
    BY <1>1, <1>2, <1>3, <2>2 DEF Types
  <2> QED
    BY <2>2, <2>3 DEF IInv
<1>4. CASE /\ Authorized(n) /\ cache' = [cache EXCEPT !.used = site.used, !.tv = ver]
           /\ Done(n) /\ UNCHANGED upsets
  <2>1. /\ cache' \in Cache /\ cache'.groups = cache.groups /\ cache'.gv = cache.gv
        /\ cache'.tv = ver /\ ver <= ver
    <3>1. PICK used \in SUBSET Groups, v \in Nat : used = site.used /\ v = ver
      BY <1>1
    <3>2. cache' = [cache EXCEPT !.used = used, !.tv = v]
      BY <1>4, <3>1
    <3>3. /\ cache' \in Cache /\ cache'.groups = cache.groups /\ cache'.gv = cache.gv
          /\ cache'.tv = v
      BY <1>1, <3>1, <3>2 DEF Cache
    <3> QED
      BY <1>1, <3>1, <3>3
  <2>2. Book'
    BY <1>1, <1>2, <2>1, TokensSaved
  <2>3. Jobbing' /\ job'[n] = Idle /\ \A m \in Jobs \ {n} : job'[m] = job[m]
    BY <1>1, <1>4, IsOver
  <2>4. Fit(job[n])'
    BY <2>2, <2>3, FitOfIdle
  <2>5. ASSUME NEW m \in Jobs \ {n} PROVE Fit(job[m])'
    <3>1. job[m].pc \in {"idle", "lock"} /\ job'[m] = job[m]
      BY <1>1, <2>3, OthersWait
    <3> QED
      BY <1>1, <1>2, <2>1, <3>1, FitBetween DEF history
  <2>6. Types'
    BY <1>1, <1>2, <1>4, <2>1, AuthKept DEF Types
  <2> QED
    BY <2>2, <2>3, <2>4, <2>5, <2>6 DEF IInv, Inner
<1> QED
  BY <1>3, <1>4 DEF RereadTokens

----------------------------------------------------------------------------
\* The evaluation. What a task compares is as the site shows it now wherever nothing has changed
\* since the task named the group, so that it cannot name it again.

LEMMA LookFacts ==
  ASSUME IInv, ~misread, NEW n \in Jobs, NEW c \in job[n].todo, c.task \notin edited,
         c.kind \in GroupKinds
  PROVE  /\ c.task \in Tasks /\ c.kind = tasks[c.task].kind
         /\ After(c) \in Views /\ (After(c) = NoView <=> cache.groups = NoView)
         /\ cache.groups = NoView => \A g \in Groups : told[c.task][g] = 0
         /\ After(c) # NoView => \A g \in Groups : chg[g] <= cache.gv =>
               \/ After(c)[g] = site.groups[g]
               \/ c.kind = "group_ratio_change" /\ After(c)[g] = None
         /\ \A g \in Look(c, job[n]) : /\ g \in Groups /\ chg[g] > told[c.task][g]
                                       /\ After(c) # NoView
<1> DEFINE j == job[n]
           t == c.task
<1>1. /\ j \in Job /\ t \in Tasks /\ c.kind = tasks[t].kind /\ tasks[t].base \in Views
      /\ cache.groups \in Views /\ j.before.groups \in Views
      /\ Faithful /\ Stands(t) /\ Honest(j) /\ Ages
  <2>1. Types /\ Jobbing /\ Book /\ Fit(j) /\ j \in Job
    BY DEF IInv, Inner, Jobbing
  <2>2. t \in Tasks
    BY <2>1 DEF Job, Copy
  <2>3. c.kind = tasks[t].kind
    BY <2>1 DEF Fit, Young
  <2>4. tasks[t].base \in Views /\ j.before.groups \in Views
    BY <2>1, <2>2 DEF Types, Task, Job
  <2>5. Faithful /\ Stands(t) /\ Honest(j) /\ Ages
    BY <2>1, <2>2 DEF Book, Faithful, Fit
  <2> QED
    BY <2>1, <2>2, <2>3, <2>4, <2>5, CacheFacts
<1>2. /\ After(c) \in Views /\ (After(c) = NoView <=> cache.groups = NoView)
      /\ After(c) # NoView => \A g \in Groups :
            \/ After(c)[g] = cache.groups[g]
            \/ c.kind = "group_ratio_change" /\ After(c)[g] = None
  BY <1>1, FilterFacts DEF After
<1>3. cache.groups = NoView => \A g \in Groups : told[t][g] = 0
  BY <1>1 DEF Stands
<1>4. ASSUME After(c) # NoView, NEW g \in Groups, chg[g] <= cache.gv
      PROVE  \/ After(c)[g] = site.groups[g]
             \/ c.kind = "group_ratio_change" /\ After(c)[g] = None
  <2>1. cache.groups[g] = site.groups[g]
    BY <1>1, <1>2, <1>4 DEF Faithful, Reading
  <2> QED
    BY <1>2, <1>4, <2>1
<1>5. ASSUME NEW g \in Look(c, j)
      PROVE  g \in Groups /\ chg[g] > told[t][g] /\ After(c) # NoView
  <2>1. PICK b, a : b = Before(c, j) /\ a = After(c)
    OBVIOUS
  <2>2. b # NoView /\ g \in Differ(c.kind, b, a)
    BY <1>5, <2>1 DEF Look, Names
  <2>3. g \in Groups
    BY <2>2 DEF Differ, Added, Removed, Changed, Known
  <2>4. /\ chg[g] \in Nat /\ told[t][g] \in Nat /\ told[t][g] <= cache.gv /\ cache.gv \in Nat
    BY <1>1, <2>3, CacheFacts DEF IInv, Ages
  <2>5. After(c) # NoView
    <3>1. CASE tasks[t].base # NoView
      BY <1>1, <1>2, <3>1 DEF Stands
    <3>2. CASE tasks[t].base = NoView
      <4>1. j.before.groups # NoView
        BY <1>1, <2>1, <2>2, <3>2, FilterFacts DEF Before
      <4> QED
        BY <1>1, <1>2, <4>1 DEF Honest
    <3> QED
      BY <3>1, <3>2
  <2>6. ASSUME chg[g] <= told[t][g] PROVE FALSE
    <3>1. \/ a[g] = site.groups[g]
          \/ c.kind = "group_ratio_change" /\ a[g] = None
      <4>1. chg[g] <= cache.gv
        BY <2>4, <2>6
      <4> QED
        BY <1>4, <2>1, <2>3, <2>5, <4>1
    <3>2. \/ b[g] = site.groups[g]
          \/ c.kind = "group_ratio_change" /\ b[g] = None
      <4>1. CASE tasks[t].base # NoView
        <5>1. b = tasks[t].base
          BY <2>1, <4>1 DEF Before
        <5>2. Shows(t, g)
          BY <1>1, <2>3, <2>6, <4>1 DEF Stands
        <5> QED
          BY <1>1, <5>1, <5>2 DEF Shows
      <4>2. CASE tasks[t].base = NoView
        <5>1. b = IF c.kind = "group_ratio_change" THEN Filter(j.before.groups, j.before.used)
                  ELSE j.before.groups
          BY <2>1, <4>2 DEF Before
        <5>2. j.before.groups # NoView
          BY <1>1, <2>2, <5>1, FilterFacts
        <5>3. chg[g] <= 0
          BY <1>1, <2>3, <2>6, <4>2 DEF Stands
        <5>4. j.before.groups[g] = site.groups[g]
          BY <1>1, <2>3, <5>2, <5>3 DEF Honest, Reading
        <5>5. Filter(j.before.groups, j.before.used)[g] \in {j.before.groups[g], None}
          BY <1>1, <2>3, <5>2, FilterFacts
        <5> QED
          BY <5>1, <5>4, <5>5
      <4> QED
        BY <4>1, <4>2
    <3>3. CASE c.kind = "group_ratio_change"
      <4>1. g \in Changed(b, a)
        BY <2>2, <3>3 DEF Differ
      <4>2. a[g] # None /\ b[g] # None /\ a[g] # b[g]
        BY <4>1 DEF Changed, Known
      <4> QED
        BY <3>1, <3>2, <4>2
    <3>4. CASE c.kind # "group_ratio_change"
      <4>1. g \in Added(b, a) \cup Removed(b, a)
        BY <2>2, <3>4 DEF Differ, GroupKinds
      <4>2. a[g] = b[g]
        BY <3>1, <3>2, <3>4
      <4> QED
        BY <4>1, <4>2 DEF Added, Removed, Known
    <3> QED
      BY <3>3, <3>4
  <2>7. chg[g] > told[t][g]
    BY <2>4, <2>6
  <2> QED
    BY <2>3, <2>5, <2>7
<1> QED
  BY <1>1, <1>2, <1>3, <1>4, <1>5

\* A task gets a new baseline.
LEMMA BaseFacts ==
  ASSUME Types, NEW t \in Tasks, NEW base \in Views, tasks' = [tasks EXCEPT ![t].base = base]
  PROVE  /\ tasks' \in [Tasks -> Task] /\ tasks'[t].base = base
         /\ \A u \in Tasks : tasks'[u].kind = tasks[u].kind
         /\ \A u \in Tasks \ {t} : tasks'[u].base = tasks[u].base
<1> DEFINE q == [tasks[t] EXCEPT !.base = base]
<1>1. tasks \in [Tasks -> Task] /\ tasks[t] \in Task
  BY DEF Types
<1>2. q \in Task /\ q.kind = tasks[t].kind /\ q.base = base
  BY <1>1 DEF Task
<1>3. tasks' = [tasks EXCEPT ![t] = q]
  BY <1>1
<1> HIDE DEF q
<1> QED
  BY <1>1, <1>2, <1>3

LEMMA EvaluateStep ==
  ASSUME IInv, NEW n \in Jobs, Evaluate(n)
  PROVE  IInv'
<1> DEFINE j == job[n]
           rest(c) == [j EXCEPT !.todo = j.todo \ {c}]
           loud(c) == [rest(c) EXCEPT !.cur = {c}, !.names = Look(c, j)]
<1>1. /\ Types /\ Jobbing /\ Book /\ \A m \in Jobs : Fit(job[m]) /\ job[m] \in Job
      /\ Working(job[n]) /\ Ages /\ tasks \in [Tasks -> Task] /\ cache.groups \in Views
  BY CacheFacts DEF IInv, Inner, Jobbing, Book, Types, Evaluate, At, Working
<1>2. UNCHANGED <<site, auth, ignored, cache, snaps, seeding, history>>
  BY DEF Evaluate
<1>3. CASE Abandon(n) /\ UNCHANGED tasks
  <2>1. Undisturbed
    BY <1>2, <1>3 DEF Undisturbed, history
  <2>2. Inner' /\ upsets' \in 0..MaxUpsets
    BY <1>1, <1>3, <2>1, AbandonQuietly
  <2>3. Types'
    BY <1>1, <1>2, <1>3, <2>2 DEF Types
  <2> QED
    BY <2>2, <2>3 DEF IInv
<1>4. ASSUME NEW c \in j.todo,
             tasks' = [tasks EXCEPT ![c.task].base = Kept(c, Look(c, j))],
             \/ Goto(n, loud(c), "alert")
             \/ Goto(n, rest(c), "evaluate")
             \/ Done(n),
             UNCHANGED upsets
      PROVE  IInv'
  <2> DEFINE t == c.task
  <2>1. c \in Copy /\ t \in Tasks /\ After(c) \in Views /\ Kept(c, Look(c, j)) \in Views
        /\ Look(c, j) \subseteq Groups
    <3>1. c \in Copy /\ t \in Tasks
      BY <1>1 DEF Job, Copy
    <3>2. After(c) \in Views
      BY <1>1, FilterFacts DEF After
    <3>3. Kept(c, Look(c, j)) \in Views
      BY <1>1, <3>1, <3>2 DEF Kept, Task
    <3>4. \A b, a : Differ(c.kind, b, a) \subseteq Groups
      BY DEF Differ, Added, Removed, Changed, Known
    <3> QED
      BY <3>1, <3>2, <3>3, <3>4 DEF Look, Names
  <2>2. /\ tasks' \in [Tasks -> Task] /\ tasks'[t].base = Kept(c, Look(c, j))
        /\ \A u \in Tasks : tasks'[u].kind = tasks[u].kind
        /\ \A u \in Tasks \ {t} : tasks'[u].base = tasks[u].base
    BY <1>1, <1>4, <2>1, BaseFacts
  <2>3. Types'
    BY <1>1, <1>2, <1>4, <2>2 DEF Types
  <2>4. /\ rest(c) \in Job /\ rest(c).todo = j.todo \ {c} /\ rest(c).cur = j.cur
        /\ rest(c).before = j.before /\ rest(c).got = j.got
        /\ loud(c) \in Job /\ loud(c).todo = j.todo \ {c} /\ loud(c).cur = {c}
        /\ loud(c).before = j.before /\ loud(c).got = j.got /\ loud(c).names = Look(c, j)
    <3>1. /\ rest(c) \in Job /\ rest(c).todo = j.todo \ {c} /\ rest(c).cur = j.cur
          /\ rest(c).before = j.before /\ rest(c).got = j.got
      BY <1>1 DEF Job
    <3> HIDE DEF rest
    <3> QED
      BY <2>1, <3>1 DEF Job
  <2> HIDE DEF rest, loud
  <2>5. Book'
    <3>1. Ages'
      BY <1>1, <1>2 DEF Ages, history
    <3>2. ASSUME ~misread PROVE Faithful'
      <4>1. Faithful
        BY <1>1, <3>2 DEF Book
      <4>2. ASSUME NEW u \in Tasks, u \notin edited PROVE Stands(u)'
        <5>1. Stands(u)
          BY <4>1, <4>2 DEF Faithful
        <5>2. CASE tasks'[u].base = tasks[u].base
          BY <1>2, <2>2, <5>1, <5>2 DEF Stands, Shows, history
        <5>3. CASE tasks'[u].base # tasks[u].base
          <6>1. u = t /\ c.kind \in GroupKinds /\ tasks'[t].base = After(c)
            BY <2>1, <2>2, <4>2, <5>3 DEF Kept
          <6>2. /\ c.kind = tasks[t].kind /\ (After(c) = NoView <=> cache.groups = NoView)
                /\ cache.groups = NoView => \A g \in Groups : told[t][g] = 0
                /\ After(c) # NoView => \A g \in Groups : chg[g] <= cache.gv =>
                      \/ After(c)[g] = site.groups[g]
                      \/ c.kind = "group_ratio_change" /\ After(c)[g] = None
            BY <3>2, <4>2, <6>1, LookFacts
          <6>3. ASSUME NEW g \in Groups, chg[g] <= told[t][g] PROVE chg[g] <= cache.gv
            <7>1. /\ chg[g] \in Nat /\ told[t][g] \in Nat /\ told[t][g] <= cache.gv
                  /\ cache.gv \in Nat
              BY <1>1, <2>1, CacheFacts DEF Ages
            <7> QED
              BY <6>3, <7>1
          <6>4. After(c) # NoView => \A g \in Groups : chg[g] <= told[t][g] => Shows(t, g)'
            BY <1>2, <2>1, <2>2, <6>1, <6>2, <6>3 DEF Shows, history
          <6> QED
            BY <1>2, <6>1, <6>2, <6>4 DEF Stands, history
        <5> QED
          BY <5>2, <5>3
      <4> QED
        BY <1>2, <4>1, <4>2 DEF Faithful, Reading, history
    <3> QED
      BY <1>2, <3>1, <3>2 DEF Book, history
  <2>6. ASSUME NEW m \in Jobs \ {n}, job'[m] = job[m] PROVE Fit(job[m])'
    <3>1. job[m].pc \in {"idle", "lock"}
      BY <1>1, OthersWait
    <3> QED
      BY <1>1, <1>2, <2>2, <2>6, <3>1, FitBetween DEF history
  <2>7. CASE Done(n)
    <3>1. Jobbing' /\ job'[n] = Idle /\ \A m \in Jobs \ {n} : job'[m] = job[m]
      BY <1>1, <2>7, IsOver
    <3>2. Fit(job[n])'
      BY <2>5, <3>1, FitOfIdle
    <3> QED
      BY <2>3, <2>5, <2>6, <3>1, <3>2 DEF IInv, Inner
  <2>8. CASE Goto(n, rest(c), "evaluate")
    <3>1. /\ Jobbing' /\ job'[n].pc = "evaluate" /\ job'[n].todo = j.todo \ {c}
          /\ job'[n].cur = j.cur /\ job'[n].before = j.before /\ job'[n].got = j.got
          /\ \A m \in Jobs \ {n} : job'[m] = job[m]
      <4>1. "evaluate" \in PCs
        BY DEF PCs
      <4> QED
        BY <1>1, <2>4, <2>8, <4>1, GotoFacts, GoesOn
    <3>2. Fit(job[n])'
      BY <1>1, <1>2, <2>2, <3>1, FitBetween DEF history
    <3> QED
      BY <2>3, <2>5, <2>6, <3>1, <3>2 DEF IInv, Inner
  <2>9. CASE Goto(n, loud(c), "alert")
    <3>1. /\ Jobbing' /\ job'[n].pc = "alert" /\ job'[n].todo = j.todo \ {c}
          /\ job'[n].cur = {c} /\ job'[n].before = j.before /\ job'[n].got = j.got
          /\ job'[n].names = Look(c, j)
          /\ \A m \in Jobs \ {n} : job'[m] = job[m]
      <4>1. "alert" \in PCs
        BY DEF PCs
      <4> QED
        BY <1>1, <2>4, <2>9, <4>1, GotoFacts, GoesOn
    <3>2. Young(job[n])'
      <4>1. Young(j) /\ \A d \in j.todo : d.task \in Tasks
        BY <1>1 DEF Fit, Job, Copy
      <4> QED
        BY <1>2, <2>2, <3>1, <4>1 DEF Young, history
    <3>3. ASSUME ~misread PROVE Honest(job[n])'
      <4>1. Honest(j)
        BY <1>1, <3>3 DEF Fit
      <4>2. ASSUME t \notin edited, NEW g \in Look(c, j)
            PROVE  /\ chg[g] > told[t][g] /\ tasks'[t].base # NoView
                   /\ chg[g] <= cache.gv => Shows(t, g)'
        <5>1. c.kind \in GroupKinds
          BY <4>2 DEF Look
        <5>2. tasks'[t].base = After(c)
          BY <2>2, <5>1 DEF Kept
        <5>3. /\ c.kind = tasks[t].kind /\ g \in Groups /\ chg[g] > told[t][g]
              /\ After(c) # NoView
              /\ chg[g] <= cache.gv => \/ After(c)[g] = site.groups[g]
                                       \/ c.kind = "group_ratio_change" /\ After(c)[g] = None
          BY <3>3, <4>2, <5>1, LookFacts
        <5> QED
          BY <1>2, <2>1, <2>2, <5>2, <5>3 DEF Shows
      <4> QED
        BY <1>2, <3>1, <4>1, <4>2 DEF Honest, Reading, history
    <3>4. Fit(job[n])'
      BY <1>2, <3>2, <3>3 DEF Fit, history
    <3> QED
      BY <2>3, <2>5, <2>6, <3>1, <3>4 DEF IInv, Inner
  <2> QED
    BY <1>4, <2>7, <2>8, <2>9
<1>5. \/ Abandon(n) /\ UNCHANGED tasks
      \/ \E c \in j.todo :
           /\ tasks' = [tasks EXCEPT ![c.task].base = Kept(c, Look(c, j))]
           /\ \/ Goto(n, loud(c), "alert")
              \/ Goto(n, rest(c), "evaluate")
              \/ Done(n)
           /\ UNCHANGED upsets
  BY DEF Evaluate, NextTask
<1> QED
  BY <1>3, <1>4, <1>5

\* A task whose cooldown begins.
LEMMA CooledFacts ==
  ASSUME Types, NEW t \in Tasks, NEW cooled \in BOOLEAN,
         tasks' = [tasks EXCEPT ![t].cooled = cooled]
  PROVE  /\ tasks' \in [Tasks -> Task]
         /\ \A u \in Tasks : tasks'[u].kind = tasks[u].kind /\ tasks'[u].base = tasks[u].base
<1> DEFINE q == [tasks[t] EXCEPT !.cooled = cooled]
<1>1. tasks \in [Tasks -> Task] /\ tasks[t] \in Task
  BY DEF Types
<1>2. q \in Task /\ q.kind = tasks[t].kind /\ q.base = tasks[t].base
  BY <1>1 DEF Task
<1>3. tasks' = [tasks EXCEPT ![t] = q]
  BY <1>1
<1> HIDE DEF q
<1> QED
  BY <1>1, <1>2, <1>3

LEMMA AlertStep ==
  ASSUME IInv, NEW n \in Jobs, Alert(n)
  PROVE  IInv'
<1> DEFINE j == job[n]
           q == [j EXCEPT !.cur = {}, !.names = {}]
<1>1. /\ Types /\ Jobbing /\ Book /\ \A m \in Jobs : Fit(job[m]) /\ job[m] \in Job
      /\ Working(job[n]) /\ j.pc = "alert" /\ Ages /\ tasks \in [Tasks -> Task]
      /\ told \in [Tasks -> [Groups -> Nat]] /\ cache.gv \in Nat
  BY CacheFacts DEF IInv, Inner, Jobbing, Book, Ages, Types, Alert, At, Working
<1>2. UNCHANGED <<site, auth, ignored, cache, snaps, seeding, ver, chg, edited, misread>>
  BY DEF Alert
<1>3. PICK c \in j.cur :
        /\ told' = [told EXCEPT ![c.task] = [g \in Groups |->
                      IF g \in j.names THEN cache.gv ELSE told[c.task][g]]]
        /\ wrong' = IF \E g \in j.names : chg[g] <= told[c.task][g]
                    THEN wrong \cup {c.task} ELSE wrong
        /\ \/ /\ tasks' = [tasks EXCEPT ![c.task].cooled = TRUE]
              /\ Goto(n, q, "evaluate") \/ Done(n)
              /\ UNCHANGED upsets
           \/ Abandon(n) /\ UNCHANGED tasks
  <2>1. /\ [job[n] EXCEPT !.cur = {}, !.names = {}] = q
    OBVIOUS
  <2>2. \E c \in j.cur :
        /\ told' = [told EXCEPT ![c.task] = [g \in Groups |->
                      IF g \in j.names THEN cache.gv ELSE @[g]]]
        /\ wrong' = IF \E g \in j.names : chg[g] <= told[c.task][g]
                    THEN wrong \cup {c.task} ELSE wrong
        /\ \/ /\ tasks' = [tasks EXCEPT ![c.task].cooled = TRUE]
              /\ Goto(n, q, "evaluate") \/ Done(n)
              /\ UNCHANGED upsets
           \/ Abandon(n) /\ UNCHANGED tasks
    BY Zenon DEF Alert, NextTask
  <2> QED
    BY <2>2
<1> DEFINE t == c.task
<1>4. t \in Tasks /\ j.names \subseteq Groups
  BY <1>1 DEF Job, Copy
<1>5. /\ q \in Job /\ q.todo = j.todo /\ q.cur = {} /\ q.before = j.before /\ q.got = j.got
  BY <1>1 DEF Job
<1> HIDE DEF q
<1>6. /\ tasks' \in [Tasks -> Task] /\ upsets' \in 0..MaxUpsets
      /\ \A u \in Tasks : tasks'[u].kind = tasks[u].kind /\ tasks'[u].base = tasks[u].base
  BY <1>1, <1>3, <1>4, CooledFacts, UpsetKept DEF Types, Abandon
<1>7. /\ told' \in [Tasks -> [Groups -> Nat]]
      /\ \A u \in Tasks, g \in Groups :
           told'[u][g] = IF u = t /\ g \in j.names THEN cache.gv ELSE told[u][g]
  BY <1>1, <1>3, <1>4
<1>8. Types'
  BY <1>1, <1>2, <1>6 DEF Types
<1>9. Book'
  <2>1. Ages'
    <3>1. \A u \in Tasks, g \in Groups : told'[u][g] <= cache.gv
      BY <1>1, <1>7 DEF Ages
    <3>2. wrong' \subseteq Tasks
      BY <1>1, <1>3, <1>4 DEF Ages
    <3> QED
      BY <1>1, <1>2, <1>7, <3>1, <3>2 DEF Ages
  <2>2. ASSUME ~misread PROVE Faithful'
    <3>1. Faithful /\ Honest(j)
      BY <1>1, <2>2 DEF Book, Fit
    <3>2. ASSUME t \notin edited, NEW g \in j.names
          PROVE  /\ chg[g] > told[t][g] /\ tasks[t].base # NoView
                 /\ chg[g] <= cache.gv => Shows(t, g)
      BY <1>1, <3>1, <3>2 DEF Honest
    <3>3. wrong' \subseteq edited
      <4>1. CASE t \in edited
        BY <1>3, <3>1, <4>1 DEF Faithful
      <4>2. CASE t \notin edited
        <5>1. ASSUME NEW g \in j.names PROVE ~(chg[g] <= told[t][g])
          <6>1. chg[g] > told[t][g] /\ chg[g] \in Nat /\ told[t][g] \in Nat
            BY <1>1, <1>4, <3>2, <4>2 DEF Ages
          <6> QED
            BY <6>1
        <5> QED
          BY <1>3, <3>1, <5>1 DEF Faithful
      <4> QED
        BY <4>1, <4>2
    <3>4. ASSUME NEW u \in Tasks, u \notin edited PROVE Stands(u)'
      <4>1. Stands(u)
        BY <3>1, <3>4 DEF Faithful
      <4>2. CASE tasks[u].base = NoView
        <5>1. \A g \in Groups : told'[u][g] = told[u][g]
          BY <1>7, <3>2, <3>4, <4>2
        <5> QED
          BY <1>6, <4>1, <4>2, <5>1 DEF Stands
      <4>3. CASE tasks[u].base # NoView
        <5>1. ASSUME NEW g \in Groups, chg[g] <= told'[u][g] PROVE Shows(u, g)
          <6>1. CASE u = t /\ g \in j.names
            BY <1>7, <3>2, <3>4, <5>1, <6>1
          <6>2. CASE ~(u = t /\ g \in j.names)
            BY <1>7, <4>1, <4>3, <5>1, <6>2 DEF Stands
          <6> QED
            BY <6>1, <6>2
        <5> QED
          BY <1>2, <1>6, <4>1, <4>3, <5>1 DEF Stands, Shows
      <4> QED
        BY <4>2, <4>3
    <3> QED
      BY <1>2, <3>1, <3>3, <3>4 DEF Faithful, Reading
  <2> QED
    BY <1>2, <2>1, <2>2 DEF Book
<1>10. ASSUME NEW m \in Jobs \ {n}, job'[m] = job[m] PROVE Fit(job[m])'
  <2>1. job[m].pc \in {"idle", "lock"}
    BY <1>1, OthersWait
  <2> QED
    BY <1>1, <1>2, <1>6, <1>10, <2>1, FitBetween
<1>11. CASE Done(n)
  <2>1. Jobbing' /\ job'[n] = Idle /\ \A m \in Jobs \ {n} : job'[m] = job[m]
    BY <1>1, <1>11, IsOver
  <2>2. Fit(job[n])'
    BY <1>9, <2>1, FitOfIdle
  <2> QED
    BY <1>8, <1>9, <1>10, <2>1, <2>2 DEF IInv, Inner
<1>12. CASE Goto(n, q, "evaluate")
  <2>1. /\ Jobbing' /\ job'[n].pc = "evaluate" /\ job'[n].todo = j.todo /\ job'[n].cur = {}
        /\ job'[n].before = j.before /\ job'[n].got = j.got
        /\ \A m \in Jobs \ {n} : job'[m] = job[m]
    <3>1. "evaluate" \in PCs
      BY DEF PCs
    <3> QED
      BY <1>1, <1>5, <1>12, <3>1, GotoFacts, GoesOn
  <2>2. Fit(job[n])'
    BY <1>1, <1>2, <1>6, <2>1, FitBetween
  <2> QED
    BY <1>8, <1>9, <1>10, <2>1, <2>2 DEF IInv, Inner
<1> QED
  BY <1>3, <1>11, <1>12 DEF Abandon

LEMMA AlertRefusedStep ==
  ASSUME IInv, NEW n \in Jobs, AlertRefused(n)
  PROVE  IInv'
<1> DEFINE j == job[n]
           rest(c) == [j EXCEPT !.todo = j.todo \ {c}]
<1>1. /\ Types /\ j \in Job /\ Working(j) /\ tasks \in [Tasks -> Task] /\ "refused" \in PCs
  BY DEF IInv, Inner, Jobbing, Types, AlertRefused, At, Working, PCs
<1>2. UNCHANGED <<site, auth, ignored, cache, snaps, seeding, history>>
  BY DEF AlertRefused
<1>3. PICK c \in j.todo :
        /\ \/ /\ tasks' = [tasks EXCEPT ![c.task].cooled = tasks[c.task].cooled \/ ~c.cooled]
              /\ UNCHANGED upsets
           \/ Upset /\ UNCHANGED tasks
        /\ Goto(n, rest(c), "refused") \/ Done(n)
  BY <1>1 DEF AlertRefused, Types
<1>4. /\ rest(c) \in Job /\ rest(c).todo \subseteq j.todo /\ rest(c).cur = j.cur
      /\ rest(c).before = j.before /\ rest(c).got = j.got
  BY <1>1 DEF Job
<1> HIDE DEF rest
<1>5. /\ tasks' \in [Tasks -> Task]
      /\ \A u \in Tasks : tasks'[u].kind = tasks[u].kind /\ tasks'[u].base = tasks[u].base
  <2>1. c.task \in Tasks /\ (tasks[c.task].cooled \/ ~c.cooled) \in BOOLEAN
    BY <1>1 DEF Job, Copy
  <2> QED
    BY <1>1, <1>3, <2>1, CooledFacts
<1>6. upsets' \in 0..MaxUpsets
  BY <1>1, <1>3, UpsetKept DEF Types
<1>7. Undisturbed
  BY <1>2, <1>5 DEF Undisturbed, history
<1>8. Inner'
  <2>1. CASE Done(n)
    BY <1>1, <1>7, <2>1, QuietDone
  <2>2. CASE Goto(n, rest(c), "refused")
    BY <1>1, <1>4, <1>7, <2>2, QuietGoes
  <2> QED
    BY <1>3, <2>1, <2>2
<1>9. Types'
  BY <1>1, <1>2, <1>5, <1>6 DEF Types
<1> QED
  BY <1>8, <1>9 DEF IInv

----------------------------------------------------------------------------
\* The invariant holds at the start and every step keeps it.

LEMMA InitSound ==
  ASSUME Init
  PROVE  IInv
<1>1. site \in Site /\ site.groups \in View
  <2>1. [Groups -> (Ratios \ {Default}) \cup {None}] \subseteq View
    BY DEF View
  <2> QED
    BY <2>1 DEF Init, Site
<1>2. /\ cache \in Cache /\ cache.gv = 0 /\ cache.tv = 0
      /\ cache.groups = NoView \/ cache.groups = site.groups
  <2>1. site.used \in SUBSET Groups /\ site.groups \in Views /\ NoView \in Views
    BY <1>1, NoViewIsNone DEF Site, Views
  <2> QED
    BY <2>1 DEF Init, Cache
<1>3. PICK plan \in Plans :
        tasks = [t \in Tasks |-> [on |-> TRUE, kind |-> plan[t], due |-> TRUE, cooled |-> FALSE,
                                  base |-> IF plan[t] \in GroupKinds THEN cache.groups ELSE NoView]]
  BY DEF Init
<1>4. /\ tasks \in [Tasks -> Task]
      /\ \A t \in Tasks : tasks[t].base = NoView \/ tasks[t].base = cache.groups
  <2>1. \A t \in Tasks : plan[t] \in Kinds
    BY ChannelMonitorAssumption
  <2>2. cache.groups \in Views /\ NoView \in Views
    BY <1>2, NoViewIsNone DEF Cache
  <2> QED
    BY <1>3, <2>1, <2>2 DEF Task
<1>5. Types
  <2>1. auth \in Auth
    BY DEF Init, Auth
  <2>2. 0 \in 0..MaxUpsets
    BY Bounds
  <2>3. DOMAIN seeding = {}
    BY DEF Init, NoSeed
  <2> QED
    BY <1>1, <1>2, <1>4, <2>1, <2>2, <2>3 DEF Init, Types
<1>6. /\ job = [n \in Jobs |-> Idle] /\ lock = "free" /\ "free" \notin Jobs
      /\ ver = 0 /\ chg = [g \in Groups |-> 0] /\ told = [t \in Tasks |-> [g \in Groups |-> 0]]
      /\ wrong = {} /\ edited = {} /\ misread = FALSE /\ DOMAIN seeding = {}
  BY DEF Init, Jobs, NoSeed
<1>7. Jobbing
  BY <1>6, IdleFacts DEF Jobbing
<1>8. Ages
  <2>1. /\ told \in [Tasks -> [Groups -> Nat]]
        /\ \A t \in Tasks, g \in Groups : told[t][g] = 0
    BY <1>6
  <2>2. chg \in [Groups -> Nat] /\ \A g \in Groups : chg[g] <= ver
    BY <1>6
  <2>3. \A t \in Tasks, g \in Groups : told[t][g] <= cache.gv
    BY <1>2, <2>1
  <2>4. ver \in Nat /\ cache.gv <= ver /\ cache.tv <= ver
    BY <1>2, <1>6
  <2>5. /\ wrong \subseteq Tasks /\ edited \subseteq Tasks /\ misread \in BOOLEAN
        /\ DOMAIN seeding \subseteq edited
    BY <1>6
  <2> QED
    BY <2>1, <2>2, <2>3, <2>4, <2>5, Zenon DEF Ages
<1>9. Faithful
  <2>1. \A t \in Tasks : Stands(t)
    BY <1>2, <1>4, <1>6 DEF Stands, Shows
  <2> QED
    BY <1>2, <1>6, <2>1 DEF Faithful, Reading
<1>10. \A n \in Jobs : Fit(job[n])
  BY <1>6, IdleFacts DEF Fit, Young, Honest
<1> QED
  BY <1>5, <1>7, <1>8, <1>9, <1>10 DEF IInv, Inner, Book

LEMMA StutterKeeps ==
  ASSUME IInv, UNCHANGED vars
  PROVE  IInv'
<1>1. Undisturbed /\ UNCHANGED <<job, lock>>
  BY DEF vars, history, Undisturbed
<1>2. Inner'
  BY <1>1, QuietWait
<1>3. Types'
  BY DEF IInv, Types, vars
<1> QED
  BY <1>2, <1>3 DEF IInv

LEMMA StepKeeps ==
  ASSUME IInv, NEW n \in Jobs, Step(n)
  PROVE  IInv'
<1>1. \/ Lock(n) \/ Mark(n) \/ AskBalance(n) \/ AskGroups(n) \/ AskTokens(n)
      \/ SaveGroups(n) \/ SaveTokens(n) \/ Synced(n) \/ MoveToken(n) \/ RereadTokens(n)
      \/ Evaluate(n) \/ Alert(n) \/ AlertRefused(n)
  BY Zenon DEF Step
<1> QED
  BY <1>1, LockStep, MarkStep, AskBalanceStep, AskGroupsStep, AskTokensStep, SaveGroupsStep,
     SaveTokensStep, SyncedStep, MoveTokenStep, RereadTokensStep, EvaluateStep, AlertStep,
     AlertRefusedStep

LEMMA NextKeeps ==
  ASSUME IInv, [Next]_vars
  PROVE  IInv'
<1>1. CASE \E n \in Jobs : Step(n)
  BY <1>1, StepKeeps
<1>2. CASE Pick
  BY <1>2, PickStep
<1>3. CASE \E work \in {"sync", "balance", "token"} : Ask(work)
  BY <1>3, AskStep
<1>4. CASE \E t \in Tasks : Edit(t) \/ SaveSeed(t) \/ ElapseInterval(t) \/ ElapseCooldown(t)
  BY <1>4, EditStep, SaveSeedStep, ElapseStep
<1>5. CASE SiteChanges
  BY <1>5, SiteStep
<1>6. CASE AuthChanges \/ Ignore \/ Age
  BY <1>6, EnvironmentStep
<1>7. CASE Crash
  BY <1>7, CrashStep
<1>8. CASE UNCHANGED vars
  BY <1>8, StutterKeeps
<1> QED
  BY <1>1, <1>2, <1>3, <1>4, <1>5, <1>6, <1>7, <1>8, Zenon DEF Next

LEMMA Inductive == Spec => []IInv
<1>1. Init => IInv
  BY InitSound
<1>2. IInv /\ [Next]_vars => IInv'
  BY NextKeeps
<1> QED
  BY <1>1, <1>2, PTL DEF Spec

----------------------------------------------------------------------------
\* The theorems.

\* The variables keep their types, and the jobs of one channel never run at the same time: whoever
\* is past the lock holds it, and every way out of a job gives it back (withChannelLock).
THEOREM TypeCorrect == Spec => []TypeOK
<1>1. IInv => TypeOK
  BY DEF IInv, Inner, Jobbing, Working, Types, TypeOK
<1> QED
  BY <1>1, Inductive, PTL

\* An alert names a group only if the group has changed on the site since the task last named it,
\* whatever fails and whenever the process stops, but for tasks an administrator edited and a
\* reading without the user's own ratios (syncChannelContext, evaluateGroupAlerts, recordAlert).
THEOREM NothingTwice == Spec => []AtMostOnce
<1>1. IInv => AtMostOnce
  BY DEF IInv, Inner, Book, Faithful, AtMostOnce
<1> QED
  BY <1>1, Inductive, PTL

\* A saved reading of the site is never replaced by an older one, whoever made it: what a job has
\* read and not saved is as new as the cache, because it holds the lock (syncChannelContext,
\* updateUpstreamTokenGroup).
THEOREM NeverOlder == Spec => NeverBackwards
<1>1. ASSUME IInv, [Next]_vars
      PROVE  [cache'.gv >= cache.gv /\ cache'.tv >= cache.tv]_cache
  <2>1. cache.gv \in Nat /\ cache.tv \in Nat /\ cache \in Cache
    BY <1>1, CacheFacts DEF IInv, Types
  <2>2. ASSUME NEW n \in Jobs, SaveGroups(n), cache' # cache
        PROVE  cache'.gv >= cache.gv /\ cache'.tv = cache.tv
    <3>1. Young(job[n]) /\ job[n] \in Job /\ job[n].pc = "saveGroups"
      BY <1>1, <2>2 DEF IInv, Inner, Jobbing, Fit, SaveGroups, At
    <3>2. cache.gv <= job[n].got.v /\ job[n].got.v \in Nat
      BY <3>1 DEF Young, Job
    <3>3. cache' = [cache EXCEPT !.groups = job[n].got.groups, !.gv = job[n].got.v]
      BY <2>2 DEF SaveGroups
    <3>4. cache'.gv = job[n].got.v /\ cache'.tv = cache.tv
      BY <2>1, <3>3 DEF Cache
    <3> QED
      BY <2>1, <3>2, <3>4
  <2>3. ASSUME NEW n \in Jobs, SaveTokens(n), cache' # cache
        PROVE  cache'.gv = cache.gv /\ cache'.tv >= cache.tv
    <3>1. Young(job[n]) /\ job[n] \in Job /\ job[n].pc = "saveTokens"
      BY <1>1, <2>3 DEF IInv, Inner, Jobbing, Fit, SaveTokens, At
    <3>2. cache.tv <= job[n].got.v /\ job[n].got.v \in Nat
      BY <3>1 DEF Young, Job
    <3>3. cache' = [cache EXCEPT !.used = job[n].got.used, !.tv = job[n].got.v]
      BY <2>3 DEF SaveTokens
    <3>4. cache'.tv = job[n].got.v /\ cache'.gv = cache.gv
      BY <2>1, <3>3 DEF Cache
    <3> QED
      BY <2>1, <3>2, <3>4
  <2>4. ASSUME NEW n \in Jobs, MoveToken(n), cache' # cache
        PROVE  cache'.gv = cache.gv /\ cache'.tv = cache.tv
    <3>1. PICK used : cache' = [cache EXCEPT !.used = used]
      BY <2>4 DEF MoveToken
    <3> QED
      BY <2>1, <3>1 DEF Cache
  <2>5. ASSUME NEW n \in Jobs, RereadTokens(n), cache' # cache
        PROVE  cache'.gv = cache.gv /\ cache'.tv >= cache.tv
    <3>1. cache' = [cache EXCEPT !.used = site.used, !.tv = ver]
      BY <2>5 DEF RereadTokens
    <3>2. cache'.gv = cache.gv /\ cache'.tv = ver
      BY <2>1, <3>1 DEF Cache
    <3>3. cache.tv <= ver /\ ver \in Nat
      BY <1>1 DEF IInv, Inner, Book, Ages
    <3> QED
      BY <2>1, <3>2, <3>3
  <2>6. \/ cache' = cache
        \/ \E n \in Jobs : SaveGroups(n) \/ SaveTokens(n) \/ MoveToken(n) \/ RereadTokens(n)
    <3>1. ASSUME NEW n \in Jobs, Step(n)
          PROVE  \/ cache' = cache
                 \/ SaveGroups(n) \/ SaveTokens(n) \/ MoveToken(n) \/ RereadTokens(n)
      BY <3>1 DEF Step, Lock, Mark, AskBalance, AskGroups, AskTokens, Synced, Evaluate, Alert,
                  AlertRefused
    <3>2. ASSUME \/ Pick \/ SiteChanges \/ AuthChanges \/ Ignore \/ Age \/ Crash
                 \/ UNCHANGED vars
                 \/ \E work \in {"sync", "balance", "token"} : Ask(work)
          PROVE  cache' = cache
      BY <3>2 DEF Pick, SiteChanges, AuthChanges, Ignore, Age, Crash, Ask, vars
    <3>3. ASSUME NEW t \in Tasks, Edit(t) \/ SaveSeed(t) \/ ElapseInterval(t) \/ ElapseCooldown(t)
          PROVE  cache' = cache
      BY <3>3 DEF Edit, SaveSeed, ElapseInterval, ElapseCooldown
    <3> QED
      BY <1>1, <3>1, <3>2, <3>3, Zenon DEF Next
  <2>7. cache.gv >= cache.gv /\ cache.tv >= cache.tv
    BY <2>1
  <2> QED
    BY <2>2, <2>3, <2>4, <2>5, <2>6, <2>7
<1> QED
  BY <1>1, Inductive, PTL DEF Spec, NeverBackwards
=============================================================================

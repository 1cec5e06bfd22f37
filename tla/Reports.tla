------------------------------ MODULE Reports ------------------------------
(***************************************************************************)
(* The scheduled reports (internal/reports, store/reports.go,              *)
(* store/scheduled_source.go, api/reports.go): every minute one goroutine  *)
(* looks at the usage report, the daily and the weekly report, in this     *)
(* order, and runs those that are due; an administrator may run one at any *)
(* time. A run queries the source of the report, sends what it found,      *)
(* records itself, and then updates the state of the report, in two saves. *)
(* One mutex, only ever tried, keeps the runs apart; the editors of the    *)
(* configuration do not take it, and those of the sources take none: each  *)
(* reads the catalogue of the sources, and later writes it whole.          *)
(*                                                                         *)
(* Time is counted in real hours; Calendar gives the local day and hour of *)
(* each, so that an hour may be missing or come twice where the clocks     *)
(* change. What a report says and how the messages fare are left out.      *)
(***************************************************************************)
EXTENDS Integers, FiniteSets, Sequences, FiniteSetsExt

CONSTANTS
  Calendar,   \* <<[day, hour], ...>>: the local time of each hour
  Week,       \* the days of a week
  Window,     \* the local hours in which the usage report may run
  Interval,   \* the hours between two runs of the usage report
  Editors,    \* the requests to change the sources that may overlap
  FirstEdit,  \* bound: the first hour in which such a request may come
  Schedules,  \* the [hour, weekday] an administrator may choose
  MaxUpsets   \* bound: failed saves, restarts and requests of administrators, those for
              \* the sources counting half

Global == 0                         \* the source that is always there; "source-<n>" is n
Never  == 0                         \* no instant
Hours  == {Calendar[t].hour : t \in DOMAIN Calendar}

ASSUME ReportsAssumption ==
  /\ Calendar \in Seq([day : Nat, hour : Nat]) /\ Calendar # <<>>
  /\ \A t, u \in DOMAIN Calendar : t <= u => Calendar[t].day <= Calendar[u].day
  /\ Week \in Nat \ {0} /\ Interval \in Nat \ {0}
  /\ Window \subseteq Hours
  /\ Schedules \subseteq [hour : Hours, weekday : 1..Week]
  /\ MaxUpsets \in Nat /\ FirstEdit \in Nat

Periodic == {"daily", "weekly"}
Types    == Periodic \cup {"usage"}
Instants == DOMAIN Calendar
Report   == [exists : BOOLEAN, on : BOOLEAN, hour : Hours, weekday : 1..Week,
             source : Nat, last : Instants \cup {Never}]
PCs      == {"idle", "try", "read", "create", "begin", "record", "update"}
Runner   == [pc : PCs, type : Types, at : Instants \cup {Never},
             checked : Instants \cup {Never}]
Runners  == {"scheduler", "admin"}
Draft    == [pc : {"idle", "usage", "periodic", "save"}, drops : Nat,
             new : [items : SUBSET Nat, next : Nat \ {0}]]

VARIABLES
  now,      \* the real hour
  rep,      \* table scheduled_reports: [Types -> Report]
  recorded, \* table scheduled_report_runs: the latest run recorded, [Types -> instant]
  catalogue,\* meta scheduled_report_source: the custom sources, and the next number
  mu,       \* runMu: who runs, or "free"
  runner,   \* [Runners -> Runner]
  saving,   \* the configuration an administrator's request is about to save, or NoSave
  draft,    \* [Editors -> Draft]: the catalogue a request will save, the source it deletes
  overtaken,\* history: the sources that a save of the catalogue may drop though in use
  upsets,   \* how many halves of MaxUpsets are used
  done      \* history: the latest run that reached the state of its report

vars == <<now, rep, recorded, catalogue, mu, runner, saving, draft, overtaken, upsets, done>>

Default == [exists |-> FALSE, on |-> FALSE, hour |-> Min(Hours), weekday |-> 1,
            source |-> Global, last |-> Never]
Closed  == [pc |-> "idle", drops |-> Global, new |-> [items |-> {}, next |-> 1]]
Idle    == [pc |-> "idle", type |-> "usage", at |-> Never, checked |-> Never]
NoSave  == [t \in {} |-> Default]
Spend(halves) == upsets + halves <= 2 * MaxUpsets /\ upsets' = upsets + halves
Upset   == Spend(2)

----------------------------------------------------------------------------
\* The schedule of the periodic reports (nextPeriodicRun): the same function
\* decides when a report runs and what the page shows.

Weekday(day)    == ((day - 1) % Week) + 1
Slot(t)         == <<Calendar[t].day, Calendar[t].hour>>
OnDay(type, r, t) == type = "daily" \/ Weekday(Calendar[t].day) = r.weekday

\* Mutant: the last run counts for the hour in which it began, not for its local hour.
ConsumedByInstant(r, t) == r.last = t
\* The last run was in this local hour of this day, the second of two included.
Consumed(r, t) == r.last # Never /\ Slot(r.last) = Slot(t)

\* Mutant: of two equal local hours the second is announced.
AnnouncedLate(t) == \A u \in Instants : Slot(u) = Slot(t) => u <= t
\* Of two equal local hours the first is announced.
Announced(t) == \A u \in Instants : Slot(u) = Slot(t) => u >= t

Possible(type, r, t) ==
  {u \in Instants : /\ u >= t /\ Calendar[u].hour = r.hour
                    /\ Calendar[u].day <= Calendar[t].day + 2 * Week
                    /\ OnDay(type, r, u) /\ ~Consumed(r, u)
                    /\ u = t \/ Announced(u)}
NextRun(type, r, t) ==
  LET runs == Possible(type, r, t) IN IF r.on /\ runs # {} THEN Min(runs) ELSE Never
Due(type, r) == IF type = "usage"
                THEN /\ r.exists /\ r.on /\ Calendar[now].hour \in Window
                     /\ r.last = Never \/ now - r.last >= Interval
                ELSE r.exists /\ NextRun(type, r, now) = now

\* The next run, as the page shows it.
Shown(type) == NextRun(type, rep[type], now)

----------------------------------------------------------------------------
\* The runs.

At(n, pc)   == runner[n].pc = pc
Goto(n, r)  == runner' = [runner EXCEPT ![n] = r]
\* The scheduler goes on with the next report, or waits for the next minute.
After(type) == IF type = "weekly" THEN Idle
               ELSE [Idle EXCEPT !.pc = "try",
                                 !.type = IF type = "usage" THEN "daily" ELSE "weekly"]
\* The run is over: the mutex is free, and the scheduler goes on.
Leave(n) == /\ mu' = "free"
            /\ Goto(n, IF n = "scheduler" THEN After(runner[n].type) ELSE Idle)

\* Every minute. The usage report is read, and found due or not, before the mutex is
\* tried for it.
Tick ==
  /\ At("scheduler", "idle")
  /\ Goto("scheduler", [Idle EXCEPT !.pc = "try",
                                    !.type = IF Due("usage", rep["usage"]) THEN "usage" ELSE "daily"])
  /\ UNCHANGED <<now, rep, recorded, catalogue, mu, saving, draft, overtaken, upsets, done>>

\* The mutex is tried. A periodic report is read, and found due or not, while it is held.
Try ==
  LET r   == runner["scheduler"]
      due == r.type = "usage" \/ Due(r.type, rep[r.type]) IN
  /\ At("scheduler", "try")
  /\ IF mu = "free" /\ due
     THEN /\ mu' = "scheduler"
          /\ Goto("scheduler", [Idle EXCEPT !.pc = "begin", !.type = r.type,
                                 !.checked = IF r.type = "usage" THEN Never ELSE now])
     ELSE Goto("scheduler", After(r.type)) /\ UNCHANGED mu
  /\ UNCHANGED <<now, rep, recorded, catalogue, saving, draft, overtaken, upsets, done>>

\* RunNow, RunPeriodicNow: refused while another run goes on.
RunNow(type) ==
  /\ Upset
  /\ At("admin", "idle") /\ mu = "free"
  /\ mu' = "admin"
  /\ Goto("admin", [Idle EXCEPT !.pc = "read", !.type = type])
  /\ UNCHANGED <<now, rep, recorded, catalogue, saving, draft, overtaken, done>>

\* periodicReports: what there is of the two reports. A weekly report that does not
\* exist yet, in an installation older than it, takes the source of the daily one.
PeriodicReports ==
  [t \in Periodic |-> IF rep[t].exists THEN rep[t]
                      ELSE [Default EXCEPT !.exists = TRUE, !.source = rep["daily"].source,
                                           !.hour = IF t = "daily" THEN Max(Hours) ELSE @]]

\* The reports once what is missing of the periodic ones is there.
Ensured == [t \in Types |-> IF t \in Periodic THEN PeriodicReports[t] ELSE rep[t]]

\* ensurePeriodicReport: what is missing of the two reports is saved, under the lock
\* of their editor. The usage report has no lock: its defaults overwrite what an
\* administrator has saved since it was read. A failed save ends the request.
ReadByHand ==
  LET r == runner["admin"]
      missing == IF r.type = "usage" THEN ~rep["usage"].exists
                 ELSE \E t \in Periodic : ~rep[t].exists IN
  /\ At("admin", "read")
  /\ r.type \in Periodic => DOMAIN saving # Periodic
  /\ \/ /\ rep' = IF missing /\ r.type \in Periodic THEN Ensured ELSE rep
        /\ Goto("admin", [r EXCEPT !.pc = IF missing /\ r.type = "usage" THEN "create" ELSE "begin"])
        /\ UNCHANGED <<mu, upsets>>
     \/ Upset /\ Leave("admin") /\ UNCHANGED rep
  /\ UNCHANGED <<now, recorded, catalogue, saving, draft, overtaken, done>>
CreateUsage ==
  /\ At("admin", "create")
  /\ \/ /\ rep' = [rep EXCEPT !["usage"] = [Default EXCEPT !.exists = TRUE,
                                                            !.last = rep["usage"].last]]
        /\ Goto("admin", [runner["admin"] EXCEPT !.pc = "begin"])
        /\ UNCHANGED <<mu, upsets>>
     \/ Upset /\ Leave("admin") /\ UNCHANGED rep
  /\ UNCHANGED <<now, recorded, catalogue, saving, draft, overtaken, done>>

\* The run takes its time, asks its source and sends what it found. Whatever fails,
\* there is a result, which is then recorded.
Take(n) ==
  /\ At(n, "begin")
  /\ Goto(n, [runner[n] EXCEPT !.pc = "record", !.at = now])
  /\ UNCHANGED <<now, rep, recorded, catalogue, mu, saving, draft, overtaken, upsets, done>>
Execute(n)      == runner[n].type = "usage" /\ Take(n)
ExecuteDaily(n) == runner[n].type \in Periodic /\ Take(n)

\* finish: the run is recorded first, then the state of the report.
Record(n) ==
  LET r == runner[n] IN
  /\ At(n, "record")
  /\ \/ /\ recorded' = [recorded EXCEPT ![r.type] = r.at]
        /\ Goto(n, [r EXCEPT !.pc = "update"])
        /\ UNCHANGED <<mu, upsets>>
     \/ Upset /\ Leave(n) /\ UNCHANGED recorded
  /\ UNCHANGED <<now, rep, catalogue, saving, draft, overtaken, done>>

Update(n) ==
  LET r == runner[n] IN
  /\ At(n, "update")
  /\ \/ /\ rep' = [rep EXCEPT ![r.type].last = r.at]
        /\ done' = [done EXCEPT ![r.type] = r.at]
        /\ UNCHANGED upsets
     \/ Upset /\ UNCHANGED <<rep, done>>
  /\ Leave(n)
  /\ UNCHANGED <<now, recorded, catalogue, saving, draft, overtaken>>

----------------------------------------------------------------------------
\* The editors of the reports. A configuration is checked against the sources that
\* exist, then saved. What a save leaves alone is the state of the report.

\* Mutant: the periodic reports are saved one after the other, and the second save fails.
SavedOne(new) == [t \in Types |-> IF t \in DOMAIN new \ {"weekly"}
                                  THEN [new[t] EXCEPT !.last = rep[t].last] ELSE rep[t]]
\* SaveScheduledReportConfigs: one transaction.
Saved(new) == [t \in Types |-> IF t \in DOMAIN new THEN [new[t] EXCEPT !.last = rep[t].last]
                               ELSE rep[t]]

Valid      == catalogue.items \cup {Global}
\* Whatever a request changes, the source that it names is looked up.
Saves(new) == /\ saving = NoSave /\ Upset
              /\ \A t \in DOMAIN new : new[t].source \in Valid
              /\ saving' = new
Changed(type, on, s) ==
  LET r == [PeriodicReports[type] EXCEPT !.on = on, !.hour = s.hour] IN
  [PeriodicReports EXCEPT ![type] =
     IF type = "weekly" THEN [r EXCEPT !.weekday = s.weekday] ELSE r]
\* A request carries both schedules and the source, as the page shows them: one of
\* them is changed.
SavePeriodic ==
  /\ \/ \E type \in Periodic, s \in Schedules : Saves(Changed(type, TRUE, s))
     \/ \E type \in Periodic : Saves([PeriodicReports EXCEPT ![type].on = FALSE])
     \/ \E source \in Valid :
          Saves([t \in Periodic |-> [PeriodicReports[t] EXCEPT !.source = source]])
  /\ UNCHANGED <<now, rep, recorded, catalogue, mu, runner, draft, overtaken, done>>
SaveUsage ==
  /\ \E source \in Valid, on \in BOOLEAN :
       Saves([t \in {"usage"} |-> [rep[t] EXCEPT !.exists = TRUE, !.on = on,
                                                 !.source = source]])
  /\ UNCHANGED <<now, rep, recorded, catalogue, mu, runner, draft, overtaken, done>>
\* A deletion has looked at this report, and found another source.
Looked(e, t) == draft[e].pc \in (IF t = "usage" THEN {"periodic", "save"} ELSE {"save"})
\* The sources named by a save that the look of a deletion at their users comes too
\* early for.
Missed(new) ==
  {new[t].source : t \in DOMAIN new} \cap
    {draft[e].drops : e \in {f \in Editors : \E t \in DOMAIN new : Looked(f, t)}}
CommitSave ==
  /\ saving # NoSave
  /\ rep' = Saved(saving)
  /\ saving' = NoSave
  /\ overtaken' = overtaken \cup Missed(saving)
  /\ UNCHANGED <<now, recorded, catalogue, mu, runner, draft, upsets, done>>

----------------------------------------------------------------------------
\* The editors of the sources. Nothing keeps them apart from each other, or from
\* those of the reports: the catalogue that is saved is the one that was read, with
\* the change.

Stage(e, d)  == /\ draft' = [draft EXCEPT ![e] = d]
                /\ UNCHANGED <<now, rep, recorded, mu, runner, saving, done>>
Open(e, d)   == /\ now >= FirstEdit /\ draft[e] = Closed /\ Spend(1)
                /\ Stage(e, d) /\ UNCHANGED <<catalogue, overtaken>>
\* nextSourceID: the next number of the copy that was read; all its sources are below it.
AddSource(e) ==
  LET id == catalogue.next IN
  Open(e, [pc |-> "save", drops |-> Global,
           new |-> [items |-> catalogue.items \cup {id}, next |-> id + 1]])
\* The address or the credential of a source, or the source of the old clients.
ChangeSource(e) == Open(e, [pc |-> "save", drops |-> Global, new |-> catalogue])
DeleteSource(e) ==
  \E s \in catalogue.items :
    Open(e, [pc |-> "usage", drops |-> s, new |-> [catalogue EXCEPT !.items = @ \ {s}]])

Uses(t, s) == rep[t].exists /\ rep[t].source = s
\* Mutant: the periodic reports are not looked at.
UsedByUsage(e) == draft[e].pc = "usage" /\ Uses("usage", draft[e].drops)
\* sourceUsedBy: the usage report is looked at first, then the periodic ones.
UsedBy(e) == \E t \in IF draft[e].pc = "usage" THEN {"usage"} ELSE Periodic :
               Uses(t, draft[e].drops)
\* A source in use is kept.
Look(e) ==
  /\ draft[e].pc \in {"usage", "periodic"}
  /\ Stage(e, IF UsedBy(e) THEN Closed
              ELSE [draft[e] EXCEPT !.pc = IF @ = "usage" THEN "periodic" ELSE "save"])
  /\ UNCHANGED <<catalogue, overtaken, upsets>>

\* SaveScheduledReportSources. Besides the source it deletes, a save drops those that
\* the catalogue has got since it was read.
SaveSources(e) ==
  LET d    == draft[e]
      lost == catalogue.items \ d.new.items IN
  /\ d.pc = "save"
  /\ \/ /\ catalogue' = d.new
        /\ overtaken' = overtaken \cup
             {s \in lost : s # d.drops \/ \E t \in DOMAIN saving : saving[t].source = s}
        /\ UNCHANGED upsets
     \/ Upset /\ UNCHANGED <<catalogue, overtaken>>
  /\ Stage(e, Closed)

----------------------------------------------------------------------------
\* Time passes, also during a run. A run looks at it only once more, when it begins,
\* and the scheduler's next look comes with the next minute: it may as well pass then.
Looks == At("scheduler", "idle") \/ \E n \in Runners : At(n, "begin")
Pass ==
  /\ Looks
  /\ now < Len(Calendar) /\ now' = now + 1
  /\ UNCHANGED <<rep, recorded, catalogue, mu, runner, saving, draft, overtaken, upsets, done>>
Restart ==
  /\ Upset
  /\ mu' = "free" /\ runner' = [n \in Runners |-> Idle] /\ saving' = NoSave
  /\ draft' = [e \in Editors |-> Closed]
  /\ UNCHANGED <<now, rep, recorded, catalogue, overtaken, done>>

\* A new installation, one with both periodic reports switched on, or one that is
\* older than the weekly report.
Configured(r, s) == [r EXCEPT !.exists = TRUE, !.on = TRUE, !.hour = s.hour, !.weekday = s.weekday]
Init ==
  /\ now = 1
  /\ catalogue \in {[items |-> {}, next |-> 1], [items |-> {1}, next |-> 2]}
  /\ \/ rep = [t \in Types |-> Default]
     \/ \E s \in Schedules :
          rep = [t \in Types |-> IF t \in Periodic THEN Configured(Default, s) ELSE Default]
     \/ \E s \in Schedules, source \in catalogue.items :
          rep = [t \in Types |-> IF t = "daily"
                                 THEN [Configured(Default, s) EXCEPT !.source = source]
                                 ELSE Default]
  /\ recorded = [t \in Types |-> Never] /\ mu = "free"
  /\ runner = [n \in Runners |-> Idle] /\ draft = [e \in Editors |-> Closed]
  /\ saving = NoSave /\ overtaken = {} /\ upsets = 0 /\ done = [t \in Types |-> Never]

Next ==
  \/ Tick \/ Try \/ ReadByHand \/ CreateUsage
  \/ \E n \in Runners : Execute(n) \/ ExecuteDaily(n) \/ Record(n) \/ Update(n)
  \/ \E type \in Types : RunNow(type)
  \/ SavePeriodic \/ SaveUsage \/ CommitSave
  \/ \E e \in Editors : \/ AddSource(e) \/ ChangeSource(e) \/ DeleteSource(e)
                       \/ Look(e) \/ SaveSources(e)
  \/ Pass \/ Restart

Spec == Init /\ [][Next]_vars

----------------------------------------------------------------------------
\* Properties.

\* The numbers of the sources are below the next one.
Numbered(c) == c.items \subseteq 1..(c.next - 1)
TypeOK ==
  /\ now \in Instants /\ rep \in [Types -> Report]
  /\ recorded \in [Types -> Instants \cup {Never}]
  /\ catalogue \in [items : SUBSET Nat, next : Nat \ {0}] /\ Numbered(catalogue)
  /\ draft \in [Editors -> Draft] /\ \A e \in Editors : Numbered(draft[e].new)
  /\ overtaken \subseteq Nat
  /\ mu \in Runners \cup {"free"} /\ runner \in [Runners -> Runner]
  /\ DOMAIN saving \subseteq Types /\ \A t \in DOMAIN saving : saving[t] \in Report
  /\ upsets \in 0..(2 * MaxUpsets) /\ done \in [Types -> Instants \cup {Never}]

\* The variables keep their types, only one run goes on at a time, the periodic
\* reports share their source whatever fails, the last run that a report shows has
\* its record, and no report names a source that does not exist, except one that was
\* deleted between the look at it and the save of it in a report, or chosen for a report
\* after the deletion had looked at that report's source, or was lost to a catalogue
\* written back as it had been read before. So no deletion by itself drops a source in use.
Consistent ==
  /\ TypeOK
  /\ \A n \in Runners : mu = n <=> runner[n].pc \notin {"idle", "try"}
  /\ rep["weekly"].exists => rep["daily"].exists /\ rep["daily"].source = rep["weekly"].source
  /\ \A t \in Types : /\ rep[t].last <= recorded[t]
                      /\ rep[t].source \in Valid \cup overtaken

\* A daily or weekly report with a run in a local hour, by the schedule or by hand,
\* that has reached the state of the report is not run by the schedule in that hour
\* again, not even where the clocks are put back and the hour comes twice.
OncePerSlot ==
  LET r == runner["scheduler"] IN
  r.checked # Never /\ done[r.type] # Never => Slot(done[r.type]) # Slot(r.checked)

\* What the clocks of a place do: a local hour that comes twice comes twice in a row, and no
\* hour of a weekday is left out two weeks running.
RealClocks ==
  /\ \A t, u, v \in Instants : t <= u /\ u <= v /\ Slot(t) = Slot(v) => Slot(u) = Slot(t)
  /\ \A t, u \in Instants, hour \in Hours, weekday \in 1..Week :
       Calendar[t].day + 2 * Week < Calendar[u].day =>
         \E v \in Instants : /\ Calendar[t].day < Calendar[v].day
                             /\ Calendar[v].day <= Calendar[t].day + 2 * Week
                             /\ Calendar[v].hour = hour /\ Weekday(Calendar[v].day) = weekday

\* The next run that the page shows is the first hour in which the scheduler finds
\* the report due, if nothing happens until then: across days without the hour,
\* days with two of them, and weeks.
NextAgrees ==
  \A t \in Periodic :
    LET found == {u \in Instants : u >= now /\ NextRun(t, rep[t], u) = u} IN
    Shown(t) = IF found = {} THEN Never ELSE Min(found)
=============================================================================

----------------------------- MODULE ModelCheck -----------------------------
(***************************************************************************)
(* The model checks (backend/internal/modelcheck, api/modelcheck.go,       *)
(* store/modelcheck.go). A run fetches a channel's credentials and sends   *)
(* it a few challenges, each a streamed request with retries, and stores a *)
(* verdict on the model behind it. The scheduler runs the due targets one  *)
(* after the other; an administrator may start a run of any configured     *)
(* target. A reservation in memory keeps two runs of one account and model *)
(* apart. The settings, the clock and the catalogue change at any time,    *)
(* a save can fail, and the process can crash between any two steps.       *)
(***************************************************************************)
EXTENDS Integers, Sequences, FiniteSets

CONSTANTS
  Keys,        \* the account and model pairs
  Targets,     \* the targets: [key, expected], expected = "" without an expected model
  Hands,       \* the goroutines of administrators' runs
  Proto,       \* [Keys -> Protocols]: the protocol the first request of a run uses
  Challenges,  \* challenges of a run (3 in the code)
  Retries,     \* retries of a request (3 in the code)
  Streams,     \* the streamed answers of a channel: sequences of events, see Read
  MaxRuns,     \* bound: runs ever recorded
  MaxUpsets    \* bound: changes of the settings, the quiet period and the catalogue,
               \* failures of the database, expired runs and crashes

Sched == "scheduler"
Workers == Hands \cup {Sched}
Protocols == {"chat", "messages", "responses"}
Events == {"text", "stop", "cut", "end", "error"}
Bodies == {"done", "other", "cut", "error"}     \* answers that are no streams, see ReadBody

ASSUME ModelCheckAssumption ==
  /\ "" \notin Keys /\ IsFiniteSet(Hands)
  /\ Targets \subseteq [key : Keys, expected : STRING] /\ Targets # {}
  /\ Proto \in [Keys -> Protocols]
  /\ Sched \notin Hands
  /\ Challenges \in Nat \ {0} /\ Retries \in Nat /\ MaxRuns \in Nat /\ MaxUpsets \in Nat
  /\ Streams \subseteq Seq(Events)

NoTarget == [key |-> "", expected |-> ""]
Verdicts == {"consistent", "suspected", "inconclusive", "unverified"}
Statuses == {"running", "error", "interrupted"} \cup Verdicts
Run == [key : Keys, expected : STRING, status : Statuses, valid : 0..Challenges]

\* "next": the scheduler between two targets; "reserve": before begin();
\* "last": reserved, before the last run is read; "create": before the run is
\* recorded; "check": about to check and save the progress of an attempt;
\* "send", "resend": about to make a request, or the one of the fallback;
\* "finish": about to save the result.
PCs == {"idle", "next", "reserve", "last", "create", "check", "send", "resend", "finish", "gone"}
Errors == {"none", "failed", "paused"}

Worker == [pc : PCs, target : Targets \cup {NoTarget}, row : 0..MaxRuns,
           step : 0..Challenges,  \* 0: the credentials
           tries : 0..Retries, valid : 0..Challenges,
           proto : Protocols, fellback : BOOLEAN, err : Errors,
           late : 0..2]           \* history: requests made against the settings since a check

VARIABLES
  proc,      \* "down", "up", "closing" (Stop has been called)
  enabled,   \* settings.Enabled
  quiet,     \* the clock is in the quiet period
  targets,   \* settings.Targets
  usable,    \* keys whose account exists, has an API key and is in its group
  running,   \* [Keys -> Targets \cup {NoTarget}]: Manager.running
  worker,    \* [Workers -> Worker]
  todo,      \* the targets the scheduler's pass has still to look at
  rows,      \* table model_check_runs
  fresh,     \* keys whose last run started less than the interval ago
  upsets,    \* how much of MaxUpsets is used
  unfinished \* history: an answer that had not finished, as far as its form tells (Whole,
             \* Unrefused), was counted as an output

envVars == <<enabled, quiet, targets, usable>>
vars    == <<proc, enabled, quiet, targets, usable, running, worker, todo, rows, fresh,
             upsets, unfinished>>

Upset == upsets < MaxUpsets /\ upsets' = upsets + 1

Idle == [pc |-> "idle", target |-> NoTarget, row |-> 0, step |-> 0, tries |-> 0, valid |-> 0,
         proto |-> "chat", fellback |-> FALSE, err |-> "none", late |-> 0]

Configurable == {T \in SUBSET Targets : \A t, u \in T : t.key = u.key => t = u}

----------------------------------------------------------------------------
\* Reading an answer (readStreamOutput): the events up to the first one that
\* decides. "stop" is the model's own end of the text, "cut" a truncation, a
\* filter or a refusal, "end" the protocol's last event.

Decides(p, s, i) ==
  \/ s[i] \in {"error", "cut"}
  \/ s[i] = "end"
  \/ p = "responses" /\ s[i] = "stop"
Stopped(s, i) == \E j \in 1..i : s[j] = "stop"
First(p, s)   == CHOOSE i \in 1..Len(s) : /\ Decides(p, s, i)
                                          /\ \A j \in 1..(i - 1) : ~Decides(p, s, j)
Decided(p, s) == \E i \in 1..Len(s) : Decides(p, s, i)

\* Mutant: the protocol's last event is enough, whether or not the model stopped.
ReadToEnd(p, s) ==
  IF ~Decided(p, s)
  THEN IF p = "chat" /\ Stopped(s, Len(s)) THEN "output" ELSE "failed"
  ELSE LET e == s[First(p, s)] IN
       IF e = "error" THEN "failed"
       ELSE IF e = "cut" THEN "invalid"
       ELSE IF e = "stop" \/ p # "responses" THEN "output"
       ELSE "failed"

Read(p, s) ==
  IF ~Decided(p, s)
  THEN IF p = "chat" /\ Stopped(s, Len(s)) THEN "output" ELSE "failed"
  ELSE LET e == s[First(p, s)] IN
       IF e = "error" THEN "failed"
       ELSE IF e = "cut" THEN "invalid"
       ELSE IF e = "stop" \/ (p # "responses" /\ Stopped(s, First(p, s))) THEN "output"
       ELSE "failed"

\* The answer is the model's whole output: it stopped by itself, nothing cut
\* or broke it first, and the events that only a protocol's end carries arrived.
Whole(p, s) ==
  \E i \in 1..Len(s) :
     /\ s[i] = "stop"
     /\ \A j \in 1..i : s[j] \in {"text", "stop"}
     /\ p = "messages" => \E j \in i..Len(s) : s[j] = "end"
                             /\ \A n \in i..j : s[n] \notin {"cut", "error"}

\* Some gateways ignore stream = true and send one complete JSON body. "cut" is one that names
\* a limit, a filter or a refusal (stop_reason max_tokens or refusal, status incomplete,
\* finish_reason length or content_filter), "error" one that is an error or no JSON at all.
\* Unlike the stream's reader this one asks for no sign of the model's own end: "other" is a
\* body without one, or with a reason it does not know (tool_calls, pause_turn, in_progress).
ReadBody(b) == CASE b \in {"done", "other"} -> "output"
                 [] b = "cut" -> "invalid"
                 [] b = "error" -> "failed"
Unrefused(b) == b \notin {"cut", "error"}

Fallback(p) == IF p = "messages" THEN "chat" ELSE "responses"

\* What the probabilities say (classify), p the one of the expected model.
Verdict(expected, p) ==
  IF expected = "" \/ p = "absent" THEN "unverified"
  ELSE IF p = "high" THEN "consistent"
  ELSE IF p = "low" THEN "suspected"
  ELSE "inconclusive"

----------------------------------------------------------------------------
\* checkRunAllowed: nothing at all once the service stops; a scheduled run
\* needs the settings to want it still.

Wanted(t)  == enabled /\ ~quiet /\ t \in targets
Allowed(w) == proc = "up" /\ (w = Sched => Wanted(worker[w].target))
Refusal(w) == IF proc = "up" THEN "paused" ELSE "failed"

To(w, rec) == worker' = [worker EXCEPT ![w] = rec]
At(w, pc)  == proc # "down" /\ worker[w].pc = pc

\* A scheduled run that has ended hands back to the scheduler's pass, which
\* an error ends.
Return(w, ok) == IF w # Sched \/ ~ok THEN Idle ELSE [Idle EXCEPT !.pc = "next"]
PassOver(w, ok) == todo' = IF w = Sched /\ ~ok THEN {} ELSE todo

\* end: the reservation is given back, and the goroutine is over.
End(w, ok) ==
  /\ running' = [running EXCEPT ![worker[w].target.key] = NoTarget]
  /\ To(w, Return(w, ok))
  /\ PassOver(w, ok)

\* What the rest of the run needs no more is forgotten.
Failed(r, e) == [Idle EXCEPT !.pc = "finish", !.target = r.target, !.row = r.row,
                             !.valid = r.valid, !.late = r.late, !.err = e]
NextStep(r)  == IF r.step = Challenges
                THEN Failed(r, "none")
                ELSE [r EXCEPT !.pc = "check", !.step = @ + 1, !.tries = 0]

\* Mutant: a repeated request is not checked against the settings again.
AfterFailureBlindly(w, r, short) ==
  IF proc # "up" THEN Failed(r, "failed")
  ELSE IF r.tries = Retries
       THEN IF short THEN NextStep(r) ELSE Failed(r, "failed")
  ELSE [r EXCEPT !.pc = "send", !.tries = @ + 1]

\* What follows a failed attempt: the last one fails the run, or, for an
\* answer with too few numbers, only the challenge; another is repeated after
\* a wait, if the run may go on.
AfterFailure(w, r, short) ==
  IF proc # "up" THEN Failed(r, "failed")
  ELSE IF r.tries = Retries
       THEN IF short THEN NextStep(r) ELSE Failed(r, "failed")
  ELSE IF ~Allowed(w) THEN Failed(r, "paused")
  ELSE [r EXCEPT !.pc = "check", !.tries = @ + 1]

Asked(w, r) == [r EXCEPT !.late = IF w = Sched /\ ~Wanted(r.target) THEN @ + 1 ELSE 0]

----------------------------------------------------------------------------
\* The environment: the administrator saves the settings (every target must
\* be valid), the clock passes, the catalogue changes, the interval of a
\* target's last run ends.

SaveSettings ==
  /\ Upset
  /\ \E T \in Configurable, on \in BOOLEAN :
        /\ \A t \in T : t.key \in usable
        /\ on => T # {}
        /\ targets' = T /\ enabled' = on
  /\ UNCHANGED <<proc, quiet, usable, running, worker, todo, rows, fresh, unfinished>>

Clock ==
  /\ Upset
  /\ quiet' = ~quiet
  /\ UNCHANGED <<proc, enabled, targets, usable, running, worker, todo, rows, fresh, unfinished>>

Catalogue ==
  /\ Upset
  /\ \E k \in Keys : usable' = IF k \in usable THEN usable \ {k} ELSE usable \cup {k}
  /\ UNCHANGED <<proc, enabled, quiet, targets, running, worker, todo, rows, fresh, unfinished>>

Elapse ==
  /\ \E k \in fresh : fresh' = fresh \ {k}
  /\ UNCHANGED <<proc, envVars, upsets, running, worker, todo, rows, unfinished>>

----------------------------------------------------------------------------
\* The process: Start interrupts the records a former process left running,
\* before the first run; without that there is no scheduler, but the panel
\* still takes runs. Stop cancels the runs and waits for them.

Interrupt(r) == [i \in 1..Len(r) |->
                   IF r[i].status = "running" THEN [r[i] EXCEPT !.status = "interrupted"]
                   ELSE r[i]]

Start ==
  /\ proc = "down"
  /\ proc' = "up"
  /\ \/ rows' = Interrupt(rows) /\ UNCHANGED <<worker, upsets>>
     \/ rows' = rows /\ To(Sched, [Idle EXCEPT !.pc = "gone"]) /\ Upset
  /\ UNCHANGED <<envVars, running, todo, fresh, unfinished>>

Stop ==
  /\ proc = "up"
  /\ proc' = "closing"
  /\ UNCHANGED <<envVars, upsets, running, worker, todo, rows, fresh, unfinished>>

\* The scheduler's loop and every goroutine that has passed begin are over.
Over(w) == worker[w].pc \in {"idle", "gone"} \/ (w # Sched /\ worker[w].pc = "reserve")

Halt ==
  /\ proc' = "down"
  /\ worker' = [w \in Workers |-> Idle]
  /\ running' = [k \in Keys |-> NoTarget]
  /\ todo' = {}
  /\ UNCHANGED <<envVars, rows, fresh, unfinished>>

\* wg.Wait has returned.
Exit  == proc = "closing" /\ (\A w \in Workers : Over(w)) /\ Halt /\ UNCHANGED upsets
Crash == proc # "down" /\ Halt /\ Upset

----------------------------------------------------------------------------
\* Scheduling: runDue and RunNow.

Before == {w \in Workers : worker[w].pc \in {"reserve", "last", "create"}}
Room   == Len(rows) + Cardinality(Before) < MaxRuns     \* bound

RunDue ==
  /\ At(Sched, "idle")
  /\ proc = "up" /\ enabled /\ ~quiet
  /\ todo' = targets
  /\ To(Sched, [Idle EXCEPT !.pc = "next"])
  /\ UNCHANGED <<proc, envVars, upsets, running, rows, fresh, unfinished>>

NextTarget ==
  /\ At(Sched, "next")
  /\ \/ /\ ~(proc = "up" /\ enabled /\ ~quiet /\ todo # {} /\ Room)
        /\ todo' = {}
        /\ To(Sched, Idle)
        /\ UNCHANGED upsets
     \/ /\ proc = "up" /\ enabled /\ ~quiet /\ Room
        /\ \E t \in todo :
              /\ todo' = todo \ {t}
              /\ IF t \in targets THEN To(Sched, [Idle EXCEPT !.pc = "reserve", !.target = t])
                 ELSE UNCHANGED worker
        /\ UNCHANGED upsets
     \/ todo' = {} /\ To(Sched, Idle) /\ Upset      \* the settings cannot be read
  /\ UNCHANGED <<proc, envVars, running, rows, fresh, unfinished>>

RunNow(w) ==
  /\ At(w, "idle")
  /\ Room
  /\ \E t \in targets :
        /\ t.key \in usable
        /\ To(w, [Idle EXCEPT !.pc = "reserve", !.target = t])
  /\ UNCHANGED <<proc, envVars, upsets, running, todo, rows, fresh, unfinished>>

\* Mutant: the scheduler looks at the reservations and does not make one.
ReserveNot(w) ==
  LET t == worker[w].target IN
  /\ At(w, "reserve")
  /\ \/ /\ proc = "up" /\ running[t.key] = NoTarget
        /\ running' = IF w = Sched THEN running ELSE [running EXCEPT ![t.key] = t]
        /\ To(w, [worker[w] EXCEPT !.pc = IF w = Sched THEN "last" ELSE "create",
                                   !.proto = Proto[t.key]])
        /\ UNCHANGED todo
     \/ /\ proc # "up" \/ running[t.key] # NoTarget
        /\ To(w, Return(w, proc = "up"))
        /\ PassOver(w, proc = "up")
        /\ UNCHANGED running
  /\ UNCHANGED <<proc, envVars, upsets, rows, fresh, unfinished>>

\* Mutant: the reservation is of the whole target, and not of its account and model.
ReserveByTarget(w) ==
  LET t == worker[w].target IN
  /\ At(w, "reserve")
  /\ \/ /\ proc = "up" /\ running[t.key] # t
        /\ running' = [running EXCEPT ![t.key] = t]
        /\ To(w, [worker[w] EXCEPT !.pc = IF w = Sched THEN "last" ELSE "create",
                                   !.proto = Proto[t.key]])
        /\ UNCHANGED todo
     \/ /\ proc # "up" \/ running[t.key] = t
        /\ To(w, Return(w, proc = "up"))
        /\ PassOver(w, proc = "up")
        /\ UNCHANGED running
  /\ UNCHANGED <<proc, envVars, upsets, rows, fresh, unfinished>>

\* begin: refused when the service stops or the target is being checked.
Reserve(w) ==
  LET t == worker[w].target IN
  /\ At(w, "reserve")
  /\ \/ /\ proc = "up" /\ running[t.key] = NoTarget
        /\ running' = [running EXCEPT ![t.key] = t]
        /\ To(w, [worker[w] EXCEPT !.pc = IF w = Sched THEN "last" ELSE "create",
                                   !.proto = Proto[t.key]])
        /\ UNCHANGED todo
     \/ /\ proc # "up" \/ running[t.key] # NoTarget
        /\ To(w, Return(w, proc = "up"))
        /\ PassOver(w, proc = "up")
        /\ UNCHANGED running
  /\ UNCHANGED <<proc, envVars, upsets, rows, fresh, unfinished>>

\* The last run is read under the reservation; a recent one ends the turn.
LastRun(w) ==
  /\ At(w, "last")
  /\ \/ /\ worker[w].target.key \notin fresh
        /\ To(w, [worker[w] EXCEPT !.pc = "create"])
        /\ UNCHANGED <<running, todo, upsets>>
     \/ worker[w].target.key \in fresh /\ End(w, TRUE) /\ UNCHANGED upsets
     \/ End(w, FALSE) /\ Upset            \* it cannot be read
  /\ UNCHANGED <<proc, envVars, rows, fresh, unfinished>>

----------------------------------------------------------------------------
\* A run.

\* The run is recorded, and only then does the target have to be valid. A
\* record that cannot be written ends the run at once.
Create(w) ==
  LET t == worker[w].target IN
  /\ At(w, "create")
  /\ \/ /\ rows' = Append(rows, [key |-> t.key, expected |-> t.expected,
                                status |-> "running", valid |-> 0])
        /\ fresh' = fresh \cup {t.key}
        /\ LET r == [worker[w] EXCEPT !.row = Len(rows) + 1] IN
           To(w, IF t.key \in usable THEN [r EXCEPT !.pc = "check"] ELSE Failed(r, "failed"))
        /\ UNCHANGED <<running, todo, upsets>>
     \/ /\ End(w, FALSE) /\ Upset
        /\ UNCHANGED <<rows, fresh>>
  /\ UNCHANGED <<proc, envVars, unfinished>>

\* An attempt begins: the run may be made, and its progress is saved, as the
\* record of a running run; a save that fails fails the run.
Check(w) ==
  LET r == worker[w] IN
  /\ At(w, "check")
  /\ \/ /\ ~Allowed(w)
        /\ To(w, Failed(r, Refusal(w)))
        /\ UNCHANGED <<rows, upsets>>
     \/ /\ Allowed(w)
        /\ rows' = [rows EXCEPT ![r.row].status = "running"]
        /\ To(w, [r EXCEPT !.pc = "send", !.late = 0])
        /\ UNCHANGED upsets
     \/ /\ Allowed(w)
        /\ To(w, Failed(r, "failed")) /\ Upset
        /\ UNCHANGED rows
  /\ UNCHANGED <<proc, envVars, running, todo, fresh, unfinished>>

\* The credentials are read, or a challenge is sent and its answer arrives. A
\* whole answer may still hold too few numbers. Any request may fail.
Credentials(w) ==
  LET r == Asked(w, worker[w]) IN
  /\ At(w, "send") /\ r.step = 0
  /\ \/ proc = "up" /\ To(w, NextStep(r))
     \/ To(w, AfterFailure(w, r, FALSE))
  /\ UNCHANGED <<proc, envVars, upsets, running, todo, rows, fresh, unfinished>>

\* What is taken of an answer that was read as o, and whether it had finished.
Answer(w, r, o, finished) ==
  /\ \/ o = "output" /\ To(w, NextStep([r EXCEPT !.valid = @ + 1]))
     \/ o = "output" /\ To(w, AfterFailure(w, r, TRUE))
     \/ o = "invalid" /\ To(w, Failed(r, "failed"))
     \/ o = "failed" /\ To(w, AfterFailure(w, r, FALSE))
  /\ unfinished' = (unfinished \/ (worker'[w].valid > r.valid /\ ~finished))

\* An answer with a good HTTP status (requestOutput): a stream, or a complete body.
Answers(w, r) ==
  \/ \E s \in Streams : Answer(w, r, Read(r.proto, s), Whole(r.proto, s))
  \/ \E b \in Bodies : Answer(w, r, ReadBody(b), Unrefused(b))

Challenge(w) ==
  LET r == Asked(w, worker[w]) IN
  /\ At(w, "send") /\ r.step > 0
  /\ \/ proc = "up" /\ Answers(w, r)
     \/ To(w, AfterFailure(w, r, FALSE)) /\ UNCHANGED unfinished
     \/ /\ proc = "up" /\ r.step = 1 /\ ~r.fellback      \* 404 or 405: another protocol
        /\ LET f == [r EXCEPT !.fellback = TRUE, !.proto = Fallback(@)] IN
           To(w, IF Allowed(w) THEN [f EXCEPT !.pc = "resend"] ELSE Failed(f, "paused"))
        /\ UNCHANGED unfinished
  /\ UNCHANGED <<proc, envVars, upsets, running, todo, rows, fresh>>

Resend(w) ==
  LET r == Asked(w, worker[w]) IN
  /\ At(w, "resend")
  /\ \/ proc = "up" /\ Answers(w, r)
     \/ To(w, AfterFailure(w, r, FALSE)) /\ UNCHANGED unfinished
  /\ UNCHANGED <<proc, envVars, upsets, running, todo, rows, fresh>>

\* The run outlives its 150 minutes while it waits or asks.
Expire(w) ==
  /\ \E pc \in {"check", "send", "resend"} : At(w, pc)
  /\ Upset
  /\ To(w, Failed(worker[w], "failed"))
  /\ UNCHANGED <<proc, envVars, running, todo, rows, fresh, unfinished>>

\* The result. An error is an interruption when the settings or Stop caused it.
Result(r, p) ==
  IF r.err = "paused" \/ (r.err # "none" /\ proc = "closing") THEN "interrupted"
  ELSE IF r.err = "failed" THEN "error"
  ELSE IF r.valid < Challenges THEN "inconclusive"
  ELSE Verdict(r.target.expected, p)

Finish(w) ==
  LET r == worker[w] IN
  /\ At(w, "finish")
  /\ \/ /\ \E p \in {"high", "middle", "low", "absent"} :
              rows' = [rows EXCEPT ![r.row].status = Result(r, p), ![r.row].valid = r.valid]
        /\ End(w, TRUE)
        /\ UNCHANGED upsets
     \/ rows' = rows /\ End(w, FALSE) /\ Upset   \* the save fails: the record stays running
  /\ UNCHANGED <<proc, envVars, fresh, unfinished>>

----------------------------------------------------------------------------
Init ==
  /\ proc = "down"
  /\ targets \in Configurable      \* the settings of an earlier process
  /\ enabled = (targets # {}) /\ quiet = FALSE
  /\ usable = Keys
  /\ running = [k \in Keys |-> NoTarget]
  /\ worker = [w \in Workers |-> Idle]
  /\ todo = {}
  /\ rows = <<>>
  /\ fresh = {}
  /\ upsets = 0
  /\ unfinished = FALSE

Step(w) == \/ Reserve(w) \/ LastRun(w) \/ Create(w) \/ Check(w) \/ Credentials(w)
           \/ Challenge(w) \/ Resend(w) \/ Finish(w)

Next ==
  \/ SaveSettings \/ Clock \/ Catalogue \/ Elapse
  \/ Start \/ Stop \/ Exit \/ Crash
  \/ RunDue \/ NextTarget
  \/ \E w \in Hands : RunNow(w)
  \/ \E w \in Workers : Step(w) \/ Expire(w)

\* Every goroutine goes on, and requests end by their timeouts.
Fairness == WF_vars(NextTarget) /\ \A w \in Workers : WF_vars(Step(w))

Spec == Init /\ [][Next]_vars /\ Fairness

----------------------------------------------------------------------------
\* Properties.

\* The variables keep their types, and the log holds no more runs than its bound.
TypeOK ==
  /\ proc \in {"down", "up", "closing"}
  /\ enabled \in BOOLEAN /\ quiet \in BOOLEAN
  /\ targets \in Configurable /\ usable \subseteq Keys
  /\ running \in [Keys -> Targets \cup {NoTarget}]
  /\ worker \in [Workers -> Worker]
  /\ todo \subseteq Targets
  /\ rows \in Seq(Run) /\ Len(rows) <= MaxRuns
  /\ fresh \subseteq Keys
  /\ upsets \in 0..MaxUpsets
  /\ unfinished \in BOOLEAN

\* A verdict rests on all the challenges. No answer counts that the channel itself called
\* truncated, filtered, refused or broken, in whichever form and on whichever protocol the run
\* fell back to; and a streamed answer counts only when the model finished it by itself
\* (readStreamOutput). A complete body that does not say how it ended is taken as finished
\* (requestOutput): of those the property claims nothing more.
VerdictsEarned ==
  /\ ~unfinished
  /\ \A i \in 1..Len(rows) :
        rows[i].status \in {"consistent", "suspected"} =>
          rows[i].valid = Challenges /\ rows[i].expected # ""

\* The scheduler starts a run only when the last run of the same account and
\* model, of whoever started it, is older than the interval: an
\* administrator's run cannot slip in between the look and the start.
IntervalKept ==
  [][\A w \in Workers :
       (w = Sched /\ worker[w].pc = "create" /\ Len(rows') > Len(rows)
          /\ worker'[w].pc # "create")
       => rows'[Len(rows')].key \notin fresh]_vars

\* Once the quiet period begins, or the target is taken out of the settings, a
\* scheduled run makes at most the one request it was about to make.
StopsInQuiet == worker[Sched].late <= 1

\* The history of runs is a RunLog: one live run of a target at a time,
\* results are final, and every live run ends.
Live(k) == {w \in Workers : worker[w].target.key = k /\ worker[w].row # 0}
LogOf  == [i \in 1..Len(rows) |-> [key |-> rows[i].key, open |-> rows[i].status = "running"]]
HeldOf == [k \in Keys |-> IF Live(k) = {} THEN 0 ELSE worker[CHOOSE w \in Live(k) : TRUE].row]
Log == INSTANCE RunLog WITH log <- LogOf, held <- HeldOf
LogSpec == Log!LogSpec
=============================================================================

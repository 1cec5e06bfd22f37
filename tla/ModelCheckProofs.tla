--------------------------- MODULE ModelCheckProofs ---------------------------
(***************************************************************************)
(* Proofs about ModelCheck, for any targets, goroutines, answers and       *)
(* bounds: types, verdicts, the interval, the quiet period, and that the   *)
(* records and live runs behave as RunLog says.                            *)
(***************************************************************************)
EXTENDS ModelCheck, TLAPS, FiniteSetTheorems, WellFoundedInduction

\* The program counters of a run that is recorded, and of one that holds a reservation.
Recorded == {"check", "send", "resend", "finish"}
Holding  == {"last", "create"} \cup Recorded

\* A worker without a recorded run has nothing of one. A run in its challenges has at most
\* the outputs of those before, has made no request against the settings since it last
\* checked, and has a record of its own that is still running.
Fit(w) ==
  LET r == worker[w] IN
  /\ r.row # 0 <=> r.pc \in Recorded
  /\ r.pc \notin Recorded => r.step = 0 /\ r.valid = 0 /\ r.late = 0
  /\ r.pc \in {"reserve"} \cup Holding => r.target \in Targets
  /\ r.pc \in Holding => running[r.target.key] = r.target
  /\ r.pc \in Recorded => /\ r.row \in 1..Len(rows)
                          /\ rows[r.row].key = r.target.key
                          /\ rows[r.row].expected = r.target.expected
                          /\ rows[r.row].status = "running"
  /\ r.pc \in {"check", "send", "resend"} => r.valid = 0 \/ r.valid < r.step
  /\ r.pc = "resend" => r.step # 0
  /\ r.late <= 1 /\ (r.pc \in {"send", "resend"} => r.late = 0)
  /\ (r.pc = "create" /\ w = Sched) => r.target.key \notin fresh

\* A reservation has one holder.
Unique == \A v, w \in Workers :
            /\ worker[v].pc \in Holding /\ worker[w].pc \in Holding
            /\ worker[v].target.key = worker[w].target.key
            => v = w

\* A process that is down has no workers under way.
Quiescent == proc = "down" => \A w \in Workers : worker[w].pc = "idle"

\* The verdicts of the log are earned.
Earned ==
  /\ ~unfinished
  /\ \A i \in 1..Len(rows) :
        rows[i].status \in {"consistent", "suspected"} =>
          rows[i].valid = Challenges /\ rows[i].expected # ""

Roomy == Len(rows) + Cardinality(Before) <= MaxRuns

Sound == (\A w \in Workers : Fit(w)) /\ Unique /\ Quiescent /\ Earned

IInv == TypeOK /\ Roomy /\ Sound

----------------------------------------------------------------------------
\* What the pieces of a run are made of.

\* What is left of r when an attempt has ended: it may try again, or is about to finish.
Follows(r, q) ==
  /\ q \in Worker /\ q.target = r.target /\ q.row = r.row
  /\ q.valid = r.valid /\ q.late = r.late
  /\ q.pc \in {"check", "finish"}
  /\ q.pc = "check" => q.step >= r.step

LEMMA Bounds ==
  Challenges \in Nat /\ Challenges # 0 /\ Retries \in Nat /\ MaxRuns \in Nat /\ MaxUpsets \in Nat
<1> QED
  BY ModelCheckAssumption

LEMMA IdleFacts ==
  /\ Idle \in Worker /\ Idle.pc = "idle" /\ Idle.target = NoTarget
  /\ Idle.row = 0 /\ Idle.step = 0 /\ Idle.valid = 0 /\ Idle.late = 0
  /\ NoTarget \notin Targets /\ Targets \subseteq [key : Keys, expected : STRING]
<1>1. NoTarget \notin Targets /\ Targets \subseteq [key : Keys, expected : STRING]
  BY ModelCheckAssumption DEF NoTarget
<1>2. Idle \in Worker
  <2>1. 0 \in 0..MaxRuns /\ 0 \in 0..Challenges /\ 0 \in 0..Retries /\ 0 \in 0..2
    BY Bounds
  <2> QED
    BY <2>1 DEF Idle, Worker, PCs, Protocols, Errors
<1> QED
  BY <1>1, <1>2 DEF Idle

LEMMA ReturnFacts ==
  ASSUME NEW w, NEW ok
  PROVE  /\ Return(w, ok) \in Worker /\ Return(w, ok).pc \in {"idle", "next"}
         /\ Return(w, ok).row = 0 /\ Return(w, ok).step = 0
         /\ Return(w, ok).valid = 0 /\ Return(w, ok).late = 0
<1> DEFINE q == [Idle EXCEPT !.pc = "next"]
<1>1. /\ q \in Worker /\ q.pc = "next"
      /\ q.row = 0 /\ q.step = 0 /\ q.valid = 0 /\ q.late = 0
  BY IdleFacts DEF Idle, Worker, PCs
<1>2. Return(w, ok) = Idle \/ Return(w, ok) = q
  BY DEF Return
<1> HIDE DEF q
<1> QED
  BY <1>1, <1>2, IdleFacts

LEMMA FailedFacts ==
  ASSUME NEW r \in Worker, NEW e \in Errors
  PROVE  Follows(r, Failed(r, e)) /\ Failed(r, e).pc = "finish"
<1> QED
  BY IdleFacts DEF Failed, Follows, Worker, PCs, Idle

LEMMA NextStepFacts ==
  ASSUME NEW r \in Worker
  PROVE  Follows(r, NextStep(r)) /\ (NextStep(r).pc = "check" => NextStep(r).step > r.step)
<1>1. CASE r.step = Challenges
  <2>1. NextStep(r) = Failed(r, "none")
    BY <1>1 DEF NextStep
  <2>2. "none" \in Errors
    BY DEF Errors
  <2>3. Follows(r, Failed(r, "none")) /\ Failed(r, "none").pc = "finish"
    BY <2>2, FailedFacts
  <2> QED
    BY <2>1, <2>3
<1>2. CASE r.step # Challenges
  <2> DEFINE q == [r EXCEPT !.pc = "check", !.step = r.step + 1, !.tries = 0]
  <2>1. r.step \in 0..Challenges /\ Challenges \in Nat /\ Retries \in Nat
    BY Bounds DEF Worker
  <2>2. r.step + 1 \in 0..Challenges /\ 0 \in 0..Retries
    BY <1>2, <2>1
  <2>3. /\ q \in Worker /\ q.pc = "check" /\ q.step = r.step + 1
        /\ q.target = r.target /\ q.row = r.row /\ q.valid = r.valid /\ q.late = r.late
    BY <2>2 DEF Worker, PCs
  <2>4. NextStep(r) = q
    BY <1>2 DEF NextStep
  <2> HIDE DEF q
  <2> QED
    BY <2>1, <2>3, <2>4 DEF Follows
<1> QED
  BY <1>1, <1>2

LEMMA AfterFailureFacts ==
  ASSUME NEW w, NEW r \in Worker, NEW short \in BOOLEAN
  PROVE  Follows(r, AfterFailure(w, r, short))
<1> DEFINE q == [r EXCEPT !.pc = "check", !.tries = r.tries + 1]
<1>1. \/ AfterFailure(w, r, short) \in {Failed(r, "failed"), Failed(r, "paused"), NextStep(r)}
      \/ r.tries # Retries /\ AfterFailure(w, r, short) = q
  BY DEF AfterFailure
<1>2. "failed" \in Errors /\ "paused" \in Errors
  BY DEF Errors
<1>3. r.tries \in 0..Retries /\ Retries \in Nat /\ r.step \in Nat
  <2>1. r.tries \in 0..Retries /\ r.step \in 0..Challenges
    BY DEF Worker
  <2> QED
    BY <2>1, Bounds
<1>4. ASSUME r.tries # Retries PROVE Follows(r, q)
  <2>1. r.tries + 1 \in 0..Retries
    BY <1>3, <1>4
  <2>2. /\ q \in Worker /\ q.pc = "check" /\ q.step = r.step
        /\ q.target = r.target /\ q.row = r.row /\ q.valid = r.valid /\ q.late = r.late
    BY <2>1 DEF Worker, PCs
  <2> HIDE DEF q
  <2> QED
    BY <1>3, <2>2 DEF Follows
<1> HIDE DEF q
<1> QED
  BY <1>1, <1>2, <1>4, FailedFacts, NextStepFacts

LEMMA AskedFacts ==
  ASSUME NEW w, NEW r \in Worker, r.late = 0
  PROVE  LET q == Asked(w, r) IN
         /\ q \in Worker /\ q.late \in 0..1 /\ ((w = Sched /\ ~Wanted(r.target)) \/ q.late = 0)
         /\ q.pc = r.pc /\ q.target = r.target /\ q.row = r.row /\ q.step = r.step
         /\ q.valid = r.valid /\ q.proto = r.proto /\ q.fellback = r.fellback
<1> DEFINE late == IF w = Sched /\ ~Wanted(r.target) THEN r.late + 1 ELSE 0
           q == [r EXCEPT !.late = late]
<1>1. late \in 0..1 /\ ((w = Sched /\ ~Wanted(r.target)) \/ late = 0)
  OBVIOUS
<1>2. Asked(w, r) = q
  BY DEF Asked
<1> HIDE DEF late
<1>3. /\ q \in Worker /\ q.late = late
      /\ q.pc = r.pc /\ q.target = r.target /\ q.row = r.row /\ q.step = r.step
      /\ q.valid = r.valid /\ q.proto = r.proto /\ q.fellback = r.fellback
  BY <1>1 DEF Worker
<1> QED
  BY <1>1, <1>2, <1>3

\* An answer that is taken for an output is the model's whole output.
LEMMA OutputIsWhole ==
  ASSUME NEW p \in Protocols, NEW s \in Seq(Events), Read(p, s) = "output"
  PROVE  Whole(p, s)
<1>1. Len(s) \in Nat /\ \A i \in 1..Len(s) : s[i] \in Events
  OBVIOUS
<1>2. CASE ~Decided(p, s)
  <2>1. PICK i \in 1..Len(s) : p = "chat" /\ s[i] = "stop"
    BY <1>2 DEF Read, Stopped
  <2>2. \A j \in 1..Len(s) : s[j] \in {"text", "stop"}
    BY <1>1, <1>2 DEF Decided, Decides, Events
  <2> QED
    BY <1>1, <2>1, <2>2 DEF Whole
<1>3. CASE Decided(p, s)
  <2> DEFINE D == {i \in 1..Len(s) : Decides(p, s, i)}
  <2>1. D \in SUBSET Nat /\ D # {}
    BY <1>3 DEF Decided
  <2> HIDE DEF D
  <2>2. PICK m \in D : \A x \in D : ~(<<x, m>> \in OpToRel(<, Nat))
    BY <2>1, NatLessThanWellFounded, WFMin
  <2>3. \A x \in D : m <= x
    <3> TAKE x \in D
    <3>1. <<x, m>> \notin {ss \in Nat \X Nat : ss[1] < ss[2]}
      BY <2>2, Zenon DEF OpToRel
    <3>2. x \in Nat /\ m \in Nat
      BY <2>1
    <3> QED
      BY <3>1, <3>2
  <2>4. \E i \in 1..Len(s) : Decides(p, s, i) /\ \A j \in 1..(i - 1) : ~Decides(p, s, j)
    <3>1. m \in 1..Len(s) /\ Decides(p, s, m)
      BY DEF D
    <3>2. ASSUME NEW j \in 1..(m - 1) PROVE ~Decides(p, s, j)
      <4>1. j \in 1..Len(s) /\ ~(m <= j)
        BY <1>1, <3>1
      <4> QED
        BY <2>3, <4>1 DEF D
    <3> QED
      BY <3>1, <3>2
  <2> DEFINE f == First(p, s)
  <2>5. f \in 1..Len(s) /\ Decides(p, s, f) /\ \A j \in 1..(f - 1) : ~Decides(p, s, j)
    BY <2>4 DEF First
  <2>6. /\ s[f] \notin {"error", "cut"}
        /\ s[f] = "stop" \/ (p # "responses" /\ Stopped(s, f))
    BY <1>3, <2>5 DEF Read
  <2> HIDE DEF f
  <2>7. \A j \in 1..(f - 1) : s[j] \in {"text", "stop"}
    <3> TAKE j \in 1..(f - 1)
    <3>1. j \in 1..Len(s)
      BY <1>1, <2>5
    <3> QED
      BY <1>1, <2>5, <3>1 DEF Decides, Events
  <2>8. CASE s[f] = "stop"
    <3>1. p = "responses"
      BY <2>5, <2>8 DEF Decides
    <3>2. \A j \in 1..f : s[j] \in {"text", "stop"}
      BY <2>5, <2>7, <2>8
    <3> QED
      BY <2>5, <2>8, <3>1, <3>2 DEF Whole
  <2>9. CASE s[f] # "stop"
    <3>1. s[f] = "end"
      BY <2>5, <2>6, <2>9 DEF Decides
    <3>2. PICK i \in 1..f : s[i] = "stop"
      BY <2>6, <2>9 DEF Stopped
    <3>3. i \in 1..(f - 1) /\ i \in 1..Len(s) /\ f \in i..Len(s)
      BY <1>1, <2>5, <3>1, <3>2
    <3>4. \A j \in 1..i : s[j] \in {"text", "stop"}
      BY <2>5, <2>7, <3>3
    <3>5. \A n \in i..f : s[n] \notin {"cut", "error"}
      <4> TAKE n \in i..f
      <4>1. CASE n = f
        BY <3>1, <4>1
      <4>2. CASE n # f
        <5>1. n \in 1..(f - 1)
          BY <2>5, <3>3, <4>2
        <5> QED
          BY <2>7, <5>1
      <4> QED
        BY <4>1, <4>2
    <3> QED
      BY <3>1, <3>2, <3>3, <3>4, <3>5 DEF Whole
  <2> QED
    BY <2>8, <2>9
<1> QED
  BY <1>2, <1>3

----------------------------------------------------------------------------
\* What a step leaves alone.

LEMMA ToFacts ==
  ASSUME worker \in [Workers -> Worker], NEW w \in Workers, NEW q \in Worker, To(w, q)
  PROVE  /\ worker' \in [Workers -> Worker] /\ worker'[w] = q
         /\ \A v \in Workers \ {w} : worker'[v] = worker[v]
<1> QED
  BY DEF To

LEMMA LogIsFinite ==
  ASSUME TypeOK
  PROVE  /\ rows \in Seq(Run) /\ Len(rows) \in 0..MaxRuns /\ DOMAIN rows = 1..Len(rows)
         /\ \A i \in 1..Len(rows) : rows[i] \in Run
<1> QED
  BY Bounds DEF TypeOK

\* A worker that does not move, while its reservation and its record stay.
LEMMA FitKept ==
  ASSUME TypeOK, NEW v \in Workers, Fit(v), worker'[v] = worker[v],
         v = Sched /\ worker[v].pc = "create" /\ worker[v].target.key \notin fresh =>
           worker[v].target.key \notin fresh',
         worker[v].pc \in Holding =>
           running'[worker[v].target.key] = running[worker[v].target.key],
         Len(rows') \in Nat, Len(rows) <= Len(rows'),
         worker[v].pc \in Recorded => rows'[worker[v].row] = rows[worker[v].row]
  PROVE  Fit(v)'
<1>1. Len(rows) \in Nat /\ 1..Len(rows) \subseteq 1..Len(rows')
  BY LogIsFinite, Bounds
<1> QED
  BY <1>1 DEF Fit

LEMMA WorkersAreFinite ==
  ASSUME NEW S \in SUBSET Workers
  PROVE  IsFiniteSet(S) /\ Cardinality(S) \in Nat
<1>1. IsFiniteSet(Hands)
  BY ModelCheckAssumption
<1>2. IsFiniteSet(Workers)
  BY <1>1, FS_AddElement DEF Workers
<1> QED
  BY <1>2, FS_Subset, FS_CardinalityType

\* Fewer workers before their record leave more room.
LEMMA RoomKept ==
  ASSUME TypeOK, Roomy, Before' \subseteq Before, Len(rows') = Len(rows)
  PROVE  Roomy'
<1>1. Before \in SUBSET Workers /\ Before' \in SUBSET Before
  BY DEF Before
<1>2. /\ IsFiniteSet(Before) /\ Cardinality(Before) \in Nat
      /\ Cardinality(Before') <= Cardinality(Before)
  BY <1>1, WorkersAreFinite, FS_Subset
<1>3. Cardinality(Before') \in Nat
  <2>1. Before' \in SUBSET Workers
    BY <1>1
  <2> QED
    BY <2>1, WorkersAreFinite
<1>4. Len(rows) \in Nat /\ MaxRuns \in Nat
  BY LogIsFinite, Bounds
<1> QED
  BY <1>2, <1>3, <1>4 DEF Roomy

\* A step that moves one worker and takes it no nearer to a record.
LEMMA BeforeShrinks ==
  ASSUME NEW w \in Workers,
         \A v \in Workers \ {w} : worker'[v] = worker[v],
         worker'[w].pc \in {"reserve", "last", "create"} =>
           worker[w].pc \in {"reserve", "last", "create"}
  PROVE  Before' \subseteq Before
<1> QED
  BY DEF Before

\* The environment takes nothing from the workers.
LEMMA EnvironmentSound ==
  ASSUME TypeOK, Roomy, Sound,
         UNCHANGED <<running, worker, rows, unfinished>>, fresh' \subseteq fresh,
         proc' = "down" => proc = "down"
  PROVE  Roomy' /\ Sound'
<1>1. Before' \subseteq Before /\ Len(rows') = Len(rows)
  BY DEF Before
<1>2. \A v \in Workers : Fit(v)'
  <2>1. Len(rows') \in Nat /\ Len(rows) <= Len(rows')
    BY LogIsFinite, Bounds
  <2> QED
    BY <2>1, FitKept DEF Sound
<1>3. Unique' /\ Quiescent' /\ Earned'
  BY DEF Sound, Unique, Quiescent, Earned
<1> QED
  BY <1>1, <1>2, <1>3, RoomKept DEF Sound

\* All workers wait.
LEMMA WaitingSound ==
  ASSUME \A v \in Workers : /\ worker'[v].pc \in {"idle", "gone"}
                            /\ worker'[v].row = 0 /\ worker'[v].step = 0
                            /\ worker'[v].valid = 0 /\ worker'[v].late = 0
  PROVE  /\ \A v \in Workers : Fit(v)'
         /\ Unique' /\ Before' = {}
<1> QED
  BY DEF Fit, Unique, Before, Holding, Recorded

\* One worker that holds no reservation goes on waiting, with a target or without.
LEMMA WaitStep ==
  ASSUME TypeOK, Sound, NEW w \in Workers, worker[w].pc \notin Holding,
         NEW q \in Worker, To(w, q), q.pc \in {"idle", "next", "reserve"},
         q.row = 0, q.step = 0, q.valid = 0, q.late = 0,
         q.pc = "reserve" => q.target \in Targets,
         UNCHANGED <<running, rows, fresh, unfinished>>, proc' # "down"
  PROVE  worker' \in [Workers -> Worker] /\ Sound'
<1>1. /\ worker' \in [Workers -> Worker] /\ worker'[w] = q
      /\ \A v \in Workers \ {w} : worker'[v] = worker[v]
  BY ToFacts DEF TypeOK
<1>2. Fit(w)'
  BY <1>1 DEF Fit, Holding, Recorded
<1>3. \A v \in Workers \ {w} : Fit(v)'
  <2>1. Len(rows') \in Nat /\ Len(rows) <= Len(rows')
    BY LogIsFinite, Bounds
  <2> QED
    BY <1>1, <2>1, FitKept DEF Sound
<1>4. Unique'
  BY <1>1 DEF Sound, Unique, Holding, Recorded
<1>5. Quiescent' /\ Earned'
  BY DEF Sound, Quiescent, Earned
<1> QED
  BY <1>1, <1>2, <1>3, <1>4, <1>5 DEF Sound

\* A run in its challenges goes on.
LEMMA RunGoesOn ==
  ASSUME TypeOK, Roomy, Sound, NEW w \in Workers, worker[w].pc \in {"check", "send", "resend"},
         proc # "down", NEW q \in Worker, To(w, q), q.pc \in Recorded,
         q.target = worker[w].target, q.row = worker[w].row,
         q.pc # "finish" => q.valid = 0 \/ q.valid < q.step,
         q.pc = "resend" => q.step # 0,
         q.late <= 1, q.pc \in {"send", "resend"} => q.late = 0,
         UNCHANGED <<proc, running, rows, fresh>>, ~unfinished'
  PROVE  worker' \in [Workers -> Worker] /\ Roomy' /\ Sound'
<1>1. /\ worker' \in [Workers -> Worker] /\ worker'[w] = q
      /\ \A v \in Workers \ {w} : worker'[v] = worker[v]
  BY ToFacts DEF TypeOK
<1>2. Fit(w)'
  <2>1. Fit(w)
    BY DEF Sound
  <2> QED
    BY <1>1, <2>1 DEF Fit, Holding, Recorded
<1>3. \A v \in Workers \ {w} : Fit(v)'
  <2>1. Len(rows') \in Nat /\ Len(rows) <= Len(rows')
    BY LogIsFinite, Bounds
  <2> QED
    BY <1>1, <2>1, FitKept DEF Sound
<1>4. Unique'
  BY <1>1 DEF Sound, Unique, Holding, Recorded
<1>5. Quiescent' /\ Earned'
  BY DEF Sound, Quiescent, Earned
<1>6. Roomy'
  BY <1>1, BeforeShrinks, RoomKept DEF Recorded
<1> QED
  BY <1>1, <1>2, <1>3, <1>4, <1>5, <1>6 DEF Sound

\* A worker that holds a reservation gives it back.
LEMMA EndStep ==
  ASSUME TypeOK, Roomy, Sound, NEW w \in Workers, worker[w].pc \in Holding, proc # "down",
         NEW ok, End(w, ok), UNCHANGED <<proc, fresh, unfinished>>,
         Len(rows') = Len(rows),
         \A i \in 1..Len(rows) : i # worker[w].row => rows'[i] = rows[i]
  PROVE  /\ worker' \in [Workers -> Worker]
         /\ running' \in [Keys -> Targets \cup {NoTarget}] /\ todo' \subseteq Targets
         /\ Roomy' /\ Unique' /\ Quiescent' /\ \A v \in Workers : Fit(v)'
<1> DEFINE q == Return(w, ok)
           t == worker[w].target
<1>1. /\ q \in Worker /\ q.pc \in {"idle", "next"}
      /\ q.row = 0 /\ q.step = 0 /\ q.valid = 0 /\ q.late = 0
  BY ReturnFacts
<1>2. To(w, q) /\ running' = [running EXCEPT ![t.key] = NoTarget]
  BY DEF End
<1> HIDE DEF q
<1>3. /\ worker' \in [Workers -> Worker] /\ worker'[w] = q
      /\ \A v \in Workers \ {w} : worker'[v] = worker[v]
  BY <1>1, <1>2, ToFacts DEF TypeOK
<1>4. todo' \subseteq Targets
  BY DEF End, PassOver, TypeOK
<1>5. t \in Targets /\ t.key \in Keys
  BY IdleFacts DEF Sound, Fit
<1>6. running' \in [Keys -> Targets \cup {NoTarget}]
  BY <1>2, <1>5 DEF TypeOK
<1>7. Fit(w)'
  BY <1>1, <1>3 DEF Fit, Holding, Recorded
<1>8. ASSUME NEW v \in Workers \ {w} PROVE Fit(v)'
  <2>1. Fit(v) /\ Fit(w) /\ worker'[v] = worker[v]
    BY <1>3 DEF Sound
  <2>2. Len(rows') \in Nat /\ Len(rows) <= Len(rows')
    BY LogIsFinite, Bounds
  <2>3. ASSUME worker[v].pc \in Holding
        PROVE  /\ worker[v].target.key # t.key /\ worker[v].target.key \in Keys
    <3>1. worker[v].target \in Targets
      BY <2>1, <2>3 DEF Fit
    <3> QED
      BY <2>3, <3>1, IdleFacts DEF Sound, Unique
  <2>4. worker[v].pc \in Holding =>
          running'[worker[v].target.key] = running[worker[v].target.key]
    BY <1>2, <1>5, <2>3 DEF TypeOK
  <2>5. ASSUME worker[v].pc \in Recorded
        PROVE  rows'[worker[v].row] = rows[worker[v].row]
    <3>1. /\ worker[v].row \in 1..Len(rows) /\ rows[worker[v].row].key = worker[v].target.key
          /\ worker[v].target.key # t.key
      BY <2>1, <2>3, <2>5 DEF Fit, Holding
    <3>2. worker[w].row = worker[v].row => worker[w].pc \in Recorded
      BY <2>1, <2>5 DEF Fit
    <3>3. worker[w].row # worker[v].row
      BY <2>1, <3>1, <3>2 DEF Fit
    <3> QED
      BY <3>1, <3>3
  <2> QED
    BY <2>1, <2>2, <2>4, <2>5, FitKept
<1>9. Unique'
  BY <1>1, <1>3 DEF Sound, Unique, Holding, Recorded
<1>10. Quiescent'
  BY DEF Sound, Quiescent
<1>11. Roomy'
  BY <1>1, <1>3, BeforeShrinks, RoomKept
<1> QED
  BY <1>3, <1>4, <1>6, <1>7, <1>8, <1>9, <1>10, <1>11

----------------------------------------------------------------------------
\* The steps keep the invariant.

LEMMA InitSound == Init => IInv
<1> SUFFICES ASSUME Init PROVE IInv
  OBVIOUS
<1>1. TypeOK
  <2>1. targets \subseteq Targets
    BY DEF Init, Configurable
  <2>2. rows \in Seq(Run) /\ Len(rows) = 0 /\ 0 \in 0..MaxUpsets /\ Len(rows) <= MaxRuns
    BY Bounds DEF Init
  <2>3. /\ worker \in [Workers -> Worker]
        /\ running \in [Keys -> Targets \cup {NoTarget}]
    BY IdleFacts DEF Init
  <2> QED
    BY <2>1, <2>2, <2>3 DEF Init, TypeOK
<1>2. \A w \in Workers : worker[w] = Idle
  BY DEF Init
<1>3. (\A w \in Workers : Fit(w)) /\ Unique
  BY <1>2, IdleFacts DEF Fit, Unique, Holding, Recorded
<1>4. Quiescent /\ Earned
  BY <1>2, IdleFacts DEF Init, Quiescent, Earned
<1>5. Roomy
  <2>1. Before = {}
    BY <1>2, IdleFacts DEF Before
  <2>2. Len(rows) = 0 /\ Cardinality({}) = 0
    BY FS_EmptySet DEF Init
  <2> QED
    BY <2>1, <2>2, Bounds DEF Roomy
<1> QED
  BY <1>1, <1>3, <1>4, <1>5 DEF IInv, Sound

LEMMA UpsetKept ==
  ASSUME TypeOK, Upset
  PROVE  upsets' \in 0..MaxUpsets
<1>1. upsets \in Nat /\ MaxUpsets \in Nat
  BY Bounds DEF TypeOK
<1> QED
  BY <1>1 DEF Upset

LEMMA EnvironmentStep ==
  ASSUME IInv, SaveSettings \/ Clock \/ Catalogue \/ Elapse \/ Stop
  PROVE  IInv'
<1>1. TypeOK /\ Roomy /\ Sound
  BY DEF IInv
<1>2. CASE SaveSettings
  <2>1. targets' \in Configurable /\ enabled' \in BOOLEAN /\ upsets' \in 0..MaxUpsets
    BY <1>1, <1>2, UpsetKept DEF SaveSettings
  <2>2. TypeOK'
    BY <1>1, <1>2, <2>1 DEF SaveSettings, TypeOK, Configurable
  <2> QED
    BY <1>1, <1>2, <2>2, EnvironmentSound DEF SaveSettings, IInv
<1>3. CASE Clock
  <2>1. TypeOK'
    BY <1>1, <1>3, UpsetKept DEF Clock, TypeOK, Configurable
  <2> QED
    BY <1>1, <1>3, <2>1, EnvironmentSound DEF Clock, IInv
<1>4. CASE Catalogue
  <2>1. TypeOK'
    BY <1>1, <1>4, UpsetKept DEF Catalogue, TypeOK, Configurable
  <2> QED
    BY <1>1, <1>4, <2>1, EnvironmentSound DEF Catalogue, IInv
<1>5. CASE Elapse
  <2>1. TypeOK'
    BY <1>1, <1>5 DEF Elapse, TypeOK, Configurable, envVars
  <2>2. fresh' \subseteq fresh
    BY <1>5 DEF Elapse
  <2> QED
    BY <1>1, <1>5, <2>1, <2>2, EnvironmentSound DEF Elapse, IInv
<1>6. CASE Stop
  <2>1. TypeOK'
    BY <1>1, <1>6 DEF Stop, TypeOK, Configurable, envVars
  <2> QED
    BY <1>1, <1>6, <2>1, EnvironmentSound DEF Stop, IInv
<1> QED
  BY <1>2, <1>3, <1>4, <1>5, <1>6

\* No run is under way, and the verdicts stay.
LEMMA RestSound ==
  ASSUME TypeOK, Roomy, Sound, Len(rows') = Len(rows), Earned',
         proc' = "down" => \A w \in Workers : worker'[w].pc = "idle",
         \A v \in Workers : /\ worker'[v].pc \in {"idle", "gone"}
                            /\ worker'[v].row = 0 /\ worker'[v].step = 0
                            /\ worker'[v].valid = 0 /\ worker'[v].late = 0
  PROVE  Roomy' /\ Sound'
<1>1. (\A v \in Workers : Fit(v)') /\ Unique' /\ Before' = {}
  BY WaitingSound
<1>2. Roomy'
  BY <1>1, RoomKept
<1>3. Quiescent'
  BY DEF Quiescent
<1> QED
  BY <1>1, <1>2, <1>3 DEF Sound

LEMMA InterruptFacts ==
  ASSUME TypeOK
  PROVE  /\ Interrupt(rows) \in Seq(Run) /\ Len(Interrupt(rows)) = Len(rows)
         /\ \A i \in 1..Len(rows) :
              /\ Interrupt(rows)[i].key = rows[i].key
              /\ Interrupt(rows)[i].expected = rows[i].expected
              /\ Interrupt(rows)[i].valid = rows[i].valid
              /\ Interrupt(rows)[i].status # "running"
              /\ \/ Interrupt(rows)[i].status = rows[i].status
                 \/ Interrupt(rows)[i].status = "interrupted"
<1> DEFINE f(i) == IF rows[i].status = "running" THEN [rows[i] EXCEPT !.status = "interrupted"]
                   ELSE rows[i]
           q == [i \in 1..Len(rows) |-> f(i)]
<1>1. Len(rows) \in Nat /\ \A i \in 1..Len(rows) : rows[i] \in Run
  BY LogIsFinite, Bounds
<1>2. \A i \in 1..Len(rows) :
        /\ f(i) \in Run
        /\ f(i).key = rows[i].key /\ f(i).expected = rows[i].expected
        /\ f(i).valid = rows[i].valid /\ f(i).status # "running"
        /\ f(i).status = rows[i].status \/ f(i).status = "interrupted"
  BY <1>1 DEF Run, Statuses
<1> HIDE DEF f
<1>3. q \in Seq(Run) /\ Len(q) = Len(rows) /\ \A i \in 1..Len(rows) : q[i] = f(i)
  BY <1>1, <1>2
<1>4. Interrupt(rows) = q
  BY DEF Interrupt, f
<1> HIDE DEF q
<1> QED
  BY <1>2, <1>3, <1>4

LEMMA StartStep ==
  ASSUME IInv, Start
  PROVE  IInv'
<1>1. TypeOK /\ Roomy /\ Sound
  BY DEF IInv
<1>2. \A w \in Workers : Fit(w) /\ worker[w].pc = "idle"
  BY <1>1 DEF Start, Sound, Quiescent
<1>3. \A w \in Workers : /\ worker[w].pc = "idle" /\ worker[w].row = 0 /\ worker[w].step = 0
                         /\ worker[w].valid = 0 /\ worker[w].late = 0
  BY <1>2 DEF Fit, Recorded
<1>4. proc' = "up"
  BY DEF Start
<1>5. CASE rows' = Interrupt(rows) /\ UNCHANGED <<worker, upsets>>
  <2>1. TypeOK'
    BY <1>1, <1>4, <1>5, InterruptFacts DEF Start, TypeOK, Configurable, envVars
  <2>2. Earned'
    <3>1. ~unfinished'
      BY <1>1 DEF Start, Sound, Earned
    <3>2. ASSUME NEW i \in 1..Len(rows'), rows'[i].status \in {"consistent", "suspected"}
          PROVE  rows'[i].valid = Challenges /\ rows'[i].expected # ""
      <4>1. i \in 1..Len(rows) /\ rows[i].status = rows'[i].status
            /\ rows[i].valid = rows'[i].valid /\ rows[i].expected = rows'[i].expected
        BY <1>1, <1>5, <3>2, InterruptFacts
      <4> QED
        BY <1>1, <3>2, <4>1 DEF Sound, Earned
    <3> QED
      BY <3>1, <3>2 DEF Earned
  <2>3. Len(rows') = Len(rows)
    BY <1>1, <1>5, InterruptFacts
  <2> QED
    BY <1>1, <1>3, <1>4, <1>5, <2>1, <2>2, <2>3, RestSound DEF IInv
<1>6. CASE rows' = rows /\ To(Sched, [Idle EXCEPT !.pc = "gone"]) /\ Upset
  <2> DEFINE q == [Idle EXCEPT !.pc = "gone"]
  <2>1. /\ q \in Worker /\ q.pc = "gone"
        /\ q.row = 0 /\ q.step = 0 /\ q.valid = 0 /\ q.late = 0
    BY IdleFacts DEF Idle, Worker, PCs
  <2> HIDE DEF q
  <2>2. To(Sched, q) /\ Sched \in Workers
    BY <1>6 DEF q, Workers
  <2>3. /\ worker' \in [Workers -> Worker] /\ worker'[Sched] = q
        /\ \A v \in Workers \ {Sched} : worker'[v] = worker[v]
    BY <1>1, <2>1, <2>2, ToFacts DEF TypeOK
  <2>4. upsets' \in 0..MaxUpsets
    BY <1>1, <1>6, UpsetKept
  <2>5. TypeOK'
    BY <1>1, <1>4, <1>6, <2>3, <2>4 DEF Start, TypeOK, Configurable, envVars
  <2>6. Earned'
    BY <1>1, <1>6 DEF Start, Sound, Earned
  <2>7. \A v \in Workers : /\ worker'[v].pc \in {"idle", "gone"}
                           /\ worker'[v].row = 0 /\ worker'[v].step = 0
                           /\ worker'[v].valid = 0 /\ worker'[v].late = 0
    BY <1>3, <2>1, <2>3
  <2> QED
    BY <1>1, <1>4, <1>6, <2>5, <2>6, <2>7, RestSound DEF IInv
<1> QED
  BY <1>5, <1>6 DEF Start

LEMMA HaltStep ==
  ASSUME IInv, Exit \/ Crash
  PROVE  IInv'
<1>1. TypeOK /\ Roomy /\ Sound
  BY DEF IInv
<1>2. Halt /\ upsets' \in 0..MaxUpsets
  BY <1>1, UpsetKept DEF Exit, Crash, TypeOK
<1>3. worker' \in [Workers -> Worker] /\ \A w \in Workers : worker'[w] = Idle
  BY <1>2, IdleFacts DEF Halt
<1>4. running' \in [Keys -> Targets \cup {NoTarget}]
  BY <1>2 DEF Halt
<1>5. TypeOK'
  BY <1>1, <1>2, <1>3, <1>4 DEF Halt, TypeOK, Configurable, envVars
<1>6. Earned' /\ Len(rows') = Len(rows)
  BY <1>1, <1>2 DEF Halt, Sound, Earned
<1> QED
  BY <1>1, <1>3, <1>5, <1>6, IdleFacts, RestSound DEF IInv

\* A step of WaitStep that may take a worker to "reserve": there is room for it.
LEMMA RoomForOne ==
  ASSUME TypeOK, Room, Len(rows') = Len(rows), NEW w \in Workers,
         \A v \in Workers \ {w} : worker'[v] = worker[v]
  PROVE  Roomy'
<1>1. Before \in SUBSET Workers /\ Before' \in SUBSET Workers /\ Before' \subseteq Before \cup {w}
  BY DEF Before
<1>2. IsFiniteSet(Before) /\ Cardinality(Before) \in Nat /\ Cardinality(Before') \in Nat
  BY <1>1, WorkersAreFinite
<1>3. /\ IsFiniteSet(Before \cup {w})
      /\ \/ Cardinality(Before \cup {w}) = Cardinality(Before)
         \/ Cardinality(Before \cup {w}) = Cardinality(Before) + 1
  BY <1>2, FS_AddElement
<1>4. Cardinality(Before') <= Cardinality(Before \cup {w})
  BY <1>1, <1>3, FS_Subset
<1>5. Len(rows) \in Nat /\ MaxRuns \in Nat
  BY LogIsFinite, Bounds
<1> QED
  BY <1>2, <1>3, <1>4, <1>5 DEF Room, Roomy

LEMMA RunDueStep ==
  ASSUME IInv, RunDue
  PROVE  IInv'
<1> DEFINE q == [Idle EXCEPT !.pc = "next"]
<1>1. TypeOK /\ Roomy /\ Sound
  BY DEF IInv
<1>2. /\ q \in Worker /\ q.pc = "next"
      /\ q.row = 0 /\ q.step = 0 /\ q.valid = 0 /\ q.late = 0
  BY IdleFacts DEF Idle, Worker, PCs
<1>3. To(Sched, q) /\ Sched \in Workers
  BY DEF RunDue, Workers
<1> HIDE DEF q
<1>4. worker[Sched].pc = "idle" /\ proc' = "up"
  BY DEF RunDue, At
<1>5. worker' \in [Workers -> Worker] /\ Sound'
  BY <1>1, <1>2, <1>3, <1>4, WaitStep DEF RunDue, Holding, Recorded
<1>6. /\ worker'[Sched] = q
      /\ \A v \in Workers \ {Sched} : worker'[v] = worker[v]
  BY <1>1, <1>2, <1>3, ToFacts DEF TypeOK
<1>7. Before' \subseteq Before
  BY <1>2, <1>3, <1>6, BeforeShrinks
<1>8. Roomy'
  BY <1>1, <1>7, RoomKept DEF RunDue
<1>9. TypeOK'
  BY <1>1, <1>4, <1>5 DEF RunDue, TypeOK, Configurable, envVars
<1> QED
  BY <1>5, <1>8, <1>9 DEF IInv

LEMMA NextTargetStep ==
  ASSUME IInv, NextTarget
  PROVE  IInv'
<1>1. TypeOK /\ Roomy /\ Sound
  BY DEF IInv
<1>2. /\ worker[Sched].pc = "next" /\ proc # "down" /\ Sched \in Workers
      /\ UNCHANGED <<proc, envVars, running, rows, fresh, unfinished>>
  BY DEF NextTarget, At, Workers
<1>3. upsets' \in 0..MaxUpsets
  BY <1>1, UpsetKept DEF NextTarget, TypeOK
<1>4. ASSUME todo' = {}, To(Sched, Idle) PROVE IInv'
  <2>1. worker' \in [Workers -> Worker] /\ Sound'
    BY <1>1, <1>2, <1>4, IdleFacts, WaitStep DEF Holding, Recorded
  <2>2. /\ worker'[Sched] = Idle
        /\ \A v \in Workers \ {Sched} : worker'[v] = worker[v]
    BY <1>1, <1>2, <1>4, IdleFacts, ToFacts DEF TypeOK
  <2>3. Before' \subseteq Before
    BY <1>2, <2>2, IdleFacts, BeforeShrinks
  <2>4. Roomy'
    BY <1>1, <1>2, <2>3, RoomKept
  <2>5. TypeOK'
    BY <1>1, <1>2, <1>3, <1>4, <2>1 DEF TypeOK, Configurable, envVars
  <2> QED
    BY <2>1, <2>4, <2>5 DEF IInv
<1>5. ASSUME Room, NEW t \in todo, todo' = todo \ {t},
             IF t \in targets THEN To(Sched, [Idle EXCEPT !.pc = "reserve", !.target = t])
             ELSE UNCHANGED worker
      PROVE  IInv'
  <2>1. todo' \subseteq Targets /\ t \in Targets
    BY <1>1, <1>5 DEF TypeOK
  <2>2. CASE UNCHANGED worker
    <3>1. TypeOK'
      BY <1>1, <1>2, <1>3, <2>1, <2>2 DEF TypeOK, Configurable, envVars
    <3>2. Roomy' /\ Sound'
      BY <1>1, <1>2, <2>2, EnvironmentSound
    <3> QED
      BY <3>1, <3>2 DEF IInv
  <2>3. CASE To(Sched, [Idle EXCEPT !.pc = "reserve", !.target = t])
    <3> DEFINE q == [Idle EXCEPT !.pc = "reserve", !.target = t]
    <3>1. /\ q \in Worker /\ q.pc = "reserve" /\ q.target = t
          /\ q.row = 0 /\ q.step = 0 /\ q.valid = 0 /\ q.late = 0
      BY <2>1, IdleFacts DEF Idle, Worker, PCs
    <3>2. To(Sched, q)
      BY <2>3
    <3> HIDE DEF q
    <3>3. worker' \in [Workers -> Worker] /\ Sound'
      BY <1>1, <1>2, <2>1, <3>1, <3>2, WaitStep DEF Holding, Recorded
    <3>4. \A v \in Workers \ {Sched} : worker'[v] = worker[v]
      BY <1>1, <1>2, <3>1, <3>2, ToFacts DEF TypeOK
    <3>5. Roomy'
      BY <1>1, <1>2, <1>5, <3>4, RoomForOne
    <3>6. TypeOK'
      BY <1>1, <1>2, <1>3, <2>1, <3>3 DEF TypeOK, Configurable, envVars
    <3> QED
      BY <3>3, <3>5, <3>6 DEF IInv
  <2> QED
    BY <1>5, <2>2, <2>3
<1> QED
  BY <1>4, <1>5 DEF NextTarget

LEMMA RunNowStep ==
  ASSUME IInv, NEW w \in Hands, RunNow(w)
  PROVE  IInv'
<1>1. TypeOK /\ Roomy /\ Sound
  BY DEF IInv
<1>2. /\ worker[w].pc = "idle" /\ proc # "down" /\ w \in Workers /\ Room
      /\ UNCHANGED <<proc, envVars, upsets, running, todo, rows, fresh, unfinished>>
  BY DEF RunNow, At, Workers
<1>3. PICK t \in targets : To(w, [Idle EXCEPT !.pc = "reserve", !.target = t])
  BY DEF RunNow
<1>4. t \in Targets
  BY <1>1 DEF TypeOK, Configurable
<1> DEFINE q == [Idle EXCEPT !.pc = "reserve", !.target = t]
<1>5. /\ q \in Worker /\ q.pc = "reserve" /\ q.target = t
      /\ q.row = 0 /\ q.step = 0 /\ q.valid = 0 /\ q.late = 0
  BY <1>4, IdleFacts DEF Idle, Worker, PCs
<1>6. To(w, q)
  BY <1>3
<1> HIDE DEF q
<1>7. worker' \in [Workers -> Worker] /\ Sound'
  BY <1>1, <1>2, <1>4, <1>5, <1>6, WaitStep DEF Holding, Recorded
<1>8. \A v \in Workers \ {w} : worker'[v] = worker[v]
  BY <1>1, <1>2, <1>5, <1>6, ToFacts DEF TypeOK
<1>9. Roomy'
  BY <1>1, <1>2, <1>8, RoomForOne
<1>10. TypeOK'
  BY <1>1, <1>2, <1>7 DEF TypeOK, Configurable, envVars
<1> QED
  BY <1>7, <1>9, <1>10 DEF IInv

LEMMA ReserveStep ==
  ASSUME IInv, NEW w \in Workers, Reserve(w)
  PROVE  IInv'
<1> DEFINE t == worker[w].target
           q == [worker[w] EXCEPT !.pc = IF w = Sched THEN "last" ELSE "create",
                                  !.proto = Proto[t.key]]
<1>1. TypeOK /\ Roomy /\ Sound
  BY DEF IInv
<1>2. /\ worker[w].pc = "reserve" /\ proc # "down"
      /\ UNCHANGED <<proc, envVars, upsets, rows, fresh, unfinished>>
  BY DEF Reserve, At
<1>3. worker[w] \in Worker /\ Fit(w) /\ t \in Targets /\ t.key \in Keys
  BY <1>1, <1>2, IdleFacts DEF TypeOK, Sound, Fit
<1>4. ASSUME running[t.key] = NoTarget, running' = [running EXCEPT ![t.key] = t], To(w, q),
             UNCHANGED todo
      PROVE  IInv'
  <2>1. /\ q \in Worker /\ q.target = t /\ q.row = 0 /\ q.step = 0 /\ q.valid = 0 /\ q.late = 0
        /\ q.pc \in {"last", "create"} /\ (w = Sched => q.pc = "last")
    <3>1. Proto[t.key] \in Protocols
      BY <1>3, ModelCheckAssumption
    <3>2. worker[w].row = 0 /\ worker[w].step = 0 /\ worker[w].valid = 0 /\ worker[w].late = 0
      BY <1>2, <1>3 DEF Fit, Recorded
    <3> QED
      BY <1>3, <3>1, <3>2 DEF Worker, PCs
  <2> HIDE DEF q
  <2>2. /\ worker' \in [Workers -> Worker] /\ worker'[w] = q
        /\ \A v \in Workers \ {w} : worker'[v] = worker[v]
    BY <1>1, <1>4, <2>1, ToFacts DEF TypeOK
  <2>3. running' \in [Keys -> Targets \cup {NoTarget}] /\ running'[t.key] = t
    BY <1>1, <1>3, <1>4 DEF TypeOK
  <2>4. \A v \in Workers \ {w} : worker[v].pc \in Holding =>
          worker[v].target \in Targets /\ worker[v].target.key # t.key
    BY <1>1, <1>4, IdleFacts DEF Sound, Fit
  <2>5. Fit(w)'
    BY <1>3, <2>1, <2>2, <2>3 DEF Fit, Holding, Recorded
  <2>6. ASSUME NEW v \in Workers \ {w} PROVE Fit(v)'
    <3>1. worker[v].pc \in Holding =>
            running'[worker[v].target.key] = running[worker[v].target.key]
      BY <1>1, <1>3, <1>4, <2>4 DEF TypeOK
    <3>2. Len(rows') \in Nat /\ Len(rows) <= Len(rows') /\ Fit(v)
      BY <1>1, <1>2, LogIsFinite, Bounds DEF Sound
    <3> QED
      BY <1>1, <1>2, <2>2, <3>1, <3>2, FitKept
  <2>7. Unique'
    BY <1>1, <2>1, <2>2, <2>4 DEF Sound, Unique
  <2>8. Quiescent' /\ Earned'
    BY <1>1, <1>2 DEF Sound, Quiescent, Earned
  <2>9. Roomy'
    BY <1>1, <1>2, <2>2, BeforeShrinks, RoomKept
  <2>10. TypeOK'
    BY <1>1, <1>2, <1>4, <2>2, <2>3 DEF TypeOK, Configurable, envVars
  <2> QED
    BY <2>5, <2>6, <2>7, <2>8, <2>9, <2>10 DEF IInv, Sound
<1>5. ASSUME NEW ok, To(w, Return(w, ok)), PassOver(w, ok), UNCHANGED running
      PROVE  IInv'
  <2> DEFINE p == Return(w, ok)
  <2>1. /\ p \in Worker /\ p.pc \in {"idle", "next"}
        /\ p.row = 0 /\ p.step = 0 /\ p.valid = 0 /\ p.late = 0
    BY ReturnFacts
  <2>2. To(w, p)
    BY <1>5
  <2> HIDE DEF p
  <2>3. worker' \in [Workers -> Worker] /\ Sound'
    BY <1>1, <1>2, <1>5, <2>1, <2>2, WaitStep DEF Holding, Recorded
  <2>4. /\ worker'[w] = p
        /\ \A v \in Workers \ {w} : worker'[v] = worker[v]
    BY <1>1, <2>1, <2>2, ToFacts DEF TypeOK
  <2>5. Roomy'
    BY <1>1, <1>2, <2>1, <2>4, BeforeShrinks, RoomKept
  <2>6. todo' \subseteq Targets
    BY <1>1, <1>5 DEF PassOver, TypeOK
  <2>7. TypeOK'
    BY <1>1, <1>2, <1>5, <2>3, <2>6 DEF TypeOK, Configurable, envVars
  <2> QED
    BY <2>3, <2>5, <2>7 DEF IInv
<1> QED
  BY <1>4, <1>5 DEF Reserve

LEMMA LastRunStep ==
  ASSUME IInv, NEW w \in Workers, LastRun(w)
  PROVE  IInv'
<1> DEFINE q == [worker[w] EXCEPT !.pc = "create"]
<1>1. TypeOK /\ Roomy /\ Sound
  BY DEF IInv
<1>2. /\ worker[w].pc = "last" /\ proc # "down" /\ worker[w].pc \in Holding
      /\ UNCHANGED <<proc, envVars, rows, fresh, unfinished>>
  BY DEF LastRun, At, Holding
<1>3. worker[w] \in Worker /\ Fit(w) /\ upsets' \in 0..MaxUpsets
  BY <1>1, UpsetKept DEF LastRun, TypeOK, Sound
<1>4. ASSUME worker[w].target.key \notin fresh, To(w, q), UNCHANGED <<running, todo>>
      PROVE  IInv'
  <2>1. /\ q \in Worker /\ q.pc = "create" /\ q.target = worker[w].target
        /\ q.row = 0 /\ q.step = 0 /\ q.valid = 0 /\ q.late = 0
    BY <1>2, <1>3 DEF Worker, PCs, Fit, Recorded
  <2> HIDE DEF q
  <2>2. /\ worker' \in [Workers -> Worker] /\ worker'[w] = q
        /\ \A v \in Workers \ {w} : worker'[v] = worker[v]
    BY <1>1, <1>4, <2>1, ToFacts DEF TypeOK
  <2>3. Fit(w)'
    BY <1>2, <1>3, <1>4, <2>1, <2>2 DEF Fit, Holding, Recorded
  <2>4. ASSUME NEW v \in Workers \ {w} PROVE Fit(v)'
    <3>1. Len(rows') \in Nat /\ Len(rows) <= Len(rows') /\ Fit(v)
      BY <1>1, <1>2, LogIsFinite, Bounds DEF Sound
    <3> QED
      BY <1>1, <1>2, <1>4, <2>2, <3>1, FitKept
  <2>5. Unique'
    BY <1>1, <1>2, <2>1, <2>2 DEF Sound, Unique
  <2>6. Quiescent' /\ Earned'
    BY <1>1, <1>2 DEF Sound, Quiescent, Earned
  <2>7. Roomy'
    BY <1>1, <1>2, <2>2, BeforeShrinks, RoomKept
  <2>8. TypeOK'
    BY <1>1, <1>2, <1>3, <1>4, <2>2 DEF TypeOK, Configurable, envVars
  <2> QED
    BY <2>3, <2>4, <2>5, <2>6, <2>7, <2>8 DEF IInv, Sound
<1>5. ASSUME NEW ok, End(w, ok) PROVE IInv'
  <2>1. /\ worker' \in [Workers -> Worker]
        /\ running' \in [Keys -> Targets \cup {NoTarget}] /\ todo' \subseteq Targets
        /\ Roomy' /\ Unique' /\ Quiescent' /\ \A v \in Workers : Fit(v)'
    BY <1>1, <1>2, <1>5, EndStep
  <2>2. Earned'
    BY <1>1, <1>2 DEF Sound, Earned
  <2>3. TypeOK'
    BY <1>1, <1>2, <1>3, <2>1 DEF TypeOK, Configurable, envVars
  <2> QED
    BY <2>1, <2>2, <2>3 DEF IInv, Sound
<1> QED
  BY <1>4, <1>5 DEF LastRun

\* A record is added, within the bound: the one that creates it was one of those waiting to.
LEMMA RoomUsed ==
  ASSUME TypeOK, Roomy, NEW w \in Workers, worker[w].pc = "create",
         worker'[w].pc \notin {"reserve", "last", "create"},
         \A v \in Workers \ {w} : worker'[v] = worker[v],
         Len(rows') = Len(rows) + 1
  PROVE  Roomy'
<1>1. w \in Before /\ Before \in SUBSET Workers /\ Before' = Before \ {w}
  BY DEF Before
<1>2. IsFiniteSet(Before) /\ Cardinality(Before) \in Nat /\ Cardinality(Before \ {w}) \in Nat
  <2>1. Before \ {w} \in SUBSET Workers
    BY <1>1
  <2> QED
    BY <1>1, <2>1, WorkersAreFinite
<1>3. Cardinality(Before \ {w}) = Cardinality(Before) - 1
  BY <1>1, <1>2, FS_RemoveElement
<1>4. Len(rows) \in Nat /\ MaxRuns \in Nat
  BY LogIsFinite, Bounds
<1> QED
  BY <1>1, <1>2, <1>3, <1>4 DEF Roomy

LEMMA CreateStep ==
  ASSUME IInv, NEW w \in Workers, Create(w)
  PROVE  IInv'
<1> DEFINE t == worker[w].target
           n == Len(rows) + 1
           r == [worker[w] EXCEPT !.row = n]
           c == [r EXCEPT !.pc = "check"]
           new == [key |-> t.key, expected |-> t.expected, status |-> "running", valid |-> 0]
<1>1. TypeOK /\ Roomy /\ Sound
  BY DEF IInv
<1>2. /\ worker[w].pc = "create" /\ proc # "down" /\ worker[w].pc \in Holding
      /\ UNCHANGED <<proc, envVars, unfinished>>
  BY DEF Create, At, Holding
<1>3. /\ worker[w] \in Worker /\ Fit(w) /\ upsets' \in 0..MaxUpsets
      /\ t \in Targets /\ t.key \in Keys /\ t.expected \in STRING
  <2>1. t \in Targets
    BY <1>1, <1>2 DEF Sound, Fit
  <2> QED
    BY <1>1, <2>1, UpsetKept, IdleFacts DEF Create, TypeOK, Sound
<1>4. ASSUME rows' = Append(rows, new), fresh' = fresh \cup {t.key},
             To(w, IF t.key \in usable THEN c ELSE Failed(r, "failed")),
             UNCHANGED <<running, todo>>
      PROVE  IInv'
  <2>1. /\ Len(rows) \in 0..MaxRuns /\ Len(rows) \in Nat /\ Len(rows') = n
        /\ \A i \in 1..Len(rows) : rows'[i] = rows[i]
        /\ rows'[n] = new
    BY <1>1, <1>4, LogIsFinite, Bounds
  <2>2. new \in Run
    <3>1. 0 \in 0..Challenges
      BY Bounds
    <3> QED
      BY <1>3, <3>1 DEF Run, Statuses
  <2>3. n \in 1..MaxRuns
    <3>1. Cardinality(Before) \in Nat /\ Cardinality(Before) # 0
      <4>1. w \in Before /\ Before \in SUBSET Workers
        BY <1>2 DEF Before
      <4> QED
        BY <4>1, WorkersAreFinite, FS_EmptySet
    <3> QED
      BY <1>1, <2>1, <3>1, Bounds DEF Roomy
  <2>4. /\ r \in Worker /\ r.target = t /\ r.row = n /\ r.pc = "create"
        /\ r.step = 0 /\ r.valid = 0 /\ r.late = 0
    <3>1. n \in 0..MaxRuns
      BY <2>3
    <3> QED
      BY <1>2, <1>3, <3>1 DEF Worker, Fit, Recorded
  <2> HIDE DEF r, n, new
  <2>5. /\ c \in Worker /\ c.target = t /\ c.row = n /\ c.pc = "check"
        /\ c.step = 0 /\ c.valid = 0 /\ c.late = 0
    BY <2>4 DEF Worker, PCs
  <2>6. /\ Failed(r, "failed") \in Worker /\ Failed(r, "failed").target = t
        /\ Failed(r, "failed").row = n /\ Failed(r, "failed").pc = "finish"
        /\ Failed(r, "failed").valid = 0 /\ Failed(r, "failed").late = 0
    <3>1. "failed" \in Errors
      BY DEF Errors
    <3> QED
      BY <2>4, <3>1, FailedFacts DEF Follows
  <2> HIDE DEF c
  <2>7. PICK q \in Worker : /\ To(w, q) /\ q.target = t /\ q.row = n /\ q.valid = 0 /\ q.late = 0
                            /\ q.pc \in {"check", "finish"}
    BY <1>4, <2>5, <2>6
  <2>8. /\ worker' \in [Workers -> Worker] /\ worker'[w] = q
        /\ \A v \in Workers \ {w} : worker'[v] = worker[v]
    BY <1>1, <2>7, ToFacts DEF TypeOK
  <2>9. Fit(w)'
    <3>1. n \in 1..Len(rows') /\ n # 0
      BY <2>1, <2>3
    <3>2. rows'[n].key = t.key /\ rows'[n].expected = t.expected /\ rows'[n].status = "running"
      BY <2>1 DEF new
    <3>3. running'[t.key] = t
      BY <1>2, <1>3, <1>4 DEF Fit
    <3> QED
      BY <1>3, <2>7, <2>8, <3>1, <3>2, <3>3 DEF Fit, Holding, Recorded
  <2>10. ASSUME NEW v \in Workers \ {w} PROVE Fit(v)'
    <3>1. Len(rows') \in Nat /\ Len(rows) <= Len(rows') /\ Fit(v)
      BY <1>1, <2>1 DEF Sound, n
    <3>2. worker[v].pc = "create" => worker[v].target.key # t.key
      BY <1>1, <1>2 DEF Sound, Unique, Holding
    <3>3. worker[v].target.key \notin fresh /\ worker[v].pc = "create" =>
            worker[v].target.key \notin fresh'
      BY <1>4, <3>2
    <3>4. worker[v].pc \in Recorded => rows'[worker[v].row] = rows[worker[v].row]
      BY <2>1, <3>1 DEF Fit
    <3> QED
      BY <1>1, <1>4, <2>8, <3>1, <3>3, <3>4, FitKept
  <2>11. Unique'
    BY <1>1, <1>2, <2>7, <2>8 DEF Sound, Unique
  <2>12. Quiescent'
    BY <1>1, <1>2 DEF Sound, Quiescent
  <2>13. Earned'
    <3>1. ~unfinished'
      BY <1>1, <1>2 DEF Sound, Earned
    <3>2. ASSUME NEW i \in 1..Len(rows'), rows'[i].status \in {"consistent", "suspected"}
          PROVE  rows'[i].valid = Challenges /\ rows'[i].expected # ""
      <4>1. i # n
        BY <2>1, <3>2 DEF new
      <4>2. i \in 1..Len(rows)
        BY <2>1, <4>1 DEF n
      <4> QED
        BY <1>1, <2>1, <3>2, <4>2 DEF Sound, Earned
    <3> QED
      BY <3>1, <3>2 DEF Earned
  <2>14. Roomy'
    <3>1. Len(rows') = Len(rows) + 1
      BY <2>1 DEF n
    <3>2. worker'[w].pc \notin {"reserve", "last", "create"}
      BY <2>7, <2>8
    <3> QED
      BY <1>1, <1>2, <2>8, <3>1, <3>2, RoomUsed
  <2>15. rows' \in Seq(Run) /\ Len(rows') <= MaxRuns
    BY <1>1, <1>4, <2>1, <2>2, <2>3, Bounds DEF TypeOK
  <2>16. TypeOK'
    BY <1>1, <1>2, <1>3, <1>4, <2>8, <2>15 DEF TypeOK, Configurable, envVars
  <2> QED
    BY <2>9, <2>10, <2>11, <2>12, <2>13, <2>14, <2>16 DEF IInv, Sound
<1>5. ASSUME End(w, FALSE), UNCHANGED <<rows, fresh>> PROVE IInv'
  <2>1. /\ worker' \in [Workers -> Worker]
        /\ running' \in [Keys -> Targets \cup {NoTarget}] /\ todo' \subseteq Targets
        /\ Roomy' /\ Unique' /\ Quiescent' /\ \A v \in Workers : Fit(v)'
    BY <1>1, <1>2, <1>5, EndStep
  <2>2. Earned'
    BY <1>1, <1>2, <1>5 DEF Sound, Earned
  <2>3. TypeOK'
    BY <1>1, <1>2, <1>3, <1>5, <2>1 DEF TypeOK, Configurable, envVars
  <2> QED
    BY <2>1, <2>2, <2>3 DEF IInv, Sound
<1> QED
  BY <1>4, <1>5 DEF Create

\* What every step of a run in its challenges has in common.
LEMMA AttemptEnds ==
  ASSUME IInv, NEW w \in Workers, worker[w].pc \in {"check", "send", "resend"}, proc # "down",
         NEW q \in Worker, To(w, q), q.pc \in Recorded,
         q.target = worker[w].target, q.row = worker[w].row,
         q.pc # "finish" => q.valid = 0 \/ q.valid < q.step,
         q.pc = "resend" => q.step # 0,
         q.late <= 1, q.pc \in {"send", "resend"} => q.late = 0,
         UNCHANGED <<proc, envVars, running, todo, rows, fresh>>,
         upsets' \in 0..MaxUpsets, unfinished' = FALSE
  PROVE  IInv'
<1>1. TypeOK /\ Roomy /\ Sound
  BY DEF IInv
<1>2. worker' \in [Workers -> Worker] /\ Roomy' /\ Sound'
  BY <1>1, RunGoesOn
<1>3. TypeOK'
  BY <1>1, <1>2 DEF TypeOK, Configurable, envVars
<1> QED
  BY <1>2, <1>3 DEF IInv

\* The state of a run in its challenges.
LEMMA RunFacts ==
  ASSUME IInv, NEW w \in Workers, worker[w].pc \in {"check", "send", "resend"}
  PROVE  /\ worker[w] \in Worker /\ worker[w].target \in Targets
         /\ worker[w].row \in 1..Len(rows) /\ rows[worker[w].row].status = "running"
         /\ worker[w].step \in 0..Challenges /\ worker[w].valid \in 0..Challenges
         /\ worker[w].valid = 0 \/ worker[w].valid < worker[w].step
         /\ worker[w].pc = "resend" => worker[w].step # 0
         /\ worker[w].late \in 0..1
         /\ worker[w].pc \in {"send", "resend"} => worker[w].late = 0
         /\ upsets \in 0..MaxUpsets /\ unfinished = FALSE
<1>1. TypeOK /\ Fit(w) /\ Earned
  BY DEF IInv, Sound
<1>2. worker[w] \in Worker /\ upsets \in 0..MaxUpsets /\ unfinished \in BOOLEAN
  BY <1>1 DEF TypeOK
<1>3. worker[w].step \in 0..Challenges /\ worker[w].valid \in 0..Challenges
      /\ worker[w].late \in 0..2
  BY <1>2 DEF Worker
<1>4. worker[w].late \in 0..1
  BY <1>1, <1>3 DEF Fit
<1> QED
  BY <1>1, <1>2, <1>3, <1>4 DEF Fit, Holding, Recorded, Earned

LEMMA CheckStep ==
  ASSUME IInv, NEW w \in Workers, Check(w)
  PROVE  IInv'
<1> DEFINE r == worker[w]
           q == [r EXCEPT !.pc = "send", !.late = 0]
<1>1. /\ r.pc = "check" /\ proc # "down"
      /\ UNCHANGED <<proc, envVars, running, todo, fresh, unfinished>>
  BY DEF Check, At
<1>2. /\ r \in Worker /\ r.row \in 1..Len(rows) /\ rows[r.row].status = "running"
      /\ r.late \in 0..1 /\ (r.valid = 0 \/ r.valid < r.step)
      /\ unfinished = FALSE /\ upsets \in 0..MaxUpsets
  BY <1>1, RunFacts
<1>3. upsets' \in 0..MaxUpsets
  <2>1. TypeOK
    BY DEF IInv
  <2> QED
    BY <1>2, <2>1, UpsetKept DEF Check
<1>4. ASSUME NEW e \in Errors, To(w, Failed(r, e)), UNCHANGED rows PROVE IInv'
  <2> DEFINE f == Failed(r, e)
  <2>1. /\ f \in Worker /\ f.pc = "finish" /\ f.target = r.target /\ f.row = r.row
        /\ f.late = r.late
    BY <1>2, FailedFacts DEF Follows
  <2>2. f.late <= 1 /\ To(w, f)
    BY <1>2, <1>4, <2>1
  <2> HIDE DEF f
  <2> QED
    BY <1>1, <1>2, <1>3, <1>4, <2>1, <2>2, AttemptEnds DEF Recorded
<1>5. ASSUME rows' = [rows EXCEPT ![r.row].status = "running"], To(w, q) PROVE IInv'
  <2>1. rows' = rows
    <3>1. rows \in Seq(Run) /\ rows[r.row] \in Run
      BY <1>2 DEF IInv, TypeOK
    <3>2. [rows[r.row] EXCEPT !.status = "running"] = rows[r.row]
      BY <1>2, <3>1 DEF Run
    <3>3. rows' = [rows EXCEPT ![r.row] = [rows[r.row] EXCEPT !.status = "running"]]
      BY <1>5
    <3> QED
      BY <3>1, <3>2, <3>3
  <2>2. /\ q \in Worker /\ q.pc = "send" /\ q.target = r.target /\ q.row = r.row
        /\ q.valid = r.valid /\ q.step = r.step /\ q.late = 0
    <3>1. 0 \in 0..2 /\ r \in Worker
      BY <1>2
    <3> QED
      BY <3>1 DEF Worker, PCs
  <2> HIDE DEF q
  <2>3. q.pc \in Recorded /\ q.late <= 1 /\ (q.valid = 0 \/ q.valid < q.step)
    BY <1>2, <2>2 DEF Recorded
  <2>4. UNCHANGED <<proc, envVars, running, todo, rows, fresh>> /\ unfinished' = FALSE
    BY <1>1, <1>2, <2>1
  <2>5. r.pc \in {"check", "send", "resend"} /\ q.pc # "resend" /\ proc # "down"
    BY <1>1, <2>2
  <2>6. To(w, q)
    BY <1>5
  <2> QED
    BY <1>3, <2>2, <2>3, <2>4, <2>5, <2>6, AttemptEnds
<1>6. "failed" \in Errors /\ Refusal(w) \in Errors
  BY DEF Errors, Refusal
<1> QED
  BY <1>4, <1>5, <1>6 DEF Check

LEMMA ExpireStep ==
  ASSUME IInv, NEW w \in Workers, Expire(w)
  PROVE  IInv'
<1> DEFINE r == worker[w]
           f == Failed(r, "failed")
<1>1. /\ r.pc \in {"check", "send", "resend"} /\ proc # "down" /\ To(w, f)
      /\ UNCHANGED <<proc, envVars, running, todo, rows, fresh, unfinished>>
  BY DEF Expire, At
<1>2. r \in Worker /\ r.late \in 0..1 /\ unfinished = FALSE
  BY <1>1, RunFacts
<1>3. upsets' \in 0..MaxUpsets
  BY UpsetKept DEF Expire, IInv
<1>4. /\ f \in Worker /\ f.pc = "finish" /\ f.target = r.target /\ f.row = r.row
      /\ f.late = r.late
  <2>1. "failed" \in Errors
    BY DEF Errors
  <2> QED
    BY <1>2, <2>1, FailedFacts DEF Follows
<1>5. f.late <= 1
  BY <1>2, <1>4
<1> HIDE DEF f
<1> QED
  BY <1>1, <1>2, <1>3, <1>4, <1>5, AttemptEnds DEF Recorded

\* An attempt that ends without an output.
LEMMA AttemptFails ==
  ASSUME IInv, NEW w \in Workers, worker[w].pc \in {"send", "resend"}, proc # "down",
         NEW q, Follows(Asked(w, worker[w]), q), To(w, q),
         UNCHANGED <<proc, envVars, upsets, running, todo, rows, fresh>>, unfinished' = FALSE
  PROVE  IInv'
<1> DEFINE r == worker[w]
           a == Asked(w, r)
<1>1. /\ r \in Worker /\ r.late = 0 /\ (r.valid = 0 \/ r.valid < r.step)
      /\ r.step \in 0..Challenges /\ r.valid \in 0..Challenges /\ upsets \in 0..MaxUpsets
  BY RunFacts
<1>2. a.late \in 0..1 /\ a.target = r.target /\ a.row = r.row /\ a.valid = r.valid
      /\ a.step = r.step
  BY <1>1, AskedFacts
<1>3. /\ q \in Worker /\ q.target = r.target /\ q.row = r.row /\ q.valid = r.valid
      /\ q.late <= 1 /\ q.pc \in {"check", "finish"} /\ (q.pc = "check" => q.step >= r.step)
  BY <1>2 DEF Follows
<1>4. q.pc # "finish" => q.valid = 0 \/ q.valid < q.step
  <2>1. q.step \in 0..Challenges
    BY <1>3 DEF Worker
  <2> QED
    BY <1>1, <1>3, <2>1, Bounds
<1> QED
  BY <1>1, <1>3, <1>4, AttemptEnds DEF Recorded

LEMMA AnswerStep ==
  ASSUME IInv, NEW w \in Workers, worker[w].pc \in {"send", "resend"}, proc # "down",
         worker[w].step > 0, NEW o, NEW finished, o = "output" => finished,
         Answer(w, Asked(w, worker[w]), o, finished),
         UNCHANGED <<proc, envVars, upsets, running, todo, rows, fresh>>
  PROVE  IInv'
<1> DEFINE r == worker[w]
           a == Asked(w, r)
           g == [a EXCEPT !.valid = a.valid + 1]
<1>1. /\ r \in Worker /\ r.late = 0 /\ (r.valid = 0 \/ r.valid < r.step)
      /\ r.step \in 0..Challenges /\ r.valid \in 0..Challenges
      /\ upsets \in 0..MaxUpsets /\ unfinished = FALSE
  BY RunFacts
<1>2. /\ a \in Worker /\ a.late \in 0..1 /\ a.target = r.target /\ a.row = r.row
      /\ a.valid = r.valid /\ a.step = r.step
  BY <1>1, AskedFacts
<1>4. unfinished' = (unfinished \/ (worker'[w].valid > a.valid /\ ~finished))
  BY DEF Answer
<1>5. worker \in [Workers -> Worker]
  BY DEF IInv, TypeOK
<1> HIDE DEF a
<1>6. ASSUME NEW q, Follows(a, q), To(w, q) PROVE IInv'
  <2>1. q \in Worker /\ q.valid = a.valid
    BY <1>6 DEF Follows
  <2>2. worker'[w].valid = a.valid /\ a.valid \in Nat
    BY <1>1, <1>2, <1>5, <1>6, <2>1, Bounds, ToFacts
  <2>3. unfinished' = FALSE
    <3>1. ~(worker'[w].valid > a.valid)
      BY <2>2
    <3> QED
      BY <1>1, <1>4, <3>1
  <2> QED
    BY <1>6, <2>3, AttemptFails DEF a
<1>7. ASSUME o = "output", To(w, NextStep(g)) PROVE IInv'
  <2>1. g.valid \in 1..Challenges /\ g.valid <= r.step /\ g \in Worker
        /\ g.target = r.target /\ g.row = r.row /\ g.step = r.step /\ g.late = a.late
    <3>1. a.valid + 1 \in 1..Challenges /\ a.valid + 1 <= r.step
      BY <1>1, <1>2, Bounds
    <3>2. a.valid + 1 \in 0..Challenges
      BY <3>1, Bounds
    <3> QED
      BY <1>2, <3>1, <3>2 DEF Worker
  <2> DEFINE q == NextStep(g)
  <2> HIDE DEF g
  <2>2. /\ q \in Worker /\ q.target = r.target /\ q.row = r.row /\ q.valid = g.valid
        /\ q.late = a.late /\ q.pc \in {"check", "finish"}
        /\ q.pc = "check" => q.step > g.step
    BY <2>1, NextStepFacts DEF Follows
  <2>3. To(w, q)
    BY <1>7
  <2> HIDE DEF q
  <2>4. q.pc # "finish" => q.valid = 0 \/ q.valid < q.step
    <3>1. q.step \in Nat /\ r.step \in Nat /\ g.valid \in Nat
      <4>1. q.step \in 0..Challenges
        BY <2>2 DEF Worker
      <4> QED
        BY <1>1, <2>1, <4>1, Bounds
    <3> QED
      BY <2>1, <2>2, <3>1
  <2>5. finished
    BY <1>7
  <2>6. unfinished' = FALSE
    BY <1>1, <1>4, <2>5
  <2>7. q.late <= 1
    BY <1>2, <2>2
  <2> QED
    BY <1>1, <2>2, <2>3, <2>4, <2>6, <2>7, AttemptEnds DEF Recorded
<1>8. Follows(a, AfterFailure(w, a, TRUE)) /\ Follows(a, AfterFailure(w, a, FALSE))
      /\ Follows(a, Failed(a, "failed"))
  <2>1. "failed" \in Errors /\ TRUE \in BOOLEAN /\ FALSE \in BOOLEAN
    BY DEF Errors
  <2> QED
    BY <1>2, <2>1, AfterFailureFacts, FailedFacts
<1>9. \/ o = "output" /\ To(w, NextStep(g))
      \/ To(w, AfterFailure(w, a, TRUE)) \/ To(w, Failed(a, "failed"))
      \/ To(w, AfterFailure(w, a, FALSE))
  BY DEF Answer, a
<1> QED
  BY <1>6, <1>7, <1>8, <1>9

\* Whichever form an answer has, what is read as an output had finished.
LEMMA AnswersStep ==
  ASSUME IInv, NEW w \in Workers, worker[w].pc \in {"send", "resend"}, proc # "down",
         worker[w].step > 0, Answers(w, Asked(w, worker[w])),
         UNCHANGED <<proc, envVars, upsets, running, todo, rows, fresh>>
  PROVE  IInv'
<1> DEFINE a == Asked(w, worker[w])
<1>1. worker[w] \in Worker /\ worker[w].late = 0
  BY RunFacts
<1>2. a.proto \in Protocols
  <2>1. a \in Worker
    BY <1>1, AskedFacts
  <2> QED
    BY <2>1 DEF Worker
<1> HIDE DEF a
<1>3. CASE \E s \in Streams : Answer(w, a, Read(a.proto, s), Whole(a.proto, s))
  <2>1. PICK s \in Streams : Answer(w, a, Read(a.proto, s), Whole(a.proto, s))
    BY <1>3
  <2>2. s \in Seq(Events)
    BY ModelCheckAssumption
  <2>3. Read(a.proto, s) = "output" => Whole(a.proto, s)
    BY <1>2, <2>2, OutputIsWhole
  <2> QED
    BY <2>1, <2>3, AnswerStep DEF a
<1>4. CASE \E b \in Bodies : Answer(w, a, ReadBody(b), Unrefused(b))
  <2>1. PICK b \in Bodies : Answer(w, a, ReadBody(b), Unrefused(b))
    BY <1>4
  <2>2. ReadBody(b) = "output" => Unrefused(b)
    BY DEF ReadBody, Unrefused, Bodies
  <2> QED
    BY <2>1, <2>2, AnswerStep DEF a
<1> QED
  BY <1>3, <1>4 DEF Answers, a

LEMMA CredentialsStep ==
  ASSUME IInv, NEW w \in Workers, Credentials(w)
  PROVE  IInv'
<1> DEFINE a == Asked(w, worker[w])
<1>1. /\ worker[w].pc = "send" /\ proc # "down"
      /\ UNCHANGED <<proc, envVars, upsets, running, todo, rows, fresh, unfinished>>
  BY DEF Credentials, At
<1>2. worker[w] \in Worker /\ worker[w].late = 0 /\ unfinished = FALSE
  BY <1>1, RunFacts
<1>3. a \in Worker
  BY <1>2, AskedFacts
<1>4. FALSE \in BOOLEAN
  OBVIOUS
<1>5. To(w, NextStep(a)) \/ To(w, AfterFailure(w, a, FALSE))
  BY DEF Credentials
<1> HIDE DEF a
<1>6. Follows(a, NextStep(a)) /\ Follows(a, AfterFailure(w, a, FALSE))
  BY <1>3, <1>4, NextStepFacts, AfterFailureFacts
<1> QED
  BY <1>1, <1>2, <1>5, <1>6, AttemptFails DEF a

LEMMA ChallengeStep ==
  ASSUME IInv, NEW w \in Workers, Challenge(w)
  PROVE  IInv'
<1> DEFINE r == worker[w]
           a == Asked(w, r)
           f == [a EXCEPT !.fellback = TRUE, !.proto = Fallback(a.proto)]
           again == [f EXCEPT !.pc = "resend"]
           q == IF Allowed(w) THEN again ELSE Failed(f, "paused")
<1>1. /\ r.pc = "send" /\ proc # "down"
      /\ UNCHANGED <<proc, envVars, upsets, running, todo, rows, fresh>>
  BY DEF Challenge, At
<1>2. /\ r \in Worker /\ r.late = 0 /\ unfinished = FALSE /\ upsets \in 0..MaxUpsets
      /\ (r.valid = 0 \/ r.valid < r.step) /\ r.step \in 0..Challenges
  BY <1>1, RunFacts
<1>3. /\ a \in Worker /\ a.late \in 0..1 /\ ((w = Sched /\ ~Wanted(r.target)) \/ a.late = 0)
      /\ a.target = r.target /\ a.row = r.row /\ a.valid = r.valid /\ a.step = r.step
  BY <1>2, AskedFacts
<1>4. a.step > 0 /\ r.step > 0 /\ \/ Answers(w, a)
                                  \/ To(w, AfterFailure(w, a, FALSE)) /\ UNCHANGED unfinished
                                  \/ To(w, q) /\ UNCHANGED unfinished
  BY <1>3 DEF Challenge
<1>5. CASE Answers(w, a)
  BY <1>1, <1>4, <1>5, AnswersStep
<1>6. CASE To(w, AfterFailure(w, a, FALSE)) /\ UNCHANGED unfinished
  <2>1. Follows(a, AfterFailure(w, a, FALSE))
    BY <1>3, AfterFailureFacts
  <2> QED
    BY <1>1, <1>2, <1>6, <2>1, AttemptFails
<1>7. CASE To(w, q) /\ UNCHANGED unfinished
  <2> HIDE DEF a
  <2>1. /\ f \in Worker /\ f.target = r.target /\ f.row = r.row /\ f.valid = r.valid
        /\ f.step = r.step /\ f.late = a.late
    <3>1. Fallback(a.proto) \in Protocols
      BY DEF Fallback, Protocols
    <3> QED
      BY <1>3, <3>1 DEF Worker
  <2> HIDE DEF f
  <2>2. CASE Allowed(w)
    <3>1. /\ again \in Worker /\ again.pc = "resend" /\ again.target = r.target
          /\ again.row = r.row /\ again.valid = r.valid /\ again.step = r.step
          /\ again.late = a.late
      BY <2>1 DEF Worker, PCs
    <3>2. a.late = 0
      BY <1>3, <2>2 DEF Allowed
    <3>3. To(w, again)
      BY <1>7, <2>2
    <3> HIDE DEF again
    <3>4. again.pc \in Recorded /\ again.late <= 1 /\ again.late = 0 /\ again.step # 0
          /\ (again.valid = 0 \/ again.valid < again.step)
      BY <1>2, <1>4, <3>1, <3>2 DEF Recorded
    <3> QED
      BY <1>1, <1>2, <1>7, <3>1, <3>3, <3>4, AttemptEnds
  <2>3. CASE ~Allowed(w)
    <3> DEFINE e == Failed(f, "paused")
    <3>1. "paused" \in Errors
      BY DEF Errors
    <3>2. /\ e \in Worker /\ e.pc = "finish" /\ e.target = r.target /\ e.row = r.row
          /\ e.late = a.late
      BY <2>1, <3>1, FailedFacts DEF Follows
    <3>3. To(w, e) /\ e.late <= 1
      BY <1>3, <1>7, <2>3, <3>2
    <3> HIDE DEF e
    <3> QED
      BY <1>1, <1>2, <1>7, <3>2, <3>3, AttemptEnds DEF Recorded
  <2> QED
    BY <2>2, <2>3
<1> QED
  BY <1>4, <1>5, <1>6, <1>7

LEMMA ResendStep ==
  ASSUME IInv, NEW w \in Workers, Resend(w)
  PROVE  IInv'
<1> DEFINE r == worker[w]
           a == Asked(w, r)
<1>1. /\ r.pc = "resend" /\ proc # "down"
      /\ UNCHANGED <<proc, envVars, upsets, running, todo, rows, fresh>>
  BY DEF Resend, At
<1>2. r \in Worker /\ r.late = 0 /\ unfinished = FALSE /\ r.step \in 0..Challenges /\ r.step # 0
  BY <1>1, RunFacts
<1>3. a \in Worker /\ r.step > 0
  BY <1>2, AskedFacts, Bounds
<1>4. CASE Answers(w, a)
  BY <1>1, <1>3, <1>4, AnswersStep
<1>5. CASE To(w, AfterFailure(w, a, FALSE)) /\ UNCHANGED unfinished
  <2>1. Follows(a, AfterFailure(w, a, FALSE))
    BY <1>3, AfterFailureFacts
  <2> QED
    BY <1>1, <1>2, <1>5, <2>1, AttemptFails
<1> QED
  BY <1>4, <1>5 DEF Resend

\* A verdict other than a weak one is the result of all the challenges of a target with a model.
LEMMA ResultFacts ==
  ASSUME NEW r \in Worker, NEW p
  PROVE  /\ Result(r, p) \in Statuses \ {"running"}
         /\ Result(r, p) \in {"consistent", "suspected"} =>
              r.valid = Challenges /\ r.target.expected # ""
<1>1. r.err \in {"none", "failed", "paused"} /\ r.valid \in 0..Challenges
  BY DEF Worker, Errors
<1>2. r.valid < Challenges \/ r.valid = Challenges
  BY <1>1, Bounds
<1> QED
  BY <1>1, <1>2 DEF Result, Verdict, Statuses, Verdicts

\* A record is replaced.
LEMMA Replaced ==
  ASSUME NEW S, NEW s \in Seq(S), NEW i \in 1..Len(s), NEW x \in S
  PROVE  LET t == [s EXCEPT ![i] = x] IN
         /\ t \in Seq(S) /\ Len(t) = Len(s) /\ t[i] = x
         /\ \A j \in 1..Len(s) : j # i => t[j] = s[j]
<1> QED
  OBVIOUS

LEMMA FinishStep ==
  ASSUME IInv, NEW w \in Workers, Finish(w)
  PROVE  IInv'
<1> DEFINE r == worker[w]
<1>1. TypeOK /\ Roomy /\ Sound
  BY DEF IInv
<1>2. /\ r.pc = "finish" /\ r.pc \in Holding /\ proc # "down"
      /\ UNCHANGED <<proc, envVars, fresh, unfinished>>
  BY DEF Finish, At, Holding, Recorded
<1>3. /\ r \in Worker /\ r.row \in 1..Len(rows) /\ rows[r.row].expected = r.target.expected
      /\ rows \in Seq(Run) /\ upsets' \in 0..MaxUpsets
  BY <1>1, <1>2, UpsetKept DEF Finish, TypeOK, Sound, Fit, Recorded
<1>4. ASSUME NEW row \in Run, rows' = [rows EXCEPT ![r.row] = row], NEW ok, End(w, ok),
             row.status \in {"consistent", "suspected"} =>
               row.valid = Challenges /\ row.expected # ""
      PROVE  IInv'
  <2>1. /\ rows' \in Seq(Run) /\ Len(rows') = Len(rows) /\ rows'[r.row] = row
        /\ \A i \in 1..Len(rows) : i # r.row => rows'[i] = rows[i]
    <3>1. rows \in Seq(Run) /\ r.row \in 1..Len(rows)
      BY <1>3
    <3>2. rows' = [rows EXCEPT ![r.row] = row]
      BY <1>4
    <3> HIDE DEF r
    <3> QED
      BY <3>1, <3>2, Replaced
  <2>2. /\ worker' \in [Workers -> Worker]
        /\ running' \in [Keys -> Targets \cup {NoTarget}] /\ todo' \subseteq Targets
        /\ Roomy' /\ Unique' /\ Quiescent' /\ \A v \in Workers : Fit(v)'
    BY <1>1, <1>2, <1>4, <2>1, EndStep
  <2>3. Earned'
    BY <1>1, <1>2, <1>4, <2>1 DEF Sound, Earned
  <2>4. TypeOK'
    BY <1>1, <1>2, <1>3, <2>1, <2>2 DEF TypeOK, Configurable, envVars
  <2> QED
    BY <2>2, <2>3, <2>4 DEF IInv, Sound
<1>5. ASSUME NEW p,
             rows' = [rows EXCEPT ![r.row].status = Result(r, p), ![r.row].valid = r.valid],
             End(w, TRUE)
      PROVE  IInv'
  <2> DEFINE row == [rows[r.row] EXCEPT !.status = Result(r, p), !.valid = r.valid]
  <2>1. rows[r.row] \in Run /\ r.valid \in 0..Challenges
    BY <1>3 DEF Worker
  <2>2. /\ row \in Run /\ row.status = Result(r, p) /\ row.valid = r.valid
        /\ row.expected = r.target.expected
    BY <1>3, <2>1, ResultFacts DEF Run
  <2>3. rows' = [rows EXCEPT ![r.row] = row]
    BY <1>3, <1>5
  <2> HIDE DEF row
  <2>4. row.status \in {"consistent", "suspected"} => row.valid = Challenges /\ row.expected # ""
    BY <1>3, <2>2, ResultFacts
  <2>5. End(w, TRUE)
    BY <1>5
  <2> QED
    BY <1>4, <2>2, <2>3, <2>4, <2>5
<1>6. ASSUME rows' = rows, End(w, FALSE) PROVE IInv'
  <2>1. rows[r.row] \in Run /\ rows' = [rows EXCEPT ![r.row] = rows[r.row]]
    BY <1>3, <1>6
  <2>2. rows[r.row].status \in {"consistent", "suspected"} =>
          rows[r.row].valid = Challenges /\ rows[r.row].expected # ""
    BY <1>1, <1>3 DEF Sound, Earned
  <2> QED
    BY <1>4, <1>6, <2>1, <2>2
<1> QED
  BY <1>5, <1>6 DEF Finish

LEMMA StutterStep == IInv /\ UNCHANGED vars => IInv'
<1> SUFFICES ASSUME IInv, UNCHANGED vars PROVE IInv'
  OBVIOUS
<1>1. TypeOK'
  BY DEF IInv, TypeOK, Configurable, vars
<1>2. fresh' \subseteq fresh
  BY DEF vars
<1>3. Roomy' /\ Sound'
  BY <1>2, EnvironmentSound DEF IInv, vars
<1> QED
  BY <1>1, <1>3 DEF IInv

LEMMA NextKeeps == IInv /\ [Next]_vars => IInv'
<1> SUFFICES ASSUME IInv, [Next]_vars PROVE IInv'
  OBVIOUS
<1>1. CASE Next
  BY <1>1, EnvironmentStep, StartStep, HaltStep, RunDueStep, NextTargetStep, RunNowStep,
     ReserveStep, LastRunStep, CreateStep, CheckStep, CredentialsStep, ChallengeStep,
     ResendStep, FinishStep, ExpireStep, Zenon DEF Next, Step
<1>2. CASE UNCHANGED vars
  BY <1>2, StutterStep
<1> QED
  BY <1>1, <1>2

----------------------------------------------------------------------------
\* The theorems.

LEMMA Inductive == Spec => []IInv
<1> QED
  BY InitSound, NextKeeps, PTL DEF Spec

\* The variables keep their types, and the log of runs keeps within its bound,
\* whichever run, crash or failed save comes next.
THEOREM TypeCorrect == Spec => []TypeOK
<1>1. IInv => TypeOK
  BY DEF IInv
<1> QED
  BY <1>1, Inductive, PTL

\* A verdict of the log (store/modelcheck.go) rests on all the challenges of a target with an
\* expected model; of the streams (readStreamOutput) only those the model finished were ever
\* counted as an output, and of the complete bodies (requestOutput) none that named a limit, a
\* filter, a refusal or an error. A body that does not say how it ended may have been counted.
THEOREM VerdictsAreEarned == Spec => []VerdictsEarned
<1>1. IInv => VerdictsEarned
  BY DEF IInv, Sound, Earned, VerdictsEarned
<1> QED
  BY <1>1, Inductive, PTL

\* The scheduler makes at most one request that the settings no longer want: the guard is
\* read again before every attempt and before the request of a fallback.
THEOREM QuietStops == Spec => []StopsInQuiet
<1>1. IInv => StopsInQuiet
  <2>1. IInv => Fit(Sched)
    BY DEF IInv, Sound, Workers
  <2> QED
    BY <2>1 DEF Fit, StopsInQuiet
<1> QED
  BY <1>1, Inductive, PTL

\* The scheduler records a run only of a key whose last run, its own or an administrator's, is
\* older than the interval, for the reservation is held from the look to the record.
THEOREM IntervalIsKept == Spec => IntervalKept
<1>1. ASSUME IInv, [Next]_vars, NEW w \in Workers, w = Sched, worker[w].pc = "create",
             Len(rows') > Len(rows), worker'[w].pc # "create"
      PROVE  rows'[Len(rows')].key \notin fresh
  <2>1. rows \in Seq(Run) /\ Len(rows) \in Nat /\ ~(Len(rows) > Len(rows))
    <3>1. rows \in Seq(Run)
      BY <1>1 DEF IInv, TypeOK
    <3>2. Len(rows) \in Nat
      BY <3>1
    <3> QED
      BY <3>1, <3>2
  <2>2. PICK v \in Workers : Create(v) /\ rows' # rows
    <3>1. rows' # rows
      BY <1>1, <2>1
    <3>2. ~(Start \/ \E v \in Workers : Check(v) \/ Finish(v))
      <4>1. ASSUME Start PROVE FALSE
        <5>1. Len(rows') = Len(rows)
          BY <1>1, <2>1, <4>1, InterruptFacts DEF Start, IInv
        <5> QED
          BY <1>1, <2>1, <5>1
      <4>2. ASSUME NEW v \in Workers, Check(v) \/ Finish(v) PROVE FALSE
        <5>1. Len(rows') = Len(rows)
          <6>1. DOMAIN rows' = DOMAIN rows
            BY <4>2 DEF Check, Finish
          <6>2. rows' \in Seq(Run)
            BY <1>1, NextKeeps DEF IInv, TypeOK
          <6> QED
            BY <2>1, <6>1, <6>2
        <5> QED
          BY <1>1, <2>1, <5>1
      <4> QED
        BY <4>1, <4>2
    <3> QED
      BY <1>1, <3>1, <3>2, Zenon DEF Next, Step, vars, envVars, SaveSettings, Clock, Catalogue,
         Elapse, Stop, Exit, Crash, Halt, RunDue, NextTarget, RunNow, Reserve, LastRun,
         Credentials, Challenge, Resend, Expire
  <2>3. v = w
    <3>1. worker[v].pc = "create" /\ worker \in [Workers -> Worker]
      <4>1. worker[v].pc = "create"
        BY <2>2 DEF Create, At
      <4>2. worker \in [Workers -> Worker]
        BY <1>1 DEF IInv, TypeOK
      <4> QED
        BY <4>1, <4>2
    <3>2. \E q : worker' = [worker EXCEPT ![v] = q]
      BY <2>2 DEF Create, End, To
    <3> QED
      BY <1>1, <3>1, <3>2
  <2>4. rows' = Append(rows, [key |-> worker[w].target.key, expected |-> worker[w].target.expected,
                              status |-> "running", valid |-> 0])
    BY <2>2, <2>3 DEF Create
  <2>5. rows'[Len(rows')].key = worker[w].target.key
    BY <2>1, <2>4
  <2>6. worker[w].target.key \notin fresh
    BY <1>1 DEF IInv, Sound, Fit
  <2> QED
    BY <2>5, <2>6
<1>2. IInv /\ [Next]_vars =>
        [\A w \in Workers :
           (w = Sched /\ worker[w].pc = "create" /\ Len(rows') > Len(rows)
              /\ worker'[w].pc # "create")
           => rows'[Len(rows')].key \notin fresh]_vars
  BY <1>1
<1> QED
  BY <1>2, Inductive, PTL DEF Spec, IntervalKept

----------------------------------------------------------------------------
\* The records and the live runs are those of RunLog.

LogStep == Log!LogNext \/ UNCHANGED Log!logVars

\* The live run of a key is the one run of it that is recorded, if there is one.
HeldByRuns ==
  /\ \A k \in Keys : (\A w \in Workers : worker[w].target.key # k \/ worker[w].row = 0)
                       => HeldOf[k] = 0
  /\ \A w \in Workers : worker[w].row # 0 =>
       worker[w].target.key \in Keys /\ HeldOf[worker[w].target.key] = worker[w].row

LEMMA HeldIsByRuns == IInv => HeldByRuns
<1> SUFFICES ASSUME IInv PROVE HeldByRuns
  OBVIOUS
<1>1. (\A w \in Workers : Fit(w)) /\ Unique
  BY DEF IInv, Sound
<1>2. ASSUME NEW k \in Keys, \A w \in Workers : worker[w].target.key # k \/ worker[w].row = 0
      PROVE  HeldOf[k] = 0
  <2>1. Live(k) = {}
    BY <1>2 DEF Live
  <2> QED
    BY <2>1 DEF HeldOf
<1>3. ASSUME NEW w \in Workers, worker[w].row # 0
      PROVE  worker[w].target.key \in Keys /\ HeldOf[worker[w].target.key] = worker[w].row
  <2> DEFINE k == worker[w].target.key
  <2>1. worker[w].pc \in Recorded /\ worker[w].target \in Targets
    BY <1>1, <1>3 DEF Fit, Holding
  <2>2. k \in Keys
    BY <2>1, IdleFacts
  <2>3. \A v \in Live(k) : v = w
    <3> TAKE v \in Live(k)
    <3>1. v \in Workers /\ worker[v].target.key = k /\ worker[v].row # 0
      BY DEF Live
    <3>2. worker[v].pc \in Recorded
      BY <1>1, <3>1 DEF Fit
    <3> QED
      BY <1>1, <2>1, <3>1, <3>2 DEF Unique, Holding
  <2>4. w \in Live(k)
    BY <1>3 DEF Live
  <2>5. Live(k) # {} /\ (CHOOSE v \in Live(k) : TRUE) = w
    BY <2>3, <2>4
  <2> QED
    BY <2>2, <2>5 DEF HeldOf
<1> QED
  BY <1>2, <1>3 DEF HeldByRuns

LEMMA HeldIsByRunsNext == IInv' => HeldByRuns'
<1> QED
  BY HeldIsByRuns, PTL

\* The live run of a key stays while no run of the key begins or ends.
LEMMA HeldKept ==
  ASSUME IInv, IInv', NEW k \in Keys,
         \A w \in Workers :
            (worker[w].row # 0 /\ worker[w].target.key = k)
              \/ (worker'[w].row # 0 /\ worker'[w].target.key = k)
            => worker'[w].row = worker[w].row /\ worker'[w].target = worker[w].target
  PROVE  HeldOf'[k] = HeldOf[k]
<1>1. HeldByRuns /\ HeldByRuns'
  BY HeldIsByRuns, HeldIsByRunsNext
<1>2. CASE \E w \in Workers : worker[w].row # 0 /\ worker[w].target.key = k
  BY <1>1, <1>2 DEF HeldByRuns
<1>3. CASE \A w \in Workers : worker[w].row = 0 \/ worker[w].target.key # k
  <2>1. \A w \in Workers : worker'[w].row = 0 \/ worker'[w].target.key # k
    BY <1>3
  <2> QED
    BY <1>1, <1>3, <2>1 DEF HeldByRuns
<1> QED
  BY <1>2, <1>3

LEMMA RunsStay ==
  ASSUME IInv, IInv', rows' = rows,
         \A w \in Workers : /\ worker'[w].row = worker[w].row
                            /\ worker[w].row # 0 => worker'[w].target = worker[w].target
  PROVE  LogStep
<1>1. LogOf' = LogOf
  BY DEF LogOf
<1>2. \A k \in Keys : HeldOf'[k] = HeldOf[k]
  BY HeldKept
<1>3. HeldOf' = HeldOf
  BY <1>2 DEF HeldOf
<1> QED
  BY <1>1, <1>3 DEF LogStep, Log!logVars

\* A worker that moves and keeps its run, or remains without one.
LEMMA RunStays ==
  ASSUME IInv, IInv', rows' = rows, NEW w \in Workers, NEW q, To(w, q),
         q.row = worker[w].row, worker[w].row # 0 => q.target = worker[w].target
  PROVE  LogStep
<1>1. worker \in [Workers -> Worker]
  BY DEF IInv, TypeOK
<1>2. \A v \in Workers : worker'[v] = IF v = w THEN q ELSE worker[v]
  BY <1>1 DEF To
<1> QED
  BY <1>2, RunsStay

LEMMA LogStart ==
  ASSUME IInv, IInv', Start
  PROVE  LogStep
<1>1. TypeOK /\ \A w \in Workers : worker[w].row = 0
  BY DEF Start, IInv, Sound, Quiescent, Fit, Recorded
<1>2. CASE rows' = Interrupt(rows) /\ UNCHANGED worker
  <2>1. Len(rows') = Len(rows) /\ \A i \in 1..Len(rows) :
          rows'[i].key = rows[i].key /\ rows'[i].status # "running"
    BY <1>1, <1>2, InterruptFacts
  <2>2. \A k \in Keys : HeldOf[k] = 0
    BY <1>1, HeldIsByRuns DEF HeldByRuns
  <2>3. HeldOf = [k \in Keys |-> 0]
    BY <2>2 DEF HeldOf
  <2>4. HeldOf' = HeldOf
    BY <1>2 DEF HeldOf, Live
  <2>5. Len(LogOf) = Len(rows)
    BY <1>1, LogIsFinite, Bounds DEF LogOf
  <2>6. LogOf' = [i \in 1..Len(rows) |-> [key |-> rows[i].key, open |-> FALSE]]
    BY <2>1 DEF LogOf
  <2>7. LogOf' = [i \in 1..Len(LogOf) |-> [LogOf[i] EXCEPT !.open = FALSE]]
    BY <2>5, <2>6 DEF LogOf
  <2>8. Log!Recover
    BY <2>3, <2>4, <2>7 DEF Log!Recover
  <2> QED
    BY <2>8 DEF LogStep, Log!LogNext
<1>3. CASE rows' = rows /\ To(Sched, [Idle EXCEPT !.pc = "gone"])
  <2> DEFINE q == [Idle EXCEPT !.pc = "gone"]
  <2>1. q.row = 0 /\ Sched \in Workers
    BY DEF Idle, Workers
  <2>2. To(Sched, q)
    BY <1>3
  <2> HIDE DEF q
  <2> QED
    BY <1>1, <1>3, <2>1, <2>2, RunStays
<1> QED
  BY <1>2, <1>3 DEF Start

LEMMA LogHalt ==
  ASSUME IInv, IInv', Halt
  PROVE  LogStep
<1>1. rows' = rows /\ \A w \in Workers : worker'[w] = Idle
  BY DEF Halt
<1>2. \A k \in Keys : HeldOf'[k] = 0
  BY <1>1, IdleFacts, HeldIsByRunsNext DEF HeldByRuns
<1>3. HeldOf' = [k \in Keys |-> 0] /\ LogOf' = LogOf
  BY <1>1, <1>2 DEF HeldOf, LogOf
<1> QED
  BY <1>3 DEF LogStep, Log!LogNext, Log!Die

\* A worker without a recorded run ends.
LEMMA LogEnd ==
  ASSUME IInv, IInv', rows' = rows, NEW w \in Workers, worker[w].pc \notin Recorded,
         NEW ok, To(w, Return(w, ok))
  PROVE  LogStep
<1>1. worker[w].row = 0
  BY DEF IInv, Sound, Fit
<1>2. Return(w, ok).row = 0
  BY ReturnFacts
<1> QED
  BY <1>1, <1>2, RunStays

LEMMA LogCreate ==
  ASSUME IInv, IInv', NEW w \in Workers, Create(w)
  PROVE  LogStep
<1> DEFINE t == worker[w].target
           n == Len(rows) + 1
           r == [worker[w] EXCEPT !.row = n]
           c == [r EXCEPT !.pc = "check"]
           new == [key |-> t.key, expected |-> t.expected, status |-> "running", valid |-> 0]
<1>1. TypeOK /\ Unique /\ Fit(w) /\ worker[w].pc = "create" /\ \A v \in Workers : Fit(v)
  BY DEF IInv, Sound, Create, At
<1>2. worker[w].row = 0 /\ worker[w] \in Worker /\ t \in Targets /\ t.key \in Keys
  <2>1. worker[w].row = 0 /\ t \in Targets
    BY <1>1 DEF Fit, Holding, Recorded
  <2>2. worker[w] \in Worker
    BY <1>1 DEF TypeOK
  <2> QED
    BY <2>1, <2>2, IdleFacts
<1>3. CASE rows' = Append(rows, new) /\ To(w, IF t.key \in usable THEN c ELSE Failed(r, "failed"))
  <2>1. rows \in Seq(Run) /\ Len(rows) \in Nat /\ n # 0
    BY <1>1, LogIsFinite, Bounds
  <2>2. c.row = n /\ c.target = t
    BY <1>2 DEF Worker
  <2>3. Failed(r, "failed").row = n /\ Failed(r, "failed").target = t
    BY <1>2 DEF Failed, Idle, Worker
  <2> HIDE DEF c, r
  <2>4. worker'[w].row = n /\ worker'[w].target = t
        /\ \A v \in Workers \ {w} : worker'[v] = worker[v]
    BY <1>1, <1>3, <2>2, <2>3 DEF To, TypeOK
  <2>5. \A v \in Workers : worker[v].row # 0 => worker[v].target.key # t.key
    <3>1. ASSUME NEW v \in Workers, worker[v].row # 0, worker[v].target.key = t.key PROVE FALSE
      <4>1. worker[v].pc \in Recorded
        BY <1>1, <3>1 DEF Fit
      <4>2. v = w
        BY <1>1, <3>1, <4>1 DEF Unique, Holding
      <4> QED
        BY <1>2, <3>1, <4>2
    <3> QED
      BY <3>1
  <2>6. HeldOf[t.key] = 0
    BY <1>2, <2>5, HeldIsByRuns DEF HeldByRuns
  <2>7. HeldOf'[t.key] = n
    BY <2>1, <2>4, HeldIsByRunsNext DEF HeldByRuns
  <2>8. ASSUME NEW k \in Keys, k # t.key PROVE HeldOf'[k] = HeldOf[k]
    BY <1>2, <2>4, <2>8, HeldKept
  <2>9. HeldOf' = [HeldOf EXCEPT ![t.key] = n]
    <3>1. \A k \in Keys : HeldOf'[k] = IF k = t.key THEN n ELSE HeldOf[k]
      BY <2>7, <2>8
    <3> HIDE DEF t, n
    <3> QED
      BY <3>1 DEF HeldOf
  <2>10. Len(LogOf) = Len(rows) /\ LogOf \in Seq([key : Keys, open : BOOLEAN])
    <3>1. \A i \in 1..Len(rows) : rows[i].key \in Keys
      <4>1. \A i \in 1..Len(rows) : rows[i] \in Run
        BY <2>1
      <4> QED
        BY <4>1 DEF Run
    <3> QED
      BY <2>1, <3>1 DEF LogOf
  <2>11. LogOf' = Append(LogOf, [key |-> t.key, open |-> TRUE])
    <3> DEFINE e == [key |-> t.key, open |-> TRUE]
               s == Append(LogOf, e)
    <3>1. Len(rows') = n /\ rows'[n] = new /\ \A i \in 1..Len(rows) : rows'[i] = rows[i]
      BY <1>3, <2>1
    <3>2. new.key = t.key /\ (new.status = "running")
      OBVIOUS
    <3>3. \A i \in 1..n : LogOf'[i] = IF i = n THEN e ELSE LogOf[i]
      <4> TAKE i \in 1..n
      <4>1. LogOf'[i] = [key |-> rows'[i].key, open |-> rows'[i].status = "running"]
        BY <3>1 DEF LogOf
      <4>2. CASE i = n
        BY <3>1, <3>2, <4>1, <4>2
      <4>3. CASE i # n
        <5>1. i \in 1..Len(rows)
          BY <2>1, <4>3
        <5> HIDE DEF n
        <5> QED
          BY <3>1, <4>1, <4>3, <5>1 DEF LogOf
      <4> QED
        BY <4>2, <4>3
    <3>4. LogOf' = [i \in 1..n |-> LogOf'[i]]
      BY <3>1 DEF LogOf
    <3>5. s = [i \in 1..n |-> IF i = n THEN e ELSE LogOf[i]]
      BY <2>1, <2>10
    <3> HIDE DEF e, s, n
    <3> QED
      BY <3>3, <3>4, <3>5 DEF s, e
  <2>12. Log!Open(t.key)
    BY <2>6, <2>9, <2>10, <2>11 DEF Log!Open
  <2> QED
    BY <1>2, <2>12 DEF LogStep, Log!LogNext
<1>4. CASE End(w, FALSE) /\ UNCHANGED rows
  BY <1>1, <1>4, LogEnd DEF End, Recorded
<1> QED
  BY <1>3, <1>4 DEF Create

\* A run in its challenges keeps its record open.
LEMMA LogRuns ==
  ASSUME IInv, IInv', NEW w \in Workers,
         Check(w) \/ Credentials(w) \/ Challenge(w) \/ Resend(w) \/ Expire(w)
  PROVE  LogStep
<1> DEFINE r == worker[w]
           a == Asked(w, r)
           g == [a EXCEPT !.valid = a.valid + 1]
           f == [a EXCEPT !.fellback = TRUE, !.proto = Fallback(a.proto)]
<1>1. r.pc \in {"check", "send", "resend"}
  BY DEF Check, Credentials, Challenge, Resend, Expire, At
<1>2. /\ r \in Worker /\ r.row \in 1..Len(rows) /\ rows[r.row].status = "running"
      /\ (r.pc \in {"send", "resend"} => r.late = 0)
      /\ r.valid \in 0..Challenges /\ (r.valid = 0 \/ r.valid < r.step)
      /\ r.step \in 0..Challenges
  BY <1>1, RunFacts
<1>3. "failed" \in Errors /\ "paused" \in Errors /\ TRUE \in BOOLEAN /\ FALSE \in BOOLEAN
  BY DEF Errors
<1>4. ASSUME NEW q, To(w, q), q.target = r.target, q.row = r.row, rows' = rows PROVE LogStep
  BY <1>4, RunStays
<1>5. ASSUME NEW p, p.target = r.target, p.row = r.row, NEW q, Follows(p, q), To(w, q), rows' = rows
      PROVE  LogStep
  <2>1. q.target = r.target /\ q.row = r.row
    BY <1>5 DEF Follows
  <2> QED
    BY <1>4, <1>5, <2>1
<1>6. CASE Check(w)
  <2>1. rows' = rows
    <3>1. rows \in Seq(Run) /\ rows[r.row] \in Run
      BY <1>2 DEF IInv, TypeOK
    <3>2. [rows[r.row] EXCEPT !.status = "running"] = rows[r.row]
      BY <1>2, <3>1 DEF Run
    <3>3. \/ rows' = [rows EXCEPT ![r.row] = [rows[r.row] EXCEPT !.status = "running"]]
          \/ rows' = rows
      BY <1>6 DEF Check
    <3> QED
      BY <3>1, <3>2, <3>3
  <2>2. \/ To(w, Failed(r, "failed")) \/ To(w, Failed(r, "paused"))
        \/ To(w, [r EXCEPT !.pc = "send", !.late = 0])
    BY <1>6 DEF Check, Refusal
  <2>3. Follows(r, Failed(r, "failed")) /\ Follows(r, Failed(r, "paused"))
    BY <1>2, <1>3, FailedFacts
  <2>4. [r EXCEPT !.pc = "send", !.late = 0].target = r.target
        /\ [r EXCEPT !.pc = "send", !.late = 0].row = r.row
    BY <1>2 DEF Worker
  <2> QED
    BY <1>4, <1>5, <2>1, <2>2, <2>3, <2>4
<1>7. CASE Expire(w)
  <2>1. rows' = rows /\ To(w, Failed(r, "failed"))
    BY <1>7 DEF Expire
  <2>2. Follows(r, Failed(r, "failed"))
    BY <1>2, <1>3, FailedFacts
  <2> QED
    BY <1>5, <2>1, <2>2
<1>8. ASSUME r.pc \in {"send", "resend"}
      PROVE  /\ a \in Worker /\ a.target = r.target /\ a.row = r.row
             /\ a.valid = r.valid /\ a.step = r.step
  BY <1>2, <1>8, AskedFacts
<1>9. ASSUME r.pc \in {"send", "resend"}
      PROVE  /\ Follows(a, NextStep(a)) /\ Follows(a, AfterFailure(w, a, TRUE))
             /\ Follows(a, AfterFailure(w, a, FALSE)) /\ Follows(a, Failed(a, "failed"))
  BY <1>3, <1>8, <1>9, NextStepFacts, AfterFailureFacts, FailedFacts
<1>10. CASE Credentials(w)
  <2>1. r.pc = "send" /\ rows' = rows /\ (To(w, NextStep(a)) \/ To(w, AfterFailure(w, a, FALSE)))
    BY <1>10 DEF Credentials, At
  <2> HIDE DEF a
  <2> QED
    BY <1>5, <1>8, <1>9, <2>1
<1>11. ASSUME r.pc \in {"send", "resend"}, rows' = rows, a.step > 0,
              Answers(w, a)
       PROVE  LogStep
  <2>1. \/ To(w, NextStep(g)) \/ To(w, AfterFailure(w, a, TRUE))
        \/ To(w, Failed(a, "failed")) \/ To(w, AfterFailure(w, a, FALSE))
    BY <1>11 DEF Answers, Answer
  <2> HIDE DEF a
  <2>2. g \in Worker /\ g.target = r.target /\ g.row = r.row
    <3>1. a.valid + 1 \in 0..Challenges
      BY <1>2, <1>8, <1>11, Bounds
    <3> QED
      BY <1>8, <1>11, <3>1 DEF Worker
  <2> HIDE DEF g
  <2>3. Follows(g, NextStep(g))
    BY <2>2, NextStepFacts
  <2> QED
    BY <1>5, <1>8, <1>9, <1>11, <2>1, <2>2, <2>3
<1>12. CASE Resend(w)
  <2>1. /\ r.pc = "resend" /\ rows' = rows
        /\ Answers(w, a) \/ To(w, AfterFailure(w, a, FALSE))
    BY <1>12 DEF Resend, At
  <2>2. a.step > 0
    <3>1. r.step # 0
      BY <2>1, RunFacts
    <3> QED
      BY <1>2, <1>8, <2>1, <3>1, Bounds
  <2> HIDE DEF a
  <2> QED
    BY <1>5, <1>8, <1>9, <1>11, <2>1, <2>2
<1>13. CASE Challenge(w)
  <2> DEFINE q == IF Allowed(w) THEN [f EXCEPT !.pc = "resend"] ELSE Failed(f, "paused")
  <2>1. /\ r.pc = "send" /\ rows' = rows /\ a.step > 0
        /\ \/ Answers(w, a) \/ To(w, AfterFailure(w, a, FALSE))
           \/ To(w, q)
    BY <1>13 DEF Challenge, At
  <2> HIDE DEF a
  <2>2. f \in Worker /\ f.target = r.target /\ f.row = r.row
    <3>1. Fallback(a.proto) \in Protocols
      BY DEF Fallback, Protocols
    <3> QED
      BY <1>8, <2>1, <3>1 DEF Worker
  <2> HIDE DEF f
  <2>3. q.target = r.target /\ q.row = r.row
    <3>1. [f EXCEPT !.pc = "resend"].target = r.target /\ [f EXCEPT !.pc = "resend"].row = r.row
      BY <2>2 DEF Worker
    <3>2. Failed(f, "paused").target = r.target /\ Failed(f, "paused").row = r.row
      BY <1>3, <2>2, FailedFacts DEF Follows
    <3> QED
      BY <3>1, <3>2
  <2> HIDE DEF q
  <2> QED
    BY <1>4, <1>5, <1>8, <1>9, <1>11, <2>1, <2>3
<1> QED
  BY <1>6, <1>7, <1>10, <1>12, <1>13

LEMMA LogFinish ==
  ASSUME IInv, IInv', NEW w \in Workers, Finish(w)
  PROVE  LogStep
<1> DEFINE r == worker[w]
           k == r.target.key
           n == r.row
<1>1. r.pc = "finish" /\ TypeOK /\ Unique /\ \A v \in Workers : Fit(v)
  BY DEF Finish, At, IInv, Sound
<1>2. /\ n \in 1..Len(rows) /\ n # 0 /\ k \in Keys /\ HeldOf[k] = n
      /\ rows \in Seq(Run) /\ Len(rows) \in Nat
  <2>1. n \in 1..Len(rows) /\ n # 0
    BY <1>1 DEF Fit, Recorded
  <2>2. k \in Keys /\ HeldOf[k] = n
    BY <2>1, HeldIsByRuns DEF HeldByRuns
  <2> QED
    BY <1>1, <2>1, <2>2, LogIsFinite, Bounds
<1>3. worker'[w].row = 0 /\ \A v \in Workers \ {w} : worker'[v] = worker[v]
  <2>1. PICK ok \in BOOLEAN : To(w, Return(w, ok))
    BY DEF Finish, End
  <2> HIDE DEF r, n, k
  <2> QED
    BY <1>1, <2>1, ReturnFacts, ToFacts DEF TypeOK
<1>4. \A v \in Workers \ {w} : worker[v].row # 0 => worker[v].target.key # k
  BY <1>1 DEF Unique, Fit, Holding, Recorded
<1>5. HeldOf'[k] = 0
  BY <1>2, <1>3, <1>4, HeldIsByRunsNext DEF HeldByRuns
<1>6. ASSUME NEW j \in Keys, j # k PROVE HeldOf'[j] = HeldOf[j]
  BY <1>3, <1>6, HeldKept
<1>7. HeldOf' = [HeldOf EXCEPT ![k] = 0]
  <2>1. \A j \in Keys : HeldOf'[j] = IF j = k THEN 0 ELSE HeldOf[j]
    BY <1>5, <1>6
  <2> HIDE DEF k
  <2> QED
    BY <2>1 DEF HeldOf
<1>8. CASE rows' = rows
  <2>1. LogOf' = LogOf
    BY <1>8 DEF LogOf
  <2>2. Log!Close(k)
    BY <1>2, <1>7, <2>1 DEF Log!Close
  <2> QED
    BY <1>2, <2>2 DEF LogStep, Log!LogNext
<1>9. ASSUME NEW p,
             rows' = [rows EXCEPT ![n].status = Result(r, p), ![n].valid = r.valid]
      PROVE  LogStep
  <2> DEFINE row == [rows[n] EXCEPT !.status = Result(r, p), !.valid = r.valid]
  <2>1. r \in Worker /\ rows[n] \in Run
    BY <1>1, <1>2 DEF TypeOK
  <2>2. r.valid \in 0..Challenges
    BY <2>1 DEF Worker
  <2>3. row \in Run /\ row.key = rows[n].key /\ row.status # "running"
    BY <2>1, <2>2, ResultFacts DEF Run
  <2>4. rows' = [rows EXCEPT ![n] = row]
    BY <1>2, <1>9
  <2> HIDE DEF row
  <2>5. Len(rows') = Len(rows) /\ \A i \in 1..Len(rows) : rows'[i] = IF i = n THEN row ELSE rows[i]
    BY <1>2, <2>3, <2>4, Replaced
  <2> HIDE DEF n
  <2>6. LogOf' = [i \in 1..Len(rows) |-> IF i = n THEN [LogOf[n] EXCEPT !.open = FALSE]
                                         ELSE LogOf[i]]
    BY <1>2, <2>3, <2>5 DEF LogOf
  <2>7. LogOf' = [LogOf EXCEPT ![n] = [LogOf[n] EXCEPT !.open = FALSE]]
    <3>1. DOMAIN LogOf = 1..Len(rows)
      BY DEF LogOf
    <3>2. LogOf = [i \in 1..Len(rows) |-> LogOf[i]]
      BY DEF LogOf
    <3> QED
      BY <2>6, <3>1, <3>2
  <2>8. Log!Close(k)
    BY <1>2, <1>7, <2>7 DEF Log!Close
  <2> QED
    BY <1>2, <2>8 DEF LogStep, Log!LogNext
<1> QED
  BY <1>8, <1>9 DEF Finish

LEMMA LogNextStep == IInv /\ IInv' /\ [Next]_vars => LogStep
<1> SUFFICES ASSUME IInv, IInv', [Next]_vars PROVE LogStep
  OBVIOUS
<1>1. CASE UNCHANGED vars \/ SaveSettings \/ Clock \/ Catalogue \/ Elapse \/ Stop
  <2>1. UNCHANGED <<rows, worker>>
    BY <1>1 DEF vars, SaveSettings, Clock, Catalogue, Elapse, Stop
  <2> QED
    BY <2>1, RunsStay
<1>2. CASE Start \/ Exit \/ Crash
  BY <1>2, LogStart, LogHalt DEF Exit, Crash
<1>3. ASSUME NEW w \in Workers, worker[w].pc \notin Recorded, rows' = rows,
             NEW q, To(w, q), q.row = 0
      PROVE  LogStep
  <2>1. worker[w].row = 0
    BY <1>3 DEF IInv, Sound, Fit
  <2> QED
    BY <1>3, <2>1, RunStays
<1>4. CASE RunDue \/ NextTarget \/ \E w \in Hands : RunNow(w)
  <2>1. PICK w \in Workers :
          /\ worker[w].pc \in {"idle", "next"} /\ rows' = rows
          /\ \/ UNCHANGED worker
             \/ To(w, Idle)
             \/ To(w, [Idle EXCEPT !.pc = "next"])
             \/ \E t : To(w, [Idle EXCEPT !.pc = "reserve", !.target = t])
    BY <1>4 DEF RunDue, NextTarget, RunNow, At, Workers
  <2>2. CASE UNCHANGED worker
    BY <2>1, <2>2, RunsStay
  <2>3. [Idle EXCEPT !.pc = "next"].row = 0 /\ Idle.row = 0
        /\ \A t : [Idle EXCEPT !.pc = "reserve", !.target = t].row = 0
    BY DEF Idle
  <2> QED
    BY <1>3, <2>1, <2>2, <2>3 DEF Recorded
<1>5. ASSUME NEW w \in Workers, Reserve(w) \/ LastRun(w) PROVE LogStep
  <2> DEFINE q == [worker[w] EXCEPT !.pc = IF w = Sched THEN "last" ELSE "create",
                                    !.proto = Proto[worker[w].target.key]]
             c == [worker[w] EXCEPT !.pc = "create"]
  <2>1. /\ worker[w].pc \in {"reserve", "last"} /\ rows' = rows
        /\ \/ \E ok \in BOOLEAN : To(w, Return(w, ok))
           \/ To(w, c)
           \/ To(w, q)
    BY <1>5 DEF Reserve, LastRun, End, At
  <2>2. worker[w].row = 0 /\ worker[w] \in Worker
    BY <2>1 DEF IInv, TypeOK, Sound, Fit, Recorded
  <2>3. q.row = 0 /\ c.row = 0
    BY <2>2 DEF Worker
  <2> HIDE DEF q, c
  <2> QED
    BY <1>3, <2>1, <2>3, LogEnd DEF Recorded
<1>6. ASSUME NEW w \in Workers, Step(w) \/ Expire(w) PROVE LogStep
  BY <1>5, <1>6, LogCreate, LogRuns, LogFinish DEF Step
<1> QED
  BY <1>1, <1>2, <1>4, <1>6 DEF Next

\* The history of runs behaves as RunLog promises, its fairness aside: a run is recorded before
\* it is live, a key has one live run at a time, results are final, and a start closes what a
\* crash or a lost save left running.
THEOREM RefinesRunLog == Spec => Log!LogInit /\ [][Log!LogNext]_(Log!logVars)
<1>1. Init => Log!LogInit
  <2> SUFFICES ASSUME Init PROVE Log!LogInit
    OBVIOUS
  <2>1. rows = <<>> /\ \A w \in Workers : worker[w].row = 0
    BY IdleFacts DEF Init
  <2>2. LogOf = <<>>
    BY <2>1 DEF LogOf
  <2>3. \A k \in Keys : Live(k) = {}
    BY <2>1 DEF Live
  <2>4. HeldOf = [k \in Keys |-> 0]
    BY <2>3 DEF HeldOf
  <2> QED
    BY <2>2, <2>4 DEF Log!LogInit
<1>2. IInv /\ IInv' /\ [Next]_vars => [Log!LogNext]_(Log!logVars)
  BY LogNextStep DEF LogStep
<1> QED
  BY <1>1, <1>2, Inductive, PTL DEF Spec
=============================================================================

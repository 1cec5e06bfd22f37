---------------------------- MODULE ReportsProofs ----------------------------
(***************************************************************************)
(* Proofs about Reports, for any calendar, sources and number of upsets:   *)
(* runs, records, states and sources stay consistent, and no local hour is *)
(* run twice by the schedule.                                              *)
(***************************************************************************)
EXTENDS Reports, TLAPS, WellFoundedInduction, SequenceTheorems

\* A non-empty set of natural numbers has a least element.
LEMMA MinIn ==
  ASSUME NEW S \in SUBSET Nat, S # {}
  PROVE  Min(S) \in S /\ \A x \in S : Min(S) <= x
<1>1. PICK m \in S : \A x \in S : ~(<<x, m>> \in OpToRel(<, Nat))
  BY NatLessThanWellFounded, WFMin
<1>2. ASSUME NEW x \in S PROVE m <= x
  <2>1. <<x, m>> \notin {ss \in Nat \X Nat : ss[1] < ss[2]}
    BY <1>1, Zenon DEF OpToRel
  <2>2. x \in Nat /\ m \in Nat
    OBVIOUS
  <2> QED
    BY <2>1, <2>2
<1> QED
  BY <1>2 DEF Min

\* A non-empty set of natural numbers with a bound has a greatest element.
LEMMA MaxIn ==
  ASSUME NEW S \in SUBSET Nat, S # {}, NEW b \in Nat, \A x \in S : x <= b
  PROVE  Max(S) \in S
<1> DEFINE B == {n \in Nat : \A x \in S : x <= n}
<1>1. B \in SUBSET Nat /\ B # {}
  OBVIOUS
<1>2. Min(B) \in B /\ \A n \in B : Min(B) <= n
  BY <1>1, MinIn
<1> DEFINE m == Min(B)
<1> HIDE DEF m
<1>3. m \in Nat /\ (\A x \in S : x <= m) /\ (\A n \in B : m <= n)
  BY <1>2 DEF m
<1>4. m \in S
  <2> SUFFICES ASSUME m \notin S PROVE FALSE
    OBVIOUS
  <2>1. ASSUME NEW x \in S PROVE x <= m - 1
    BY <1>3
  <2>2. PICK x \in S : x \in Nat /\ x <= m - 1
    BY <2>1
  <2>3. m - 1 \in B
    BY <1>3, <2>1, <2>2
  <2> QED
    BY <1>3, <2>3
<1> QED
  BY <1>3, <1>4 DEF Max

\* The hours of the calendar are numbers up to some greatest one: otherwise some hour would be
\* the first beyond every bound.
LEMMA HoursBounded == \E b \in Nat : \A h \in Hours : h <= b
<1> DEFINE hour == [t \in 1..Len(Calendar) |-> Calendar[t].hour]
           Within(n, b) == \A t \in 1..n : hour[t] <= b
           Bad == {n \in 0..Len(Calendar) : \A b \in Nat : ~Within(n, b)}
<1>1. PICK L \in Nat : L = Len(Calendar)
  BY ReportsAssumption, LenProperties
<1>2. DOMAIN Calendar = 1..L /\ hour \in [1..L -> Nat]
  <2>1. Calendar \in Seq([day : Nat, hour : Nat])
    BY ReportsAssumption
  <2>2. \A t \in 1..L : Calendar[t] \in [day : Nat, hour : Nat]
    BY <1>1, <2>1, ElementOfSeq
  <2> QED
    BY <1>1, <2>1, <2>2, LenProperties
<1>3. \A h \in Hours : \E t \in 1..L : h = hour[t]
  BY <1>1, <1>2 DEF Hours
<1> HIDE DEF hour
<1>4. Bad = {}
  <2> SUFFICES ASSUME Bad # {} PROVE FALSE
    OBVIOUS
  <2>1. Bad \in SUBSET Nat
    BY <1>1
  <2>2. PICK n \in Bad : \A k \in Bad : n <= k
    <3> HIDE DEF Bad
    <3> QED BY <2>1, MinIn
  <2>3. n \in 0..L /\ \A b \in Nat : ~Within(n, b)
    BY <1>1, <2>2
  <2>4. n - 1 \notin Bad
    <3> HIDE DEF Bad
    <3> QED BY <2>1, <2>2, <2>3
  <2>5. n # 0
    BY <2>3
  <2>6. PICK b \in Nat : Within(n - 1, b)
    <3>1. n - 1 \in 0..Len(Calendar)
      BY <1>1, <2>3, <2>5
    <3> QED
      BY <2>4, <3>1
  <2>7. PICK c \in Nat : b <= c /\ hour[n] <= c
    <3>1. hour[n] \in Nat
      BY <1>2, <2>3, <2>5
    <3>2. \A x, y \in Nat : \E z \in Nat : x <= z /\ y <= z
      <4> TAKE x, y \in Nat
      <4> WITNESS x + y \in Nat
      <4> QED OBVIOUS
    <3> QED
      BY <3>1, <3>2
  <2>8. ASSUME NEW t \in 1..n PROVE hour[t] <= c
    <3>1. CASE t = n
      BY <2>7, <3>1
    <3>2. CASE t # n
      <4>1. t \in 1..(n - 1) /\ t \in 1..L
        BY <2>3, <3>2
      <4>2. PICK h \in Nat : h = hour[t] /\ h <= b
        BY <1>2, <2>6, <4>1
      <4>3. b <= c
        BY <2>7
      <4>4. h <= c
        <5> HIDE DEF Bad, Within
        <5> QED BY <4>2, <4>3
      <4> QED
        BY <4>2, <4>4
    <3> QED
      BY <3>1, <3>2
  <2> QED
    BY <2>3, <2>7, <2>8
<1>5. PICK b \in Nat : Within(L, b)
  <2>1. L \in 0..Len(Calendar)
    BY <1>1
  <2>2. L \notin Bad
    BY <1>4, Zenon
  <2> QED
    BY <2>1, <2>2
<1> QED
  BY <1>3, <1>5

LEMMA HoursEnds == Min(Hours) \in Hours /\ Max(Hours) \in Hours
<1>0. Calendar \in Seq([day : Nat, hour : Nat]) /\ Calendar # <<>>
  BY ReportsAssumption
<1>1. 1 \in DOMAIN Calendar
  BY <1>0, EmptySeq, LenProperties
<1>2. Hours \in SUBSET Nat
  <2>1. \A t \in DOMAIN Calendar : Calendar[t] \in [day : Nat, hour : Nat]
    BY <1>0, ElementOfSeq, LenProperties
  <2> QED
    BY <2>1 DEF Hours
<1>3. Hours # {}
  BY <1>1 DEF Hours
<1> QED
  BY <1>2, <1>3, MinIn, MaxIn, HoursBounded

----------------------------------------------------------------------------
\* Types.

LEMMA InstantsAreNat ==
  /\ Len(Calendar) \in Nat /\ Instants = 1..Len(Calendar) /\ 1 \in Instants
  /\ \A t \in Instants : Calendar[t].hour \in Hours
<1>0. Calendar \in Seq([day : Nat, hour : Nat]) /\ Calendar # <<>>
  BY ReportsAssumption
<1>1. Len(Calendar) \in Nat \ {0} /\ DOMAIN Calendar = 1..Len(Calendar)
  BY <1>0, EmptySeq, LenProperties
<1> QED
  BY <1>1 DEF Instants, Hours

LEMMA DefaultType == Default \in Report /\ ~Default.exists
<1> QED
  BY HoursEnds, ReportsAssumption DEF Default, Report, Global

LEMMA IdleType == Idle \in Runner /\ Idle.pc = "idle" /\ Idle.checked = Never
<1> QED
  BY DEF Idle, Runner, PCs, Types

LEMMA AfterType ==
  ASSUME NEW type \in Types
  PROVE  /\ After(type) \in Runner
         /\ After(type).pc \in {"idle", "try"} /\ After(type).checked = Never
         /\ After(type).pc = "try" => After(type).type \in Periodic
<1>1. CASE type = "weekly"
  BY <1>1, IdleType DEF After
<1>2. CASE type # "weekly"
  BY <1>2, IdleType DEF After, Runner, PCs, Types, Periodic, Idle
<1> QED
  BY <1>1, <1>2

LEMMA GotoType ==
  ASSUME runner \in [Runners -> Runner], NEW n \in Runners, NEW r \in Runner, Goto(n, r)
  PROVE  /\ runner' \in [Runners -> Runner]
         /\ runner'[n] = r
         /\ \A k \in Runners \ {n} : runner'[k] = runner[k]
<1> QED
  BY DEF Goto

LEMMA LeaveType ==
  ASSUME runner \in [Runners -> Runner], NEW n \in Runners, Leave(n)
  PROVE  /\ runner' \in [Runners -> Runner] /\ mu' = "free"
         /\ runner'[n].pc \in {"idle", "try"} /\ runner'[n].checked = Never
         /\ runner'[n].pc = "try" => runner'[n].type \in Periodic
         /\ \A k \in Runners \ {n} : runner'[k] = runner[k]
<1>1. runner[n].type \in Types
  BY DEF Runner
<1>2. PICK r \in {After(runner[n].type), Idle} : Goto(n, r)
  BY DEF Leave
<1>3. /\ r \in Runner /\ r.pc \in {"idle", "try"} /\ r.checked = Never
      /\ r.pc = "try" => r.type \in Periodic
  BY <1>1, AfterType, IdleType
<1>4. runner' \in [Runners -> Runner] /\ runner'[n] = r
      /\ \A k \in Runners \ {n} : runner'[k] = runner[k]
  BY <1>2, <1>3, GotoType
<1> QED
  BY <1>3, <1>4 DEF Leave

\* The periodic reports as they are read: all there, with what was there untouched.
LEMMA PeriodicType ==
  ASSUME rep \in [Types -> Report]
  PROVE  /\ PeriodicReports \in [Periodic -> Report]
         /\ \A t \in Periodic :
              /\ PeriodicReports[t].exists
              /\ rep[t].exists => PeriodicReports[t] = rep[t]
              /\ ~rep[t].exists => /\ PeriodicReports[t].source = rep["daily"].source
                                   /\ PeriodicReports[t].last = Never
<1> DEFINE D(t) == [Default EXCEPT !.exists = TRUE, !.source = rep["daily"].source,
                                   !.hour = IF t = "daily" THEN Max(Hours) ELSE @]
<1>1. ASSUME NEW t \in Periodic
      PROVE  /\ D(t) \in Report /\ D(t).exists /\ D(t).source = rep["daily"].source
             /\ D(t).last = Never
  <2>1. rep["daily"].source \in Nat
    BY DEF Report, Types, Periodic
  <2> QED
    BY <2>1, DefaultType, HoursEnds DEF Report, Default
<1>2. \A t \in Periodic : PeriodicReports[t] = IF rep[t].exists THEN rep[t] ELSE D(t)
  BY DEF PeriodicReports
<1>3. \A t \in Periodic : rep[t] \in Report /\ rep[t].exists \in BOOLEAN
  BY DEF Types, Report
<1> HIDE DEF D
<1>4. PeriodicReports = [t \in Periodic |-> PeriodicReports[t]]
  BY DEF PeriodicReports
<1>5. \A t \in Periodic : PeriodicReports[t] \in Report
  BY <1>1, <1>2, <1>3
<1> QED
  BY <1>1, <1>2, <1>3, <1>4, <1>5

LEMMA ClosedType == Closed \in Draft /\ Closed.pc = "idle" /\ Numbered(Closed.new)
<1> QED
  BY DEF Closed, Draft, Numbered, Global

LEMMA StageType ==
  ASSUME draft \in [Editors -> Draft], NEW e \in Editors, NEW d \in Draft, Stage(e, d)
  PROVE  /\ draft' \in [Editors -> Draft] /\ draft'[e] = d
         /\ \A f \in Editors \ {e} : draft'[f] = draft[f]
<1> QED
  BY DEF Stage

\* The types hold at the start.
LEMMA InitType == Init => TypeOK
<1> SUFFICES ASSUME Init PROVE TypeOK
  OBVIOUS
<1>1. now \in Instants
  BY InstantsAreNat DEF Init
<1>2. rep \in [Types -> Report]
  <2>1. ASSUME NEW s \in Schedules
        PROVE  /\ Configured(Default, s) \in Report
               /\ \A x \in Nat : [Configured(Default, s) EXCEPT !.source = x] \in Report
    <3>1. s.hour \in Hours /\ s.weekday \in 1..Week
      BY ReportsAssumption
    <3> QED
      BY <3>1, DefaultType DEF Configured, Report
  <2>2. catalogue.items \subseteq Nat
    BY DEF Init
  <2> QED
    BY <2>1, <2>2, DefaultType DEF Init
<1>3. runner \in [Runners -> Runner]
  BY IdleType DEF Init
<1>4. saving = NoSave /\ DOMAIN saving = {}
  BY DEF Init, NoSave
<1>5. /\ recorded \in [Types -> Instants \cup {Never}] /\ done \in [Types -> Instants \cup {Never}]
      /\ overtaken \subseteq Nat /\ mu \in Runners \cup {"free"}
      /\ upsets \in 0..(2 * MaxUpsets)
  BY ReportsAssumption DEF Init
<1>6. catalogue \in [items : SUBSET Nat, next : Nat \ {0}] /\ Numbered(catalogue)
  BY DEF Init, Numbered
<1>7. draft \in [Editors -> Draft] /\ \A e \in Editors : Numbered(draft[e].new)
  BY ClosedType DEF Init
<1> QED
  BY <1>1, <1>2, <1>3, <1>4, <1>5, <1>6, <1>7 DEF TypeOK

\* What an administrator may be about to save: nothing, the usage report, or both periodic ones.
LEMMA ChangedType ==
  ASSUME TypeOK, NEW type \in Periodic, NEW on \in BOOLEAN, NEW s \in Schedules
  PROVE  /\ Changed(type, on, s) \in [Periodic -> Report]
         /\ \A t \in Periodic : /\ Changed(type, on, s)[t].exists
                                /\ Changed(type, on, s)[t].source = PeriodicReports[t].source
<1>1. /\ PeriodicReports \in [Periodic -> Report]
      /\ \A t \in Periodic : PeriodicReports[t].exists
  BY PeriodicType DEF TypeOK
<1> DEFINE q == [PeriodicReports[type] EXCEPT !.on = on, !.hour = s.hour]
           r == IF type = "weekly" THEN [q EXCEPT !.weekday = s.weekday] ELSE q
<1>2. r \in Report /\ r.exists /\ r.source = PeriodicReports[type].source
  <2>1. s.hour \in Hours /\ s.weekday \in 1..Week
    BY ReportsAssumption
  <2> QED
    BY <1>1, <2>1 DEF Report
<1>3. Changed(type, on, s) = [PeriodicReports EXCEPT ![type] = r]
  BY DEF Changed
<1> HIDE DEF r
<1> QED
  BY <1>1, <1>2, <1>3

LEMMA SavePeriodicType ==
  ASSUME TypeOK, SavePeriodic
  PROVE  /\ saving' \in [Periodic -> Report]
         /\ \A t \in Periodic : saving'[t].exists
         /\ \/ \A t \in Periodic : saving'[t].source = PeriodicReports[t].source
            \/ \E x \in Valid : \A t \in Periodic : saving'[t].source = x
<1>1. /\ PeriodicReports \in [Periodic -> Report]
      /\ \A t \in Periodic : PeriodicReports[t].exists
  BY PeriodicType DEF TypeOK
<1>2. ASSUME NEW type \in Periodic, NEW s \in Schedules, saving' = Changed(type, TRUE, s)
      PROVE  /\ saving' \in [Periodic -> Report]
             /\ \A t \in Periodic : /\ saving'[t].exists
                                    /\ saving'[t].source = PeriodicReports[t].source
  BY <1>2, ChangedType
<1>3. ASSUME NEW type \in Periodic, saving' = [PeriodicReports EXCEPT ![type].on = FALSE]
      PROVE  /\ saving' \in [Periodic -> Report]
             /\ \A t \in Periodic : /\ saving'[t].exists
                                    /\ saving'[t].source = PeriodicReports[t].source
  <2> DEFINE r == [PeriodicReports[type] EXCEPT !.on = FALSE]
  <2>1. r \in Report /\ r.exists /\ r.source = PeriodicReports[type].source
    BY <1>1 DEF Report
  <2>2. saving' = [PeriodicReports EXCEPT ![type] = r]
    BY <1>3
  <2> HIDE DEF r
  <2> QED
    BY <1>1, <2>1, <2>2
<1>4. ASSUME NEW x \in Valid,
             saving' = [t \in Periodic |-> [PeriodicReports[t] EXCEPT !.source = x]]
      PROVE  /\ saving' \in [Periodic -> Report]
             /\ \A t \in Periodic : saving'[t].exists /\ saving'[t].source = x
  <2>1. x \in Nat
    BY DEF Valid, TypeOK, Global
  <2>2. ASSUME NEW t \in Periodic
        PROVE  /\ [PeriodicReports[t] EXCEPT !.source = x] \in Report
               /\ [PeriodicReports[t] EXCEPT !.source = x].exists
               /\ [PeriodicReports[t] EXCEPT !.source = x].source = x
    BY <1>1, <2>1 DEF Report
  <2> QED
    BY <1>4, <2>2
<1> QED
  BY <1>2, <1>3, <1>4 DEF SavePeriodic, Saves

LEMMA SaveUsageType ==
  ASSUME TypeOK, SaveUsage
  PROVE  /\ saving' \in [{"usage"} -> Report]
         /\ saving'["usage"].exists /\ saving'["usage"].source \in Valid
<1>1. PICK x \in Valid, on \in BOOLEAN :
        saving' = [t \in {"usage"} |-> [rep[t] EXCEPT !.exists = TRUE, !.on = on, !.source = x]]
  BY DEF SaveUsage, Saves
<1>2. rep["usage"] \in Report /\ x \in Nat
  BY DEF Valid, TypeOK, Types, Global
<1>3. [rep["usage"] EXCEPT !.exists = TRUE, !.on = on, !.source = x] \in Report
  BY <1>2 DEF Report
<1>4. /\ [rep["usage"] EXCEPT !.exists = TRUE, !.on = on, !.source = x].exists
      /\ [rep["usage"] EXCEPT !.exists = TRUE, !.on = on, !.source = x].source = x
  BY <1>2 DEF Report
<1> QED
  BY <1>1, <1>3, <1>4

\* A save takes the configuration and leaves the state of the reports alone.
LEMMA SavedType ==
  ASSUME TypeOK
  PROVE  /\ Saved(saving) \in [Types -> Report]
         /\ \A t \in DOMAIN saving : /\ Saved(saving)[t].exists = saving[t].exists
                                     /\ Saved(saving)[t].source = saving[t].source
                                     /\ Saved(saving)[t].last = rep[t].last
         /\ \A t \in Types \ DOMAIN saving : Saved(saving)[t] = rep[t]
<1>1. ASSUME NEW t \in DOMAIN saving
      PROVE  /\ [saving[t] EXCEPT !.last = rep[t].last] \in Report
             /\ [saving[t] EXCEPT !.last = rep[t].last].exists = saving[t].exists
             /\ [saving[t] EXCEPT !.last = rep[t].last].source = saving[t].source
             /\ [saving[t] EXCEPT !.last = rep[t].last].last = rep[t].last
  <2>1. saving[t] \in Report /\ t \in Types /\ rep[t] \in Report
    BY DEF TypeOK
  <2> QED
    BY <2>1 DEF Report
<1>2. \A t \in Types : Saved(saving)[t] = IF t \in DOMAIN saving
                                          THEN [saving[t] EXCEPT !.last = rep[t].last] ELSE rep[t]
  BY DEF Saved
<1>3. Saved(saving) = [t \in Types |-> Saved(saving)[t]]
  BY DEF Saved
<1>4. DOMAIN saving \subseteq Types /\ \A t \in Types : rep[t] \in Report
  BY DEF TypeOK
<1>5. \A t \in Types : Saved(saving)[t] \in Report
  BY <1>1, <1>2, <1>4
<1> QED
  BY <1>1, <1>2, <1>3, <1>4, <1>5

\* The reports once the missing periodic ones are there.
LEMMA EnsuredType ==
  ASSUME TypeOK
  PROVE  /\ Ensured \in [Types -> Report]
         /\ \A t \in Periodic : Ensured[t] = PeriodicReports[t]
         /\ Ensured["usage"] = rep["usage"]
<1>1. PeriodicReports \in [Periodic -> Report] /\ rep \in [Types -> Report]
  BY PeriodicType DEF TypeOK
<1> QED
  BY <1>1 DEF Ensured, Types, Periodic

\* Every step keeps the types.
LEMMA NextType == TypeOK /\ [Next]_vars => TypeOK'
<1> SUFFICES ASSUME TypeOK, [Next]_vars PROVE TypeOK'
  OBVIOUS
<1>a. /\ now \in Instants /\ rep \in [Types -> Report] /\ runner \in [Runners -> Runner]
      /\ upsets \in 0..(2 * MaxUpsets) /\ MaxUpsets \in Nat
      /\ catalogue \in [items : SUBSET Nat, next : Nat \ {0}] /\ Numbered(catalogue)
      /\ draft \in [Editors -> Draft] /\ overtaken \subseteq Nat
      /\ \A e \in Editors : Numbered(draft[e].new)
  BY ReportsAssumption DEF TypeOK
<1>b. "scheduler" \in Runners /\ "admin" \in Runners
  BY DEF Runners
<1>1. CASE Tick
  <2>1. PICK type \in {"usage", "daily"} :
          Goto("scheduler", [Idle EXCEPT !.pc = "try", !.type = type])
    BY <1>1 DEF Tick
  <2>2. [Idle EXCEPT !.pc = "try", !.type = type] \in Runner
    BY IdleType DEF Runner, PCs, Types, Periodic
  <2>3. runner' \in [Runners -> Runner]
    BY <1>a, <1>b, <2>1, <2>2, GotoType
  <2> QED
    BY <1>1, <2>3 DEF Tick, TypeOK, Numbered
<1>2. CASE Try
  <2> DEFINE type == runner["scheduler"].type
             q == [Idle EXCEPT !.pc = "begin", !.type = type,
                               !.checked = IF type = "usage" THEN Never ELSE now]
  <2>1. type \in Types
    BY <1>a, <1>b DEF Runner
  <2>2. q \in Runner
    BY <1>a, <2>1, IdleType DEF Runner, PCs
  <2>3. Goto("scheduler", q) \/ Goto("scheduler", After(type))
    BY <1>2 DEF Try
  <2>4. mu' \in Runners \cup {"free"}
    BY <1>2, <1>b DEF Try, TypeOK, Numbered
  <2> HIDE DEF q
  <2>5. runner' \in [Runners -> Runner]
    BY <1>a, <1>b, <2>1, <2>2, <2>3, AfterType, GotoType
  <2> QED
    BY <1>2, <2>4, <2>5 DEF Try, TypeOK, Numbered
<1>f. ASSUME ReadByHand \/ CreateUsage, Upset, Leave("admin"), UNCHANGED rep PROVE TypeOK'
  <2>1. runner' \in [Runners -> Runner] /\ mu' = "free"
    BY <1>a, <1>b, <1>f, LeaveType
  <2>2. upsets' \in 0..(2 * MaxUpsets)
    BY <1>a, <1>f DEF Upset, Spend
  <2>3. UNCHANGED <<now, recorded, catalogue, saving, draft, overtaken, done>>
    BY <1>f DEF ReadByHand, CreateUsage
  <2> QED
    BY <1>f, <2>1, <2>2, <2>3 DEF TypeOK, Numbered
<1>3. ASSUME ReadByHand, UNCHANGED <<mu, upsets>> PROVE TypeOK'
  <2>1. PICK pc \in {"create", "begin"} : Goto("admin", [runner["admin"] EXCEPT !.pc = pc])
    BY <1>3, <1>a DEF ReadByHand, Upset, Spend
  <2>2. [runner["admin"] EXCEPT !.pc = pc] \in Runner
    BY <1>a, <1>b DEF Runner, PCs
  <2>3. runner' \in [Runners -> Runner]
    BY <1>a, <1>b, <2>1, <2>2, GotoType
  <2>4. rep' \in [Types -> Report]
    BY <1>3, <1>a, EnsuredType DEF ReadByHand
  <2> QED
    BY <1>3, <2>3, <2>4 DEF ReadByHand, TypeOK, Numbered
<1>4. ASSUME CreateUsage, UNCHANGED <<mu, upsets>> PROVE TypeOK'
  <2>0. /\ Goto("admin", [runner["admin"] EXCEPT !.pc = "begin"])
        /\ rep' = [rep EXCEPT !["usage"] = [Default EXCEPT !.exists = TRUE,
                                                           !.last = rep["usage"].last]]
    BY <1>4, <1>a DEF CreateUsage, Upset, Spend
  <2>1. [runner["admin"] EXCEPT !.pc = "begin"] \in Runner
    BY <1>a, <1>b DEF Runner, PCs
  <2>2. runner' \in [Runners -> Runner]
    BY <1>a, <1>b, <2>0, <2>1, GotoType
  <2>3. rep["usage"].last \in Instants \cup {Never}
    BY <1>a DEF Report, Types
  <2>4. [Default EXCEPT !.exists = TRUE, !.last = rep["usage"].last] \in Report
    BY <2>3, DefaultType DEF Report
  <2>5. rep' \in [Types -> Report]
    BY <1>a, <2>0, <2>4
  <2> QED
    BY <1>4, <2>2, <2>5 DEF CreateUsage, TypeOK, Numbered
<1>5. ASSUME NEW n \in Runners, Execute(n) \/ ExecuteDaily(n) PROVE TypeOK'
  <2>1. [runner[n] EXCEPT !.pc = "record", !.at = now] \in Runner
    BY <1>a DEF Runner, PCs
  <2>2. runner' \in [Runners -> Runner]
    BY <1>5, <1>a, <2>1, GotoType DEF Execute, ExecuteDaily, Take
  <2> QED
    BY <1>5, <2>2 DEF Execute, ExecuteDaily, Take, TypeOK, Numbered
<1>6. ASSUME NEW n \in Runners, Record(n) PROVE TypeOK'
  <2>1. runner[n].type \in Types /\ runner[n].at \in Instants \cup {Never}
    BY <1>a DEF Runner
  <2>2. CASE Goto(n, [runner[n] EXCEPT !.pc = "update"])
             /\ recorded' = [recorded EXCEPT ![runner[n].type] = runner[n].at]
             /\ UNCHANGED <<mu, upsets>>
    <3>1. [runner[n] EXCEPT !.pc = "update"] \in Runner
      BY <1>a DEF Runner, PCs
    <3>2. runner' \in [Runners -> Runner]
      BY <1>a, <2>2, <3>1, GotoType
    <3> QED
      BY <1>6, <2>1, <2>2, <3>2 DEF Record, TypeOK, Numbered
  <2>3. CASE Upset /\ Leave(n) /\ UNCHANGED recorded
    <3>1. runner' \in [Runners -> Runner] /\ mu' = "free"
      BY <1>a, <2>3, LeaveType
    <3> QED
      BY <1>6, <1>a, <2>3, <3>1 DEF Record, Upset, Spend, TypeOK, Numbered
  <2> QED
    BY <1>6, <2>2, <2>3 DEF Record
<1>7. ASSUME NEW n \in Runners, Update(n) PROVE TypeOK'
  <2>1. runner[n].type \in Types /\ runner[n].at \in Instants \cup {Never}
    BY <1>a DEF Runner
  <2>2. runner' \in [Runners -> Runner] /\ mu' = "free"
    BY <1>7, <1>a, LeaveType DEF Update
  <2>3. [rep[runner[n].type] EXCEPT !.last = runner[n].at] \in Report
    BY <1>a, <2>1 DEF Report
  <2>4. rep' \in [Types -> Report] /\ done' \in [Types -> Instants \cup {Never}]
    BY <1>7, <1>a, <2>1, <2>3 DEF Update, TypeOK, Numbered
  <2>5. upsets' \in 0..(2 * MaxUpsets)
    BY <1>7, <1>a DEF Update, Upset, Spend
  <2> QED
    BY <1>7, <2>2, <2>4, <2>5 DEF Update, TypeOK, Numbered
<1>8. ASSUME NEW type \in Types, RunNow(type) PROVE TypeOK'
  <2>1. [Idle EXCEPT !.pc = "read", !.type = type] \in Runner
    BY IdleType DEF Runner, PCs
  <2>2. runner' \in [Runners -> Runner]
    BY <1>8, <1>a, <1>b, <2>1, GotoType DEF RunNow
  <2> QED
    BY <1>8, <1>a, <1>b, <2>2 DEF RunNow, Upset, Spend, TypeOK, Numbered
<1>9. CASE SavePeriodic
  <2>1. saving' \in [Periodic -> Report]
    BY <1>9, SavePeriodicType
  <2>2. upsets' \in 0..(2 * MaxUpsets)
    <3>1. Upset
      BY <1>9, Zenon DEF SavePeriodic, Saves
    <3> QED
      BY <1>a, <3>1 DEF Upset, Spend
  <2> QED
    BY <1>9, <2>1, <2>2 DEF SavePeriodic, TypeOK, Types
<1>10. CASE SaveUsage
  <2>1. saving' \in [{"usage"} -> Report]
    BY <1>10, SaveUsageType
  <2>2. upsets' \in 0..(2 * MaxUpsets)
    <3>1. Upset
      BY <1>10, Zenon DEF SaveUsage, Saves
    <3> QED
      BY <1>a, <3>1 DEF Upset, Spend
  <2> QED
    BY <1>10, <2>1, <2>2 DEF SaveUsage, TypeOK, Types
<1>11. CASE CommitSave
  <2>1. rep' \in [Types -> Report]
    BY <1>11, SavedType DEF CommitSave
  <2>2. DOMAIN saving' = {}
    BY <1>11 DEF CommitSave, NoSave
  <2>3. overtaken' \subseteq Nat
    <3>1. \A t \in DOMAIN saving : saving[t].source \in Nat
      BY DEF TypeOK, Report
    <3> QED
      BY <1>11, <1>a, <3>1 DEF CommitSave, Missed
  <2> QED
    BY <1>11, <2>1, <2>2, <2>3 DEF CommitSave, TypeOK, Numbered
<1>12. ASSUME NEW e \in Editors, AddSource(e) \/ ChangeSource(e) \/ DeleteSource(e) PROVE TypeOK'
  <2>1. PICK d \in Draft : Open(e, d) /\ Numbered(d.new)
    <3>1. CASE AddSource(e)
      <4> DEFINE c == [items |-> catalogue.items \cup {catalogue.next}, next |-> catalogue.next + 1]
                 d == [pc |-> "save", drops |-> Global, new |-> c]
      <4>1. c \in [items : SUBSET Nat, next : Nat \ {0}] /\ Numbered(c)
        BY <1>a DEF Numbered
      <4>2. Open(e, d)
        BY <3>1 DEF AddSource
      <4> HIDE DEF c
      <4>3. d \in Draft /\ d.new = c
        BY <4>1 DEF Draft, Global
      <4> QED
        BY <4>1, <4>2, <4>3
    <3>2. CASE ChangeSource(e)
      <4> DEFINE d == [pc |-> "save", drops |-> Global, new |-> catalogue]
      <4>1. d \in Draft /\ d.new = catalogue /\ Open(e, d)
        BY <1>a, <3>2 DEF Draft, Global, ChangeSource
      <4> QED
        BY <1>a, <4>1
    <3>3. CASE DeleteSource(e)
      <4>1. PICK x \in catalogue.items :
              Open(e, [pc |-> "usage", drops |-> x, new |-> [catalogue EXCEPT !.items = @ \ {x}]])
        BY <3>3 DEF DeleteSource
      <4> DEFINE c == [catalogue EXCEPT !.items = @ \ {x}]
                 d == [pc |-> "usage", drops |-> x, new |-> c]
      <4>2. c \in [items : SUBSET Nat, next : Nat \ {0}] /\ Numbered(c) /\ x \in Nat
        BY <1>a DEF Numbered
      <4> HIDE DEF c
      <4>3. d \in Draft /\ d.new = c
        BY <4>2 DEF Draft
      <4> QED
        BY <4>1, <4>2, <4>3 DEF c
    <3> QED
      BY <1>12, <3>1, <3>2, <3>3
  <2>2. /\ draft' \in [Editors -> Draft] /\ draft'[e] = d
        /\ \A f \in Editors \ {e} : draft'[f] = draft[f]
    BY <1>a, <2>1, StageType DEF Open
  <2>3. \A f \in Editors : Numbered(draft'[f].new)
    BY <1>a, <2>1, <2>2
  <2>4. upsets' \in 0..(2 * MaxUpsets)
    BY <1>a, <2>1 DEF Open, Spend
  <2> QED
    BY <2>1, <2>2, <2>3, <2>4 DEF Open, Stage, TypeOK, Numbered
<1>13. ASSUME NEW e \in Editors, Look(e) \/ SaveSources(e) PROVE TypeOK'
  <2>1. PICK d \in Draft : Stage(e, d) /\ Numbered(d.new)
    <3>1. [draft[e] EXCEPT !.pc = IF @ = "usage" THEN "periodic" ELSE "save"] \in Draft
      BY <1>a DEF Draft
    <3>2. [draft[e] EXCEPT !.pc = IF @ = "usage" THEN "periodic" ELSE "save"].new = draft[e].new
      BY <1>a DEF Draft
    <3> QED
      BY <1>13, <1>a, <3>1, <3>2, ClosedType DEF Look, SaveSources
  <2>2. /\ draft' \in [Editors -> Draft] /\ draft'[e] = d
        /\ \A f \in Editors \ {e} : draft'[f] = draft[f]
    BY <1>a, <2>1, StageType
  <2>3. \A f \in Editors : Numbered(draft'[f].new)
    BY <1>a, <2>1, <2>2
  <2>4. /\ catalogue' \in [items : SUBSET Nat, next : Nat \ {0}] /\ Numbered(catalogue')
        /\ overtaken' \subseteq Nat /\ upsets' \in 0..(2 * MaxUpsets)
    <3>1. draft[e].new \in [items : SUBSET Nat, next : Nat \ {0}] /\ Numbered(draft[e].new)
      BY <1>a DEF Draft
    <3>2. CASE Look(e)
      BY <1>a, <3>2 DEF Look
    <3>3. CASE SaveSources(e)
      <4> DEFINE more == {s \in catalogue.items \ draft[e].new.items :
                            s # draft[e].drops \/ \E t \in DOMAIN saving : saving[t].source = s}
      <4>1. more \subseteq Nat
        BY <1>a
      <4>2. \/ catalogue' = draft[e].new /\ overtaken' = overtaken \cup more /\ UNCHANGED upsets
            \/ Upset /\ UNCHANGED <<catalogue, overtaken>>
        BY <3>3 DEF SaveSources
      <4> HIDE DEF more
      <4>3. CASE Upset /\ UNCHANGED <<catalogue, overtaken>>
        <5>1. upsets' \in 0..(2 * MaxUpsets)
          BY <1>a, <4>3 DEF Upset, Spend
        <5> QED
          BY <1>a, <4>3, <5>1
      <4>4. CASE catalogue' = draft[e].new /\ overtaken' = overtaken \cup more /\ UNCHANGED upsets
        BY <1>a, <3>1, <4>1, <4>4
      <4> QED
        BY <4>2, <4>3, <4>4
    <3> QED
      BY <1>13, <3>2, <3>3
  <2> QED
    BY <2>1, <2>2, <2>3, <2>4 DEF Stage, TypeOK, Numbered
<1>14. CASE Pass
  BY <1>14, <1>a, InstantsAreNat DEF Pass, TypeOK, Numbered
<1>15. CASE Restart
  <2>1. DOMAIN saving' = {}
    BY <1>15 DEF Restart, NoSave
  <2>2. runner' \in [Runners -> Runner]
    BY <1>15, IdleType DEF Restart
  <2>3. draft' \in [Editors -> Draft] /\ \A e \in Editors : Numbered(draft'[e].new)
    BY <1>15, ClosedType DEF Restart
  <2> QED
    BY <1>15, <1>a, <2>1, <2>2, <2>3 DEF Restart, Upset, Spend, TypeOK, Numbered
<1>16. CASE UNCHANGED vars
  BY <1>16 DEF vars, TypeOK, Numbered
<1>17. ReadByHand \/ CreateUsage => \/ Upset /\ Leave("admin") /\ UNCHANGED rep
                                    \/ UNCHANGED <<mu, upsets>>
  BY DEF ReadByHand, CreateUsage
<1> QED
  BY <1>f, <1>1, <1>2, <1>3, <1>4, <1>5, <1>6, <1>7, <1>8, <1>9, <1>10, <1>11, <1>12, <1>13, <1>14,
     <1>15, <1>16, <1>17 DEF Next

----------------------------------------------------------------------------
\* Consistency.

\* Whoever runs holds the mutex.
Exclusive == \A n \in Runners : mu = n <=> runner[n].pc \notin {"idle", "try"}

\* The stored reports: what has never been saved names no source of its own and has not run,
\* the weekly report goes with the daily one, and the state of a report is its last run that
\* was completed, which is recorded and past.
Settled ==
  /\ \A t \in Types :
       /\ ~rep[t].exists => rep[t].source = Global /\ rep[t].last = Never
       /\ rep[t].source \in Valid \cup overtaken
       /\ rep[t].last <= recorded[t] /\ recorded[t] <= now
       /\ done[t] = rep[t].last
  /\ rep["weekly"].exists => rep["daily"].exists /\ rep["daily"].source = rep["weekly"].source

\* What is about to be saved: the usage report, or both periodic ones with one source.
Pending ==
  /\ DOMAIN saving \in {{}, {"usage"}, Periodic}
  /\ \A t \in DOMAIN saving : saving[t].exists /\ saving[t].source \in Valid \cup overtaken
  /\ DOMAIN saving = Periodic => saving["daily"].source = saving["weekly"].source

\* A run is of a report that exists, its record is not older than the one before, and it was
\* due in a local hour in which no completed run was.
Fine(n) ==
  LET r == runner[n] IN
  /\ r.pc \in {"begin", "record", "update"} => rep[r.type].exists
  /\ (r.pc = "try" /\ r.type = "usage") => rep["usage"].exists
  /\ r.pc = "create" => r.type = "usage"
  /\ r.pc = "record" => recorded[r.type] <= r.at /\ r.at <= now
  /\ r.pc = "update" => recorded[r.type] = r.at
  /\ r.checked # Never =>
       /\ r.pc \in {"begin", "record", "update"}
       /\ done[r.type] # Never => Slot(done[r.type]) # Slot(r.checked)

Sound == Exclusive /\ Settled /\ Pending /\ \A n \in Runners : Fine(n)

\* A deletion that has looked at a report has not found its source there, nor has it come since,
\* except by a save that it missed.
Spared(e) ==
  \A t \in Types : Looked(e, t) /\ draft[e].drops # Global /\ rep[t].source = draft[e].drops
                   => draft[e].drops \in overtaken

IInv == TypeOK /\ Sound /\ \A e \in Editors : Spared(e)

\* Of a runner that waits little is asked.
LEMMA FineWaiting ==
  ASSUME NEW n \in Runners, runner'[n].pc \in {"idle", "try"}, runner'[n].checked = Never,
         (runner'[n].pc = "try" /\ runner'[n].type = "usage") => rep'["usage"].exists
  PROVE  Fine(n)'
<1> QED
  BY DEF Fine

\* While one runner runs, the other waits.
LEMMA OthersWait ==
  ASSUME Sound, NEW n \in Runners, runner[n].pc \notin {"idle", "try"},
         NEW k \in Runners \ {n}
  PROVE  runner[k].pc \in {"idle", "try"} /\ runner[k].checked = Never
<1> QED
  BY DEF Sound, Exclusive, Fine

\* A report that is found due is due by its own schedule, in an hour it has not consumed.
LEMMA DueUnconsumed ==
  ASSUME TypeOK, NEW type \in Periodic, Due(type, rep[type])
  PROVE  /\ rep[type].exists
         /\ rep[type].last # Never => Slot(rep[type].last) # Slot(now)
<1> DEFINE P == Possible(type, rep[type], now)
<1>1. rep[type].exists /\ NextRun(type, rep[type], now) = now
  BY DEF Due, Periodic
<1>2. now \in Nat /\ now # Never /\ P \subseteq Nat
  BY InstantsAreNat DEF TypeOK, Never, Possible
<1> HIDE DEF P
<1>3. P # {} /\ Min(P) = now
  BY <1>1, <1>2 DEF NextRun, P
<1>4. now \in P
  BY <1>2, <1>3, MinIn
<1> QED
  BY <1>1, <1>4 DEF P, Possible, Consumed

LEMMA InitSound == Init => Sound
<1> SUFFICES ASSUME Init PROVE Sound
  OBVIOUS
<1>1. ASSUME NEW n \in Runners
      PROVE runner[n].pc = "idle" /\ runner[n].checked = Never /\ mu # n
  BY IdleType DEF Init, Runners
<1>2. Exclusive /\ \A n \in Runners : Fine(n)
  BY <1>1 DEF Exclusive, Fine
<1>3. DOMAIN saving = {}
  BY DEF Init, NoSave
<1>4. Pending
  BY <1>3 DEF Pending, Periodic
<1>5. 0 <= now /\ Never = 0
  BY DEF Init, Never
<1>6. Settled
  <2>1. ASSUME NEW s \in Schedules
        PROVE  LET r == Configured(Default, s) IN
               /\ r.exists /\ r.source = Global /\ r.last = Never
               /\ \A x \in Nat : LET q == [r EXCEPT !.source = x] IN
                    q.exists /\ q.source = x /\ q.last = Never
    BY DEF Configured, Default
  <2>2. ~Default.exists /\ Default.source = Global /\ Default.last = Never
    BY DEF Default
  <2>3. \A t \in Types : recorded[t] = 0 /\ done[t] = Never
    BY DEF Init, Never
  <2>6. catalogue.items \subseteq Nat
    BY DEF Init
  <2> DEFINE New(r) == /\ ~r.exists => r.source = Global
                       /\ r.last = Never /\ r.source \in Valid
  <2>4. \A t \in Types : New(rep[t])
    <3>0. /\ New(Default)
          /\ \A s \in Schedules :
               /\ New(Configured(Default, s))
               /\ \A x \in catalogue.items : New([Configured(Default, s) EXCEPT !.source = x])
      BY <2>1, <2>2, <2>6 DEF Valid
    <3> HIDE DEF New
    <3>1. CASE rep = [t \in Types |-> Default]
      BY <3>0, <3>1
    <3>2. ASSUME NEW s \in Schedules,
                 rep = [t \in Types |-> IF t \in Periodic THEN Configured(Default, s) ELSE Default]
          PROVE  \A t \in Types : New(rep[t])
      BY <3>0, <3>2
    <3>3. ASSUME NEW s \in Schedules, NEW x \in catalogue.items,
                 rep = [t \in Types |-> IF t = "daily"
                          THEN [Configured(Default, s) EXCEPT !.source = x] ELSE Default]
          PROVE  \A t \in Types : New(rep[t])
      BY <3>0, <3>3
    <3> QED
      BY <3>1, <3>2, <3>3, Zenon DEF Init
  <2>5. rep["weekly"].exists => rep["daily"].exists /\ rep["daily"].source = rep["weekly"].source
    BY <2>1, <2>2 DEF Init, Types, Periodic
  <2> QED
    BY <1>5, <2>3, <2>4, <2>5 DEF Settled
<1> QED
  BY <1>2, <1>4, <1>6 DEF Sound

\* The steps of the scheduler, and of a run.
LEMMA RunSound ==
  ASSUME TypeOK, Sound,
         \/ Tick \/ Try
         \/ \E n \in Runners : Execute(n) \/ ExecuteDaily(n) \/ Record(n) \/ Update(n)
  PROVE  Sound'
<1>a. /\ now \in Instants /\ rep \in [Types -> Report] /\ runner \in [Runners -> Runner]
      /\ recorded \in [Types -> Instants \cup {Never}] /\ done \in [Types -> Instants \cup {Never}]
      /\ now \in Nat /\ Instants \subseteq Nat /\ Never = 0
  BY InstantsAreNat DEF TypeOK, Never
<1>b. "scheduler" \in Runners /\ "admin" \in Runners
  BY DEF Runners
<1>m. Instants \cup {Never} \subseteq Nat
  BY <1>a
<1>n. \A t \in Types : recorded[t] \in Nat /\ rep[t].last \in Nat
  <2>1. \A t \in Types : recorded[t] \in Instants \cup {Never}
                         /\ rep[t].last \in Instants \cup {Never}
    BY <1>a DEF Report
  <2> QED
    BY <1>m, <2>1
<1>s. Exclusive /\ Settled /\ Pending /\ \A n \in Runners : Fine(n)
  BY DEF Sound
<1>1. CASE Tick
  <2>1. PICK type \in {"usage", "daily"} :
          /\ Goto("scheduler", [Idle EXCEPT !.pc = "try", !.type = type])
          /\ type = "usage" => Due("usage", rep["usage"])
    BY <1>1 DEF Tick
  <2> DEFINE q == [Idle EXCEPT !.pc = "try", !.type = type]
  <2>2. q \in Runner /\ q.pc = "try" /\ q.type = type /\ q.checked = Never
    BY IdleType DEF Runner, PCs, Types, Periodic, Idle
  <2> HIDE DEF q
  <2>3. runner'["scheduler"] = q /\ \A k \in Runners \ {"scheduler"} : runner'[k] = runner[k]
    BY <1>a, <1>b, <2>1, <2>2, GotoType DEF q
  <2>4. UNCHANGED <<now, rep, recorded, catalogue, mu, saving, overtaken, done>>
    BY <1>1 DEF Tick
  <2>5. Settled' /\ Pending'
    BY <1>s, <2>4 DEF Settled, Pending, Valid
  <2>6. Exclusive'
    BY <1>1, <1>s, <1>b, <2>2, <2>3, <2>4 DEF Exclusive, Tick, At
  <2>7. Fine("scheduler")'
    BY <1>b, <2>1, <2>2, <2>3, <2>4, FineWaiting DEF Due
  <2>8. \A k \in Runners \ {"scheduler"} : Fine(k)'
    BY <1>s, <2>3, <2>4 DEF Fine
  <2> QED
    BY <2>5, <2>6, <2>7, <2>8 DEF Sound
<1>2. CASE Try
  <2> DEFINE type == runner["scheduler"].type
             q == [Idle EXCEPT !.pc = "begin", !.type = type,
                               !.checked = IF type = "usage" THEN Never ELSE now]
  <2>1. type \in Types /\ runner["scheduler"].pc = "try"
    BY <1>2, <1>a, <1>b DEF Runner, Try, At
  <2>2. UNCHANGED <<now, rep, recorded, catalogue, saving, overtaken, done>>
    BY <1>2 DEF Try
  <2>3. Settled' /\ Pending'
    BY <1>s, <2>2 DEF Settled, Pending, Valid
  <2>4. CASE Goto("scheduler", After(type)) /\ UNCHANGED mu
    <3>1. /\ runner'["scheduler"] = After(type)
          /\ \A k \in Runners \ {"scheduler"} : runner'[k] = runner[k]
      BY <1>a, <1>b, <2>1, <2>4, AfterType, GotoType
    <3>2. /\ After(type).pc \in {"idle", "try"} /\ After(type).checked = Never
          /\ After(type).pc = "try" => After(type).type \in Periodic
      BY <2>1, AfterType
    <3>3. Exclusive'
      BY <1>s, <1>b, <2>1, <2>4, <3>1, <3>2 DEF Exclusive
    <3>4. Fine("scheduler")'
      BY <1>b, <3>1, <3>2, FineWaiting DEF Periodic
    <3>5. \A k \in Runners \ {"scheduler"} : Fine(k)'
      BY <1>s, <2>2, <3>1 DEF Fine
    <3> QED
      BY <2>3, <3>3, <3>4, <3>5 DEF Sound
  <2>5. CASE /\ mu = "free" /\ (type = "usage" \/ Due(type, rep[type]))
             /\ mu' = "scheduler" /\ Goto("scheduler", q)
    <3>1. q \in Runner /\ q.pc = "begin" /\ q.type = type
      BY <1>a, <2>1, IdleType DEF Runner, PCs
    <3>2. q.checked = IF type = "usage" THEN Never ELSE now
      BY DEF Idle
    <3> HIDE DEF q
    <3>3. runner'["scheduler"] = q /\ \A k \in Runners \ {"scheduler"} : runner'[k] = runner[k]
      BY <1>a, <1>b, <2>5, <3>1, GotoType
    <3>4. Exclusive'
      BY <1>s, <1>b, <2>5, <3>1, <3>3 DEF Exclusive, Runners
    <3>5. CASE type = "usage"
      <4>1. rep["usage"].exists
        BY <1>s, <1>b, <2>1, <3>5 DEF Fine
      <4>2. Fine("scheduler")'
        BY <2>2, <3>1, <3>2, <3>3, <3>5, <4>1 DEF Fine
      <4>3. \A k \in Runners \ {"scheduler"} : Fine(k)'
        BY <1>s, <2>2, <3>3 DEF Fine
      <4> QED
        BY <2>3, <3>4, <4>2, <4>3 DEF Sound
    <3>6. CASE type # "usage"
      <4>1. type \in Periodic /\ Due(type, rep[type])
        BY <2>1, <2>5, <3>6 DEF Types
      <4>2. /\ rep[type].exists
            /\ rep[type].last # Never => Slot(rep[type].last) # Slot(now)
        BY <4>1, DueUnconsumed
      <4>3. done[type] = rep[type].last
        BY <1>s, <2>1 DEF Settled
      <4>5. Fine("scheduler")'
        BY <2>2, <3>1, <3>2, <3>3, <3>6, <4>2, <4>3 DEF Fine
      <4>6. \A k \in Runners \ {"scheduler"} : Fine(k)'
        BY <1>s, <2>2, <3>3 DEF Fine, Slot
      <4> QED
        BY <2>3, <3>4, <4>5, <4>6 DEF Sound
    <3> QED
      BY <3>5, <3>6
  <2> QED
    BY <1>2, <2>4, <2>5 DEF Try
<1>3. ASSUME NEW n \in Runners, Execute(n) \/ ExecuteDaily(n) PROVE Sound'
  <2> DEFINE q == [runner[n] EXCEPT !.pc = "record", !.at = now]
  <2>1. /\ q \in Runner /\ q.pc = "record" /\ q.at = now
        /\ q.type = runner[n].type /\ q.checked = runner[n].checked
    BY <1>a DEF Runner, PCs
  <2>2. /\ runner[n].pc = "begin" /\ Goto(n, q)
        /\ UNCHANGED <<now, rep, recorded, catalogue, mu, saving, overtaken, done>>
    BY <1>3 DEF Execute, ExecuteDaily, Take, At
  <2> HIDE DEF q
  <2>3. runner'[n] = q /\ \A k \in Runners \ {n} : runner'[k] = runner[k]
    BY <1>a, <2>1, <2>2, GotoType
  <2>4. Settled' /\ Pending'
    BY <1>s, <2>2 DEF Settled, Pending, Valid
  <2>5. Exclusive'
    BY <1>s, <2>1, <2>2, <2>3 DEF Exclusive
  <2>6. runner[n].type \in Types
    BY <1>a DEF Runner
  <2>7. recorded[q.type] <= now
    BY <1>s, <2>1, <2>6 DEF Settled
  <2>8. Fine(n)'
    BY <1>a, <1>s, <2>1, <2>2, <2>3, <2>7 DEF Fine, Slot
  <2>9. \A k \in Runners \ {n} : Fine(k)'
    BY <1>s, <2>2, <2>3 DEF Fine, Slot
  <2> QED
    BY <2>4, <2>5, <2>8, <2>9 DEF Sound
<1>4. ASSUME NEW n \in Runners, Record(n) PROVE Sound'
  <2> DEFINE type == runner[n].type
             q == [runner[n] EXCEPT !.pc = "update"]
  <2>1. /\ type \in Types /\ runner[n].pc = "record" /\ runner[n].at \in Instants \cup {Never}
        /\ UNCHANGED <<now, rep, catalogue, saving, overtaken, done>>
    BY <1>4, <1>a DEF Runner, Record, At
  <2>2. Pending'
    BY <1>s, <2>1 DEF Pending, Valid
  <2>3. \A k \in Runners \ {n} : runner[k].pc \in {"idle", "try"} /\ runner[k].checked = Never
    BY <2>1, OthersWait
  <2>4. CASE /\ recorded' = [recorded EXCEPT ![type] = runner[n].at]
             /\ Goto(n, q) /\ UNCHANGED mu
    <3>1. /\ q \in Runner /\ q.pc = "update" /\ q.at = runner[n].at /\ q.type = type
          /\ q.checked = runner[n].checked
      BY <1>a DEF Runner, PCs
    <3> HIDE DEF q
    <3>2. runner'[n] = q /\ \A k \in Runners \ {n} : runner'[k] = runner[k]
      BY <1>a, <2>4, <3>1, GotoType
    <3>3. recorded[type] <= runner[n].at /\ runner[n].at <= now
      BY <1>s, <2>1 DEF Fine
    <3>4. \A t \in Types : recorded[t] <= recorded'[t] /\ recorded'[t] <= now
      <4>1. runner[n].at \in Nat
        BY <1>m, <2>1
      <4>2. \A t \in Types : recorded'[t] = IF t = type THEN runner[n].at ELSE recorded[t]
        BY <1>a, <2>4
      <4>3. \A t \in Types : recorded[t] <= now
        BY <1>s DEF Settled
      <4> QED
        BY <1>n, <3>3, <4>1, <4>2, <4>3
    <3>5. \A t \in Types : rep[t].last <= recorded'[t]
      <4>1. runner[n].at \in Nat
        BY <1>m, <2>1
      <4>2. \A t \in Types : recorded'[t] = IF t = type THEN runner[n].at ELSE recorded[t]
        BY <1>a, <2>4
      <4>3. \A t \in Types : recorded'[t] \in Nat
        BY <1>n, <4>1, <4>2
      <4>4. \A t \in Types : rep[t].last <= recorded[t]
        BY <1>s DEF Settled
      <4> QED
        BY <1>n, <3>4, <4>3, <4>4
    <3>6. Settled'
      BY <1>s, <2>1, <3>4, <3>5 DEF Settled, Valid
    <3>7. Exclusive'
      BY <1>s, <2>1, <2>4, <3>1, <3>2 DEF Exclusive
    <3>8. Fine(n)'
      BY <1>a, <1>s, <2>1, <2>4, <3>1, <3>2 DEF Fine, Slot
    <3>9. ASSUME NEW k \in Runners \ {n} PROVE Fine(k)'
      BY <1>s, <2>1, <2>3, <3>2, <3>9 DEF Fine, Slot
    <3> QED
      BY <2>2, <3>6, <3>7, <3>8, <3>9 DEF Sound
  <2>5. CASE Leave(n) /\ UNCHANGED recorded
    <3>1. /\ runner'[n].pc \in {"idle", "try"} /\ runner'[n].checked = Never /\ mu' = "free"
          /\ runner'[n].pc = "try" => runner'[n].type \in Periodic
          /\ \A k \in Runners \ {n} : runner'[k] = runner[k]
      BY <1>a, <2>5, LeaveType
    <3>2. Settled'
      BY <1>s, <2>1, <2>5 DEF Settled, Valid
    <3>3. Exclusive'
      BY <2>3, <3>1 DEF Exclusive, Runners
    <3>4. Fine(n)'
      BY <3>1, FineWaiting DEF Periodic
    <3>5. ASSUME NEW k \in Runners \ {n} PROVE Fine(k)'
      BY <1>s, <2>1, <2>3, <3>1, <3>5 DEF Fine, Slot
    <3> QED
      BY <2>2, <3>2, <3>3, <3>4, <3>5 DEF Sound
  <2> QED
    BY <1>4, <2>4, <2>5 DEF Record
<1>5. ASSUME NEW n \in Runners, Update(n) PROVE Sound'
  <2> DEFINE type == runner[n].type
  <2>1. /\ type \in Types /\ runner[n].pc = "update" /\ Leave(n)
        /\ runner[n].at \in Instants \cup {Never}
        /\ UNCHANGED <<now, recorded, catalogue, saving, overtaken>>
    BY <1>5, <1>a DEF Runner, Update, At
  <2>2. Pending'
    BY <1>s, <2>1 DEF Pending, Valid
  <2>3. \A k \in Runners \ {n} : runner[k].pc \in {"idle", "try"} /\ runner[k].checked = Never
    BY <2>1, OthersWait
  <2>4. /\ runner'[n].pc \in {"idle", "try"} /\ runner'[n].checked = Never /\ mu' = "free"
        /\ runner'[n].pc = "try" => runner'[n].type \in Periodic
        /\ \A k \in Runners \ {n} : runner'[k] = runner[k]
    BY <1>a, <2>1, LeaveType
  <2>5. Exclusive'
    BY <2>3, <2>4 DEF Exclusive, Runners
  <2>6. recorded[type] = runner[n].at /\ rep[type].exists
    BY <1>s, <2>1 DEF Fine
  <2>7. \/ UNCHANGED <<rep, done>>
        \/ /\ rep' = [rep EXCEPT ![type].last = runner[n].at]
           /\ done' = [done EXCEPT ![type] = runner[n].at]
    BY <1>5 DEF Update
  <2>8. \A t \in Types : /\ rep'[t].exists = rep[t].exists /\ rep'[t].source = rep[t].source
                         /\ \/ rep'[t].last = rep[t].last /\ done'[t] = done[t]
                            \/ /\ rep'[t].last = recorded[t] /\ done'[t] = recorded[t]
                               /\ rep[t].exists
    <3>1. CASE UNCHANGED <<rep, done>>
      BY <3>1
    <3>2. CASE /\ rep' = [rep EXCEPT ![type].last = runner[n].at]
               /\ done' = [done EXCEPT ![type] = runner[n].at]
      <4> DEFINE r == [rep[type] EXCEPT !.last = runner[n].at]
      <4>1. /\ r.last = runner[n].at /\ r.exists = rep[type].exists
            /\ r.source = rep[type].source
        BY <1>a, <2>1 DEF Report
      <4>2. rep' = [rep EXCEPT ![type] = r]
        BY <3>2
      <4> HIDE DEF r
      <4> QED
        BY <1>a, <2>1, <2>6, <3>2, <4>1, <4>2
    <3> QED
      BY <2>7, <3>1, <3>2
  <2>9. Settled'
    <3>1. \A t \in Types : recorded[t] \in Nat /\ rep[t].last <= recorded[t]
      BY <1>n, <1>s DEF Settled
    <3> QED
      BY <1>s, <2>1, <2>8, <3>1 DEF Settled, Valid, Types, Periodic
  <2>10. Fine(n)'
    BY <2>4, FineWaiting DEF Periodic
  <2>11. ASSUME NEW k \in Runners \ {n} PROVE Fine(k)'
    <3>1. "usage" \in Types
      BY DEF Types
    <3> QED
      BY <1>s, <2>3, <2>4, <2>8, <2>11, <3>1 DEF Fine
  <2> QED
    BY <2>2, <2>5, <2>9, <2>10, <2>11 DEF Sound
<1> QED
  BY <1>1, <1>2, <1>3, <1>4, <1>5

\* A runner that does not move, while the reports keep existing and nothing is recorded.
LEMMA FineKept ==
  ASSUME TypeOK, NEW n \in Runners, Fine(n), runner'[n] = runner[n],
         UNCHANGED <<now, recorded, done>>,
         \A t \in Types : rep[t].exists => rep'[t].exists
  PROVE  Fine(n)'
<1>1. runner[n].type \in Types /\ "usage" \in Types
  BY DEF TypeOK, Runner, Types
<1> QED
  BY <1>1 DEF Fine, Slot

\* The periodic reports as they are read agree with the stored ones.
LEMMA PeriodicSound ==
  ASSUME TypeOK, Sound
  PROVE  /\ \A t \in Periodic : /\ PeriodicReports[t].last = rep[t].last
                                /\ PeriodicReports[t].source \in Valid \cup overtaken
         /\ PeriodicReports["daily"].source = PeriodicReports["weekly"].source
<1>1. /\ \A t \in Types : /\ ~rep[t].exists => rep[t].source = Global /\ rep[t].last = Never
                          /\ rep[t].source \in Valid \cup overtaken
      /\ rep["weekly"].exists => rep["daily"].exists /\ rep["daily"].source = rep["weekly"].source
  BY DEF Sound, Settled
<1>2. \A t \in Periodic :
        /\ rep[t].exists => PeriodicReports[t] = rep[t]
        /\ ~rep[t].exists => /\ PeriodicReports[t].source = rep["daily"].source
                             /\ PeriodicReports[t].last = Never
  BY PeriodicType DEF TypeOK
<1>3. "daily" \in Periodic /\ "weekly" \in Periodic /\ Periodic \subseteq Types
  BY DEF Periodic, Types
<1> QED
  BY <1>1, <1>2, <1>3

\* The steps of the administrators, of time and of the process.
LEMMA OtherSound ==
  ASSUME TypeOK, Sound,
         \/ ReadByHand \/ CreateUsage \/ (\E type \in Types : RunNow(type))
         \/ SavePeriodic \/ SaveUsage \/ CommitSave
         \/ (\E e \in Editors : AddSource(e) \/ ChangeSource(e) \/ DeleteSource(e) \/ Look(e))
         \/ Pass \/ Restart \/ UNCHANGED vars
  PROVE  Sound'
<1>a. /\ now \in Instants /\ rep \in [Types -> Report] /\ runner \in [Runners -> Runner]
      /\ recorded \in [Types -> Instants \cup {Never}] /\ DOMAIN saving \subseteq Types
  BY DEF TypeOK
<1>b. "scheduler" \in Runners /\ "admin" \in Runners
  BY DEF Runners
<1>c. "daily" \in Periodic /\ "weekly" \in Periodic /\ "usage" \in Types /\ Periodic \subseteq Types
  BY DEF Periodic, Types
<1>s. Exclusive /\ Settled /\ Pending /\ \A n \in Runners : Fine(n)
  BY DEF Sound
<1>f. ASSUME ReadByHand \/ CreateUsage, Leave("admin"), UNCHANGED rep PROVE Sound'
  <2>1. /\ runner["admin"].pc \in {"read", "create"}
        /\ UNCHANGED <<now, rep, recorded, catalogue, saving, overtaken, done>>
    BY <1>f DEF ReadByHand, CreateUsage, At
  <2>2. /\ runner'["admin"].pc \in {"idle", "try"} /\ runner'["admin"].checked = Never
        /\ mu' = "free"
        /\ runner'["admin"].pc = "try" => runner'["admin"].type \in Periodic
        /\ \A k \in Runners \ {"admin"} : runner'[k] = runner[k]
    BY <1>a, <1>b, <1>f, LeaveType
  <2>3. \A k \in Runners \ {"admin"} : runner[k].pc \in {"idle", "try"}
    BY <1>b, <2>1, OthersWait
  <2>4. Settled' /\ Pending'
    BY <1>s, <2>1 DEF Settled, Pending, Valid
  <2>5. Exclusive'
    BY <2>2, <2>3 DEF Exclusive, Runners
  <2>6. Fine("admin")'
    BY <1>b, <2>2, FineWaiting DEF Periodic
  <2>7. \A k \in Runners \ {"admin"} : Fine(k)'
    BY <1>s, <2>1, <2>2, FineKept
  <2> QED
    BY <2>4, <2>5, <2>6, <2>7 DEF Sound
<1>1. ASSUME ReadByHand, ~(Leave("admin") /\ UNCHANGED rep) PROVE Sound'
  <2> DEFINE r == runner["admin"]
             missing == IF r.type = "usage" THEN ~rep["usage"].exists
                        ELSE \E t \in Periodic : ~rep[t].exists
             q == [r EXCEPT !.pc = IF missing /\ r.type = "usage" THEN "create" ELSE "begin"]
  <2>1. /\ r \in Runner /\ r.pc = "read" /\ r.checked = Never /\ Goto("admin", q)
        /\ rep' = IF missing /\ r.type \in Periodic THEN Ensured ELSE rep
        /\ UNCHANGED <<now, recorded, catalogue, mu, saving, overtaken, done>>
    BY <1>1, <1>a, <1>b, <1>s DEF ReadByHand, At, Fine
  <2>2. /\ q \in Runner /\ q.type = r.type /\ q.checked = Never
        /\ q.pc = IF missing /\ r.type = "usage" THEN "create" ELSE "begin"
    BY <2>1 DEF Runner, PCs
  <2>3. /\ Ensured["usage"] = rep["usage"]
        /\ \A t \in Periodic : /\ Ensured[t].exists /\ Ensured[t].last = rep[t].last
                               /\ Ensured[t].source \in Valid \cup overtaken
        /\ Ensured["daily"].source = Ensured["weekly"].source
    BY <1>a, <1>c, EnsuredType, PeriodicType, PeriodicSound
  <2>4. r.type \in Types /\ Types = Periodic \cup {"usage"} /\ "usage" \notin Periodic
    BY <2>1 DEF Runner, Types, Periodic
  <2>5. /\ q.pc = "create" => r.type = "usage"
        /\ q.pc = "begin" => rep'[r.type].exists
    <3>1. CASE r.type = "usage"
      BY <2>1, <2>2, <2>4, <3>1
    <3>2. CASE r.type \in Periodic /\ missing
      BY <2>1, <2>2, <2>3, <2>4, <3>2
    <3>3. CASE r.type \in Periodic /\ ~missing
      BY <2>1, <2>2, <2>4, <3>3
    <3> QED
      BY <2>4, <3>1, <3>2, <3>3
  <2> HIDE DEF q, missing
  <2>6. runner'["admin"] = q /\ \A k \in Runners \ {"admin"} : runner'[k] = runner[k]
    BY <1>a, <1>b, <2>1, <2>2, GotoType
  <2>7. \A t \in Types : rep[t].exists => rep'[t].exists
    BY <2>1, <2>3, <2>4
  <2>8. Settled'
    BY <1>s, <1>c, <2>1, <2>3, <2>4 DEF Settled, Valid
  <2>9. Pending'
    BY <1>s, <2>1 DEF Pending, Valid
  <2>10. Exclusive'
    BY <1>s, <1>b, <2>1, <2>2, <2>6 DEF Exclusive
  <2>11. Fine("admin")'
    BY <2>2, <2>5, <2>6 DEF Fine
  <2>12. \A k \in Runners \ {"admin"} : Fine(k)'
    BY <1>s, <2>1, <2>6, <2>7, FineKept
  <2> QED
    BY <2>8, <2>9, <2>10, <2>11, <2>12 DEF Sound
<1>2. ASSUME CreateUsage, ~(Leave("admin") /\ UNCHANGED rep) PROVE Sound'
  <2> DEFINE q == [runner["admin"] EXCEPT !.pc = "begin"]
             u == [Default EXCEPT !.exists = TRUE, !.last = rep["usage"].last]
  <2>1. /\ runner["admin"].pc = "create" /\ runner["admin"].checked = Never
        /\ runner["admin"].type = "usage"
        /\ Goto("admin", q) /\ rep' = [rep EXCEPT !["usage"] = u]
        /\ UNCHANGED <<now, recorded, catalogue, mu, saving, overtaken, done>>
    BY <1>2, <1>b, <1>s DEF CreateUsage, At, Fine
  <2>2. /\ q \in Runner /\ q.type = "usage" /\ q.checked = Never /\ q.pc = "begin"
    BY <1>a, <1>b, <2>1 DEF Runner, PCs
  <2>3. u.exists /\ u.last = rep["usage"].last /\ u.source = Global
    BY DEF Default
  <2> HIDE DEF q, u
  <2>4. rep'["usage"] = u /\ \A t \in Types \ {"usage"} : rep'[t] = rep[t]
    BY <1>a, <1>c, <2>1
  <2>5. runner'["admin"] = q /\ \A k \in Runners \ {"admin"} : runner'[k] = runner[k]
    BY <1>a, <1>b, <2>1, <2>2, GotoType
  <2>6. Settled'
    BY <1>s, <2>1, <2>3, <2>4 DEF Settled, Valid, Types, Periodic
  <2>7. Pending'
    BY <1>s, <2>1 DEF Pending, Valid
  <2>8. Exclusive'
    BY <1>s, <1>b, <2>1, <2>2, <2>5 DEF Exclusive
  <2>9. Fine("admin")'
    BY <2>2, <2>3, <2>4, <2>5 DEF Fine
  <2>10. \A k \in Runners \ {"admin"} : Fine(k)'
    BY <1>s, <2>1, <2>3, <2>4, <2>5, FineKept
  <2> QED
    BY <2>6, <2>7, <2>8, <2>9, <2>10 DEF Sound
<1>3. ASSUME NEW type \in Types, RunNow(type) PROVE Sound'
  <2> DEFINE q == [Idle EXCEPT !.pc = "read", !.type = type]
  <2>1. q \in Runner /\ q.pc = "read" /\ q.type = type /\ q.checked = Never
    BY IdleType DEF Idle, Runner, PCs
  <2>2. /\ mu = "free" /\ mu' = "admin" /\ Goto("admin", q)
        /\ UNCHANGED <<now, rep, recorded, catalogue, saving, overtaken, done>>
    BY <1>3 DEF RunNow
  <2> HIDE DEF q
  <2>3. runner'["admin"] = q /\ \A k \in Runners \ {"admin"} : runner'[k] = runner[k]
    BY <1>a, <1>b, <2>1, <2>2, GotoType
  <2>4. Settled' /\ Pending'
    BY <1>s, <2>2 DEF Settled, Pending, Valid
  <2>5. Exclusive'
    BY <1>s, <1>b, <2>1, <2>2, <2>3 DEF Exclusive, Runners
  <2>6. Fine("admin")'
    BY <2>1, <2>3 DEF Fine
  <2>7. \A k \in Runners \ {"admin"} : Fine(k)'
    BY <1>s, <2>2, <2>3, FineKept
  <2> QED
    BY <2>4, <2>5, <2>6, <2>7 DEF Sound
<1>4. CASE SavePeriodic
  <2>1. UNCHANGED <<now, rep, recorded, catalogue, mu, runner, overtaken, done>>
    BY <1>4, Zenon DEF SavePeriodic
  <2>2. /\ DOMAIN saving' = Periodic /\ \A t \in Periodic : saving'[t].exists
        /\ \/ \A t \in Periodic : saving'[t].source = PeriodicReports[t].source
           \/ \E x \in Valid : \A t \in Periodic : saving'[t].source = x
    BY <1>4, SavePeriodicType
  <2>3. /\ \A t \in Periodic : saving'[t].source \in Valid \cup overtaken
        /\ saving'["daily"].source = saving'["weekly"].source
    BY <1>c, <2>2, PeriodicSound
  <2>4. Pending'
    BY <2>1, <2>2, <2>3 DEF Pending, Valid
  <2>5. Settled' /\ Exclusive'
    BY <1>s, <2>1 DEF Settled, Exclusive, Valid
  <2>6. \A k \in Runners : Fine(k)'
    BY <1>s, <2>1, FineKept
  <2> QED
    BY <2>4, <2>5, <2>6 DEF Sound
<1>5. CASE SaveUsage
  <2>1. UNCHANGED <<now, rep, recorded, catalogue, mu, runner, overtaken, done>>
    BY <1>5 DEF SaveUsage
  <2>2. /\ DOMAIN saving' = {"usage"} /\ saving'["usage"].exists
        /\ saving'["usage"].source \in Valid
    BY <1>5, SaveUsageType
  <2>3. Pending'
    BY <1>c, <2>1, <2>2 DEF Pending, Valid
  <2>4. Settled' /\ Exclusive'
    BY <1>s, <2>1 DEF Settled, Exclusive, Valid
  <2>5. \A k \in Runners : Fine(k)'
    BY <1>s, <2>1, FineKept
  <2> QED
    BY <2>3, <2>4, <2>5 DEF Sound
<1>6. CASE CommitSave
  <2>1. /\ rep' = Saved(saving) /\ saving' = NoSave
        /\ overtaken \subseteq overtaken'
        /\ UNCHANGED <<now, recorded, catalogue, mu, runner, done>>
    BY <1>6 DEF CommitSave
  <2>2. /\ \A t \in DOMAIN saving : /\ rep'[t].exists = saving[t].exists
                                    /\ rep'[t].source = saving[t].source
                                    /\ rep'[t].last = rep[t].last
        /\ \A t \in Types \ DOMAIN saving : rep'[t] = rep[t]
    BY <2>1, SavedType
  <2>3. /\ DOMAIN saving \in {{}, {"usage"}, Periodic}
        /\ \A t \in DOMAIN saving : saving[t].exists /\ saving[t].source \in Valid \cup overtaken
        /\ DOMAIN saving = Periodic => saving["daily"].source = saving["weekly"].source
    BY <1>s DEF Pending
  <2>4. DOMAIN saving' = {}
    BY <2>1 DEF NoSave
  <2>5. Pending'
    BY <1>c, <2>4 DEF Pending
  <2>6. rep'["weekly"].exists =>
          rep'["daily"].exists /\ rep'["daily"].source = rep'["weekly"].source
    <3>1. CASE "weekly" \in DOMAIN saving
      <4>1. DOMAIN saving = Periodic
        BY <2>3, <3>1
      <4> QED
        BY <1>c, <2>2, <2>3, <4>1
    <3>2. CASE "weekly" \notin DOMAIN saving
      <4>1. "daily" \notin DOMAIN saving
        BY <2>3, <3>2 DEF Periodic
      <4>2. rep'["weekly"] = rep["weekly"] /\ rep'["daily"] = rep["daily"]
        BY <1>c, <2>2, <3>2, <4>1
      <4> QED
        BY <1>s, <4>2 DEF Settled
    <3> QED
      BY <3>1, <3>2
  <2>7. \A t \in Types : /\ rep'[t].last = rep[t].last
                         /\ rep[t].exists => rep'[t].exists
                         /\ ~rep'[t].exists => ~rep[t].exists /\ rep'[t].source = rep[t].source
                         /\ rep'[t].source \in {rep[t].source} \cup Valid \cup overtaken
    BY <2>2, <2>3
  <2>8. Settled'
    BY <1>s, <2>1, <2>6, <2>7 DEF Settled, Valid
  <2>9. Exclusive'
    BY <1>s, <2>1 DEF Exclusive
  <2>10. \A k \in Runners : Fine(k)'
    BY <1>s, <2>1, <2>7, FineKept
  <2> QED
    BY <2>5, <2>8, <2>9, <2>10 DEF Sound
<1>7. ASSUME NEW e \in Editors, AddSource(e) \/ ChangeSource(e) \/ DeleteSource(e) \/ Look(e)
      PROVE  Sound'
  <2>1. UNCHANGED <<now, rep, recorded, catalogue, mu, runner, saving, overtaken, done>>
    BY <1>7 DEF AddSource, ChangeSource, DeleteSource, Look, Open, Stage
  <2>2. Settled' /\ Pending' /\ Exclusive'
    BY <1>s, <2>1 DEF Settled, Pending, Exclusive, Valid
  <2>3. \A k \in Runners : Fine(k)'
    BY <1>s, <2>1, FineKept
  <2> QED
    BY <2>2, <2>3 DEF Sound
<1>8. CASE Pass
  <2>1. /\ now \in Nat /\ now' = now + 1
        /\ UNCHANGED <<rep, recorded, catalogue, mu, runner, saving, overtaken, done>>
    BY <1>8, <1>a, InstantsAreNat DEF Pass
  <2>2. Exclusive' /\ Pending'
    BY <1>s, <2>1 DEF Exclusive, Pending, Valid
  <2>m. Instants \cup {Never} \subseteq Nat
    BY InstantsAreNat DEF Never
  <2>3. Settled'
    <3>1. \A t \in Types : recorded[t] \in Instants \cup {Never} /\ recorded[t] <= now
      BY <1>a, <1>s DEF Settled
    <3>2. \A t \in Types : recorded[t] \in Nat
      BY <2>m, <3>1
    <3>3. \A t \in Types : recorded[t] <= now'
      BY <2>1, <3>1, <3>2
    <3> QED
      BY <1>s, <2>1, <3>3 DEF Settled, Valid
  <2>4. ASSUME NEW n \in Runners PROVE Fine(n)'
    <3>1. runner[n].at \in Instants \cup {Never}
      BY <1>a DEF Runner
    <3>2. runner[n].at \in Nat
      BY <2>m, <3>1
    <3>3. runner[n].at <= now => runner[n].at <= now'
      BY <2>1, <3>2
    <3>4. Fine(n)
      BY <1>s
    <3> QED
      BY <2>1, <3>3, <3>4 DEF Fine, Slot
  <2> QED
    BY <2>2, <2>3, <2>4 DEF Sound
<1>9. CASE Restart
  <2>1. /\ mu' = "free" /\ runner' = [n \in Runners |-> Idle] /\ DOMAIN saving' = {}
        /\ UNCHANGED <<now, rep, recorded, catalogue, overtaken, done>>
    BY <1>9 DEF Restart, NoSave
  <2>2. \A n \in Runners : runner'[n].pc = "idle" /\ runner'[n].checked = Never
    BY <2>1, IdleType
  <2>3. Settled' /\ Pending'
    BY <1>s, <1>c, <2>1 DEF Settled, Pending, Valid
  <2>4. Exclusive'
    BY <2>1, <2>2 DEF Exclusive, Runners
  <2>5. \A n \in Runners : Fine(n)'
    BY <2>2, FineWaiting
  <2> QED
    BY <2>3, <2>4, <2>5 DEF Sound
<1>10. CASE UNCHANGED vars
  BY <1>10 DEF vars, Sound, Exclusive, Settled, Pending, Fine, Valid, Slot
<1> QED
  BY <1>f, <1>1, <1>2, <1>3, <1>4, <1>5, <1>6, <1>7, <1>8, <1>9, <1>10

\* Of the sources a save of the catalogue drops, none is in use but those overtaken.
LEMMA SourcesSound ==
  ASSUME TypeOK, Sound, NEW e \in Editors, Spared(e), SaveSources(e)
  PROVE  Sound'
<1> DEFINE d    == draft[e]
           lost == catalogue.items \ d.new.items
<1>s. Exclusive /\ Settled /\ Pending /\ \A n \in Runners : Fine(n)
  BY DEF Sound
<1>1. d.pc = "save" /\ UNCHANGED <<now, rep, recorded, mu, runner, saving, done>>
  BY DEF SaveSources, Stage
<1>2. CASE UNCHANGED <<catalogue, overtaken>>
  <2>1. Settled' /\ Pending' /\ Exclusive'
    BY <1>s, <1>1, <1>2 DEF Settled, Pending, Exclusive, Valid
  <2>2. \A k \in Runners : Fine(k)'
    BY <1>s, <1>1, FineKept
  <2> QED
    BY <2>1, <2>2 DEF Sound
<1>3. CASE /\ catalogue' = d.new
           /\ overtaken' = overtaken \cup
                {s \in lost : s # d.drops \/ \E t \in DOMAIN saving : saving[t].source = s}
  <2>1. \A x \in Valid \cup overtaken :
          \/ x \in Valid' \cup overtaken'
          \/ x = d.drops /\ x \in lost /\ \A t \in DOMAIN saving : saving[t].source # x
    BY <1>3 DEF Valid
  <2>2. Global \notin lost
    BY DEF TypeOK, Numbered, Global
  <2>3. ASSUME NEW t \in Types PROVE rep[t].source \in Valid' \cup overtaken'
    <3>1. rep[t].source \in Valid \cup overtaken
      BY <1>s DEF Settled
    <3>2. rep[t].source = d.drops /\ d.drops # Global => d.drops \in overtaken
      BY <1>1 DEF Spared, Looked
    <3> QED
      BY <1>3, <2>1, <2>2, <3>1, <3>2
  <2>4. Settled'
    BY <1>s, <1>1, <2>3 DEF Settled
  <2>5. Pending'
    BY <1>s, <1>1, <2>1 DEF Pending
  <2>6. Exclusive' /\ \A k \in Runners : Fine(k)'
    BY <1>s, <1>1, FineKept DEF Exclusive
  <2> QED
    BY <2>4, <2>5, <2>6 DEF Sound
<1> QED
  BY <1>2, <1>3 DEF SaveSources

\* What a deletion has found holds until it saves, but for the saves that came too late for it.
LEMMA SparedKept ==
  ASSUME TypeOK, Sound, NEW e \in Editors, Spared(e), [Next]_vars
  PROVE  Spared(e)'
<1>a. rep \in [Types -> Report] /\ draft \in [Editors -> Draft]
  BY DEF TypeOK
<1>s. Settled
  BY DEF Sound
<1>c. Types = {"daily", "weekly", "usage"} /\ Periodic = {"daily", "weekly"}
  BY DEF Types, Periodic
<1>1. ASSUME UNCHANGED draft, overtaken \subseteq overtaken',
             \A t \in Types : rep'[t].source = rep[t].source
      PROVE  Spared(e)'
  BY <1>1 DEF Spared, Looked
<1>2. CASE ReadByHand
  <2>1. UNCHANGED <<draft, overtaken>>
    BY <1>2 DEF ReadByHand
  <2>2. rep' = rep \/ rep' = Ensured
    BY <1>2 DEF ReadByHand
  <2>3. /\ Ensured["usage"] = rep["usage"]
        /\ \A t \in Periodic : Ensured[t].source \in {rep[t].source, rep["daily"].source}
    BY EnsuredType, PeriodicType DEF TypeOK
  <2> QED
    BY <1>c, <2>1, <2>2, <2>3 DEF Spared, Looked
<1>3. CASE CreateUsage
  <2> DEFINE u == [Default EXCEPT !.exists = TRUE, !.last = rep["usage"].last]
  <2>1. /\ UNCHANGED <<draft, overtaken>>
        /\ rep' = rep \/ rep' = [rep EXCEPT !["usage"] = u]
    BY <1>3 DEF CreateUsage
  <2>2. u.source = Global
    BY DEF Default
  <2> HIDE DEF u
  <2>3. \A t \in Types : rep'[t].source \in {rep[t].source, Global}
    BY <1>a, <1>c, <2>1, <2>2
  <2> QED
    BY <2>1, <2>3 DEF Spared, Looked
<1>4. ASSUME NEW n \in Runners, Update(n) PROVE Spared(e)'
  <2> DEFINE q == [rep[runner[n].type] EXCEPT !.last = runner[n].at]
  <2>1. /\ UNCHANGED <<draft, overtaken>>
        /\ rep' = rep \/ rep' = [rep EXCEPT ![runner[n].type] = q]
    BY <1>4 DEF Update
  <2>2. runner[n].type \in Types
    BY DEF TypeOK, Runner
  <2>3. q.source = rep[runner[n].type].source
    BY <1>a, <2>2 DEF Report
  <2> HIDE DEF q
  <2>4. \A t \in Types : rep'[t].source = rep[t].source
    BY <1>a, <2>1, <2>2, <2>3
  <2> QED
    BY <1>1, <2>1, <2>4
<1>5. CASE CommitSave
  <2>1. /\ rep' = Saved(saving) /\ UNCHANGED draft
        /\ overtaken' = overtaken \cup Missed(saving)
    BY <1>5 DEF CommitSave
  <2>2. /\ \A t \in DOMAIN saving : rep'[t].source = saving[t].source
        /\ \A t \in Types \ DOMAIN saving : rep'[t] = rep[t]
    BY <2>1, SavedType
  <2>3. SUFFICES ASSUME NEW t \in Types, Looked(e, t), draft[e].drops # Global,
                        rep'[t].source = draft[e].drops
                 PROVE  draft[e].drops \in overtaken'
    BY <2>1 DEF Spared, Looked
  <2>4. CASE t \in DOMAIN saving
    BY <2>1, <2>2, <2>3, <2>4 DEF Missed
  <2>5. CASE t \notin DOMAIN saving
    BY <2>1, <2>2, <2>3, <2>5 DEF Spared
  <2> QED
    BY <2>4, <2>5
<1>6. ASSUME NEW f \in Editors, NEW d \in Draft, Stage(f, d), overtaken \subseteq overtaken',
             f = e => \/ d.pc \in {"idle", "usage"} \/ d.drops = Global
                      \/ Look(e) /\ ~UsedBy(e)
      PROVE  Spared(e)'
  <2>1. /\ rep' = rep /\ draft'[f] = d /\ \A g \in Editors \ {f} : draft'[g] = draft[g]
    BY <1>a, <1>6, StageType DEF Stage
  <2>2. CASE f # e
    BY <1>6, <2>1, <2>2 DEF Spared, Looked
  <2>3. CASE f = e /\ (d.pc \in {"idle", "usage"} \/ d.drops = Global)
    BY <2>1, <2>3 DEF Spared, Looked
  <2>4. CASE f = e /\ Look(e) /\ ~UsedBy(e)
    <3> DEFINE q == [draft[e] EXCEPT !.pc = IF @ = "usage" THEN "periodic" ELSE "save"]
    <3>1. /\ draft[e].pc \in {"usage", "periodic"} /\ Stage(e, q)
      BY <2>4 DEF Look
    <3>2. /\ q \in Draft /\ q.drops = draft[e].drops
          /\ q.pc = IF draft[e].pc = "usage" THEN "periodic" ELSE "save"
      BY <1>a DEF Draft
    <3> HIDE DEF q
    <3>3. draft'[e] = q
      BY <1>a, <3>1, <3>2, StageType
    <3>4. \A t \in Types : rep[t].exists \in BOOLEAN /\ (~rep[t].exists => rep[t].source = Global)
      BY <1>a, <1>s DEF Settled, Report
    <3>5. CASE draft[e].pc = "usage"
      <4>1. ~Uses("usage", draft[e].drops)
        BY <2>4, <3>5 DEF UsedBy
      <4> QED
        BY <1>c, <1>6, <2>1, <3>2, <3>3, <3>4, <3>5, <4>1 DEF Spared, Looked, Uses
    <3>6. CASE draft[e].pc = "periodic"
      <4>1. \A t \in Periodic : ~Uses(t, draft[e].drops)
        BY <2>4, <3>6 DEF UsedBy
      <4>2. rep["usage"].source = draft[e].drops /\ draft[e].drops # Global
              => draft[e].drops \in overtaken
        BY <1>c, <3>6 DEF Spared, Looked
      <4> QED
        BY <1>c, <1>6, <2>1, <3>2, <3>3, <3>4, <3>6, <4>1, <4>2 DEF Spared, Looked, Uses
    <3> QED
      BY <3>1, <3>5, <3>6
  <2> QED
    BY <1>6, <2>2, <2>3, <2>4
<1>7. ASSUME NEW f \in Editors, AddSource(f) \/ ChangeSource(f) \/ DeleteSource(f) \/ Look(f)
                                \/ SaveSources(f)
      PROVE  Spared(e)'
  <2>1. overtaken \subseteq overtaken'
    BY <1>7 DEF AddSource, ChangeSource, DeleteSource, Look, SaveSources, Open
  <2>2. PICK d : /\ Stage(f, d)
                 /\ \/ d.pc \in {"idle", "usage"} \/ d.drops = Global
                    \/ Look(f) /\ ~UsedBy(f)
    <3>1. CASE Look(f)
      BY <3>1, ClosedType DEF Look
    <3>2. CASE SaveSources(f)
      BY <3>2, ClosedType DEF SaveSources
    <3>3. CASE AddSource(f)
      <4> DEFINE d == [pc |-> "save", drops |-> Global,
                       new |-> [items |-> catalogue.items \cup {catalogue.next},
                                next |-> catalogue.next + 1]]
      <4>1. Stage(f, d) /\ d.drops = Global
        BY <3>3 DEF AddSource, Open
      <4> HIDE DEF d
      <4> QED
        BY <4>1
    <3>4. CASE ChangeSource(f)
      <4> DEFINE d == [pc |-> "save", drops |-> Global, new |-> catalogue]
      <4>1. Stage(f, d) /\ d.drops = Global
        BY <3>4 DEF ChangeSource, Open
      <4> HIDE DEF d
      <4> QED
        BY <4>1
    <3>5. CASE DeleteSource(f)
      <4>1. PICK x \in catalogue.items :
              Stage(f, [pc |-> "usage", drops |-> x, new |-> [catalogue EXCEPT !.items = @ \ {x}]])
        BY <3>5 DEF DeleteSource, Open
      <4> DEFINE d == [pc |-> "usage", drops |-> x, new |-> [catalogue EXCEPT !.items = @ \ {x}]]
      <4>2. Stage(f, d) /\ d.pc = "usage"
        BY <4>1
      <4> HIDE DEF d
      <4> QED
        BY <4>2
    <3> QED
      BY <1>7, <3>1, <3>2, <3>3, <3>4, <3>5
  <2>3. draft'[f] = d /\ draft'[f] \in Draft
    <3>1. TypeOK'
      BY NextType
    <3> QED
      BY <1>a, <2>2, <3>1 DEF Stage, TypeOK
  <2> QED
    BY <1>6, <2>1, <2>2, <2>3
<1>8. CASE Restart
  <2>1. draft'[e].pc = "idle"
    BY <1>8, ClosedType DEF Restart
  <2> QED
    BY <2>1 DEF Spared, Looked
<1>9. CASE \/ Tick \/ Try \/ (\E n \in Runners : Execute(n) \/ ExecuteDaily(n) \/ Record(n))
           \/ (\E type \in Types : RunNow(type)) \/ SavePeriodic \/ SaveUsage \/ Pass
           \/ UNCHANGED vars
  <2>1. UNCHANGED <<rep, draft, overtaken>>
    <3>1. CASE SavePeriodic
      BY <3>1, Zenon DEF SavePeriodic
    <3> QED
      BY <1>9, <3>1 DEF Tick, Try, Execute, ExecuteDaily, Take, Record, RunNow, SaveUsage, Pass, vars
  <2> QED
    BY <1>1, <2>1
<1> QED
  BY <1>2, <1>3, <1>4, <1>5, <1>7, <1>8, <1>9, Zenon DEF Next

----------------------------------------------------------------------------
\* The theorems.

\* The invariant holds initially and is kept by every step.
LEMMA Inductive == Spec => []IInv
<1>1. Init => IInv
  <2>1. Init => \A e \in Editors : draft[e].pc = "idle"
    BY ClosedType DEF Init
  <2> QED
    BY <2>1, InitType, InitSound DEF IInv, Spared, Looked
<1>2. IInv /\ [Next]_vars => IInv'
  <2> SUFFICES ASSUME TypeOK, Sound, \A e \in Editors : Spared(e), [Next]_vars
               PROVE  TypeOK' /\ Sound' /\ \A e \in Editors : Spared(e)'
    BY DEF IInv
  <2>1. TypeOK'
    BY NextType
  <2>2. Sound'
    BY RunSound, OtherSound, SourcesSound, Zenon DEF Next
  <2>3. \A e \in Editors : Spared(e)'
    BY SparedKept
  <2> QED
    BY <2>1, <2>2, <2>3
<1> QED
  BY <1>1, <1>2, PTL DEF Spec

\* Only one run goes on at a time, whether the scheduler or an administrator began it, the
\* periodic reports share their source, the last run that a report shows has its record, and no
\* deletion by itself drops a source in use: one that a report names and the catalogue lacks was
\* chosen for the report after the deletion had looked at it, or dropped before the report's own
\* save, or lost to a catalogue written back as it had been read (Manager.runMu,
\* ensurePeriodicReport, SaveScheduledReportConfigs, Manager.SaveSourceSettings,
\* Manager.DeleteSourceSettings).
THEOREM ReportsConsistent == Spec => []Consistent
<1>1. IInv => Consistent
  BY DEF IInv, Sound, Exclusive, Settled, Consistent
<1> QED
  BY <1>1, Inductive, PTL

\* The schedule does not run a periodic report in a local hour in which a run of it was
\* completed, whatever the calendar (nextPeriodicRun).
THEOREM NoSlotTwice == Spec => []OncePerSlot
<1>1. IInv => OncePerSlot
  <2>1. "scheduler" \in Runners
    BY DEF Runners
  <2> QED
    BY <2>1 DEF IInv, Sound, Fine, OncePerSlot
<1> QED
  BY <1>1, Inductive, PTL

----------------------------------------------------------------------------
\* The page and the scheduler.

\* The hours in which the scheduler would run the report r.
Fits(type, r, u) == Calendar[u].hour = r.hour /\ OnDay(type, r, u) /\ ~Consumed(r, u)

LEMMA DaysOrdered ==
  /\ \A t \in Instants : Calendar[t].day \in Nat
  /\ \A t, u \in Instants : t <= u => Calendar[t].day <= Calendar[u].day
<1>1. ASSUME NEW t \in Instants PROVE Calendar[t] \in [day : Nat, hour : Nat]
  <2>1. Calendar \in Seq([day : Nat, hour : Nat]) /\ t \in 1..Len(Calendar)
    BY ReportsAssumption, InstantsAreNat
  <2> QED
    BY <2>1, ElementOfSeq
<1>2. \A t, u \in Instants : t <= u => Calendar[t].day <= Calendar[u].day
  BY ReportsAssumption DEF Instants
<1> QED
  BY <1>1, <1>2

\* A possible run is an hour that fits, and not before the hour in question.
LEMMA PossibleFits ==
  ASSUME NEW type \in Periodic, NEW r, NEW t \in Instants
  PROVE  /\ Possible(type, r, t) \subseteq Nat
         /\ \A u \in Possible(type, r, t) : u \in Instants /\ u >= t /\ Fits(type, r, u)
         /\ t \in Possible(type, r, t) <=> Fits(type, r, t)
<1>1. t \in Nat /\ Instants \subseteq Nat /\ Week \in Nat
  BY InstantsAreNat, ReportsAssumption
<1>2. Calendar[t].day \in Nat
  BY DaysOrdered
<1>3. Calendar[t].day <= Calendar[t].day + 2 * Week /\ t >= t
  BY <1>1, <1>2
<1> QED
  BY <1>1, <1>3 DEF Possible, Fits

\* The scheduler runs a report in the hours that fit, and in no other.
LEMMA DueWhenFits ==
  ASSUME NEW type \in Periodic, NEW r, NEW u \in Instants
  PROVE  NextRun(type, r, u) = u <=> r.on /\ Fits(type, r, u)
<1> DEFINE P == Possible(type, r, u)
<1>1. /\ P \subseteq Nat /\ (\A x \in P : x >= u /\ Fits(type, r, x))
      /\ u \in P <=> Fits(type, r, u)
      /\ u \in Nat /\ u # Never
  BY PossibleFits, InstantsAreNat DEF Never
<1>2. NextRun(type, r, u) = IF r.on /\ P # {} THEN Min(P) ELSE Never
  BY DEF NextRun
<1> HIDE DEF P
<1>3. P # {} => Min(P) \in P /\ \A x \in P : Min(P) <= x
  BY <1>1, MinIn
<1>4. ASSUME u \in P PROVE Min(P) = u
  <2>1. Min(P) \in Nat /\ Min(P) <= u /\ u <= Min(P)
    BY <1>1, <1>3, <1>4
  <2> QED
    BY <1>1, <2>1
<1> QED
  BY <1>1, <1>2, <1>3, <1>4

\* Hours with the same local time fit alike.
LEMMA SlotFits ==
  ASSUME NEW type, NEW r, NEW t, NEW u, Slot(t) = Slot(u), Fits(type, r, u)
  PROVE  Fits(type, r, t)
<1>1. Calendar[t].day = Calendar[u].day /\ Calendar[t].hour = Calendar[u].hour
  BY DEF Slot
<1> QED
  BY <1>1 DEF Fits, OnDay, Consumed

\* The first hour that fits is one that the page looks at: it is the first of two equal ones,
\* and no more than two weeks away.
LEMMA FirstIsPossible ==
  ASSUME RealClocks, NEW type \in Periodic, NEW r \in Report, NEW n \in Instants,
         r.last = Never \/ r.last <= n,
         NEW m \in Instants, n <= m, Fits(type, r, m),
         \A x \in Instants : n <= x /\ Fits(type, r, x) => m <= x
  PROVE  m \in Possible(type, r, n)
<1>1. Instants \subseteq Nat /\ Week \in Nat /\ r.hour \in Hours /\ r.weekday \in 1..Week
  BY InstantsAreNat, ReportsAssumption DEF Report
<1>2. m = n \/ Announced(m)
  <2> SUFFICES ASSUME NEW x \in Instants, Slot(x) = Slot(m), ~(x >= m), m # n PROVE FALSE
    BY DEF Announced
  <2>1. Fits(type, r, x)
    BY SlotFits
  <2>2. CASE n <= x
    BY <1>1, <2>1, <2>2
  <2>3. CASE x <= n
    <3>1. Slot(n) = Slot(m)
      BY <2>3 DEF RealClocks
    <3>2. Fits(type, r, n)
      BY <3>1, SlotFits
    <3>3. n <= n
      BY <1>1
    <3>4. m <= n
      BY <3>2, <3>3
    <3> QED
      BY <1>1, <3>4
  <2> QED
    BY <1>1, <2>2, <2>3
<1>3. Calendar[m].day <= Calendar[n].day + 2 * Week
  <2> SUFFICES ASSUME ~(Calendar[m].day <= Calendar[n].day + 2 * Week) PROVE FALSE
    OBVIOUS
  <2>1. Calendar[m].day \in Nat /\ Calendar[n].day \in Nat
    BY DaysOrdered
  <2>2. Calendar[n].day + 2 * Week < Calendar[m].day
    BY <1>1, <2>1
  <2>3. PICK v \in Instants : /\ Calendar[n].day < Calendar[v].day
                              /\ Calendar[v].day <= Calendar[n].day + 2 * Week
                              /\ Calendar[v].hour = r.hour /\ Weekday(Calendar[v].day) = r.weekday
    BY <1>1, <2>2 DEF RealClocks
  <2>4. Calendar[v].day \in Nat /\ (v <= n => Calendar[v].day <= Calendar[n].day)
    BY DaysOrdered
  <2>5. n <= v
    BY <1>1, <2>1, <2>3, <2>4
  <2>6. ~Consumed(r, v)
    <3> SUFFICES ASSUME r.last # Never, Slot(r.last) = Slot(v) PROVE FALSE
      BY DEF Consumed
    <3>1. r.last \in Instants /\ r.last <= n
      BY DEF Report
    <3>2. Calendar[r.last].day = Calendar[v].day /\ Calendar[r.last].day <= Calendar[n].day
      BY <3>1, DaysOrdered DEF Slot
    <3> QED
      BY <2>1, <2>3, <2>4, <3>2
  <2>7. Fits(type, r, v)
    BY <2>3, <2>6 DEF Fits, OnDay
  <2>8. m <= v
    BY <2>5, <2>7
  <2>9. Calendar[m].day <= Calendar[v].day
    BY <2>8, DaysOrdered
  <2> QED
    BY <1>1, <2>1, <2>2, <2>3, <2>4, <2>9
<1>4. m >= n
  BY <1>1
<1> QED
  BY <1>2, <1>3, <1>4 DEF Possible, Fits

\* What the page shows is the least of the hours that fit.
LEMMA ShownIsFirst ==
  ASSUME RealClocks, NEW type \in Periodic, NEW r \in Report, NEW n \in Instants,
         r.last = Never \/ r.last <= n,
         NEW found, found = {u \in Instants : u >= n /\ NextRun(type, r, u) = u}
  PROVE  NextRun(type, r, n) = IF found = {} THEN Never ELSE Min(found)
<1> DEFINE P == Possible(type, r, n)
<1>1. Instants \subseteq Nat
  BY InstantsAreNat
<1>2. \A u \in Instants : u \in found <=> u >= n /\ r.on /\ Fits(type, r, u)
  BY DueWhenFits
<1>3. found \subseteq Instants
  OBVIOUS
<1>4. P \subseteq Nat /\ \A u \in P : u \in Instants /\ u >= n /\ Fits(type, r, u)
  BY PossibleFits
<1>5. NextRun(type, r, n) = IF r.on /\ P # {} THEN Min(P) ELSE Never
  BY DEF NextRun
<1>6. r.on => P \subseteq found
  BY <1>2, <1>4
<1>7. found # {} => r.on
  BY <1>2, <1>3
<1>8. ASSUME found # {} PROVE Min(found) \in P
  <2>1. found \in SUBSET Nat
    BY <1>1, <1>3
  <2>2. Min(found) \in found /\ \A x \in found : Min(found) <= x
    BY <1>8, <2>1, MinIn
  <2>3. PICK m \in Instants : m = Min(found)
    BY <1>3, <2>2
  <2>4. m >= n /\ Fits(type, r, m) /\ r.on
    BY <1>2, <2>2, <2>3
  <2>5. \A x \in Instants : n <= x /\ Fits(type, r, x) => m <= x
    BY <1>1, <1>2, <2>2, <2>3, <2>4
  <2>6. n <= m
    BY <1>1, <2>4
  <2>7. m \in Possible(type, r, n)
    BY <2>4, <2>5, <2>6, FirstIsPossible
  <2> QED
    BY <2>3, <2>7
<1> HIDE DEF P
<1>9. CASE found = {}
  BY <1>5, <1>6, <1>9
<1>10. CASE found # {}
  <2>1. /\ Min(P) \in P /\ (\A x \in P : Min(P) <= x)
        /\ Min(found) \in found /\ (\A x \in found : Min(found) <= x)
    BY <1>1, <1>3, <1>4, <1>8, <1>10, MinIn
  <2>2. Min(P) \in found /\ Min(found) \in P /\ r.on
    BY <1>6, <1>7, <1>8, <1>10, <2>1
  <2>3. Min(P) \in Nat /\ Min(found) \in Nat /\ Min(P) <= Min(found) /\ Min(found) <= Min(P)
    BY <1>4, <2>1, <2>2
  <2>4. Min(P) = Min(found)
    BY <2>3
  <2> QED
    BY <1>5, <1>10, <2>1, <2>2, <2>4
<1> QED
  BY <1>9, <1>10

\* The run that the page announces is the first hour in which the scheduler finds the report
\* due, if nothing happens until then (nextPeriodicRun): for every calendar with the clocks of
\* a place, and from every state of the reports.
THEOREM PageAgrees == RealClocks /\ Spec => []NextAgrees
<1>1. ASSUME RealClocks, IInv PROVE NextAgrees
  <2>1. SUFFICES ASSUME NEW t \in Periodic
                 PROVE  LET found == {u \in Instants : u >= now /\ NextRun(t, rep[t], u) = u} IN
                        Shown(t) = IF found = {} THEN Never ELSE Min(found)
    BY Zenon DEF NextAgrees
  <2>2. rep[t] \in Report /\ now \in Instants /\ t \in Types
    BY <1>1 DEF IInv, TypeOK, Types
  <2>3. rep[t].last = Never \/ rep[t].last <= now
    <3>1. rep[t].last <= recorded[t] /\ recorded[t] <= now
      BY <1>1, <2>2 DEF IInv, Sound, Settled
    <3>2. rep[t].last \in Nat /\ recorded[t] \in Nat /\ now \in Nat
      BY <1>1, <2>2, InstantsAreNat DEF IInv, TypeOK, Report, Never
    <3> QED
      BY <3>1, <3>2
  <2> DEFINE found == {u \in Instants : u >= now /\ NextRun(t, rep[t], u) = u}
  <2>4. NextRun(t, rep[t], now) = IF found = {} THEN Never ELSE Min(found)
    BY <1>1, <2>2, <2>3, ShownIsFirst
  <2> QED
    BY <2>4 DEF Shown
<1>2. RealClocks => (IInv => NextAgrees)
  BY <1>1
<1>3. CASE RealClocks
  BY <1>2, <1>3, Inductive, PTL
<1> QED
  BY <1>3
=============================================================================

---------------------------- MODULE EngineProofs ----------------------------
(***************************************************************************)
(* Proofs about the engine, in two parts. About EngineLifecycle, for any   *)
(* number of API goroutines and of requests: at most one round runs,       *)
(* nothing runs when Stop has returned, and a round that was cut short     *)
(* writes nothing. About Sampling, for any answers, policy, switches and   *)
(* number of upsets: no request is kept twice, and a channel leaves the    *)
(* pool, and comes back, only for what happened last.                      *)
(***************************************************************************)
EXTENDS EngineLifecycle, FiniteSetTheorems, SequenceTheorems, WellFoundedInduction, TLAPS

\* A round is cut short only by the end of its context, and is then at its checkpoint or
\* past it, on its way out.
CutShort == \A p \in Runners : partial[p] => ctxDone[p] /\ pc[p] \in {"check", "leave"}

\* The heartbeat waits for Start. From the moment Stop has marked the engine, nobody enters;
\* once it has read runDone it waits for the round that is left; once it has joined the
\* heartbeat, that is gone.
Stopping ==
  /\ mainPC = "boot" => pc["loop"] = "off"
  /\ mainPC \notin {"boot", "serving"} => stopping
  /\ mainPC \in {"joining", "waiting", "stopped"} =>
       \A p \in Runners : InRound(p) => waitFor = p
  /\ mainPC \in {"waiting", "stopped"} => pc["loop"] = "exited"
  /\ mainPC = "stopped" => waitFor = None

IInv == TypeOK /\ OneRound /\ CutShort /\ Stopping

\* The types hold at the start.
LEMMA InitType == Init => TypeOK
<1> SUFFICES ASSUME Init PROVE TypeOK
  OBVIOUS
<1>1. Located
  BY LifecycleAssumption DEF Init, Located, Runners, LoopPCs, RoundPCs, ApiPCs
<1>2. /\ cancelRun \in Runners \cup {None} /\ runDone \in Runners \cup {None}
      /\ ctxDone \in [Runners -> BOOLEAN] /\ partial \in [Runners -> BOOLEAN]
      /\ grabbed \in [Threads \cup {"main"} -> Runners \cup {None}]
      /\ waitFor \in Runners \cup {None}
  BY DEF Init
<1>3. switch \in [Threads -> Switches] /\ seen \in [Threads -> Row]
  BY DEF Init, Switches, Row, Unread
<1>4. /\ enabled \in BOOLEAN /\ configured \in BOOLEAN
      /\ stopping \in BOOLEAN /\ running \in BOOLEAN
      /\ stopCh \in BOOLEAN /\ silenced \in BOOLEAN
  BY DEF Init
<1>5. mainPC \in MainPCs /\ requests \in 0..MaxRequests
  BY LifecycleAssumption DEF Init, MainPCs
<1> QED
  BY <1>1, <1>2, <1>3, <1>4, <1>5 DEF TypeOK

\* Every step of a goroutine keeps the types.
LEMMA NextType == TypeOK /\ [Next]_vars => TypeOK'
<1> SUFFICES ASSUME TypeOK, [Next]_vars PROVE TypeOK'
  OBVIOUS
<1> USE LifecycleAssumption
    DEF TypeOK, Located, Runners, RoundPCs, LoopPCs, ApiPCs, MainPCs, Switches, Goto, Main,
        Return, settings, engine, rounds, held, api
<1>1. ASSUME NEW p \in Runners, Prepare(p) PROVE TypeOK'
  <2>1. Located'
    BY <1>1 DEF Prepare
  <2> HIDE DEF Located
  <2> QED
    BY <1>1, <2>1 DEF Prepare
<1>2. ASSUME NEW p \in Runners, Collect(p) PROVE TypeOK'
  <2>1. Located'
    BY <1>2 DEF Collect
  <2>2. partial' \in [Runners -> BOOLEAN]
    BY <1>2 DEF Collect
  <2> HIDE DEF Located
  <2> QED
    BY <1>2, <2>1, <2>2 DEF Collect
<1>3. ASSUME NEW p \in Runners, Check(p) PROVE TypeOK'
  BY <1>3 DEF Check
<1>4. ASSUME NEW p \in Runners, Apply(p) PROVE TypeOK'
  BY <1>4 DEF Apply
<1>5. ASSUME NEW p \in Runners, Persist(p) PROVE TypeOK'
  BY <1>5 DEF Persist
<1>6. ASSUME NEW p \in Runners, Leave(p) PROVE TypeOK'
  BY <1>6 DEF Leave, Dropped
<1>7. ASSUME NEW p \in Runners, Timeout(p) PROVE TypeOK'
  BY <1>7 DEF Timeout
<1>8. CASE Beat
  <2>1. CASE Goto("loop", "tick")
    BY <1>8, <2>1 DEF Beat
  <2>2. CASE Goto("loop", "exited")
    BY <1>8, <2>2 DEF Beat
  <2> QED
    BY <1>8, <2>1, <2>2 DEF Beat
<1>9. CASE Tick \/ TickUnread
  <2>1. UNCHANGED <<settings, engine, stopCh, rounds, held, api, mainPC>>
    BY <1>9 DEF Tick, TickUnread
  <2>2. \E l \in {"run", "catalog", "wait"} : pc' = [pc EXCEPT !["loop"] = l]
    BY <1>9 DEF Tick, TickUnread
  <2>3. Located'
    BY <2>2
  <2> HIDE DEF Located
  <2> QED
    BY <2>1, <2>3
<1>10. CASE TickRuns
  <2>1. Located'
    BY <1>10 DEF TickRuns, Enter
  <2> HIDE DEF Located
  <2> QED
    BY <1>10, <2>1 DEF TickRuns, Enter
<1>11. CASE Catalog
  BY <1>11 DEF Catalog
<1>12. ASSUME NEW t \in Threads, RequestRun(t) PROVE TypeOK'
  BY <1>12 DEF RequestRun, Arrives
<1>13. ASSUME NEW t \in Threads, RequestRuns(t) PROVE TypeOK'
  <2>1. Located'
    BY <1>13 DEF RequestRuns, Enter
  <2> HIDE DEF Located
  <2> QED
    BY <1>13, <2>1 DEF RequestRuns, Enter
<1>14. ASSUME NEW t \in Threads, RequestCancel(t) PROVE TypeOK'
  BY <1>14 DEF RequestCancel, Arrives
<1>15. ASSUME NEW t \in Threads, CancelFire(t) PROVE TypeOK'
  BY <1>15 DEF CancelFire
<1>16. ASSUME NEW t \in Threads, NEW s \in Switches, RequestSettings(t, s) PROVE TypeOK'
  BY <1>16 DEF RequestSettings, Arrives
<1>17. ASSUME NEW t \in Threads, ReadRow(t) PROVE TypeOK'
  <2>1. [on |-> enabled, set |-> configured] \in Row
    BY DEF Row
  <2>2. seen' \in [Threads -> Row]
    BY <1>17, <2>1 DEF ReadRow
  <2>3. Located'
    BY <1>17 DEF ReadRow
  <2> HIDE DEF Located
  <2> QED
    BY <1>17, <2>2, <2>3 DEF ReadRow
<1>a. ASSUME NEW t \in Threads, Answered(t), enabled' \in BOOLEAN, configured' \in BOOLEAN,
             silenced' \in BOOLEAN
      PROVE  TypeOK'
  <2>1. Located'
    BY <1>a DEF Answered
  <2>2. seen' \in [Threads -> Row] /\ switch' \in [Threads -> Switches]
    BY <1>a DEF Answered, Row, Unread
  <2> HIDE DEF Located
  <2> QED
    BY <1>a, <2>1, <2>2 DEF Answered
<1>18. ASSUME NEW t \in Threads, NEW s \in Payloads, SaveConnection(t, s) PROVE TypeOK'
  <2>1. seen[t].on \in BOOLEAN /\ (s = "on") \in BOOLEAN
    BY DEF Row
  <2>2. Answered(t) /\ configured' \in BOOLEAN /\ silenced' = (silenced /\ s # "on")
    BY <1>18 DEF SaveConnection
  <2>3. enabled' = seen[t].on \/ enabled' = (s = "on")
    BY <1>18 DEF SaveConnection
  <2>4. enabled' \in BOOLEAN
    BY <2>1, <2>3, Zenon
  <2> QED
    BY <2>2, <2>4, <1>a
<1>27. ASSUME NEW t \in Threads, SetAutoEnabled(t) PROVE TypeOK'
  <2>1. seen[t].set \in BOOLEAN /\ (switch[t] = "resume") \in BOOLEAN
        /\ enabled \in BOOLEAN /\ configured \in BOOLEAN
    BY DEF Row
  <2>2. Answered(t) /\ silenced' = (silenced \/ switch[t] = "cancel")
    BY <1>27 DEF SetAutoEnabled
  <2>3. \/ enabled' = enabled /\ configured' = configured
        \/ enabled' = (switch[t] = "resume") /\ configured' = seen[t].set
    BY <1>27 DEF SetAutoEnabled
  <2>4. enabled' \in BOOLEAN /\ configured' \in BOOLEAN
    BY <2>1, <2>3, Zenon
  <2> QED
    BY <2>2, <2>4, <1>a
<1>28. ASSUME NEW t \in Threads, RowFails(t) PROVE TypeOK'
  BY <1>28, <1>a DEF RowFails
<1>19. CASE Start
  <2>1. Located'
    BY <1>19 DEF Start
  <2> HIDE DEF Located
  <2> QED
    BY <1>19, <2>1 DEF Start
<1>20. CASE StopMark
  BY <1>20 DEF StopMark
<1>21. CASE StopClose
  BY <1>21 DEF StopClose
<1>22. CASE StopFire
  BY <1>22 DEF StopFire
<1>23. CASE StopReread
  BY <1>23 DEF StopReread
<1>24. CASE StopJoin
  BY <1>24 DEF StopJoin
<1>25. CASE StopReturn
  BY <1>25 DEF StopReturn
<1>26. CASE UNCHANGED vars
  BY <1>26 DEF vars
<1> QED
  BY <1>1, <1>2, <1>3, <1>4, <1>5, <1>6, <1>7, <1>8, <1>9, <1>10, <1>11, <1>12, <1>13,
     <1>14, <1>15, <1>16, <1>17, <1>18, <1>19, <1>20, <1>21, <1>22, <1>23, <1>24, <1>25,
     <1>26, <1>27, <1>28 DEF Next, Stop, Loop, Serve, Round

\* Nothing runs and nothing is stopping at the start.
LEMMA InitInvariant == Init => IInv
BY InitType DEF Init, IInv, OneRound, CutShort, Stopping, Runners, InRound, RoundPCs

\* Every step keeps the invariant: only Enter lets a round in, and only if none runs and
\* nobody stops the engine.
LEMMA NextInvariant == IInv /\ [Next]_vars => IInv'
<1> SUFFICES ASSUME TypeOK, OneRound, CutShort, Stopping, [Next]_vars
             PROVE  OneRound' /\ CutShort' /\ Stopping'
  BY NextType DEF IInv
<1> USE LifecycleAssumption
    DEF TypeOK, Located, OneRound, CutShort, Stopping, Runners, InRound, RoundPCs, LoopPCs, ApiPCs,
        Goto, Main, Return, settings, engine, rounds, held, api
<1>1. ASSUME NEW p \in Runners, Prepare(p) PROVE OneRound' /\ CutShort' /\ Stopping'
  <2>1. OneRound'
    BY <1>1 DEF Prepare
  <2>2. CutShort'
    BY <1>1 DEF Prepare
  <2>3. Stopping'
    BY <1>1 DEF Prepare
  <2> QED BY <2>1, <2>2, <2>3
<1>2. ASSUME NEW p \in Runners, Collect(p) PROVE OneRound' /\ CutShort' /\ Stopping'
  <2>1. OneRound'
    BY <1>2 DEF Collect
  <2>2. CutShort'
    BY <1>2 DEF Collect
  <2>3. Stopping'
    BY <1>2 DEF Collect
  <2> QED BY <2>1, <2>2, <2>3
<1>3. ASSUME NEW p \in Runners, Check(p) PROVE OneRound' /\ CutShort' /\ Stopping'
  <2>1. OneRound'
    BY <1>3 DEF Check
  <2>2. CutShort'
    BY <1>3 DEF Check
  <2>3. Stopping'
    BY <1>3 DEF Check
  <2> QED BY <2>1, <2>2, <2>3
<1>4. ASSUME NEW p \in Runners, Apply(p) PROVE OneRound' /\ CutShort' /\ Stopping'
  <2>1. OneRound'
    BY <1>4 DEF Apply
  <2>2. CutShort'
    BY <1>4 DEF Apply
  <2>3. Stopping'
    BY <1>4 DEF Apply
  <2> QED BY <2>1, <2>2, <2>3
<1>5. ASSUME NEW p \in Runners, Persist(p) PROVE OneRound' /\ CutShort' /\ Stopping'
  <2>1. OneRound'
    BY <1>5 DEF Persist
  <2>2. CutShort'
    BY <1>5 DEF Persist
  <2>3. Stopping'
    BY <1>5 DEF Persist
  <2> QED BY <2>1, <2>2, <2>3
<1>6. ASSUME NEW p \in Runners, Leave(p) PROVE OneRound' /\ CutShort' /\ Stopping'
  <2>1. OneRound'
    BY <1>6 DEF Leave, Dropped
  <2>2. CutShort'
    BY <1>6 DEF Leave, Dropped
  <2>3. Stopping'
    BY <1>6 DEF Leave, Dropped
  <2> QED BY <2>1, <2>2, <2>3
<1>7. ASSUME NEW p \in Runners, Timeout(p) PROVE OneRound' /\ CutShort' /\ Stopping'
  <2>1. OneRound'
    BY <1>7 DEF Timeout
  <2>2. CutShort'
    BY <1>7 DEF Timeout
  <2>3. Stopping'
    BY <1>7 DEF Timeout
  <2> QED BY <2>1, <2>2, <2>3
<1>8. CASE Beat
  BY <1>8 DEF Beat
<1>9. CASE Tick \/ TickUnread
  <2>1. UNCHANGED <<settings, engine, stopCh, rounds, held, api, mainPC>>
    BY <1>9 DEF Tick, TickUnread
  <2>2. /\ \E l \in {"run", "catalog", "wait"} : pc' = [pc EXCEPT !["loop"] = l]
        /\ pc["loop"] = "tick"
    BY <1>9 DEF Tick, TickUnread
  <2> QED
    BY <2>1, <2>2
<1>10. CASE TickRuns
  <2>1. OneRound'
    BY <1>10 DEF TickRuns, Enter
  <2>2. CutShort'
    BY <1>10 DEF TickRuns, Enter
  <2>3. Stopping'
    BY <1>10 DEF TickRuns, Enter
  <2> QED BY <2>1, <2>2, <2>3
<1>11. CASE Catalog
  BY <1>11 DEF Catalog
<1>12. ASSUME NEW t \in Threads, RequestRun(t) PROVE OneRound' /\ CutShort' /\ Stopping'
  BY <1>12 DEF RequestRun, Arrives
<1>13. ASSUME NEW t \in Threads, RequestRuns(t) PROVE OneRound' /\ CutShort' /\ Stopping'
  <2>1. OneRound'
    BY <1>13 DEF RequestRuns, Enter
  <2>2. CutShort'
    BY <1>13 DEF RequestRuns, Enter
  <2>3. Stopping'
    BY <1>13 DEF RequestRuns, Enter
  <2> QED BY <2>1, <2>2, <2>3
<1>14. ASSUME NEW t \in Threads, RequestCancel(t) PROVE OneRound' /\ CutShort' /\ Stopping'
  <2>1. OneRound'
    BY <1>14 DEF RequestCancel, Arrives
  <2>2. CutShort'
    BY <1>14 DEF RequestCancel, Arrives
  <2>3. Stopping'
    BY <1>14 DEF RequestCancel, Arrives
  <2> QED BY <2>1, <2>2, <2>3
<1>15. ASSUME NEW t \in Threads, CancelFire(t) PROVE OneRound' /\ CutShort' /\ Stopping'
  <2>1. OneRound'
    BY <1>15 DEF CancelFire
  <2>2. CutShort'
    BY <1>15 DEF CancelFire
  <2>3. Stopping'
    BY <1>15 DEF CancelFire
  <2> QED BY <2>1, <2>2, <2>3
<1>16. ASSUME NEW t \in Threads, NEW s \in Switches, RequestSettings(t, s)
       PROVE  OneRound' /\ CutShort' /\ Stopping'
  BY <1>16 DEF RequestSettings, Arrives
<1>17. ASSUME NEW t \in Threads, ReadRow(t) PROVE OneRound' /\ CutShort' /\ Stopping'
  BY <1>17 DEF ReadRow
<1>a. ASSUME NEW t \in Threads, Answered(t), pc[t] \in {"read", "save"}
      PROVE  OneRound' /\ CutShort' /\ Stopping'
  BY <1>a DEF Answered
<1>18. ASSUME NEW t \in Threads, NEW s \in Payloads, SaveConnection(t, s)
       PROVE  OneRound' /\ CutShort' /\ Stopping'
  BY <1>18, <1>a DEF SaveConnection
<1>27. ASSUME NEW t \in Threads, SetAutoEnabled(t) PROVE OneRound' /\ CutShort' /\ Stopping'
  BY <1>27, <1>a DEF SetAutoEnabled
<1>28. ASSUME NEW t \in Threads, RowFails(t) PROVE OneRound' /\ CutShort' /\ Stopping'
  BY <1>28, <1>a DEF RowFails
<1>19. CASE Start
  BY <1>19 DEF Start
<1>20. CASE StopMark
  <2>1. OneRound'
    BY <1>20 DEF StopMark
  <2>2. CutShort'
    BY <1>20 DEF StopMark
  <2>3. Stopping'
    BY <1>20 DEF StopMark
  <2> QED BY <2>1, <2>2, <2>3
<1>21. CASE StopClose
  BY <1>21 DEF StopClose
<1>22. CASE StopFire
  <2>1. OneRound'
    BY <1>22 DEF StopFire
  <2>2. CutShort'
    BY <1>22 DEF StopFire
  <2>3. Stopping'
    BY <1>22 DEF StopFire
  <2> QED BY <2>1, <2>2, <2>3
<1>23. CASE StopReread
  <2>1. OneRound'
    BY <1>23 DEF StopReread
  <2>2. CutShort'
    BY <1>23 DEF StopReread
  <2>3. Stopping'
    BY <1>23 DEF StopReread
  <2> QED BY <2>1, <2>2, <2>3
<1>24. CASE StopJoin
  <2>1. OneRound'
    BY <1>24 DEF StopJoin
  <2>2. CutShort'
    BY <1>24 DEF StopJoin
  <2>3. Stopping'
    BY <1>24 DEF StopJoin
  <2> QED BY <2>1, <2>2, <2>3
<1>25. CASE StopReturn
  <2>1. OneRound'
    BY <1>25 DEF StopReturn
  <2>2. CutShort'
    BY <1>25 DEF StopReturn
  <2>3. Stopping'
    BY <1>25 DEF StopReturn
  <2> QED BY <2>1, <2>2, <2>3
<1>26. CASE UNCHANGED vars
  BY <1>26 DEF vars
<1> QED
  BY <1>1, <1>2, <1>3, <1>4, <1>5, <1>6, <1>7, <1>8, <1>9, <1>10, <1>11, <1>12, <1>13,
     <1>14, <1>15, <1>16, <1>17, <1>18, <1>19, <1>20, <1>21, <1>22, <1>23, <1>24, <1>25,
     <1>26, <1>27, <1>28 DEF Next, Stop, Loop, Serve, Round

\* The inductive invariant behind the theorems below.
THEOREM Invariance == Spec => []IInv
BY InitInvariant, NextInvariant, PTL DEF Spec

\* The types of every variable.
THEOREM TypeCorrect == Spec => []TypeOK
BY Invariance, PTL DEF IInv

\* RunOnce never lets two rounds run, whoever asks for them and whenever.
THEOREM OneRoundAtATime == Spec => []OneRound
BY Invariance, PTL DEF IInv

\* When Stop has returned, no round runs and the heartbeat is gone.
THEOREM QuietWhenStopped == Spec => []StopMeansQuiet
<1>1. IInv => StopMeansQuiet
  <2> SUFFICES ASSUME IInv, mainPC = "stopped", NEW p \in Runners, InRound(p) PROVE FALSE
    BY DEF IInv, Stopping, StopMeansQuiet
  <2>1. p = None
    BY DEF IInv, Stopping
  <2> QED BY <2>1, LifecycleAssumption
<1> QED BY <1>1, Invariance, PTL

\* The checkpoint after collect lets no round through that was cut short.
THEOREM NoHalfRoundWrites == Spec => []NoHalfRound
<1>1. IInv => NoHalfRound
  BY DEF IInv, CutShort, NoHalfRound
<1> QED BY <1>1, Invariance, PTL

\* The engine says that a round runs only while one does.
Told == running => cancelRun # None /\ InRound(cancelRun)

LEMMA InitTold == Init => Told
BY DEF Init, Told

\* running is set when a round enters, and reset when it leaves; between the two only the
\* round itself moves, and stays a round.
LEMMA NextTold == IInv /\ Told /\ [Next]_vars => Told'
<1> SUFFICES ASSUME IInv, Told, [Next]_vars PROVE Told'
  OBVIOUS
<1>t. /\ pc \in [Runners -> {"run"} \cup RoundPCs \cup LoopPCs \cup ApiPCs]
      /\ cancelRun \in Runners \cup {None} /\ None \notin Runners
      /\ "loop" \in Runners /\ Threads \subseteq Runners
      /\ \A p \in Runners : InRound(p) => running /\ cancelRun = p
  BY LifecycleAssumption DEF IInv, TypeOK, Located, OneRound, Runners
<1> USE DEF Told, InRound, RoundPCs, Goto, Return, engine
<1>1. ASSUME NEW p \in Runners, Round(p) PROVE Told'
  <2>1. CASE Leave(p)
    BY <2>1 DEF Leave
  <2>2. CASE Prepare(p) \/ Collect(p) \/ Check(p) \/ Apply(p) \/ Persist(p)
    <3>1. /\ UNCHANGED <<running, cancelRun>>
          /\ \E l \in RoundPCs : pc' = [pc EXCEPT ![p] = l]
      BY <2>2 DEF Prepare, Collect, Check, Apply, Persist
    <3> QED
      BY <1>t, <3>1
  <2> QED
    BY <1>1, <2>1, <2>2 DEF Round
<1>2. ASSUME NEW p \in Runners, Enter(p), pc[p] = "run" PROVE Told'
  BY <1>t, <1>2 DEF Enter
<1>3. CASE TickRuns
  BY <1>t, <1>2, <1>3 DEF TickRuns
<1>4. ASSUME NEW t \in Threads, RequestRuns(t) PROVE Told'
  BY <1>t, <1>2, <1>4 DEF RequestRuns
<1>5. ASSUME UNCHANGED <<running, cancelRun>>,
             \A p \in Runners : InRound(p) => pc'[p] = pc[p]
      PROVE  Told'
  BY <1>t, <1>5
<1>6. CASE Beat \/ Tick \/ TickUnread \/ Catalog
  BY <1>t, <1>5, <1>6 DEF Beat, Tick, TickUnread, Catalog
<1>11. CASE Start
  <2>1. pc["loop"] = "off"
    BY <1>11 DEF Start, Main, IInv, Stopping
  <2> QED
    BY <1>t, <1>5, <1>11, <2>1 DEF Start
<1>7. CASE Stop
  BY <1>t, <1>5, <1>7 DEF Stop, StopMark, StopClose, StopFire, StopReread, StopJoin, StopReturn,
                          rounds, held, api
<1>8. ASSUME NEW t \in Threads,
             \/ RequestRun(t) \/ RequestCancel(t) \/ CancelFire(t) \/ ReadRow(t)
             \/ (\E s \in Payloads : SaveConnection(t, s)) \/ SetAutoEnabled(t) \/ RowFails(t)
             \/ \E s \in Switches : RequestSettings(t, s)
      PROVE  Told'
  BY <1>t, <1>5, <1>8 DEF RequestRun, RequestCancel, RequestSettings, Arrives, CancelFire, ReadRow,
                          SaveConnection, SetAutoEnabled, RowFails, Answered
<1>9. ASSUME NEW p \in Runners, Timeout(p) PROVE Told'
  BY <1>t, <1>5, <1>9 DEF Timeout
<1>10. CASE UNCHANGED vars
  BY <1>t, <1>5, <1>10 DEF vars
<1> QED
  BY <1>t, <1>1, <1>3, <1>4, <1>6, <1>7, <1>8, <1>9, <1>10, <1>11
     DEF Next, Loop, Serve

StageOf(l) == IF l \in {"prepare", "collect", "check"} THEN "gathering"
              ELSE IF l \in {"apply", "persist"} THEN "writing" ELSE "over"

\* How the engine's fields look from outside: while a round is under way, and while none is.
View ==
  /\ \A p \in Runners : InRound(p) => Active = p /\ Stage = StageOf(pc[p])
  /\ (\A p \in Runners : ~InRound(p)) => Active = None /\ Stage = "none"
  /\ Active # None => Active \in Runners /\ InRound(Active)

LEMMA Viewed == IInv /\ Told => View
<1> SUFFICES ASSUME IInv, Told PROVE View
  OBVIOUS
<1>1. /\ None \notin Runners /\ cancelRun \in Runners \cup {None}
      /\ \A p \in Runners : InRound(p) => running /\ cancelRun = p
  BY LifecycleAssumption DEF IInv, TypeOK, OneRound
<1>2. ASSUME NEW p \in Runners, InRound(p) PROVE Active = p /\ Stage = StageOf(pc[p])
  BY <1>1, <1>2 DEF Active, Stage, StageOf
<1>3. ASSUME \A p \in Runners : ~InRound(p) PROVE Active = None /\ Stage = "none"
  BY <1>1, <1>3 DEF Active, Stage, Told
<1>4. Active # None => Active \in Runners /\ InRound(Active)
  BY <1>1 DEF Active, Told
<1> QED
  BY <1>2, <1>3, <1>4 DEF View

\* A step that moves no round, and starts and stops nothing.
LEMMA Aside ==
  ASSUME IInv, Told, View, View', UNCHANGED <<running, cancelRun, partial, stopping>>, Gate' = Gate,
         \A p \in Runners : InRound(p) => pc'[p] = pc[p]
  PROVE  UNCHANGED <<Active, Stage, Whole, Gate>>
<1>1. Active' = Active
  BY DEF Active
<1>2. Whole' = Whole
  BY DEF Whole
<1>3. Stage' = Stage
  <2>1. CASE Active = None
    BY <1>1, <2>1 DEF Stage
  <2>2. CASE Active # None
    BY <1>1, <2>2 DEF Stage, Active, View
  <2> QED
    BY <2>1, <2>2
<1> QED
  BY <1>1, <1>2, <1>3

\* The steps of a round: it gathers, commits itself, concludes and ends.
LEMMA RoundOrderly ==
  ASSUME IInv, View, View', NEW p \in Runners, Round(p)
  PROVE  [Orderly!RoundsNext]_(Orderly!roundsVars)
<1>t. /\ pc \in [Runners -> {"run"} \cup RoundPCs \cup LoopPCs \cup ApiPCs] /\ None \notin Runners
      /\ partial \in [Runners -> BOOLEAN]
      /\ \A q \in Runners : InRound(q) => q = p
      /\ \A q \in Runners : partial[q] => ctxDone[q] /\ pc[q] \in {"check", "leave"}
  <2>1. InRound(p)
    BY DEF Round, Prepare, Collect, Check, Apply, Persist, Leave, InRound, RoundPCs
  <2> QED
    BY <2>1, LifecycleAssumption DEF IInv, TypeOK, Located, OneRound, CutShort
<1>v. ASSUME NEW l \in RoundPCs, pc' = [pc EXCEPT ![p] = l], pc[p] \in RoundPCs
      PROVE  /\ Active = p /\ Active' = p
             /\ Stage = StageOf(pc[p]) /\ Stage' = StageOf(l)
  <2>1. InRound(p) /\ pc'[p] = l /\ InRound(p)'
    BY <1>t, <1>v DEF InRound
  <2> QED
    BY <2>1 DEF View
<1>1. CASE Prepare(p)
  <2>1. PICK l \in {"leave", "collect"} : pc' = [pc EXCEPT ![p] = l]
    BY <1>1 DEF Prepare, Goto
  <2>2. pc[p] = "prepare" /\ UNCHANGED <<partial, stopping, mainPC>>
    BY <1>1 DEF Prepare, engine, rounds
  <2>3. Active = p /\ Active' = p /\ Stage = "gathering" /\ Stage' = StageOf(l)
    BY <1>v, <2>1, <2>2 DEF RoundPCs, StageOf
  <2>4. Whole' = Whole /\ Gate' = Gate
    BY <2>2 DEF Whole, Gate
  <2>5. Stage' = Stage \/ Stage' = "over"
    BY <2>1, <2>3 DEF StageOf
  <2> QED
    BY <2>3, <2>4, <2>5 DEF Orderly!RoundsNext, Orderly!Conclude, Orderly!roundsVars
<1>2. CASE Collect(p)
  <2>1. pc[p] = "collect" /\ pc' = [pc EXCEPT ![p] = "check"] /\ UNCHANGED <<stopping, mainPC>>
    BY <1>2 DEF Collect, Goto, engine
  <2>2. Active = p /\ Active' = p /\ Stage = "gathering" /\ Stage' = "gathering"
    BY <1>v, <2>1 DEF RoundPCs, StageOf
  <2>3. Gate' = Gate
    BY <2>1 DEF Gate
  <2>4. CASE UNCHANGED partial
    BY <2>2, <2>3, <2>4 DEF Whole, Orderly!roundsVars
  <2>5. CASE partial' = [partial EXCEPT ![p] = TRUE]
    <3>1. Whole' = FALSE
      BY <1>t, <2>5 DEF Whole
    <3> QED
      BY <2>2, <2>3, <3>1 DEF Orderly!RoundsNext, Orderly!Spoil
  <2> QED
    BY <1>2, <2>4, <2>5 DEF Collect
<1>3. CASE Check(p)
  <2>1. PICK l \in {"leave", "apply"} : pc' = [pc EXCEPT ![p] = l] /\ (l = "apply" => ~ctxDone[p])
    BY <1>3 DEF Check, Goto
  <2>2. pc[p] = "check" /\ UNCHANGED <<partial, stopping, mainPC>>
    BY <1>3 DEF Check, engine, rounds
  <2>3. Active = p /\ Active' = p /\ Stage = "gathering" /\ Stage' = StageOf(l)
    BY <1>v, <2>1, <2>2 DEF RoundPCs, StageOf
  <2>4. Whole' = Whole /\ Gate' = Gate
    BY <2>2 DEF Whole, Gate
  <2>5. CASE l = "leave"
    <3>1. Stage' = "over"
      BY <2>3, <2>5 DEF StageOf
    <3> QED
      BY <2>3, <2>4, <3>1 DEF Orderly!RoundsNext, Orderly!Conclude
  <2>6. CASE l = "apply"
    <3>1. Stage' = "writing"
      BY <2>3, <2>6 DEF StageOf
    <3>2. Whole
      BY <1>t, <2>1, <2>6 DEF Whole, InRound, RoundPCs
    <3> QED
      BY <2>3, <2>4, <3>1, <3>2 DEF Orderly!RoundsNext, Orderly!Commit
  <2> QED
    BY <2>1, <2>5, <2>6
<1>4. CASE Apply(p)
  <2>1. /\ pc[p] = "apply" /\ pc' = [pc EXCEPT ![p] = "persist"]
        /\ UNCHANGED <<partial, stopping, mainPC>>
    BY <1>4 DEF Apply, Goto, engine, rounds
  <2>2. Active' = Active /\ Stage' = Stage
    BY <1>v, <2>1 DEF RoundPCs, StageOf
  <2> QED
    BY <2>1, <2>2 DEF Whole, Gate, Orderly!roundsVars
<1>5. CASE Persist(p)
  <2>1. /\ pc[p] = "persist" /\ pc' = [pc EXCEPT ![p] = "leave"]
        /\ UNCHANGED <<partial, stopping, mainPC>>
    BY <1>5 DEF Persist, Goto, engine, rounds
  <2>2. Active' = Active /\ Stage = "writing" /\ Stage' = "over"
    BY <1>v, <2>1 DEF RoundPCs, StageOf
  <2>3. Whole' = Whole /\ Gate' = Gate
    BY <2>1 DEF Whole, Gate
  <2> QED
    BY <2>2, <2>3 DEF Orderly!RoundsNext, Orderly!Conclude
<1>6. CASE Leave(p)
  <2>1. /\ pc[p] = "leave" /\ pc' = [pc EXCEPT ![p] = Return(p)]
        /\ partial' = [partial EXCEPT ![p] = FALSE] /\ UNCHANGED <<stopping, mainPC>>
    BY <1>6 DEF Leave, Goto
  <2>2. InRound(p) /\ Stage = "over"
    BY <2>1 DEF View, InRound, RoundPCs, StageOf
  <2>3. \A q \in Runners : ~InRound(q)'
    BY <1>t, <2>1 DEF InRound, RoundPCs, Return
  <2>4. Active' = None /\ Stage' = "none"
    BY <2>3 DEF View
  <2>5. Whole' /\ Gate' = Gate
    BY <1>t, <2>1 DEF Whole, Gate, InRound, RoundPCs
  <2>6. Whole' = TRUE
    BY <2>5 DEF Whole
  <2> QED
    BY <2>2, <2>4, <2>5, <2>6 DEF Orderly!RoundsNext, Orderly!End
<1> QED
  BY <1>1, <1>2, <1>3, <1>4, <1>5, <1>6 DEF Round

LEMMA EnterOrderly ==
  ASSUME IInv, View, View', NEW p \in Runners, pc[p] = "run", Enter(p), UNCHANGED mainPC
  PROVE  [Orderly!RoundsNext]_(Orderly!roundsVars)
<1>t. /\ pc \in [Runners -> {"run"} \cup RoundPCs \cup LoopPCs \cup ApiPCs] /\ None \notin Runners
      /\ partial \in [Runners -> BOOLEAN]
      /\ \A q \in Runners : InRound(q) => running /\ cancelRun = q
      /\ \A q \in Runners : partial[q] => pc[q] \in {"check", "leave"}
      /\ mainPC \notin {"boot", "serving"} => stopping
  BY LifecycleAssumption DEF IInv, TypeOK, Located, OneRound, CutShort, Stopping
<1>1. CASE stopping \/ running
  <2>1. pc' = [pc EXCEPT ![p] = Return(p)] /\ UNCHANGED <<engine, rounds>>
    BY <1>1 DEF Enter, Goto
  <2>2. \A q \in Runners : InRound(q) => pc'[q] = pc[q]
    BY <1>t, <2>1 DEF InRound, RoundPCs
  <2>3. Active' = Active /\ Whole' = Whole /\ Gate' = Gate
    BY <2>1 DEF engine, rounds, Active, Whole, Gate
  <2>4. Stage' = Stage
    <3>1. CASE Active = None
      BY <2>3, <3>1 DEF Stage
    <3>2. CASE Active # None
      BY <2>1, <2>2, <2>3, <3>2 DEF engine, Stage, Active, View
    <3> QED
      BY <3>1, <3>2
  <2> QED
    BY <2>3, <2>4 DEF Orderly!roundsVars
<1>2. CASE ~stopping /\ ~running
  <2>1. /\ pc' = [pc EXCEPT ![p] = "prepare"] /\ partial' = [partial EXCEPT ![p] = FALSE]
        /\ stopping' = stopping
    BY <1>2 DEF Enter, Goto
  <2>2. Active = None
    BY <1>2 DEF Active
  <2>3. Active' = p /\ Stage' = "gathering"
    <3>1. InRound(p)' /\ pc'[p] = "prepare"
      BY <1>t, <2>1 DEF InRound, RoundPCs
    <3> QED
      BY <3>1 DEF View, StageOf
  <2>4. Gate = "open" /\ Gate' = Gate
    BY <1>2, <1>t, <2>1 DEF Gate
  <2>5. \A q \in Runners : ~partial'[q]
    BY <1>t, <1>2, <2>1 DEF InRound, RoundPCs
  <2>6. Whole' = TRUE
    BY <2>5 DEF Whole
  <2> QED
    BY <2>2, <2>3, <2>4, <2>6 DEF Orderly!RoundsNext, Orderly!Begin
<1> QED
  BY <1>1, <1>2

LEMMA NextOrderly ==
  ASSUME IInv, Told, View, View', [Next]_vars
  PROVE  [Orderly!RoundsNext]_(Orderly!roundsVars)
<1>t. /\ pc \in [Runners -> {"run"} \cup RoundPCs \cup LoopPCs \cup ApiPCs] /\ None \notin Runners
      /\ "loop" \in Runners /\ Threads \subseteq Runners
  BY LifecycleAssumption DEF IInv, TypeOK, Located, Runners
<1>1. ASSUME NEW p \in Runners, Round(p) PROVE [Orderly!RoundsNext]_(Orderly!roundsVars)
  BY <1>1, RoundOrderly
<1>2. CASE TickRuns
  BY <1>t, <1>2, EnterOrderly DEF TickRuns
<1>3. ASSUME NEW t \in Threads, RequestRuns(t) PROVE [Orderly!RoundsNext]_(Orderly!roundsVars)
  BY <1>t, <1>3, EnterOrderly DEF RequestRuns
<1>4. ASSUME UNCHANGED <<running, cancelRun, partial, stopping>>, Gate' = Gate,
             \A p \in Runners : InRound(p) => pc'[p] = pc[p]
      PROVE  [Orderly!RoundsNext]_(Orderly!roundsVars)
  BY <1>4, Aside DEF Orderly!roundsVars
<1> USE DEF InRound, RoundPCs, Goto
<1>5. CASE Beat \/ Tick \/ TickUnread \/ Catalog
  BY <1>t, <1>4, <1>5 DEF Beat, Tick, TickUnread, Catalog, Gate, engine, rounds
<1>6. CASE Start
  <2>1. pc["loop"] = "off" /\ Gate' = Gate
    BY <1>6 DEF Start, Main, IInv, Stopping, Gate, engine
  <2> QED
    BY <1>t, <1>4, <1>6, <2>1 DEF Start, engine, rounds
<1>7. CASE StopMark
  <2>1. Gate \in {"open", "closing"} /\ Gate' = "closing"
    BY <1>7 DEF StopMark, Main, Gate
  <2>2. UNCHANGED <<Active, Stage, Whole>>
    BY <1>7 DEF StopMark, Active, Stage, Whole, rounds
  <2> QED
    BY <2>1, <2>2 DEF Orderly!RoundsNext, Orderly!Close, Orderly!roundsVars
<1>8. CASE StopClose \/ StopFire \/ StopReread \/ StopJoin
  <2>1. Gate' = Gate
    BY <1>8 DEF StopClose, StopFire, StopReread, StopJoin, Main, Gate, engine
  <2> QED
    BY <1>4, <1>8, <2>1 DEF StopClose, StopFire, StopReread, StopJoin, engine, rounds
<1>9. CASE StopReturn
  <2>1. Gate = "closing" /\ Gate' = "closed"
    BY <1>9 DEF StopReturn, Main, Gate, IInv, Stopping
  <2>2. \A p \in Runners : ~InRound(p)
    BY <1>t, <1>9 DEF StopReturn, Main, IInv, Stopping
  <2>3. Active = None
    BY <2>2 DEF View
  <2>4. UNCHANGED <<Active, Stage, Whole>>
    BY <1>9 DEF StopReturn, Active, Stage, Whole, engine, rounds
  <2> QED
    BY <2>1, <2>3, <2>4 DEF Orderly!RoundsNext, Orderly!Shut
<1>10. ASSUME NEW t \in Threads,
              \/ RequestRun(t) \/ RequestCancel(t) \/ CancelFire(t) \/ ReadRow(t)
              \/ (\E s \in Payloads : SaveConnection(t, s)) \/ SetAutoEnabled(t) \/ RowFails(t)
              \/ \E s \in Switches : RequestSettings(t, s)
       PROVE  [Orderly!RoundsNext]_(Orderly!roundsVars)
  <2>1. /\ UNCHANGED <<running, cancelRun, partial, stopping, mainPC>>
        /\ pc[t] \in {"idle", "fire", "read", "save"}
        /\ \E l : pc' = [pc EXCEPT ![t] = l]
    BY <1>10 DEF RequestRun, RequestCancel, RequestSettings, Arrives, CancelFire, ReadRow,
                 SaveConnection, SetAutoEnabled, RowFails, Answered, engine, rounds
  <2>2. Gate' = Gate
    BY <2>1 DEF Gate
  <2> QED
    BY <1>t, <1>4, <2>1, <2>2
<1>11. ASSUME NEW p \in Runners, Timeout(p) PROVE [Orderly!RoundsNext]_(Orderly!roundsVars)
  BY <1>4, <1>11 DEF Timeout, Gate, engine
<1>12. CASE UNCHANGED vars
  BY <1>4, <1>12 DEF vars, Gate, engine, rounds
<1> QED
  BY <1>t, <1>1, <1>2, <1>3, <1>5, <1>6, <1>7, <1>8, <1>9, <1>10, <1>11, <1>12
     DEF Next, Loop, Serve, Stop

\* Whatever the heartbeat, the requests, a cancel and Stop do to the fields under engine.mu, what
\* comes of it are orderly rounds: one at a time, none after Stop has begun, nothing written
\* that was not gathered whole, and Stop returns when none is left.
THEOREM RoundsAreOrderly == Spec => OrderlyRounds
<1>1. Init => Orderly!RoundsInit
  BY DEF Init, Orderly!RoundsInit, Active, Stage, Whole, Gate
<1>2. Spec => []IInv
  BY Invariance
<1>3. IInv /\ Told => View
  BY Viewed
<1>4. IInv /\ Told /\ View /\ View' /\ [Next]_vars => [Orderly!RoundsNext]_(Orderly!roundsVars)
  BY NextOrderly
<1> QED
  BY <1>1, <1>2, <1>3, <1>4, InitTold, NextTold, PTL DEF Spec, OrderlyRounds, Orderly!RoundsSpec

\* What Rounds promises, whoever keeps it: a round that writes has gathered everything, and
\* once Stop has returned the engine speaks of no round (Stop, runOnce).
THEOREM RoundsPromise ==
  OrderlyRounds => []((Stage = "writing" => Whole) /\ (Gate = "closed" => Active = None))
<1> DEFINE Inv == /\ Stage = "writing" => Whole
                  /\ Gate = "closed" => Active = None
<1>1. Orderly!RoundsInit => Inv
  BY DEF Orderly!RoundsInit
<1>2. Inv /\ [Orderly!RoundsNext]_(Orderly!roundsVars) => Inv'
  <2> SUFFICES ASSUME Inv, [Orderly!RoundsNext]_(Orderly!roundsVars) PROVE Inv'
    OBVIOUS
  <2>1. CASE Orderly!Begin
    BY <2>1 DEF Orderly!Begin
  <2>2. CASE Orderly!Spoil
    BY <2>2 DEF Orderly!Spoil
  <2>3. CASE Orderly!Commit
    BY <2>3 DEF Orderly!Commit
  <2>4. CASE Orderly!Conclude
    BY <2>4 DEF Orderly!Conclude
  <2>5. CASE Orderly!End
    BY <2>5 DEF Orderly!End
  <2>6. CASE Orderly!Close
    BY <2>6 DEF Orderly!Close
  <2>7. CASE Orderly!Shut
    BY <2>7 DEF Orderly!Shut
  <2>8. CASE UNCHANGED Orderly!roundsVars
    BY <2>8 DEF Orderly!roundsVars
  <2> QED
    BY <2>1, <2>2, <2>3, <2>4, <2>5, <2>6, <2>7, <2>8 DEF Orderly!RoundsNext
<1> QED
  BY <1>1, <1>2, PTL DEF OrderlyRounds, Orderly!RoundsSpec

----------------------------------------------------------------------------
\* One channel as the rounds see it. What Sampling assumes of its constants is a hypothesis of
\* what follows.

CONSTANTS Answers, Policy, Settings, MaxUpsets
VARIABLES cond, served, on, samples, st, mem, stage, row, want, ran, upsets

Ch == INSTANCE Sampling WITH pc <- stage, Switches <- Settings

Kept  == [src : {"traffic", "probe"}, age : 0..Ch!OldSample, answer : Answers \cup {Ch!Interrupted}]
State == [health : {"pool", "fused"}, cool : 0..Policy.cooldown, probe : Ch!Never..Ch!OldProbe,
          traffic : Ch!Never..Ch!OldTraffic, sample : Ch!Never..Ch!OldSample]

\* The latest first.
Sorted(ss) == \A i, j \in DOMAIN ss : i <= j => ss[i].age <= ss[j].age

\* No request twice, as long as a pull may still see it.
Single(ss) == \A i, j \in DOMAIN ss : /\ ss[i].src = "traffic" /\ ss[j].src = "traffic"
                                      /\ i # j /\ ss[i].age <= Policy.lookback
                                      => ss[i].age # ss[j].age

Table(ss) == ss \in Seq(Kept) /\ Sorted(ss) /\ Single(ss)

Types ==
  /\ cond \in Answers /\ on \in Settings /\ upsets \in 0..MaxUpsets
  /\ served \in [0..Policy.lookback -> {{}} \cup {{a} : a \in Answers}]
  /\ st \in State /\ mem \in State
  /\ stage \in {"idle", "pull", "rows", "probe", "judge"} /\ row \in 0..Policy.lookback
  /\ want \in BOOLEAN /\ ran \in BOOLEAN

\* A round decides on a copy: what it works on is what is stored, but for the time of the probe
\* and of the pull.
Copied == mem.health = st.health /\ mem.cool = st.cool /\ (stage = "idle" => mem = st)

ChanInv == Types /\ Table(samples) /\ Copied

\* An instance has the operators it uses for itself.
LEMMA Counts == \A T : Ch!Cardinality(T) = Cardinality(T)
BY DEF Ch!Cardinality, Cardinality, Ch!IsFiniteSet, IsFiniteSet

----------------------------------------------------------------------------
\* Least and greatest numbers.

LEMMA MinIn ==
  ASSUME NEW S \in SUBSET Nat, S # {}
  PROVE  Ch!Min(S) \in S /\ \A x \in S : Ch!Min(S) <= x
<1>1. PICK m \in S : \A x \in S : ~(<<x, m>> \in OpToRel(<, Nat))
  BY NatLessThanWellFounded, WFMin
<1>2. ASSUME NEW x \in S PROVE m <= x
  <2>1. <<x, m>> \notin {ss \in Nat \X Nat : ss[1] < ss[2]}
    BY <1>1, Zenon DEF OpToRel
  <2>2. x \in Nat /\ m \in Nat
    OBVIOUS
  <2> QED
    BY <2>1, <2>2
<1> QED
  BY <1>2 DEF Ch!Min

\* The greatest of numbers up to b is the one that is least far from b.
LEMMA MaxIn ==
  ASSUME NEW S \in SUBSET Nat, S # {}, NEW b \in Nat, \A x \in S : x <= b
  PROVE  Ch!Max(S) \in S /\ \A x \in S : x <= Ch!Max(S)
<1> DEFINE D == {b - x : x \in S}
<1>1. D \in SUBSET Nat /\ D # {}
  <2>1. ASSUME NEW x \in S PROVE b - x \in Nat
    <3>1. x \in Nat /\ x <= b
      OBVIOUS
    <3> QED
      BY <3>1
  <2> QED
    BY <2>1
<1>2. Ch!Min(D) \in D /\ \A d \in D : Ch!Min(D) <= d
  BY <1>1, MinIn
<1>3. PICK m \in S : Ch!Min(D) = b - m
  BY <1>2
<1>4. ASSUME NEW x \in S PROVE x <= m
  <2>1. b - m <= b - x
    BY <1>2, <1>3
  <2>2. x \in Nat /\ m \in Nat /\ b \in Nat
    OBVIOUS
  <2> QED
    BY <2>1, <2>2
<1> QED
  BY <1>4 DEF Ch!Max

LEMMA MinOfTwo ==
  ASSUME NEW a \in Nat, NEW b \in Nat
  PROVE  /\ Ch!Min({a, b}) \in Nat /\ Ch!Min({a, b}) <= a /\ Ch!Min({a, b}) <= b
         /\ Ch!Min({a, b}) = a \/ Ch!Min({a, b}) = b
<1>1. {a, b} \in SUBSET Nat /\ {a, b} # {}
  OBVIOUS
<1> QED
  BY <1>1, MinIn

LEMMA PolicyFacts ==
  ASSUME Ch!SamplingAssumption
  PROVE  /\ Policy.shortWindow \in Nat \ {0} /\ Policy.longWindow \in Nat \ {0}
  /\ Policy.httpWindow \in Nat \ {0} /\ Policy.slowWindow \in Nat \ {0}
  /\ Policy.httpFailures \in Nat \ {0} /\ Policy.slowTimes \in Nat \ {0}
  /\ Policy.successes \in Nat \ {0} /\ Policy.keep \in Nat \ {0}
  /\ Policy.hold \in Nat /\ Policy.cooldown \in Nat /\ Policy.recoverEvery \in Nat
  /\ Policy.probeEvery \in Nat /\ Policy.fresh \in Nat /\ Policy.refresh \in Nat
  /\ Policy.lookback \in Nat /\ MaxUpsets \in Nat
<1> QED
  BY Ch!SamplingAssumption DEF Ch!PolicyType

LEMMA AgeLimits ==
  ASSUME Ch!SamplingAssumption
  PROVE    /\ Ch!OldSample \in Nat /\ Policy.lookback < Ch!OldSample
  /\ Ch!OldProbe \in Nat /\ Ch!OldTraffic \in Nat
<1>1. /\ Policy.hold \in Nat /\ Policy.fresh \in Nat /\ Policy.lookback \in Nat
      /\ Policy.recoverEvery \in Nat /\ Policy.probeEvery \in Nat /\ Policy.refresh \in Nat
  BY PolicyFacts
<1> DEFINE S == {Policy.hold, Policy.fresh, Policy.lookback + 1}
           P == {Policy.recoverEvery, Policy.probeEvery}
<1>2. S \in SUBSET Nat /\ S # {} /\ P \in SUBSET Nat /\ P # {}
  BY <1>1
<1>3. \A x \in S : x <= Policy.hold + Policy.fresh + Policy.lookback + 1
  BY <1>1
<1>4. \A x \in P : x <= Policy.recoverEvery + Policy.probeEvery
  BY <1>1
<1>5. Ch!Max(S) \in S /\ \A x \in S : x <= Ch!Max(S)
  <2>1. Policy.hold + Policy.fresh + Policy.lookback + 1 \in Nat
    BY <1>1
  <2> HIDE DEF S
  <2> QED
    BY <1>2, <1>3, <2>1, MaxIn
<1>6. Ch!Max(P) \in P
  <2>1. Policy.recoverEvery + Policy.probeEvery \in Nat
    BY <1>1
  <2> HIDE DEF P
  <2> QED
    BY <1>2, <1>4, <2>1, MaxIn
<1>7. Ch!OldSample = Ch!Max(S) /\ Ch!OldProbe = Ch!Max(P) /\ Ch!OldTraffic = Policy.refresh
  BY DEF Ch!OldSample, Ch!OldProbe, Ch!OldTraffic
<1>8. Policy.lookback + 1 <= Ch!Max(S)
  BY <1>5
<1>9. Ch!OldSample \in Nat /\ Ch!OldProbe \in Nat
  BY <1>2, <1>5, <1>6, <1>7
<1> QED
  BY <1>1, <1>7, <1>8, <1>9

\* An age grows up to its limit.
LEMMA OlderFacts ==
  ASSUME Ch!SamplingAssumption,
         NEW old \in Nat, NEW age \in Ch!Never..old
  PROVE  /\ Ch!Older(age, old) \in Ch!Never..old
         /\ age # Ch!Never => /\ Ch!Older(age, old) \in 0..old
                              /\ age < old => Ch!Older(age, old) = age + 1
                              /\ age = old => Ch!Older(age, old) = old
<1>1. CASE age = Ch!Never
  BY <1>1 DEF Ch!Older, Ch!Never
<1>2. CASE age # Ch!Never
  <2>1. age \in Nat /\ age + 1 \in Nat /\ age <= old
    BY <1>2 DEF Ch!Never
  <2>2. Ch!Older(age, old) = Ch!Min({old, age + 1})
    BY <1>2 DEF Ch!Older
  <2>3. /\ Ch!Min({old, age + 1}) \in Nat /\ Ch!Min({old, age + 1}) <= old
        /\ Ch!Min({old, age + 1}) <= age + 1
        /\ Ch!Min({old, age + 1}) = old \/ Ch!Min({old, age + 1}) = age + 1
    BY <2>1, MinOfTwo
  <2> QED
    BY <2>1, <2>2, <2>3 DEF Ch!Never
<1> QED
  BY <1>1, <1>2

----------------------------------------------------------------------------
\* The table of samples.

\* A set of positions that holds all the positions before each of its own is a prefix.
LEMMA Prefix ==
  ASSUME NEW L \in Nat, NEW K \in SUBSET (1..L), \A i \in K : \A j \in 1..i : j \in K
  PROVE  Ch!Cardinality(K) \in 0..L /\ K = 1..Ch!Cardinality(K)
<1>1. CASE K = {}
  BY <1>1, Counts, FS_EmptySet
<1>2. CASE K # {}
  <2>1. K \in SUBSET Nat /\ \A x \in K : x <= L
    OBVIOUS
  <2>2. Ch!Max(K) \in K /\ \A x \in K : x <= Ch!Max(K)
    BY <1>2, <2>1, MaxIn
  <2>3. PICK m \in K : m = Ch!Max(K)
    BY <2>2
  <2>4. K = 1..m
    <3>1. ASSUME NEW x \in K PROVE x \in 1..m
      <4>1. x \in Nat /\ 1 <= x /\ x <= m
        BY <2>2, <2>3
      <4> QED
        BY <2>3, <4>1
    <3>2. ASSUME NEW x \in 1..m PROVE x \in K
      BY <2>3
    <3> QED
      BY <3>1, <3>2
  <2>5. Ch!Cardinality(1..m) = m
    BY <2>3, Counts, FS_Interval
  <2> QED
    BY <2>3, <2>4, <2>5
<1> QED
  BY <1>1, <1>2

LEMMA Front ==
  ASSUME NEW S, NEW ss \in Seq(S), NEW m \in 0..Len(ss)
  PROVE  /\ SubSeq(ss, 1, m) \in Seq(S) /\ Len(SubSeq(ss, 1, m)) = m
         /\ DOMAIN SubSeq(ss, 1, m) = 1..m
         /\ \A i \in 1..m : i \in DOMAIN ss /\ SubSeq(ss, 1, m)[i] = ss[i]
<1>1. Len(ss) \in Nat /\ DOMAIN ss = 1..Len(ss)
  BY LenProperties
<1>2. m \in Nat /\ m <= Len(ss)
  BY <1>1
<1>3. \A i \in 1..m : i \in DOMAIN ss /\ ss[i] \in S
  <2> SUFFICES ASSUME NEW i \in 1..m PROVE i \in DOMAIN ss /\ ss[i] \in S
    OBVIOUS
  <2>1. i \in 1..Len(ss)
    BY <1>1, <1>2
  <2> QED
    BY <1>1, <2>1, ElementOfSeq
<1>4. 1 \in Int /\ m \in Int
  BY <1>2
<1>5. /\ SubSeq(ss, 1, m) \in Seq(S)
      /\ Len(SubSeq(ss, 1, m)) = IF 1 <= m THEN m - 1 + 1 ELSE 0
      /\ \A i \in 1..(m - 1 + 1) : SubSeq(ss, 1, m)[i] = ss[1 + i - 1]
  BY <1>3, <1>4, SubSeqProperties
<1>6. Len(SubSeq(ss, 1, m)) = m
  BY <1>2, <1>5
<1>7. m - 1 + 1 = m /\ \A i \in 1..m : 1 + i - 1 = i
  BY <1>2
<1>8. DOMAIN SubSeq(ss, 1, m) = 1..m
  BY <1>5, <1>6, LenProperties
<1> QED
  BY <1>3, <1>5, <1>6, <1>7, <1>8

LEMMA Back ==
  ASSUME NEW S, NEW ss \in Seq(S), NEW m \in 0..Len(ss)
  PROVE  /\ SubSeq(ss, m + 1, Len(ss)) \in Seq(S)
         /\ Len(SubSeq(ss, m + 1, Len(ss))) = Len(ss) - m
         /\ \A i \in 1..(Len(ss) - m) : SubSeq(ss, m + 1, Len(ss))[i] = ss[m + i]
<1>1. Len(ss) \in Nat /\ m \in Nat /\ m <= Len(ss)
  BY LenProperties
<1>2. \A i \in m + 1 .. Len(ss) : ss[i] \in S
  <2> SUFFICES ASSUME NEW i \in m + 1 .. Len(ss) PROVE ss[i] \in S
    OBVIOUS
  <2>1. i \in 1..Len(ss)
    BY <1>1
  <2> QED
    BY <2>1, ElementOfSeq
<1>3. m + 1 \in Int /\ Len(ss) \in Int
  BY <1>1
<1>4. /\ SubSeq(ss, m + 1, Len(ss)) \in Seq(S)
      /\ Len(SubSeq(ss, m + 1, Len(ss))) = IF m + 1 <= Len(ss) THEN Len(ss) - (m + 1) + 1 ELSE 0
      /\ \A i \in 1 .. Len(ss) - (m + 1) + 1 : SubSeq(ss, m + 1, Len(ss))[i] = ss[m + 1 + i - 1]
  BY <1>2, <1>3, SubSeqProperties
<1>5. Len(SubSeq(ss, m + 1, Len(ss))) = Len(ss) - m
  BY <1>1, <1>4
<1>6. Len(ss) - (m + 1) + 1 = Len(ss) - m /\ \A i \in 1..(Len(ss) - m) : m + 1 + i - 1 = m + i
  BY <1>1
<1> QED
  BY <1>4, <1>5, <1>6

LEMMA Both ==
  ASSUME NEW S, NEW a \in Seq(S), NEW b \in Seq(S)
  PROVE  /\ a \o b \in Seq(S) /\ Len(a \o b) = Len(a) + Len(b)
         /\ \A i \in 1..Len(a) : (a \o b)[i] = a[i]
         /\ \A i \in 1..Len(b) : (a \o b)[Len(a) + i] = b[i]
<1>1. Len(a) \in Nat /\ Len(b) \in Nat
  BY LenProperties
<1>2. /\ a \o b \in Seq(S) /\ Len(a \o b) = Len(a) + Len(b)
      /\ \A i \in 1..(Len(a) + Len(b)) :
           (a \o b)[i] = IF i <= Len(a) THEN a[i] ELSE b[i - Len(a)]
  BY ConcatProperties
<1>3. ASSUME NEW i \in 1..Len(a) PROVE (a \o b)[i] = a[i]
  <2>1. i \in 1..(Len(a) + Len(b)) /\ i <= Len(a)
    BY <1>1
  <2> QED
    BY <1>2, <2>1
<1>4. ASSUME NEW i \in 1..Len(b) PROVE (a \o b)[Len(a) + i] = b[i]
  <2>1. PICK n \in 1..(Len(a) + Len(b)) : n = Len(a) + i
    BY <1>1
  <2>2. ~(n <= Len(a)) /\ n - Len(a) = i
    BY <1>1, <2>1
  <2>3. (a \o b)[n] = b[n - Len(a)]
    BY <1>2, <2>2
  <2> QED
    BY <2>1, <2>2, <2>3
<1> QED
  BY <1>2, <1>3, <1>4

LEMMA LatestFacts ==
  ASSUME NEW S, NEW ss \in Seq(S), NEW n \in Nat
  PROVE  \E m \in 0..Len(ss) : /\ m <= n /\ (m = n \/ m = Len(ss))
                               /\ Ch!Latest(ss, n) = SubSeq(ss, 1, m)
<1>1. Len(ss) \in Nat
  BY LenProperties
<1>2. PICK m \in Nat : m = Ch!Min({n, Len(ss)})
  BY <1>1, MinOfTwo
<1>3. m <= n /\ m <= Len(ss) /\ (m = n \/ m = Len(ss))
  BY <1>1, <1>2, MinOfTwo
<1>4. m \in 0..Len(ss)
  BY <1>1, <1>3
<1> QED
  BY <1>2, <1>3, <1>4 DEF Ch!Latest

LEMMA KeptFacts ==
  ASSUME Ch!SamplingAssumption,
         NEW ss \in Seq(Kept)
  PROVE  /\ Len(ss) \in Nat /\ DOMAIN ss = 1..Len(ss)
         /\ \A i \in DOMAIN ss : ss[i] \in Kept /\ ss[i].age \in 0..Ch!OldSample /\ ss[i].age \in Nat
<1>1. Len(ss) \in Nat /\ DOMAIN ss = 1..Len(ss)
  BY LenProperties
<1>2. ASSUME NEW i \in 1..Len(ss) PROVE ss[i] \in Kept /\ ss[i].age \in 0..Ch!OldSample
  <2>1. ss[i] \in Kept
    BY ElementOfSeq
  <2> QED
    BY <2>1 DEF Kept
<1>3. 0..Ch!OldSample \subseteq Nat
  BY AgeLimits
<1> QED
  BY <1>1, <1>2, <1>3

\* Where a row goes: after those that are younger, before the others.
LEMMA InsertFacts ==
  ASSUME Ch!SamplingAssumption,
         NEW ss \in Seq(Kept), Sorted(ss), NEW s \in Kept
  PROVE  \E k \in 0..Len(ss) :
           LET in == Ch!Insert(ss, s) IN
           /\ in \in Seq(Kept) /\ Len(in) = Len(ss) + 1 /\ DOMAIN in = 1..(Len(ss) + 1)
           /\ \A i \in 1..k : in[i] = ss[i] /\ ss[i].age < s.age
           /\ in[k + 1] = s
           /\ \A i \in (k + 1)..Len(ss) : in[i + 1] = ss[i] /\ s.age <= ss[i].age
<1>1. /\ Len(ss) \in Nat /\ DOMAIN ss = 1..Len(ss)
      /\ \A i \in DOMAIN ss : ss[i].age \in Nat
  BY KeptFacts
<1>2. s.age \in Nat
  BY AgeLimits DEF Kept
<1> DEFINE K == {i \in DOMAIN ss : ss[i].age < s.age}
           k == Ch!Cardinality(K)
<1>3. K \in SUBSET (1..Len(ss)) /\ \A i \in K : \A j \in 1..i : j \in K
  <2>1. ASSUME NEW i \in K, NEW j \in 1..i PROVE j \in K
    <3>1. i \in 1..Len(ss) /\ ss[i].age < s.age
      BY <1>1
    <3>2. j \in DOMAIN ss /\ j <= i
      BY <1>1, <3>1
    <3>3. ss[j].age <= ss[i].age
      BY <1>1, <3>1, <3>2 DEF Sorted
    <3> QED
      BY <1>1, <1>2, <3>1, <3>2, <3>3
  <2> QED
    BY <1>1, <2>1
<1>4. k \in 0..Len(ss) /\ K = 1..k
  <2> HIDE DEF K
  <2> QED
    BY <1>1, <1>3, Prefix
<1>5. \A i \in DOMAIN ss : i \in 1..k <=> ss[i].age < s.age
  BY <1>4
<1> DEFINE front == SubSeq(ss, 1, k)
           back  == SubSeq(ss, k + 1, Len(ss))
           last  == <<s>>
           both  == front \o last
<1>6. Ch!Insert(ss, s) = both \o back
  BY DEF Ch!Insert
<1> HIDE DEF K, k
<1>7. /\ front \in Seq(Kept) /\ Len(front) = k /\ \A i \in 1..k : front[i] = ss[i]
      /\ back \in Seq(Kept) /\ Len(back) = Len(ss) - k
      /\ \A i \in 1..(Len(ss) - k) : back[i] = ss[k + i]
  BY <1>4, Front, Back
<1> HIDE DEF front, back
<1>8. last \in Seq(Kept) /\ Len(last) = 1 /\ last[1] = s
  OBVIOUS
<1> HIDE DEF last
<1>9. k \in Nat /\ k <= Len(ss) /\ Len(ss) - k \in Nat
  BY <1>1, <1>4
<1>10. /\ both \in Seq(Kept) /\ Len(both) = k + 1
       /\ \A i \in 1..k : both[i] = ss[i]
       /\ both[k + 1] = s
  <2>1. /\ both \in Seq(Kept) /\ Len(both) = Len(front) + Len(last)
        /\ \A i \in 1..Len(front) : both[i] = front[i]
        /\ \A i \in 1..Len(last) : both[Len(front) + i] = last[i]
    <3>1. front \in Seq(Kept) /\ last \in Seq(Kept)
      BY <1>7, <1>8
    <3> QED
      BY <3>1, Both, SMT
  <2>2. 1 \in 1..Len(last)
    BY <1>8
  <2> HIDE DEF both
  <2> QED
    BY <1>7, <1>8, <2>1, <2>2
<1> HIDE DEF both
<1> DEFINE in == both \o back
<1>12. /\ in \in Seq(Kept) /\ Len(in) = Len(both) + Len(back)
       /\ \A i \in 1..Len(both) : in[i] = both[i]
       /\ \A i \in 1..Len(back) : in[Len(both) + i] = back[i]
  <2>1. both \in Seq(Kept) /\ back \in Seq(Kept)
    BY <1>7, <1>10
  <2> QED
    BY <2>1, Both, SMT
<1> HIDE DEF in
<1>13. Len(in) = Len(ss) + 1
  BY <1>1, <1>7, <1>9, <1>10, <1>12
<1>14. \A i \in 1..k : in[i] = ss[i] /\ ss[i].age < s.age
  <2> SUFFICES ASSUME NEW i \in 1..k PROVE in[i] = ss[i] /\ ss[i].age < s.age
    OBVIOUS
  <2>1. i \in 1..(k + 1) /\ i \in DOMAIN ss
    BY <1>1, <1>9
  <2> QED
    BY <1>5, <1>10, <1>12, <2>1
<1>15. in[k + 1] = s
  <2>1. k + 1 \in 1..(k + 1)
    BY <1>9
  <2> QED
    BY <1>10, <1>12, <2>1
<1>16. \A i \in (k + 1)..Len(ss) : in[i + 1] = ss[i] /\ s.age <= ss[i].age
  <2> SUFFICES ASSUME NEW i \in (k + 1)..Len(ss)
               PROVE  in[i + 1] = ss[i] /\ s.age <= ss[i].age
    OBVIOUS
  <2>1. PICK n \in 1..(Len(ss) - k) : n = i - k
    BY <1>9
  <2>2. k + 1 + n = i + 1 /\ k + n = i /\ i \in DOMAIN ss /\ i \notin 1..k
    BY <1>1, <1>9, <2>1
  <2>3. in[k + 1 + n] = back[n] /\ back[n] = ss[k + n]
    BY <1>7, <1>10, <1>12
  <2>4. s.age <= ss[i].age
    BY <1>1, <1>2, <1>5, <2>2
  <2> QED
    BY <2>2, <2>3, <2>4
<1>17. DOMAIN in = 1..(Len(ss) + 1)
  BY <1>12, <1>13, LenProperties
<1>18. Ch!Insert(ss, s) = in
  BY <1>6 DEF in
<1> QED
  BY <1>4, <1>12, <1>13, <1>14, <1>15, <1>16, <1>17, <1>18

\* The table keeps its order, and a request that is not in it comes in once.
LEMMA InsertTable ==
  ASSUME Ch!SamplingAssumption,
         NEW ss, Table(ss), NEW s \in Kept, s.src = "traffic" => ~Ch!Known(ss, s.age)
  PROVE  Table(Ch!Insert(ss, s))
<1>1. /\ ss \in Seq(Kept) /\ Sorted(ss) /\ Single(ss) /\ Len(ss) \in Nat
      /\ DOMAIN ss = 1..Len(ss) /\ \A i \in DOMAIN ss : ss[i].age \in Nat
  BY KeptFacts DEF Table
<1>2. s.age \in Nat
  BY AgeLimits DEF Kept
<1> DEFINE in == Ch!Insert(ss, s)
<1>3. PICK k \in 0..Len(ss) :
        /\ in \in Seq(Kept) /\ DOMAIN in = 1..(Len(ss) + 1)
        /\ \A i \in 1..k : in[i] = ss[i] /\ ss[i].age < s.age
        /\ in[k + 1] = s
        /\ \A i \in (k + 1)..Len(ss) : in[i + 1] = ss[i] /\ s.age <= ss[i].age
  BY <1>1, InsertFacts
<1> HIDE DEF in
<1> DEFINE old(i) == IF i <= k THEN i ELSE i - 1
<1>4. k \in Nat /\ k <= Len(ss)
  BY <1>1
<1>5. ASSUME NEW i \in DOMAIN in, i # k + 1
      PROVE  /\ old(i) \in DOMAIN ss /\ in[i] = ss[old(i)]
             /\ i < k + 1 => in[i].age <= s.age
             /\ k + 1 < i => s.age <= in[i].age
  <2>1. CASE i <= k
    <3>1. i \in 1..k /\ i \in 1..Len(ss) /\ old(i) = i /\ ~(k + 1 < i)
      BY <1>1, <1>3, <1>4, <2>1
    <3>2. in[i] = ss[i] /\ ss[i].age < s.age /\ ss[i].age \in Nat
      BY <1>1, <1>3, <3>1
    <3> QED
      BY <1>1, <1>2, <3>1, <3>2
  <2>2. CASE ~(i <= k)
    <3>1. i \in Nat /\ i <= Len(ss) + 1
      BY <1>1, <1>3
    <3>2. k + 2 <= i
      BY <1>4, <1>5, <2>2, <3>1
    <3>3. PICK n \in (k + 1)..Len(ss) : n = i - 1
      BY <1>1, <1>4, <3>1, <3>2
    <3>4. n + 1 = i /\ n \in 1..Len(ss) /\ old(i) = n /\ ~(i < k + 1)
      BY <1>1, <1>4, <2>2, <3>1, <3>2, <3>3
    <3>5. in[n + 1] = ss[n] /\ s.age <= ss[n].age
      BY <1>3
    <3> QED
      BY <1>1, <3>4, <3>5
  <2> QED
    BY <2>1, <2>2
<1>6. \A i, j \in DOMAIN in : i # k + 1 /\ j # k + 1 => /\ i <= j => old(i) <= old(j)
                                                        /\ i # j => old(i) # old(j)
  BY <1>1, <1>3, <1>4
<1> HIDE DEF old
<1>7. Sorted(in)
  <2> SUFFICES ASSUME NEW i \in DOMAIN in, NEW j \in DOMAIN in, i <= j
               PROVE  in[i].age <= in[j].age
    BY DEF Sorted
  <2>0. i \in Nat /\ j \in Nat
    BY <1>3
  <2>1. CASE i = k + 1 /\ j = k + 1
    BY <1>2, <1>3, <2>1
  <2>2. CASE i = k + 1 /\ j # k + 1
    BY <1>3, <1>4, <1>5, <2>0, <2>2
  <2>3. CASE i # k + 1 /\ j = k + 1
    BY <1>3, <1>4, <1>5, <2>0, <2>3
  <2>4. CASE i # k + 1 /\ j # k + 1
    BY <1>1, <1>5, <1>6, <2>4 DEF Sorted
  <2> QED
    BY <2>1, <2>2, <2>3, <2>4
<1>8. Single(in)
  <2> SUFFICES ASSUME NEW i \in DOMAIN in, NEW j \in DOMAIN in,
                      in[i].src = "traffic", in[j].src = "traffic", i # j,
                      in[i].age <= Policy.lookback, in[i].age = in[j].age
               PROVE  FALSE
    BY DEF Single
  <2>1. CASE i = k + 1
    <3>1. j # k + 1 /\ ss[old(j)].src = "traffic" /\ ss[old(j)].age = s.age /\ s.src = "traffic"
      BY <1>3, <1>5, <2>1
    <3> QED
      BY <1>5, <3>1 DEF Ch!Known
  <2>2. CASE j = k + 1
    <3>1. i # k + 1 /\ ss[old(i)].src = "traffic" /\ ss[old(i)].age = s.age /\ s.src = "traffic"
      BY <1>3, <1>5, <2>2
    <3> QED
      BY <1>5, <3>1 DEF Ch!Known
  <2>3. CASE i # k + 1 /\ j # k + 1
    BY <1>1, <1>5, <1>6, <2>3 DEF Single
  <2> QED
    BY <2>1, <2>2, <2>3
<1> QED
  BY <1>3, <1>7, <1>8 DEF Table, in

\* So does its front.
LEMMA FrontTable ==
  ASSUME Ch!SamplingAssumption,
         NEW ss, Table(ss), NEW m \in 0..Len(ss)
  PROVE  Table(SubSeq(ss, 1, m))
<1>1. ss \in Seq(Kept) /\ Sorted(ss) /\ Single(ss)
  BY DEF Table
<1> DEFINE front == SubSeq(ss, 1, m)
<1>2. /\ front \in Seq(Kept) /\ DOMAIN front = 1..m
      /\ \A i \in 1..m : i \in DOMAIN ss /\ front[i] = ss[i]
  BY <1>1, Front
<1> HIDE DEF front
<1>3. Sorted(front) /\ Single(front)
  BY <1>1, <1>2 DEF Sorted, Single
<1> QED
  BY <1>2, <1>3 DEF Table, front

\* The samples grow older together, up to the age where no test looks any more.
LEMMA OlderTable ==
  ASSUME Ch!SamplingAssumption,
         NEW ss, Table(ss)
  PROVE  Table([i \in DOMAIN ss |-> [ss[i] EXCEPT !.age = Ch!Older(@, Ch!OldSample)]])
<1>1. /\ ss \in Seq(Kept) /\ Sorted(ss) /\ Single(ss) /\ Len(ss) \in Nat
      /\ DOMAIN ss = 1..Len(ss)
      /\ \A i \in DOMAIN ss : ss[i] \in Kept /\ ss[i].age \in 0..Ch!OldSample
  BY KeptFacts DEF Table
<1> DEFINE new == [i \in DOMAIN ss |-> [ss[i] EXCEPT !.age = Ch!Older(@, Ch!OldSample)]]
<1>2. Ch!OldSample \in Nat /\ Policy.lookback \in Nat /\ Policy.lookback < Ch!OldSample
  BY AgeLimits, PolicyFacts
<1>3. ASSUME NEW i \in DOMAIN ss
      PROVE  /\ new[i] \in Kept /\ new[i].src = ss[i].src
             /\ ss[i].age < Ch!OldSample => new[i].age = ss[i].age + 1
             /\ ss[i].age = Ch!OldSample => new[i].age = Ch!OldSample
  <2>1. ss[i].age \in Ch!Never..Ch!OldSample /\ ss[i].age # Ch!Never
    BY <1>1, <1>2 DEF Ch!Never
  <2>2. PICK a \in 0..Ch!OldSample : a = Ch!Older(ss[i].age, Ch!OldSample)
    BY <1>2, <2>1, OlderFacts
  <2>3. /\ ss[i].age < Ch!OldSample => a = ss[i].age + 1
        /\ ss[i].age = Ch!OldSample => a = Ch!OldSample
    BY <1>2, <2>1, <2>2, OlderFacts
  <2>4. new[i] = [ss[i] EXCEPT !.age = a]
    BY <2>2
  <2>5. ss[i] \in Kept
    BY <1>1
  <2> HIDE DEF new
  <2> QED
    BY <2>3, <2>4, <2>5 DEF Kept
<1>4. new \in Seq(Kept) /\ DOMAIN new = DOMAIN ss
  <2>1. \A i \in 1..Len(ss) : new[i] \in Kept
    BY <1>1, <1>3
  <2> QED
    BY <1>1, <2>1, SeqDef
<1> HIDE DEF new
<1>5. \A i \in DOMAIN ss : /\ ss[i].age \in Nat /\ ss[i].age <= Ch!OldSample
                           /\ ss[i].age < Ch!OldSample \/ ss[i].age = Ch!OldSample
  BY <1>1, <1>2
<1>6. Sorted(new)
  <2> SUFFICES ASSUME NEW i \in DOMAIN ss, NEW j \in DOMAIN ss, i <= j
               PROVE  new[i].age <= new[j].age
    BY <1>4 DEF Sorted
  <2>1. ss[i].age <= ss[j].age
    BY <1>1 DEF Sorted
  <2> QED
    BY <1>2, <1>3, <1>5, <2>1
<1>7. Single(new)
  <2> SUFFICES ASSUME NEW i \in DOMAIN ss, NEW j \in DOMAIN ss,
                      new[i].src = "traffic", new[j].src = "traffic", i # j,
                      new[i].age <= Policy.lookback, new[i].age = new[j].age
               PROVE  FALSE
    BY <1>4 DEF Single
  <2>1. ss[i].age < Ch!OldSample /\ ss[j].age < Ch!OldSample
    BY <1>2, <1>3, <1>5
  <2>2. ss[i].age = ss[j].age /\ ss[i].age <= Policy.lookback
    BY <1>2, <1>3, <1>5, <2>1
  <2> QED
    BY <1>1, <1>3, <2>2 DEF Single
<1> QED
  BY <1>4, <1>6, <1>7 DEF Table, new

----------------------------------------------------------------------------
\* Every step keeps the invariant.

\* A table of samples is read front to back.
LEMMA LatestOfTable ==
  ASSUME Ch!SamplingAssumption,
         NEW ss, Table(ss), NEW n \in Nat
  PROVE  Table(Ch!Latest(ss, n))
<1>1. ss \in Seq(Kept)
  BY DEF Table
<1>2. PICK m \in 0..Len(ss) : Ch!Latest(ss, n) = SubSeq(ss, 1, m)
  BY <1>1, LatestFacts
<1> QED
  BY <1>2, FrontTable

LEMMA BeginStep == Ch!SamplingAssumption /\ ChanInv /\ Ch!Begin => ChanInv'
<1> SUFFICES ASSUME Ch!SamplingAssumption, ChanInv, Ch!Begin PROVE ChanInv'
  OBVIOUS
<1>1. want' \in BOOLEAN
  BY DEF Ch!Begin, Ch!ShouldProbe, ChanInv, Types, Ch!OlderThan
<1>2. Types'
  <2>1. stage' \in {"pull", "probe", "judge"} /\ mem' = st /\ ran' = TRUE
    BY DEF Ch!Begin
  <2>2. UNCHANGED <<cond, served, on, samples, st, row, upsets>>
    BY DEF Ch!Begin
  <2> QED
    BY <1>1, <2>1, <2>2, Zenon DEF ChanInv, Types
<1>3. Copied'
  BY DEF Ch!Begin, Copied
<1>4. Table(samples)'
  BY DEF Ch!Begin, ChanInv, Table, Sorted, Single
<1> QED
  BY <1>2, <1>3, <1>4 DEF ChanInv

LEMMA UpsetCounts == ASSUME Ch!SamplingAssumption, ChanInv, Ch!Upset PROVE upsets' \in 0..MaxUpsets
  BY PolicyFacts DEF ChanInv, Types, Ch!Upset, Ch!calm

LEMMA PullStep == Ch!SamplingAssumption /\ ChanInv /\ Ch!Pull => ChanInv'
<1> SUFFICES ASSUME Ch!SamplingAssumption, ChanInv, Ch!Pull PROVE ChanInv'
  OBVIOUS
<1>1. Types /\ Table(samples) /\ Copied
  BY DEF ChanInv
<1>2. upsets' \in 0..MaxUpsets
  BY UpsetCounts, <1>1 DEF Ch!Pull, Types
<1>3. mem' \in State /\ mem'.health = mem.health /\ mem'.cool = mem.cool
  <2>1. mem' = mem \/ mem' = [mem EXCEPT !.traffic = 0]
    BY DEF Ch!Pull
  <2>2. 0 \in Ch!Never..Ch!OldTraffic
    BY AgeLimits DEF Ch!Never
  <2> QED
    BY <1>1, <2>1, <2>2 DEF Types, State
<1>4. stage' \in {"rows", "probe", "judge"}
  BY DEF Ch!Pull, Ch!AfterPull
<1>5. UNCHANGED <<cond, served, on, samples, st, want, ran, row>>
  BY DEF Ch!Pull
<1>6. Types'
  BY <1>1, <1>2, <1>3, <1>4, <1>5, Zenon DEF Types
<1>7. Copied'
  BY <1>1, <1>3, <1>4, <1>5 DEF Copied
<1> QED
  BY <1>1, <1>5, <1>6, <1>7 DEF ChanInv, Table, Sorted, Single

LEMMA RowStep == Ch!SamplingAssumption /\ ChanInv /\ Ch!Row => ChanInv'
<1> SUFFICES ASSUME Ch!SamplingAssumption, ChanInv, Ch!Row PROVE ChanInv'
  OBVIOUS
<1>1. Types /\ Table(samples) /\ Copied
  BY DEF ChanInv
<1>2. Table(samples')
  <2>1. CASE samples' = samples
    BY <1>1, <2>1
  <2>2. CASE samples' # samples
    <3>1. /\ ~Ch!Known(samples, row)
          /\ \E a \in served[row] : samples' = Ch!Insert(samples, Ch!Request(a))
      BY <2>2 DEF Ch!Row, Ch!NewRow
    <3>2. PICK a \in served[row] : samples' = Ch!Insert(samples, Ch!Request(a))
      BY <3>1
    <3>3. a \in Answers
      <4>1. served[row] \in {{}} \cup {{b} : b \in Answers}
        BY <1>1 DEF Types
      <4> QED
        BY <4>1
    <3>4. row \in 0..Ch!OldSample
      BY <1>1, AgeLimits, PolicyFacts DEF Types
    <3>5. Ch!Request(a) \in Kept /\ Ch!Request(a).age = row
      BY <3>3, <3>4 DEF Ch!Request, Kept
    <3> QED
      BY <1>1, <3>1, <3>2, <3>5, InsertTable
  <2> QED
    BY <2>1, <2>2
<1>3. upsets' \in 0..MaxUpsets
  BY UpsetCounts, <1>1 DEF Ch!Row, Types
<1>4. row' \in 0..Policy.lookback /\ stage' \in {"rows", "probe", "judge"}
  BY <1>1, PolicyFacts DEF Ch!Row, Ch!AfterPull, Types
<1>5. UNCHANGED <<cond, served, on, st, mem, want, ran>>
  BY DEF Ch!Row
<1>6. Types'
  BY <1>1, <1>3, <1>4, <1>5, Zenon DEF Types
<1>7. Copied'
  BY <1>1, <1>4, <1>5 DEF Copied
<1> QED
  BY <1>2, <1>6, <1>7 DEF ChanInv, Table, Sorted, Single

\* A probe has its place in the table, whatever it brought.
LEMMA ProbedTable ==
  ASSUME Ch!SamplingAssumption, ChanInv,
         NEW a \in Answers \cup {Ch!Interrupted}
  PROVE  Table(Ch!Probed(a))
<1> DEFINE s == [src |-> "probe", age |-> 0, answer |-> a]
<1>1. s \in Kept /\ s.src # "traffic"
  BY AgeLimits DEF Kept
<1>2. Ch!Probed(a) = Ch!Insert(samples, s)
  BY DEF Ch!Probed
<1>3. Table(samples)
  BY DEF ChanInv
<1> HIDE DEF s
<1> QED
  BY <1>1, <1>2, <1>3, InsertTable

LEMMA ProbeStep == Ch!SamplingAssumption /\ ChanInv /\ Ch!Probe => ChanInv'
<1> SUFFICES ASSUME Ch!SamplingAssumption, ChanInv, Ch!Probe PROVE ChanInv'
  OBVIOUS
<1>1. Types /\ Table(samples) /\ Copied
  BY DEF ChanInv
<1>2. Table(samples')
  <2>1. samples' = samples \/ samples' = Ch!Probed(cond)
    BY DEF Ch!Probe
  <2>2. cond \in Answers
    BY <1>1 DEF Types
  <2> QED
    BY <1>1, <2>1, <2>2, ProbedTable
<1>3. upsets' \in 0..MaxUpsets
  BY UpsetCounts, <1>1 DEF Ch!Probe, Types
<1>4. mem' \in State /\ mem'.health = mem.health /\ mem'.cool = mem.cool
  <2>1. mem' = mem \/ mem' = [mem EXCEPT !.probe = 0]
    BY DEF Ch!Probe
  <2>2. 0 \in Ch!Never..Ch!OldProbe
    BY AgeLimits DEF Ch!Never
  <2> QED
    BY <1>1, <2>1, <2>2 DEF Types, State
<1>5. stage' = "judge" /\ UNCHANGED <<cond, served, on, st, row, want, ran>>
  BY DEF Ch!Probe
<1>6. Types'
  BY <1>1, <1>3, <1>4, <1>5, Zenon DEF Types
<1>7. Copied'
  BY <1>1, <1>4, <1>5 DEF Copied
<1> QED
  BY <1>2, <1>6, <1>7 DEF ChanInv, Table, Sorted, Single

LEMMA StopStep == Ch!SamplingAssumption /\ ChanInv /\ Ch!Stop => ChanInv'
<1> SUFFICES ASSUME Ch!SamplingAssumption, ChanInv, Ch!Stop PROVE ChanInv'
  OBVIOUS
<1>1. Types /\ Table(samples) /\ Copied
  BY DEF ChanInv
<1>2. Table(samples')
  <2>1. samples' = samples \/ samples' = Ch!Probed(Ch!Interrupted)
    BY DEF Ch!Stop
  <2> QED
    BY <1>1, <2>1, ProbedTable
<1>3. upsets' \in 0..MaxUpsets
  BY UpsetCounts DEF Ch!Stop
<1>4. /\ stage' = "idle" /\ row' = 0 /\ mem' = st /\ want' = FALSE
      /\ UNCHANGED <<cond, served, on, st, ran>>
  BY DEF Ch!Stop
<1>5. 0 \in 0..Policy.lookback
  BY PolicyFacts
<1>6. Types'
  BY <1>1, <1>3, <1>4, <1>5, Zenon DEF Types
<1>7. Copied'
  BY <1>4 DEF Copied
<1> QED
  BY <1>2, <1>6, <1>7 DEF ChanInv, Table, Sorted, Single

LEMMA VerdictTyped ==
  ASSUME Ch!SamplingAssumption,
         NEW ss, NEW s \in State
  PROVE  Ch!Verdict(ss, s) \in State
<1>1. PICK c \in 0..Policy.cooldown : c = Policy.cooldown
  BY PolicyFacts
<1>2. 0 \in 0..Policy.cooldown
  BY PolicyFacts
<1>3. [s EXCEPT !.health = "fused", !.cool = Policy.cooldown] \in State
  <2>1. [s EXCEPT !.health = "fused", !.cool = c] \in State
    BY DEF State
  <2> QED
    BY <1>1, <2>1
<1>4. [s EXCEPT !.health = "pool", !.cool = 0] \in State
  BY <1>2 DEF State
<1> QED
  BY <1>3, <1>4, Zenon DEF Ch!Verdict

LEMMA JudgeStep == Ch!SamplingAssumption /\ ChanInv /\ Ch!Judge => ChanInv'
<1> SUFFICES ASSUME Ch!SamplingAssumption, ChanInv, Ch!Judge PROVE ChanInv'
  OBVIOUS
<1>1. Types /\ Table(samples) /\ Copied
  BY DEF ChanInv
<1>2. Table(samples')
  BY <1>1, PolicyFacts, LatestOfTable DEF Ch!Judge
<1>3. upsets' \in 0..MaxUpsets
  BY UpsetCounts, <1>1 DEF Ch!Judge, Types
<1>4. st' \in State
  <2> DEFINE ss == Ch!Latest(samples, Policy.longWindow)
  <2>1. Table(ss)
    BY <1>1, PolicyFacts, LatestOfTable
  <2>2. st' = mem \/ st' = [Ch!Verdict(ss, mem) EXCEPT !.sample = IF ss = <<>> THEN @ ELSE ss[1].age]
    BY DEF Ch!Judge
  <2> HIDE DEF ss
  <2>3. PICK v \in State : v = Ch!Verdict(ss, mem)
    BY <1>1, VerdictTyped DEF Types
  <2>4. ss # <<>> => ss[1].age \in Ch!Never..Ch!OldSample
    <3> SUFFICES ASSUME ss # <<>> PROVE ss[1].age \in Ch!Never..Ch!OldSample
      OBVIOUS
    <3>1. ss \in Seq(Kept) /\ Len(ss) \in Nat /\ Len(ss) # 0
      BY <2>1, EmptySeq, LenProperties DEF Table
    <3>2. 1 \in DOMAIN ss
      BY <3>1, KeptFacts
    <3>3. ss[1].age \in 0..Ch!OldSample
      BY <3>1, <3>2, KeptFacts
    <3> QED
      BY <3>3, AgeLimits DEF Ch!Never
  <2>5. v.sample \in Ch!Never..Ch!OldSample
    BY DEF State
  <2>6. (IF ss = <<>> THEN v.sample ELSE ss[1].age) \in Ch!Never..Ch!OldSample
    BY <2>4, <2>5
  <2>7. PICK a \in Ch!Never..Ch!OldSample : a = IF ss = <<>> THEN v.sample ELSE ss[1].age
    BY <2>6
  <2>8. st' = mem \/ st' = [v EXCEPT !.sample = a]
    BY <2>2, <2>3, <2>7
  <2> QED
    BY <1>1, <2>8 DEF Types, State
<1>5. /\ stage' = "idle" /\ mem' = st' /\ want' = FALSE
      /\ UNCHANGED <<cond, served, on, row, ran>>
  BY DEF Ch!Judge
<1>6. Types'
  BY <1>1, <1>3, <1>4, <1>5, Zenon DEF Types
<1>7. Copied'
  BY <1>5 DEF Copied
<1> QED
  BY <1>2, <1>6, <1>7 DEF ChanInv, Table, Sorted, Single

LEMMA TickStep == Ch!SamplingAssumption /\ ChanInv /\ Ch!Tick => ChanInv'
<1> SUFFICES ASSUME Ch!SamplingAssumption, ChanInv, Ch!Tick PROVE ChanInv'
  OBVIOUS
<1>1. Types /\ Table(samples) /\ Copied
  BY DEF ChanInv
<1>2. Table(samples')
  <2>1. samples' = [i \in DOMAIN samples |-> [samples[i] EXCEPT !.age = Ch!Older(@, Ch!OldSample)]]
    BY DEF Ch!Tick
  <2> QED
    BY <1>1, <2>1, OlderTable
<1>3. st' \in State
  <2>1. st \in State
    BY <1>1 DEF Types
  <2>2. /\ Ch!OldProbe \in Nat /\ Ch!OldTraffic \in Nat /\ Ch!OldSample \in Nat
        /\ Policy.cooldown \in Nat
    BY AgeLimits, PolicyFacts
  <2>3. /\ st.probe \in Ch!Never..Ch!OldProbe /\ st.traffic \in Ch!Never..Ch!OldTraffic
        /\ st.sample \in Ch!Never..Ch!OldSample /\ st.cool \in 0..Policy.cooldown
    BY <2>1 DEF State
  <2>4. PICK p \in Ch!Never..Ch!OldProbe : p = Ch!Older(st.probe, Ch!OldProbe)
    BY <2>2, <2>3, OlderFacts
  <2>5. PICK t \in Ch!Never..Ch!OldTraffic : t = Ch!Older(st.traffic, Ch!OldTraffic)
    BY <2>2, <2>3, OlderFacts
  <2>6. PICK a \in Ch!Never..Ch!OldSample : a = Ch!Older(st.sample, Ch!OldSample)
    BY <2>2, <2>3, OlderFacts
  <2>7. PICK c \in 0..Policy.cooldown : c = IF st.cool = 0 THEN 0 ELSE st.cool - 1
    BY <2>2, <2>3
  <2>8. st' = [st EXCEPT !.probe = p, !.traffic = t, !.sample = a, !.cool = c]
    BY <2>4, <2>5, <2>6, <2>7 DEF Ch!Tick
  <2> QED
    BY <2>1, <2>8 DEF State
<1>4. served' \in [0..Policy.lookback -> {{}} \cup {{a} : a \in Answers}]
  <2> DEFINE R == {{}} \cup {{a} : a \in Answers}
  <2>1. PICK a \in R :
          served' = [age \in 0..Policy.lookback |-> IF age = 0 THEN a ELSE served[age - 1]]
    <3>1. PICK a \in {{}} \cup (IF st.health = "pool" THEN {{cond}} ELSE {}) :
            served' = [age \in 0..Policy.lookback |-> IF age = 0 THEN a ELSE served[age - 1]]
      BY DEF Ch!Tick
    <3>2. a \in R
      BY <1>1, <3>1 DEF Types
    <3> QED
      BY <3>1, <3>2
  <2>2. served \in [0..Policy.lookback -> R]
    BY <1>1 DEF Types
  <2> HIDE DEF R
  <2>3. \A age \in 0..Policy.lookback : age # 0 => age - 1 \in 0..Policy.lookback
    BY PolicyFacts
  <2>4. served' \in [0..Policy.lookback -> R]
    BY <2>1, <2>2, <2>3
  <2> QED
    BY <2>4 DEF R
<1>5. mem' = st' /\ ran' = FALSE /\ UNCHANGED <<cond, on, stage, row, want, upsets>>
  BY DEF Ch!Tick
<1>6. Types'
  BY <1>1, <1>3, <1>4, <1>5, Zenon DEF Types
<1>7. Copied'
  BY <1>5 DEF Copied
<1> QED
  BY <1>2, <1>6, <1>7 DEF ChanInv, Table, Sorted, Single

LEMMA TurnStep == Ch!SamplingAssumption /\ ChanInv /\ (Ch!Turn \/ Ch!Switch) => ChanInv'
<1> SUFFICES ASSUME Ch!SamplingAssumption, ChanInv, Ch!Turn \/ Ch!Switch PROVE ChanInv'
  OBVIOUS
<1>1. Types /\ Table(samples) /\ Copied
  BY DEF ChanInv
<1>2. upsets' \in 0..MaxUpsets /\ cond' \in Answers /\ on' \in Settings
  BY UpsetCounts, <1>1 DEF Ch!Turn, Ch!Switch, Types
<1>3. UNCHANGED <<served, samples, st, mem, stage, row, want, ran>>
  BY DEF Ch!Turn, Ch!Switch
<1>4. Types'
  BY <1>1, <1>2, <1>3, Zenon DEF Types
<1>5. Copied'
  BY <1>1, <1>3 DEF Copied
<1> QED
  BY <1>1, <1>3, <1>4, <1>5 DEF ChanInv, Table, Sorted, Single

LEMMA ChanInit == Ch!SamplingAssumption /\ Ch!Init => ChanInv
<1> SUFFICES ASSUME Ch!SamplingAssumption, Ch!Init PROVE ChanInv
  OBVIOUS
<1>1. Table(samples)
  <2>1. samples = <<>> /\ <<>> \in Seq(Kept) /\ DOMAIN <<>> = {}
    BY DEF Ch!Init
  <2> QED
    BY <2>1 DEF Table, Sorted, Single
<1>2. st \in State /\ mem = st
  <2>1. /\ 0 \in 0..Policy.cooldown /\ Ch!Never \in Ch!Never..Ch!OldProbe
        /\ Ch!Never \in Ch!Never..Ch!OldTraffic /\ Ch!Never \in Ch!Never..Ch!OldSample
    BY AgeLimits, PolicyFacts DEF Ch!Never
  <2>2. /\ mem = st
        /\ st = [health |-> "pool", cool |-> 0, probe |-> Ch!Never, traffic |-> Ch!Never,
                 sample |-> Ch!Never]
    BY DEF Ch!Init
  <2> QED
    BY <2>1, <2>2 DEF State
<1>3. served \in [0..Policy.lookback -> {{}} \cup {{a} : a \in Answers}]
  BY DEF Ch!Init
<1>4. upsets \in 0..MaxUpsets /\ row \in 0..Policy.lookback
  BY PolicyFacts DEF Ch!Init
<1> QED
  BY <1>1, <1>2, <1>3, <1>4 DEF Ch!Init, ChanInv, Types, Copied

LEMMA ChanNext == Ch!SamplingAssumption /\ ChanInv /\ [Ch!Next]_(Ch!vars) => ChanInv'
<1> SUFFICES ASSUME Ch!SamplingAssumption, ChanInv, [Ch!Next]_(Ch!vars) PROVE ChanInv'
  OBVIOUS
<1>1. CASE Ch!Step
  BY <1>1, BeginStep, PullStep, RowStep, ProbeStep, JudgeStep DEF Ch!Step
<1>2. CASE Ch!Stop \/ Ch!Tick \/ Ch!Turn \/ Ch!Switch
  BY <1>2, StopStep, TickStep, TurnStep
<1>3. CASE UNCHANGED Ch!vars
  BY <1>3 DEF Ch!vars, ChanInv, Types, Table, Sorted, Single, Copied
<1> QED
  BY <1>1, <1>2, <1>3 DEF Ch!Next

LEMMA ChanInvariance == Ch!SamplingAssumption /\ Ch!Spec => []ChanInv
<1>1. CASE Ch!SamplingAssumption
  <2>1. Ch!Init => ChanInv
    BY <1>1, ChanInit
  <2>2. ChanInv /\ [Ch!Next]_(Ch!vars) => ChanInv'
    BY <1>1, ChanNext
  <2> QED
    BY <2>1, <2>2, PTL DEF Ch!Spec
<1> QED
  BY <1>1

\* The types, a round that begins from what is stored, and no request kept twice although the
\* pulls overlap (engine/collect.go, the unique index of store/samples.go).
THEOREM SamplesTyped == Ch!SamplingAssumption /\ Ch!Spec => []Ch!TypeOK
<1>1. Ch!SamplingAssumption => (ChanInv => Ch!TypeOK)
  <2> SUFFICES ASSUME Ch!SamplingAssumption, ChanInv PROVE Ch!TypeOK
    OBVIOUS
  <2>1. Types /\ Copied /\ samples \in Seq(Kept) /\ Single(samples)
    BY DEF ChanInv, Table
  <2>2. \A i \in DOMAIN samples : /\ samples[i].age \in 0..Ch!OldSample
                                  /\ samples[i].src \in {"traffic", "probe"}
                                  /\ samples[i].answer \in Answers \cup {Ch!Interrupted}
    BY <2>1, KeptFacts DEF Kept
  <2>3. \A s \in {st, mem} : /\ s.health \in {"pool", "fused"} /\ s.cool \in 0..Policy.cooldown
                             /\ s.probe \in Ch!Never..Ch!OldProbe
                             /\ s.traffic \in Ch!Never..Ch!OldTraffic
                             /\ s.sample \in Ch!Never..Ch!OldSample
    BY <2>1 DEF Types, State
  <2> QED
    BY <2>1, <2>2, <2>3, Zenon DEF Ch!TypeOK, Types, Copied, Single
<1>2. CASE Ch!SamplingAssumption
  BY <1>1, <1>2, ChanInvariance, PTL
<1> QED
  BY <1>2

----------------------------------------------------------------------------
\* What a verdict rests on.

\* The first samples of the table are those of what happened last.
LEMMA FirstHappened ==
  ASSUME Ch!SamplingAssumption, ChanInv,
         NEW n \in Nat, NEW i \in DOMAIN samples, i <= n
  PROVE  i \in Ch!Happened(n)
<1>1. /\ samples \in Seq(Kept) /\ Sorted(samples) /\ Len(samples) \in Nat
      /\ DOMAIN samples = 1..Len(samples) /\ \A j \in DOMAIN samples : samples[j].age \in Nat
  BY KeptFacts DEF ChanInv, Table
<1> DEFINE J == {j \in DOMAIN samples : samples[j].age < samples[i].age}
<1>2. i \in Nat /\ i >= 1
  BY <1>1
<1>3. J \subseteq 1..(i - 1)
  <2> SUFFICES ASSUME NEW j \in J PROVE j \in 1..(i - 1)
    OBVIOUS
  <2>1. j \in DOMAIN samples /\ samples[j].age < samples[i].age
    OBVIOUS
  <2>2. ~(i <= j)
    BY <1>1, <2>1 DEF Sorted
  <2> QED
    BY <1>1, <1>2, <2>1, <2>2
<1>4. IsFiniteSet(1..(i - 1)) /\ Ch!Cardinality(1..(i - 1)) = i - 1
  <2>1. PICK k \in Nat : k = i - 1
    BY <1>2
  <2>2. IsFiniteSet(1..k) /\ Ch!Cardinality(1..k) = k
    <3>1. 1 \in Int /\ k \in Int
      OBVIOUS
    <3>2. IsFiniteSet(1..k) /\ Ch!Cardinality(1..k) = IF 1 > k THEN 0 ELSE k - 1 + 1
      BY <3>1, Counts, FS_Interval
    <3> QED
      BY <3>2
  <2> QED
    BY <2>1, <2>2
<1> HIDE DEF J
<1>5. Ch!Cardinality(J) <= i - 1 /\ Ch!Cardinality(J) \in Nat
  BY <1>3, <1>4, Counts, FS_Subset, FS_CardinalityType
<1>6. Ch!Cardinality(J) < n
  BY <1>2, <1>5
<1> QED
  BY <1>6 DEF Ch!Happened, J

\* The round judges the front of the table, and its tests look at the front of that.
LEMMA FrontRead ==
  ASSUME Ch!SamplingAssumption, ChanInv,
         NEW w \in Nat, NEW n \in Nat
  PROVE  /\ \A i \in DOMAIN Ch!Latest(Ch!Latest(samples, w), n) :
              i \in Ch!Happened(n) /\ Ch!Latest(samples, w)[i] = samples[i]
         /\ \A i \in DOMAIN Ch!Latest(samples, w) :
              i \in Nat /\ 1 <= i /\ i \in DOMAIN samples /\ Ch!Latest(samples, w)[i] = samples[i]
<1>1. samples \in Seq(Kept) /\ Len(samples) \in Nat /\ DOMAIN samples = 1..Len(samples)
  BY KeptFacts DEF ChanInv, Table
<1>2. PICK m \in 0..Len(samples) : Ch!Latest(samples, w) = SubSeq(samples, 1, m)
  BY <1>1, LatestFacts
<1> DEFINE ss == Ch!Latest(samples, w)
<1>3. /\ ss \in Seq(Kept) /\ Len(ss) = m /\ DOMAIN ss = 1..m
      /\ \A i \in 1..m : i \in DOMAIN samples /\ ss[i] = samples[i]
  BY <1>1, <1>2, Front
<1> HIDE DEF ss
<1>4. PICK k \in 0..Len(ss) : k <= n /\ Ch!Latest(ss, n) = SubSeq(ss, 1, k)
  BY <1>3, LatestFacts
<1>5. DOMAIN Ch!Latest(ss, n) = 1..k
  BY <1>3, <1>4, Front
<1>6. ASSUME NEW i \in 1..k PROVE i \in Ch!Happened(n) /\ ss[i] = samples[i]
  <2>1. i \in 1..m /\ i <= n
    BY <1>1, <1>3, <1>4
  <2>2. i \in DOMAIN samples /\ ss[i] = samples[i]
    BY <1>3, <2>1
  <2> QED
    BY <2>1, <2>2, FirstHappened
<1>7. ASSUME NEW i \in 1..m
      PROVE  i \in Nat /\ 1 <= i /\ i \in DOMAIN samples /\ ss[i] = samples[i]
  BY <1>3
<1> QED
  BY <1>3, <1>5, <1>6, <1>7 DEF ss

\* Where there are samples, the first that is judged is the last thing that happened.
LEMMA FirstRead ==
  ASSUME Ch!SamplingAssumption, ChanInv,
         NEW w \in Nat, 1 \in DOMAIN Ch!Latest(samples, w)
  PROVE  1 \in Ch!Happened(1) /\ Ch!Latest(samples, w)[1] = samples[1]
<1>1. 1 \in DOMAIN samples /\ Ch!Latest(samples, w)[1] = samples[1]
  BY FrontRead
<1> QED
  BY <1>1, FirstHappened

LEMMA NonEmpty ==
  ASSUME Ch!SamplingAssumption, ChanInv,
         NEW w \in Nat, Ch!Latest(samples, w) # <<>>
  PROVE  1 \in DOMAIN Ch!Latest(samples, w)
<1> DEFINE ss == Ch!Latest(samples, w)
<1>1. ss \in Seq(Kept)
  BY LatestOfTable DEF ChanInv, Table
<1> HIDE DEF ss
<1>2. Len(ss) \in Nat /\ Len(ss) # 0 /\ DOMAIN ss = 1..Len(ss)
  <2>1. ss # <<>>
    BY DEF ss
  <2> QED
    BY <1>1, <2>1, EmptySeq, LenProperties
<1>3. 1 \in DOMAIN ss
  BY <1>2
<1> QED
  BY <1>3 DEF ss

LEMMA HappenedFinite == ASSUME Ch!SamplingAssumption, ChanInv,
         NEW n \in Nat PROVE IsFiniteSet(Ch!Happened(n))
<1>1. Len(samples) \in Nat /\ DOMAIN samples = 1..Len(samples)
  BY KeptFacts DEF ChanInv, Table
<1>2. IsFiniteSet(1..Len(samples))
  <2>1. 1 \in Int /\ Len(samples) \in Int
    BY <1>1
  <2> QED
    BY <2>1, Counts, FS_Interval
<1>3. Ch!Happened(n) \subseteq 1..Len(samples)
  BY <1>1 DEF Ch!Happened
<1> QED
  BY <1>2, <1>3, Counts, FS_Subset

\* As many samples as a breaker counts, as many happened.
LEMMA Counted ==
  ASSUME Ch!SamplingAssumption, ChanInv,
         NEW w \in Nat, NEW n \in Nat,
         NEW C \in SUBSET DOMAIN Ch!Latest(Ch!Latest(samples, w), n),
         NEW H \in SUBSET Ch!Happened(n), C \subseteq H,
         NEW least \in Nat, Ch!Cardinality(C) >= least
  PROVE  Ch!Cardinality(H) >= least
<1>1. IsFiniteSet(H)
  BY HappenedFinite, Counts, FS_Subset
<1>2. /\ IsFiniteSet(C) /\ Ch!Cardinality(C) <= Ch!Cardinality(H)
      /\ Ch!Cardinality(C) \in Nat /\ Ch!Cardinality(H) \in Nat
  BY <1>1, Counts, FS_Subset, FS_CardinalityType
<1> QED
  BY <1>2

\* What takes the channel out.
LEMMA Bad ==
  ASSUME Ch!SamplingAssumption, ChanInv,
         NEW w \in Nat, Ch!FatalOverride(Ch!Latest(samples, w)) \/ Ch!Trips(Ch!Latest(samples, w))
  PROVE  \/ \E i \in Ch!Happened(1) : \/ Ch!Event(samples[i]) = "fatal"
                                      \/ samples[i].answer.status \in Policy.instantCodes
         \/ Ch!Cardinality({i \in Ch!Happened(Policy.httpWindow) : Ch!Failure(samples[i])})
              >= Policy.httpFailures
         \/ Ch!Cardinality({i \in Ch!Happened(Policy.slowWindow) : samples[i].answer.crawl})
              >= Policy.slowTimes
<1> DEFINE ss == Ch!Latest(samples, w)
<1>1. ss # <<>>
  BY DEF Ch!FatalOverride, Ch!Trips
<1>2. 1 \in Ch!Happened(1) /\ ss[1] = samples[1]
  BY <1>1, NonEmpty, FirstRead
<1>3. CASE Ch!FatalOverride(ss) \/ ss[1].answer.status \in Policy.instantCodes
  BY <1>2, <1>3 DEF Ch!FatalOverride
<1>4. CASE Ch!FailsOften(ss)
  <2> DEFINE C == {i \in DOMAIN Ch!Latest(ss, Policy.httpWindow) :
                      Ch!Event(ss[i]) \in {"gateway", "probe_fail"}}
             H == {i \in Ch!Happened(Policy.httpWindow) : Ch!Failure(samples[i])}
  <2>1. Policy.httpWindow \in Nat /\ Policy.httpFailures \in Nat
    BY PolicyFacts
  <2>2. \A i \in DOMAIN Ch!Latest(ss, Policy.httpWindow) :
          i \in Ch!Happened(Policy.httpWindow) /\ ss[i] = samples[i]
    BY <2>1, FrontRead
  <2>3. C \subseteq H
    BY <2>2 DEF Ch!Failure
  <2>4. Ch!Cardinality(C) >= Policy.httpFailures
    BY <1>4 DEF Ch!FailsOften, Ch!CountGatewayFailures
  <2>5. /\ C \in SUBSET DOMAIN Ch!Latest(ss, Policy.httpWindow)
        /\ H \in SUBSET Ch!Happened(Policy.httpWindow)
    OBVIOUS
  <2> HIDE DEF C, H
  <2>6. Ch!Cardinality(H) >= Policy.httpFailures
    BY <2>1, <2>3, <2>4, <2>5, Counted
  <2> QED
    BY <2>6 DEF H
<1>5. CASE Ch!CountSlowResponses(ss, Policy.slowWindow) >= Policy.slowTimes
  <2> DEFINE C == {i \in DOMAIN Ch!Latest(ss, Policy.slowWindow) : ss[i].answer.crawl}
             H == {i \in Ch!Happened(Policy.slowWindow) : samples[i].answer.crawl}
  <2>1. Policy.slowWindow \in Nat /\ Policy.slowTimes \in Nat
    BY PolicyFacts
  <2>2. \A i \in DOMAIN Ch!Latest(ss, Policy.slowWindow) :
          i \in Ch!Happened(Policy.slowWindow) /\ ss[i] = samples[i]
    BY <2>1, FrontRead
  <2>3. C \subseteq H
    BY <2>2
  <2>4. Ch!Cardinality(C) >= Policy.slowTimes
    BY <1>5 DEF Ch!CountSlowResponses
  <2>5. /\ C \in SUBSET DOMAIN Ch!Latest(ss, Policy.slowWindow)
        /\ H \in SUBSET Ch!Happened(Policy.slowWindow)
    OBVIOUS
  <2> HIDE DEF C, H
  <2>6. Ch!Cardinality(H) >= Policy.slowTimes
    BY <2>1, <2>3, <2>4, <2>5, Counted
  <2> QED
    BY <2>6 DEF H
<1> QED
  BY <1>3, <1>4, <1>5 DEF Ch!Trips

\* What brings it back.
LEMMA Good ==
  ASSUME Ch!SamplingAssumption, ChanInv,
         NEW w \in Nat, NEW s, Ch!Recovers(Ch!Latest(samples, w), s)
  PROVE  \E i \in Ch!Happened(1) : ~Ch!Failure(samples[i])
<1> DEFINE ss == Ch!Latest(samples, w)
           N  == {n \in DOMAIN ss : \A i \in 1..n : ~Ch!Failure(ss[i])}
<1>1. ss \in Seq(Kept)
  BY LatestOfTable DEF ChanInv, Table
<1>2. Ch!Streak(ss) >= Policy.successes /\ Ch!Streak(ss) = Ch!Max({0} \cup N)
  BY DEF Ch!Recovers, Ch!Streak
<1>3. 1 \in DOMAIN ss => 1 \in Ch!Happened(1) /\ ss[1] = samples[1]
  BY FirstRead
<1> HIDE DEF ss
<1>4. Len(ss) \in Nat /\ DOMAIN ss = 1..Len(ss)
  BY <1>1, LenProperties
<1>5. {0} \cup N \in SUBSET Nat /\ {0} \cup N # {} /\ \A x \in {0} \cup N : x <= Len(ss)
  BY <1>4
<1>6. Ch!Max({0} \cup N) \in {0} \cup N
  <2> HIDE DEF N
  <2> QED
    BY <1>4, <1>5, MaxIn
<1>7. PICK n \in N : n >= 1
  <2>1. PICK x \in {0} \cup N : x = Ch!Streak(ss)
    BY <1>2, <1>6
  <2>2. x \in Nat /\ x >= Policy.successes /\ Policy.successes \in Nat /\ Policy.successes # 0
    BY <1>2, <1>5, <2>1, PolicyFacts
  <2>3. x # 0 /\ x >= 1
    BY <2>2
  <2> HIDE DEF N
  <2> QED
    BY <2>1, <2>3
<1>8. 1 \in 1..n /\ 1 \in DOMAIN ss
  BY <1>4, <1>7
<1>9. ~Ch!Failure(ss[1])
  BY <1>7, <1>8
<1> QED
  BY <1>3, <1>8, <1>9

\* A channel leaves the pool only for what happened last, and comes back only on a success
\* (engine/decide.go on the tests of the samples, softBreakerReason and applyRecovery),
\* although the pulls bring the requests late and in another order.
THEOREM WellGrounded == Ch!SamplingAssumption /\ Ch!Spec => Ch!Grounded
<1> DEFINE Change ==
      /\ (st.health = "pool" /\ st'.health = "fused") =>
              \/ \E i \in Ch!Happened(1) : \/ Ch!Event(samples[i]) = "fatal"
                                     \/ samples[i].answer.status \in Policy.instantCodes
              \/ Ch!Cardinality({i \in Ch!Happened(Policy.httpWindow) : Ch!Failure(samples[i])})
                   >= Policy.httpFailures
              \/ Ch!Cardinality({i \in Ch!Happened(Policy.slowWindow) : samples[i].answer.crawl})
                   >= Policy.slowTimes
      /\ (st.health = "fused" /\ st'.health = "pool") =>
              \E i \in Ch!Happened(1) : ~Ch!Failure(samples[i])
<1>1. ASSUME Ch!SamplingAssumption, ChanInv, [Ch!Next]_(Ch!vars) PROVE Change
  <2>1. CASE Ch!Judge
    <3> DEFINE ss == Ch!Latest(samples, Policy.longWindow)
    <3>1. Policy.longWindow \in Nat /\ mem.health = st.health /\ mem \in State
      BY <1>1, PolicyFacts DEF ChanInv, Copied, Types
    <3>2. st'.health = mem.health \/ st'.health = Ch!Verdict(ss, mem).health
      <4>1. \/ st' = mem
            \/ st' = [Ch!Verdict(ss, mem) EXCEPT !.sample = IF ss = <<>> THEN @ ELSE ss[1].age]
        BY <2>1 DEF Ch!Judge
      <4>2. Ch!Verdict(ss, mem) \in State
        BY <1>1, <3>1, VerdictTyped
      <4> HIDE DEF ss
      <4> QED
        BY <4>1, <4>2 DEF State
    <3> HIDE DEF ss
    <3>3. ASSUME st.health = "pool", st'.health = "fused"
          PROVE  Ch!FatalOverride(ss) \/ Ch!Trips(ss)
      <4>1. mem.health = "pool" /\ Ch!Verdict(ss, mem).health = "fused"
        BY <3>1, <3>2, <3>3
      <4> QED
        BY <3>1, <4>1 DEF Ch!Verdict, State
    <3>4. ASSUME st.health = "fused", st'.health = "pool"
          PROVE  Ch!Recovers(ss, mem)
      <4>1. mem.health = "fused" /\ Ch!Verdict(ss, mem).health = "pool"
        BY <3>1, <3>2, <3>4
      <4> QED
        BY <4>1 DEF Ch!Verdict
    <3> QED
      BY <1>1, <3>1, <3>3, <3>4, Bad, Good DEF ss
  <2>2. CASE ~Ch!Judge
    <3>1. st'.health = st.health
      BY <1>1, <2>2
         DEF Ch!vars, Ch!Next, Ch!Step, Ch!Begin, Ch!Pull, Ch!Row, Ch!Probe, Ch!Stop, Ch!Tick,
             Ch!Turn, Ch!Switch, ChanInv, Types, State
    <3> QED
      BY <3>1
  <2> QED
    BY <2>1, <2>2
<1>2. Ch!SamplingAssumption => (ChanInv /\ [Ch!Next]_(Ch!vars) => Change)
  BY <1>1
<1>3. CASE Ch!SamplingAssumption
  BY <1>2, <1>3, ChanInvariance, PTL DEF Ch!Spec, Ch!Grounded
<1> QED
  BY <1>3
=============================================================================

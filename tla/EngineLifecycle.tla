-------------------------- MODULE EngineLifecycle --------------------------
(***************************************************************************)
(* Who runs a round, and who may stop it (engine/engine.go): the heartbeat *)
(* goroutine, requests of the HTTP API that run a round, cancel the        *)
(* scheduling, resume it or save the connection settings, and the main     *)
(* goroutine that starts the heartbeat and stops the engine on a signal.   *)
(*                                                                         *)
(* A critical section under engine.mu is one step; everything else that    *)
(* two goroutines can see is a step of its own: reading the persisted      *)
(* switch and acting on it, grabbing a cancel function and calling it,     *)
(* reading the settings row and writing it back. Of the settings row two   *)
(* things matter here: the switch conn.Enabled, and whether the row names  *)
(* a sub2api and its admin key, without which the heartbeat asks for no    *)
(* round. Of a round only its course is kept; whether its end is reported  *)
(* as cancelled (engine.canceled) is left out.                             *)
(*                                                                         *)
(* A context or a done channel is named by the goroutine whose round it    *)
(* belongs to; what others hold of it becomes None when that round ends,   *)
(* since cancelling a finished context and waiting for a closed channel    *)
(* have no effect.                                                         *)
(***************************************************************************)
EXTENDS Naturals, FiniteSets

CONSTANTS
  Threads,      \* goroutines that serve API requests
  None,         \* no goroutine
  MaxRequests   \* bound: API requests served

Runners == {"loop"} \cup Threads

ASSUME LifecycleAssumption ==
  /\ "loop" \notin Threads /\ None \notin Runners /\ "main" \notin Runners
  /\ IsFiniteSet(Threads)
  /\ MaxRequests \in Nat

RoundPCs == {"prepare", "collect", "check", "apply", "persist", "leave"}
LoopPCs  == {"off", "delay", "tick", "catalog", "wait", "exited"}
ApiPCs   == {"idle", "fire", "read", "save"}
MainPCs  == {"boot", "serving", "closing", "firing", "rereading", "joining", "waiting",
             "stopped"}
Switches == {"save", "resume", "cancel"}   \* saveConnection, Resume, Cancel
Payloads == {"keep", "on", "off"}          \* saveConnection: the switch in its payload, or not

VARIABLES
  enabled,     \* conn.Enabled, in the database
  configured,  \* conn.BaseURL and conn.AdminAPIKey are both there, in the same row
  stopping, running,             \* fields of Engine, under engine.mu
  cancelRun,   \* whose round the stored cancel function interrupts, or None
  runDone,     \* whose round the stored done channel belongs to, or None
  stopCh,      \* the stop channel is closed
  pc,          \* [Runners -> ...]: where each goroutine is
  ctxDone,     \* [Runners -> BOOLEAN]: the context of its round is cancelled
  partial,     \* [Runners -> BOOLEAN]: its collect was cut short
  grabbed,     \* [Threads \cup {"main"} -> Runners \cup {None}]: a cancel function held
  switch,      \* [Threads -> Switches]: which request is saving the row
  seen,        \* [Threads -> Row]: the row as a request has read it
  mainPC, waitFor,   \* the main goroutine, and the done channel it waits for
  requests,    \* how much of MaxRequests is used
  silenced     \* history: Cancel has saved the switch as off, and nobody has asked to resume since

Row == [on : BOOLEAN, set : BOOLEAN]
Unread == [on |-> FALSE, set |-> FALSE]

settings == <<enabled, configured>>
engine == <<stopping, running, cancelRun, runDone>>
rounds == <<ctxDone, partial>>
held   == <<grabbed, waitFor>>
api    == <<switch, seen, requests, silenced>>
vars   == <<settings, engine, stopCh, pc, rounds, held, api, mainPC>>

InRound(p) == pc[p] \in RoundPCs
Goto(p, l) == pc' = [pc EXCEPT ![p] = l]
\* Mutant: the heartbeat ends with its first round, as a request does.
ReturnForGood(p) == "idle"

\* A round started by the heartbeat returns to its select, one of a request answers it.
Return(p) == IF p = "loop" THEN "wait" ELSE "idle"

----------------------------------------------------------------------------
\* RunOnce

\* Mutant: a second round is let in while one is stopping.
EnterUnlessStopping(p) ==
  IF stopping THEN Goto(p, Return(p)) /\ UNCHANGED <<engine, rounds>>
  ELSE /\ running' = TRUE
       /\ cancelRun' = p /\ runDone' = p
       /\ ctxDone' = [ctxDone EXCEPT ![p] = FALSE]
       /\ partial' = [partial EXCEPT ![p] = FALSE]
       /\ Goto(p, "prepare")
       /\ UNCHANGED stopping

\* Mutant: a round that asks after Stop has begun is let in.
EnterUnlessRunning(p) ==
  IF running THEN Goto(p, Return(p)) /\ UNCHANGED <<engine, rounds>>
  ELSE /\ running' = TRUE
       /\ cancelRun' = p /\ runDone' = p
       /\ ctxDone' = [ctxDone EXCEPT ![p] = FALSE]
       /\ partial' = [partial EXCEPT ![p] = FALSE]
       /\ Goto(p, "prepare")
       /\ UNCHANGED stopping

\* The first critical section: refused, or the only round.
Enter(p) ==
  IF stopping \/ running THEN Goto(p, Return(p)) /\ UNCHANGED <<engine, rounds>>
  ELSE /\ running' = TRUE
       /\ cancelRun' = p /\ runDone' = p
       /\ ctxDone' = [ctxDone EXCEPT ![p] = FALSE]
       /\ partial' = [partial EXCEPT ![p] = FALSE]
       /\ Goto(p, "prepare")
       /\ UNCHANGED stopping

\* Connection, Sync and the rest up to collect; any of it may fail.
Prepare(p) ==
  /\ pc[p] = "prepare"
  /\ \/ Goto(p, "leave")
     \/ ~ctxDone[p] /\ Goto(p, "collect")
  /\ UNCHANGED <<settings, engine, stopCh, rounds, held, api, mainPC>>

\* collect: all probes done, or the rest dropped because the context is cancelled.
Collect(p) ==
  /\ pc[p] = "collect"
  /\ \/ UNCHANGED partial
     \/ ctxDone[p] /\ partial' = [partial EXCEPT ![p] = TRUE]
  /\ Goto(p, "check")
  /\ UNCHANGED <<settings, engine, stopCh, ctxDone, held, api, mainPC>>

\* Mutant: the round goes on with what it has collected.
CheckIgnored(p) ==
  /\ pc[p] = "check"
  /\ Goto(p, "apply")
  /\ UNCHANGED <<settings, engine, stopCh, rounds, held, api, mainPC>>

\* The cancellation checkpoint after collect.
Check(p) ==
  /\ pc[p] = "check"
  /\ Goto(p, IF ctxDone[p] THEN "leave" ELSE "apply")
  /\ UNCHANGED <<settings, engine, stopCh, rounds, held, api, mainPC>>

\* decide, applyAll and applyCleanup; then persist and maintenance.
Apply(p) ==
  /\ pc[p] = "apply" /\ Goto(p, "persist")
  /\ UNCHANGED <<settings, engine, stopCh, rounds, held, api, mainPC>>

Persist(p) ==
  /\ pc[p] = "persist" /\ Goto(p, "leave")
  /\ UNCHANGED <<settings, engine, stopCh, rounds, held, api, mainPC>>

\* What the others hold of p's round when it is over.
Dropped(x, p) == IF x = p THEN None ELSE x

\* Mutant: the done channel is dropped without being closed.
LeaveWithoutClose(p) ==
  /\ pc[p] = "leave"
  /\ running' = FALSE /\ cancelRun' = None /\ runDone' = None
  /\ grabbed' = [t \in DOMAIN grabbed |-> Dropped(grabbed[t], p)]
  /\ Goto(p, Return(p))
  /\ ctxDone' = [ctxDone EXCEPT ![p] = FALSE] /\ partial' = [partial EXCEPT ![p] = FALSE]
  /\ UNCHANGED <<settings, stopping, stopCh, api, waitFor, mainPC>>

\* Mutant: running is never reset.
LeaveRunning(p) ==
  /\ pc[p] = "leave"
  /\ cancelRun' = None /\ runDone' = None
  /\ grabbed' = [t \in DOMAIN grabbed |-> Dropped(grabbed[t], p)]
  /\ waitFor' = Dropped(waitFor, p)
  /\ Goto(p, Return(p))
  /\ ctxDone' = [ctxDone EXCEPT ![p] = FALSE] /\ partial' = [partial EXCEPT ![p] = FALSE]
  /\ UNCHANGED <<settings, stopping, running, stopCh, api, mainPC>>

\* The second critical section.
Leave(p) ==
  /\ pc[p] = "leave"
  /\ running' = FALSE /\ cancelRun' = None /\ runDone' = None
  /\ grabbed' = [t \in DOMAIN grabbed |-> Dropped(grabbed[t], p)]
  /\ waitFor' = Dropped(waitFor, p)
  /\ Goto(p, Return(p))
  /\ ctxDone' = [ctxDone EXCEPT ![p] = FALSE] /\ partial' = [partial EXCEPT ![p] = FALSE]
  /\ UNCHANGED <<settings, stopping, stopCh, api, mainPC>>

\* The ten minutes of the round are over, or the client of the request is gone.
Timeout(p) ==
  /\ InRound(p) /\ ~ctxDone[p]
  /\ ctxDone' = [ctxDone EXCEPT ![p] = TRUE]
  /\ UNCHANGED <<settings, engine, stopCh, pc, partial, held, api, mainPC>>

Round(p) == Prepare(p) \/ Collect(p) \/ Check(p) \/ Apply(p) \/ Persist(p) \/ Leave(p)

----------------------------------------------------------------------------
\* The heartbeat.

\* The start-up delay and the select between ticks. When both channels are ready, Go
\* takes either.
Beat ==
  /\ pc["loop"] \in {"delay", "wait"}
  /\ \/ Goto("loop", "tick")
     \/ stopCh /\ Goto("loop", "exited")
  /\ UNCHANGED <<settings, engine, stopCh, rounds, held, api, mainPC>>

\* Mutant: the heartbeat looks at the switch only when it starts.
TickWhateverSwitch ==
  /\ pc["loop"] = "tick"
  /\ Goto("loop", IF configured THEN "run" ELSE "wait")
  /\ UNCHANGED <<settings, engine, stopCh, rounds, held, api, mainPC>>

\* tick reads the row. One that names no sub2api or no key ends the tick: no round, and no
\* catalog sync either. Otherwise the switch decides...
Tick ==
  /\ pc["loop"] = "tick"
  /\ Goto("loop", CASE ~configured -> "wait"
                    [] configured /\ enabled -> "run"
                    [] configured /\ ~enabled -> "catalog")
  /\ UNCHANGED <<settings, engine, stopCh, rounds, held, api, mainPC>>

\* The row cannot be read, and the tick ends likewise.
TickUnread ==
  /\ pc["loop"] = "tick" /\ Goto("loop", "wait")
  /\ UNCHANGED <<settings, engine, stopCh, rounds, held, api, mainPC>>

\* ...and acts on what it read.
TickRuns ==
  /\ pc["loop"] = "run" /\ Enter("loop")
  /\ UNCHANGED <<settings, stopCh, held, api, mainPC>>

\* syncCatalogIfStale and the multiplier refresh, under contexts of their own.
Catalog ==
  /\ pc["loop"] = "catalog" /\ Goto("loop", "wait")
  /\ UNCHANGED <<settings, engine, stopCh, rounds, held, api, mainPC>>

----------------------------------------------------------------------------
\* API requests.

Arrives(t, l) ==
  /\ pc[t] = "idle" /\ requests < MaxRequests
  /\ requests' = requests + 1
  /\ Goto(t, l)
  /\ UNCHANGED <<settings, stopCh, seen, waitFor, mainPC>>

RequestRun(t) ==
  /\ Arrives(t, "run")
  /\ UNCHANGED <<engine, rounds, grabbed, switch, silenced>>

RequestRuns(t) ==
  /\ pc[t] = "run" /\ Enter(t)
  /\ UNCHANGED <<settings, stopCh, held, api, mainPC>>

\* Cancel's critical section.
RequestCancel(t) ==
  /\ Arrives(t, "fire")
  /\ grabbed' = [grabbed EXCEPT ![t] = cancelRun]
  /\ switch' = [switch EXCEPT ![t] = "cancel"]
  /\ UNCHANGED <<stopping, running, cancelRun, runDone, rounds, silenced>>

CancelFire(t) ==
  /\ pc[t] = "fire"
  /\ ctxDone' = [p \in Runners |-> ctxDone[p] \/ p = grabbed[t]]
  /\ grabbed' = [grabbed EXCEPT ![t] = None]
  /\ Goto(t, "read")
  /\ UNCHANGED <<settings, engine, stopCh, partial, waitFor, api, mainPC>>

\* Resume, and saveConnection.
RequestSettings(t, s) ==
  /\ s # "cancel"
  /\ Arrives(t, "read")
  /\ switch' = [switch EXCEPT ![t] = s]
  /\ silenced' = (silenced /\ s # "resume")
  /\ UNCHANGED <<engine, rounds, grabbed>>

ReadRow(t) ==
  /\ pc[t] = "read"
  /\ seen' = [seen EXCEPT ![t] = [on |-> enabled, set |-> configured]]
  /\ Goto(t, "save")
  /\ UNCHANGED <<settings, engine, stopCh, rounds, held, switch, requests, silenced, mainPC>>

Answered(t) ==
  /\ Goto(t, "idle")
  /\ seen' = [seen EXCEPT ![t] = Unread] /\ switch' = [switch EXCEPT ![t] = "save"]
  /\ UNCHANGED <<engine, stopCh, rounds, held, requests, mainPC>>

\* saveConnection writes the whole row back: the switch as read unless the payload has one, an
\* address as read, emptied or given, and a key that may be given but not taken away.
SaveConnection(t, s) ==
  /\ pc[t] = "save" /\ switch[t] = "save"
  /\ enabled' = IF s = "keep" THEN seen[t].on ELSE s = "on"
  /\ configured' \in BOOLEAN
  /\ silenced' = (silenced /\ s # "on")
  /\ Answered(t)

\* Cancel and Resume: nothing to save when the switch they read is the one they want, the whole
\* row as read otherwise.
SetAutoEnabled(t) ==
  /\ pc[t] = "save" /\ switch[t] # "save"
  /\ IF seen[t].on = (switch[t] = "resume")
       THEN UNCHANGED settings
       ELSE enabled' = (switch[t] = "resume") /\ configured' = seen[t].set
  /\ silenced' = (silenced \/ switch[t] = "cancel")
  /\ Answered(t)

\* The row cannot be read, or the payload, or the row cannot be saved: nothing changes.
RowFails(t) ==
  /\ pc[t] \in {"read", "save"}
  /\ Answered(t)
  /\ UNCHANGED <<settings, silenced>>

----------------------------------------------------------------------------
\* The main goroutine: Start, then Stop on a signal.

Main(from, to) == mainPC = from /\ mainPC' = to

Start ==
  /\ Main("boot", "serving")
  /\ Goto("loop", "delay")
  /\ UNCHANGED <<settings, engine, stopCh, rounds, held, api>>

StopMark ==
  /\ Main("serving", "closing")
  /\ stopping' = TRUE
  /\ grabbed' = [grabbed EXCEPT !["main"] = cancelRun]
  /\ UNCHANGED <<settings, running, cancelRun, runDone, stopCh, pc, rounds, waitFor, api>>

StopClose ==
  /\ Main("closing", "firing")
  /\ stopCh' = TRUE
  /\ UNCHANGED <<settings, engine, pc, rounds, held, api>>

StopFire ==
  /\ Main("firing", "rereading")
  /\ ctxDone' = [p \in Runners |-> ctxDone[p] \/ p = grabbed["main"]]
  /\ grabbed' = [grabbed EXCEPT !["main"] = None]
  /\ UNCHANGED <<settings, engine, stopCh, pc, partial, waitFor, api>>

\* Mutant: Stop waits for the heartbeat only.
StopRereadNothing ==
  /\ Main("rereading", "joining")
  /\ UNCHANGED <<settings, engine, stopCh, pc, rounds, held, api>>

StopReread ==
  /\ Main("rereading", "joining")
  /\ waitFor' = runDone
  /\ UNCHANGED <<settings, engine, stopCh, pc, rounds, grabbed, api>>

StopJoin ==
  /\ Main("joining", "waiting")
  /\ pc["loop"] = "exited"
  /\ UNCHANGED <<settings, engine, stopCh, pc, rounds, held, api>>

StopReturn ==
  /\ Main("waiting", "stopped")
  /\ waitFor = None
  /\ UNCHANGED <<settings, engine, stopCh, pc, rounds, held, api>>

Stop == StopMark \/ StopClose \/ StopFire \/ StopReread \/ StopJoin \/ StopReturn

----------------------------------------------------------------------------
Init ==
  /\ enabled \in BOOLEAN /\ configured \in BOOLEAN
  /\ stopping = FALSE /\ running = FALSE
  /\ cancelRun = None /\ runDone = None
  /\ stopCh = FALSE
  /\ pc = [p \in Runners |-> IF p = "loop" THEN "off" ELSE "idle"]
  /\ ctxDone = [p \in Runners |-> FALSE] /\ partial = [p \in Runners |-> FALSE]
  /\ grabbed = [t \in Threads \cup {"main"} |-> None] /\ waitFor = None
  /\ switch = [t \in Threads |-> "save"] /\ seen = [t \in Threads |-> Unread]
  /\ mainPC = "boot"
  /\ requests = 0 /\ silenced = FALSE

Loop == Beat \/ Tick \/ TickUnread \/ TickRuns \/ Catalog \/ Round("loop")
Serve(t) ==
  \/ RequestRuns(t) \/ CancelFire(t)
  \/ ReadRow(t) \/ (\E s \in Payloads : SaveConnection(t, s)) \/ SetAutoEnabled(t) \/ RowFails(t)
  \/ Round(t)
Finish == StopClose \/ StopFire \/ StopReread \/ StopJoin \/ StopReturn

Next ==
  \/ Start \/ Stop \/ Loop
  \/ \E t \in Threads :
       \/ Serve(t)
       \/ RequestRun(t)
       \/ RequestCancel(t)
       \/ \E s \in Switches : RequestSettings(t, s)
  \/ \E p \in Runners : Timeout(p)

\* Goroutines that can go on do, the select of the heartbeat does not pass over a closed stop
\* channel for ever, and not every one of its readings of the local database fails. Nothing
\* obliges a signal, a request or a timeout to come.
Fairness ==
  /\ WF_vars(Start) /\ WF_vars(Finish)
  /\ WF_vars(Loop) /\ SF_vars(Beat /\ pc'["loop"] = "exited") /\ SF_vars(Tick)
  /\ \A t \in Threads : WF_vars(Serve(t))

Spec == Init /\ [][Next]_vars /\ Fairness

----------------------------------------------------------------------------
\* Properties.

\* The heartbeat and the requests keep to their own control points.
Located ==
  /\ pc \in [Runners -> {"run"} \cup RoundPCs \cup LoopPCs \cup ApiPCs]
  /\ pc["loop"] \notin ApiPCs /\ \A t \in Threads : pc[t] \notin LoopPCs

TypeOK ==
  /\ enabled \in BOOLEAN /\ configured \in BOOLEAN
  /\ stopping \in BOOLEAN /\ running \in BOOLEAN
  /\ stopCh \in BOOLEAN /\ silenced \in BOOLEAN
  /\ cancelRun \in Runners \cup {None} /\ runDone \in Runners \cup {None}
  /\ Located
  /\ ctxDone \in [Runners -> BOOLEAN] /\ partial \in [Runners -> BOOLEAN]
  /\ grabbed \in [Threads \cup {"main"} -> Runners \cup {None}]
  /\ waitFor \in Runners \cup {None}
  /\ switch \in [Threads -> Switches] /\ seen \in [Threads -> Row]
  /\ mainPC \in MainPCs
  /\ requests \in 0..MaxRequests

\* The heartbeat and the requests never run two rounds at a time, and what the engine
\* stores to interrupt a round is the round that runs (RunOnce, Cancel).
OneRound ==
  /\ \A p, q \in Runners : InRound(p) /\ InRound(q) => p = q
  /\ \A p \in Runners : InRound(p) => running /\ cancelRun = p /\ runDone = p

\* When Stop has returned the database may be closed: no round is running, whoever
\* started it, and the heartbeat is gone (Stop, "取消并等待当前轮次退出").
StopMeansQuiet ==
  mainPC = "stopped" => pc["loop"] = "exited" /\ \A p \in Runners : ~InRound(p)

\* A round whose collecting was cut short decides and writes nothing (the checkpoint in
\* runOnce, "不要再基于半截数据做熔断与写回决策").
NoHalfRound == \A p \in Runners : partial[p] => pc[p] \notin {"apply", "persist"}

\* What the engine says of its rounds, and where the round stands that it speaks of.
Active == IF running THEN cancelRun ELSE None
Stage == CASE Active = None -> "none"
           [] Active # None /\ pc[cancelRun] \in {"prepare", "collect", "check"} -> "gathering"
           [] Active # None /\ pc[cancelRun] \in {"apply", "persist"} -> "writing"
           [] OTHER -> "over"
Whole == \A p \in Runners : ~partial[p]
Gate  == IF mainPC = "stopped" THEN "closed" ELSE IF stopping THEN "closing" ELSE "open"

\* The heartbeat, the requests and Stop, each with its own steps, keep the promise of Rounds:
\* the fields under engine.mu tell at every moment whether a round is under way and whose it
\* is, none begins after Stop has, and what is interrupted is not written (RunOnce, Stop).
Orderly == INSTANCE Rounds WITH active <- Active, stage <- Stage, whole <- Whole, gate <- Gate
OrderlyRounds == Orderly!RoundsSpec

\* Stop returns, whatever round, request or heartbeat it meets.
StopReturns == stopping ~> mainPC = "stopped"

\* As long as the switch stays on, the row names a sub2api and its key, and nobody stops the
\* engine, rounds go on for ever, whatever came before: cancellations, rounds that hang, fail or
\* are refused, settings that were incomplete or could not be read (Start's loop, tick).
HeartbeatGoesOn ==
  <>[](enabled /\ configured /\ ~stopping) => []<>(\E p \in Runners : pc[p] = "leave")

\* Once the switch stays off, at most a round already on its way is left.
QuietInTheEnd == <>[]~enabled => <>[]~InRound("loop")

\* Cancel, "只是不再探测、不再熔断、不再写回": once it has returned, and until somebody asks to
\* resume, the heartbeat has no round under way that would still collect or write.
QuietAfterCancel ==
  silenced => ~(pc["loop"] \in {"collect", "apply"} /\ ~ctxDone["loop"])
============================================================================

------------------------------- MODULE RunLog -------------------------------
(***************************************************************************)
(* What the history of model checks promises (store/modelcheck.go,         *)
(* table model_check_runs): a run is recorded as running before it makes a *)
(* request, a target has one live run at a time, a run that has ended      *)
(* keeps its result, and a record left running without a live run, by a    *)
(* crash or a lost save, is closed when the service starts, before it      *)
(* starts any run.                                                         *)
(***************************************************************************)
EXTENDS Integers, Sequences

CONSTANTS
  Keys   \* the account and model pairs that can be checked

VARIABLES
  log,   \* the records: [key, open]
  held   \* [Keys -> Nat]: the record of the live run of a key, 0 without one

logVars == <<log, held>>

LogInit == log = <<>> /\ held = [k \in Keys |-> 0]

LogTypeOK ==
  /\ log \in Seq([key : Keys, open : BOOLEAN])
  /\ held \in [Keys -> 0..Len(log)]

Open(k) ==
  /\ held[k] = 0
  /\ log' = Append(log, [key |-> k, open |-> TRUE])
  /\ held' = [held EXCEPT ![k] = Len(log) + 1]

\* The live run of k ends: its record is closed, or the save of it is lost.
Close(k) ==
  /\ held[k] # 0
  /\ \/ log' = [log EXCEPT ![held[k]].open = FALSE]
     \/ log' = log
  /\ held' = [held EXCEPT ![k] = 0]

\* The service dies with its runs.
Die ==
  /\ held' = [k \in Keys |-> 0]
  /\ log' = log

\* The service starts: no run is live, every record is closed.
Recover ==
  /\ held = [k \in Keys |-> 0]
  /\ log' = [i \in 1..Len(log) |-> [log[i] EXCEPT !.open = FALSE]]
  /\ held' = held

LogNext == (\E k \in Keys : Open(k) \/ Close(k)) \/ Die \/ Recover

LogFairness == \A k \in Keys : WF_logVars(Close(k))

LogSpec == LogInit /\ [][LogNext]_logVars /\ LogFairness

----------------------------------------------------------------------------
\* An ended run stays as it is, and records are never removed.
Final == [][/\ Len(log') >= Len(log)
            /\ \A i \in 1..Len(log) : /\ log'[i].key = log[i].key
                                      /\ log'[i].open => log[i].open]_logVars

\* The live run of a key has a running record of that key.
HeldOpen == \A k \in Keys : held[k] # 0 =>
              held[k] \in 1..Len(log) /\ log[held[k]].key = k /\ log[held[k]].open
=============================================================================

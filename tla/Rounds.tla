------------------------------- MODULE Rounds -------------------------------
(***************************************************************************)
(* What the engine promises about its rounds, whoever asks for them (the   *)
(* comments on RunOnce, Cancel and Stop): there is one round at a time, it *)
(* gathers before it writes, and writes only on what it has gathered       *)
(* whole; after Stop has begun no round begins, and Stop returns when none *)
(* is left.                                                                *)
(*                                                                         *)
(* ChannelSync and Cleanup rely on it: what they call the round is one     *)
(* worker that starts anew only when it is idle.                           *)
(***************************************************************************)
CONSTANTS
  Runners,   \* who may run a round
  None       \* nobody

VARIABLES
  active,    \* who runs a round, or None
  stage,     \* "none", "gathering", "writing", "over"
  whole,     \* nothing of what the round gathers is missing
  gate       \* "open", "closing", "closed"

roundsVars == <<active, stage, whole, gate>>

RoundsInit == active = None /\ stage = "none" /\ whole = TRUE /\ gate = "open"

Begin ==
  /\ gate = "open" /\ active = None
  /\ active' \in Runners
  /\ stage' = "gathering" /\ whole' = TRUE
  /\ UNCHANGED gate

\* The rest of the accounts is dropped, because the round is interrupted.
Spoil ==
  /\ stage = "gathering"
  /\ whole' = FALSE
  /\ UNCHANGED <<active, stage, gate>>

Commit ==
  /\ stage = "gathering" /\ whole
  /\ stage' = "writing"
  /\ UNCHANGED <<active, whole, gate>>

\* A round is over when it has written, or before.
Conclude ==
  /\ stage \in {"gathering", "writing"}
  /\ stage' = "over"
  /\ UNCHANGED <<active, whole, gate>>

End ==
  /\ stage = "over"
  /\ active' = None /\ stage' = "none" /\ whole' = TRUE
  /\ UNCHANGED gate

Close ==
  /\ gate = "open" /\ gate' = "closing"
  /\ UNCHANGED <<active, stage, whole>>

Shut ==
  /\ gate = "closing" /\ active = None
  /\ gate' = "closed"
  /\ UNCHANGED <<active, stage, whole>>

RoundsNext == Begin \/ Spoil \/ Commit \/ Conclude \/ End \/ Close \/ Shut

RoundsSpec == RoundsInit /\ [][RoundsNext]_roundsVars
=============================================================================

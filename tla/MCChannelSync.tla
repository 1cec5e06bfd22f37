--------------------------- MODULE MCChannelSync ---------------------------
(***************************************************************************)
(* ChannelSync with one tuned field of two values, the account found at    *)
(* the lower one and in service.                                           *)
(***************************************************************************)
EXTENDS ChannelSync, TLC

MCTuned     == {"priority"}
MCValues    == {1, 2}
MCOriginal  == ("priority" :> 1) @@ ("sched" :> 1)

\* For liveness: only the schedulable flag, and the operations that set a health.
MCDeciding  == {"fuse", "pause", "resume", "recover"}
MCNoTuned   == {}
MCOnlySched == "sched" :> 1

MCWatched   == Fields
MCUnwatched == {}

\* Ownership speaks only of clean behaviours, and what is not clean stays so: states that
\* are not clean need not be explored further to check it.
OnlyClean == clean
============================================================================

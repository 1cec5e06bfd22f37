------------------------- MODULE MCEngineLifecycle -------------------------
(***************************************************************************)
(* EngineLifecycle with two API goroutines and a handful of requests. The  *)
(* goroutines are interchangeable, but liveness is checked too, so no      *)
(* symmetry is used.                                                       *)
(***************************************************************************)
EXTENDS EngineLifecycle, TLC

CONSTANTS t1, t2

MCThreads == {t1, t2}
============================================================================

---------------------------- MODULE MCModelCheck ----------------------------
(* An instance of ModelCheck for TLC. *)
EXTENDS ModelCheck

MCKeys    == {"a"}
MCHands   == {"hand"}
MCTargets == {[key |-> "a", expected |-> "m"], [key |-> "a", expected |-> ""]}
MCProto   == [k \in {"a"} |-> "messages"]
MCStreams == {<<"text", "stop", "end">>, <<"text", "stop">>, <<"text", "end">>,
              <<"text", "cut">>, <<"text", "stop", "error">>, <<"text">>}
=============================================================================

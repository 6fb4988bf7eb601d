---------------------------- MODULE MCNativeTurn ----------------------------
(* NativeTurn with a turn of the user, the demo, on the same thread, and a *)
(* request of the HTTP API.                                                *)
EXTENDS NativeTurn

CONSTANTS u1, u2, d1, q1, first

MCThreadOf == [h \in Handlers |-> first]
MCChat == [h \in Handlers |-> "chat"]
MCModeOf == [a \in Actors |-> IF a = q1 THEN "full" ELSE IF a = u1 THEN "ask" ELSE "auto"]
MCResponses == {<<>>, <<"edit">>, <<"run">>, <<"fail">>}
=============================================================================

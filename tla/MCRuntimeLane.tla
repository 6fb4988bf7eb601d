--------------------------- MODULE MCRuntimeLane ---------------------------
(* RuntimeLane with one handler of each kind, two or three or four of them *)
(* at a time, and two profiles; each handler has the profile its name ends *)
(* with.                                                                   *)
EXTENDS RuntimeLane

CONSTANTS turnA, turnB, createB, queryA, commandB, pollB, secretB, restart, A, B

MCKindOf ==
    [h \in Handlers |->
        CASE h \in {turnA, turnB} -> "turn"
          [] h = createB -> "create"
          [] h = queryA -> "query"
          [] h = commandB -> "command"
          [] h = pollB -> "poll"
          [] h = secretB -> "secret"
          [] h = restart -> "restart"]

MCProfileOf == [h \in Handlers |-> IF h \in {turnA, queryA} THEN A ELSE B]
=============================================================================

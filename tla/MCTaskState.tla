---------------------------- MODULE MCTaskState ----------------------------
(* TaskState with two tasks, the threads t1 of route a and t2 of route b,  *)
(* and one more thread to make for route a.  r1 and r2 are requests of any *)
(* kind and may overlap; r3 is a save, a snapshot or an opening of the     *)
(* project when neither is at work.  MCDriftMenu: a plan update, which the *)
(* reader of the app-server delivers, and the creation of a task.          *)
EXTENDS TaskState

CONSTANTS r1, r2, r3, t1, t2, t3, a, b

MCMenu == [r \in Requests |-> IF r = r3 THEN {"save", "snapshot", "open"} ELSE Kinds]
MCDriftMenu ==
    [r \in Requests |->
        CASE r = r1 -> {"notify"} [] r = r2 -> {"create"} [] OTHER -> {}]
MCTogether == {{r1}, {r2}, {r1, r2}, {r3}}
MCApart == {{"tool"}, {"tool", "turn"}}
MCSymmetry == Permutations({r1, r2})
MCRouteOf == [t \in Threads |-> IF t \in {t1, t3} THEN a ELSE b]
MCExisting == <<t1, t2>>
=============================================================================

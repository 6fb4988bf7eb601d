--------------------------- MODULE MCModalService ---------------------------
(* ModalService with one request of each kind the checks need, in one turn *)
(* or, for the legacy one, in none.                                        *)
EXTENDS ModalService

CONSTANTS command, permission, legacy, question, turn, noTurn

MCTurnOf == [m \in Modals |-> IF m = legacy THEN noTurn ELSE turn]

MCMethodOf ==
    [m \in Modals |->
        CASE m = command -> "command"
          [] m = permission -> "permissions"
          [] m = legacy -> "legacy"
          [] m = question -> "user_input"]
=============================================================================

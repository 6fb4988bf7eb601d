CONSTANTS
    command = command
    permission = permission
    legacy = legacy
    question = question
    fake = fake
    turn = turn
    noTurn = noTurn
    Turns = {turn}
    TurnOf <- MCTurnOf
    MethodOf <- MCMethodOf
    Modals = {permission, question, legacy}
    Fakes = {fake}
    Patient = {permission}
SPECIFICATION ModalFairSpec
INVARIANTS
    DecisionIsHonoured
    GrantNeedsApproval
PROPERTIES
    ModalsEnd
CHECK_DEADLOCK FALSE

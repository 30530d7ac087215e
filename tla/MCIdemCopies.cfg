SPECIFICATION FairSpec
CONSTANTS
    Attempts = {a1, a2, a3}
    Earlier = Earlier
    None = None
INVARIANTS
    SingleExecution
    AnswerExecuted
PROPERTIES
    KeyRecovers
CHECK_DEADLOCK FALSE

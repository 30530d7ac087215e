SPECIFICATION Spec
CONSTANTS
    Attempts = {a1, a2}
    Earlier = Earlier
    None = None
INVARIANTS
    AtMostOnce
CHECK_DEADLOCK FALSE

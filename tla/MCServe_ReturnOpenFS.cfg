CONSTANTS
    Handlers = {r1, r2, r3}
SPECIFICATION Spec
INVARIANTS ReturnAfterFSClosed
CHECK_DEADLOCK FALSE

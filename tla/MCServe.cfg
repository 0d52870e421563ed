CONSTANTS
    Handlers = {r1, r2, r3}
SPECIFICATION Spec
INVARIANTS TypeOK
PROPERTY InterruptStopsServe
CHECK_DEADLOCK FALSE

SPECIFICATION Spec
CONSTANTS
    Requests = {r1}
    Bindings = {b1, b2}
    Conns = {c1, c2}
    None = None
    MaxMessages = 3
    MaxExits = 2
INVARIANTS
    AtMostOnce
    SameAnswer
    WriteAhead
PROPERTIES
    ImplementsOnce
CHECK_DEADLOCK FALSE

SPECIFICATION Spec
CONSTANTS
    Objects = {a, b, c}
    First = a
    NoObject = none
    Ops = {p, q, r}
INVARIANTS ExceptionsSurface
PROPERTIES RunOutlivesHandlers JoinEnds
CHECK_DEADLOCK FALSE

SPECIFICATION Spec
CONSTANTS
    Objects = {a, b, c}
    First = a
    NoObject = none
    Ops = {p, q, r}
INVARIANTS ImplOutlivesHandlers
CHECK_DEADLOCK FALSE

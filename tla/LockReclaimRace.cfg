SPECIFICATION Spec
CONSTANTS
    p1 = p1
    p2 = p2
    p3 = p3
    Nobody = Nobody
    Procs = {p1, p2, p3}
    Mortal = {p1}
    Fallible = {}
CHECK_DEADLOCK FALSE
INVARIANTS
    OneHolder

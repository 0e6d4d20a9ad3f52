\* A code created with blanks around it through REST.
CONSTANTS
    Workers = {w1}
    Codes = {c1}
    Terms = {t1}
    Users = {}
    Spellings <- BareAndPadded
    Faults <- NoFaults
    MaxCapacity = 1
    MaxOps = 3
    None = None
SPECIFICATION Spec
INVARIANT Attribution

\* Two updates of one code at once.
CONSTANTS
    Workers = {w1, w2}
    Codes = {c1}
    Terms = {t1}
    Users = {}
    Spellings <- BareOnly
    Faults <- NoFaults
    MaxCapacity = 2
    MaxOps = 3
    None = None
SPECIFICATION Spec
INVARIANT ChangesAreTrue

\* Four requests on one code, two at a time, with activations; commits may fail.
CONSTANTS
    Workers = {w1, w2}
    Codes = {c1}
    Terms = {t1}
    Users = {u1}
    Spellings <- BareOnly
    Faults <- ConcurrentFaults
    MaxCapacity = 1
    MaxOps = 4
    None = None
SPECIFICATION Spec
SYMMETRY Alike
INVARIANTS
    AuditOrder
    ActivatedHasRow
    DisabledIsSpent
    RowsLiveOnce
    Attribution
    UneditedCapacityAddsUp

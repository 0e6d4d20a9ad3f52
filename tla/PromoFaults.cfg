\* Two workers, three requests, activations, and every fault.
CONSTANTS
    Workers = {w1, w2}
    Codes = {c1}
    Terms = {t1}
    Users = {u1}
    Spellings <- BareOnly
    Faults <- AllFaults
    MaxCapacity = 1
    MaxOps = 3
    None = None
SPECIFICATION FairSpec
INVARIANTS
    TypeOK
    CommittedIsSaved
    AnsweredIsCommitted
    TornWriteCostsOneRecord
PROPERTIES
    WriteAhead
    EveryRequestEnds

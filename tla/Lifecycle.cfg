\* Updates, REST requests and report jobs in flight when the signal comes.
CONSTANTS
    Updates = {u1, u2}
    Rests = {q1}
    Jobs = {j1}
    MaxPages = 2
SPECIFICATION FairSpec
INVARIANTS
    TypeOK
    HandlersEndFirst
    ReportsEndFirst
    TransactionsCanBeAudited
    LaterReportsSurvive
PROPERTY ShutdownEnds

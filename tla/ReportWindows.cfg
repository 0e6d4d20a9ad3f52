\* Two runs of the schedule, four ticks apart; two changes of one code.
CONSTANTS
    Codes = {c1}
    Settings <- Environments
    Interval = 4
    Week = 4
    DurationRange = 16
    MaxReportPeriodWeeks = 3
    DefaultReportPeriodWeeks = 2
    DefaultReportEventsPeriodWeeks = 1
    MaxReportPagesAllowed = 2
    DefaultReportMaxPages = 2
    Capacity = 1
    MaxLag = 1
    MaxChanges = 2
    MaxStops = 1
    MaxTime = 9
    None = None
SPECIFICATION Spec
INVARIANTS
    WindowsLieInThePast
    EventsAreReportedOnce
    LivingCodesAreReported
    NeverActivatedIsTrue
    CreditsItsCreation

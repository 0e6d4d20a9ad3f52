\* A number of days that is too many for a duration: nine days wrap to one.
CONSTANTS
    Users = {u1}
    Admins = {u1}
    Rest = rest
    Codes = {c1}
    Lengths <- LengthWords
    Capacities <- CapacityWords
    Dates <- ManyDays
    Day = 4
    DurationRange = 16
    MaxTime = 5
    MaxBegun = 1
    None = None
SPECIFICATION Spec
INVARIANT RequestsAreAsSaid

\* An admin and a REST client; an evening, its midnight, two requests.
CONSTANTS
    Users = {u1}
    Admins = {u1}
    Rest = rest
    Codes = {c1}
    Lengths <- LengthWords
    Capacities <- CapacityWords
    Dates <- DateWords
    Day = 4
    DurationRange = 16
    MaxTime = 5
    MaxBegun = 2
    None = None
SPECIFICATION Spec
INVARIANTS
    GroupsAreLeftAlone
    RequestsAreAsSaid
    ValidityIsNotEmpty

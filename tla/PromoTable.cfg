\* Two presses served at once while the table changes.
CONSTANTS
    Codes = {1, 2, 3, 4}
    Columns <- CapacityColumn
    Values = {0, 1}
    Searched = {1, 3, 4}
    Presses = {p1, p2}
    PageSize = 2
    MaxChanges = 1
    MaxPresses = 2
    None = None
SPECIFICATION Spec
SYMMETRY Alike
INVARIANTS
    PlacesAreRight
    WalkSeesEachCodeOnce
    ButtonsLeadSomewhere
    FilterIsKept

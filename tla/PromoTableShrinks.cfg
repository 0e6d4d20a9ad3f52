\* The table shrinks below the page a button leads to.
CONSTANTS
    Codes = {1, 2, 3}
    Columns <- CapacityColumn
    Values = {0, 1}
    Searched = {1, 3}
    Presses = {p1}
    PageSize = 2
    MaxChanges = 1
    MaxPresses = 1
    None = None
SPECIFICATION Spec
PROPERTY NoPromoIsTrue

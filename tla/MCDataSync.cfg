CONSTANTS
    o1 = o1
    x = x
    y = y
    Absent = Absent
    NaN = NaN
    MaxWork = 4
    Observers <- MCObservers
    Attributes <- MCAttributes
SYMMETRY Alike
CHECK_DEADLOCK FALSE
SPECIFICATION Spec
INVARIANTS
    TypeOK
    ObserversAreFaithful
    SavedCopyFollows
PROPERTIES
    UpdatesNeverGoBack

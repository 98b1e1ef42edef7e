CONSTANTS
    o1 = o1
    x = x
    y = y
    Absent = Absent
    NaN = NaN
    MaxWork = 4
    Observers <- MCObservers
    Attributes <- MCAttributes
CHECK_DEADLOCK FALSE
SPECIFICATION Spec
PROPERTY
    EarlyUpdatesAreApplied

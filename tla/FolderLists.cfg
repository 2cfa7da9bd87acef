\* A folder comes, one goes and is renamed, with failing calls and stale reads.
CONSTANTS
    a = a
    b = b
    n = n
    d = d
    ta = ta
    Class = class
    Names = {a, b, n, d}
    Students = {}
    Staff = {ta}
    Order <- MCOrder
    Requests = {r1, r2}
    Jobs <- MCJobs
    Start <- MCStart
    MaxAttempts = 2
    MaxLen = 3
    Stale = TRUE
    Faults = TRUE
SPECIFICATION Spec
SYMMETRY RequestSymmetry
INVARIANT TypeOK
PROPERTIES
    DeletesSpareOthers
    VisitedListsAreClean
    
CHECK_DEADLOCK FALSE

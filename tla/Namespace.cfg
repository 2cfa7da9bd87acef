\* Two requests on folders, with failing calls, lost replies, dying servers and
\* stale queries.
CONSTANTS
    fo = fo
    ba = ba
    x = x
    s1 = s1
    s2 = s2
    s3 = s3
    s4 = s4
    Self = slash
    None = none
    Names <- MCNames
    Entries = {x}
    Order <- MCOrder
    PageEnds = {5, 8}
    Seeds = {s1, s2, s3, s4}
    Start <- MCStart
    Requests = {r1, r2}
    Jobs <- MCJobs
    Faults = TRUE
    Stale = TRUE
SPECIFICATION Spec
SYMMETRY RequestSymmetry
INVARIANTS
    TypeOK
    
PROPERTY RemovalsStayInside

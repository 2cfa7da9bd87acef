\* What report.md says of the permissions: student work is private.
CONSTANTS
    khoury = khoury
    cs101 = cs101
    info = info
    bob = bob
    alice = alice
    ann = ann
    x = x
    y = y
    b = b
    a = a
    prof = prof
    ta = ta
    Names <- MCNames
    Begins = {}
    ClassInfo = info
    College = khoury
    Class = cs101
    Students = {b, a}
    Staff = {prof, ta}
    EmailName <- MCEmailName
    Order <- MCOrder
    StartRows <- MCStartRows
    StartLists <- MCStartLists
    Requests <- MCSharedRequests
    MaxDepth = 2
    MaxTorn = 1
SPECIFICATION Spec
INVARIANT HomesStayPrivate

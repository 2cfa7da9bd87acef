\* Two requests of one user up to and past the end of a session.
CONSTANTS
    khoury = khoury
    cs101 = cs101
    bob = bob
    Names = {khoury, cs101, bob}
    Dirs <- MCDirs
    DownArgs <- MCDownArgs
    Requests = {r1, r2}
    SessionTTL = 1
    MaxTime = 3
SPECIFICATION Spec
SYMMETRY RequestSymmetry
INVARIANTS
    TypeOK
    NoImmortalSession
    AbortsAreJustified
PROPERTIES
    StepwiseNavigation
    OnlyRacesEndLiveSessions

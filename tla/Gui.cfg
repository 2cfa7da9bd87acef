\* Two users take turns at one window, with one transfer at a time.
CONSTANTS
    Users = {u1, u2}
    Dirs = {root, d}
    Root = root
    Transfers = {t1}
    None = None
SPECIFICATION Spec
INVARIANTS
    TypeOK
    WindowInStep
    LoginsShareNothing
    

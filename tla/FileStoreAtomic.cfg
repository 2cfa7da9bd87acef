\* Uploads and downloads alone are atomic.
CONSTANTS
    Files = {f}
    Ops = {o1, o2, o3}
    Kinds = {"upload", "download"}
    Sizes = {0, 2}
    Faults = TRUE
    Disconnects = TRUE
    Stale = TRUE
    Seed = seed
    None = none
SPECIFICATION Spec
SYMMETRY OpSymmetry
INVARIANT DownloadsComplete
PROPERTY ImplementsAtomicStore

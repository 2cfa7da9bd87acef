\* Three operations of any kind on two names, with failing calls, lost replies,
\* dying servers and stale reads.
CONSTANTS
    Files = {f, g}
    Ops = {o1, o2, o3}
    Kinds = {"upload", "download", "delete", "rename"}
    Sizes = {2}
    Faults = TRUE
    Disconnects = FALSE
    Stale = TRUE
    Seed = seed
    None = none
SPECIFICATION Spec
SYMMETRY OpSymmetry
INVARIANTS
    TypeOK
    DownloadsComplete
    UntouchedFilesReadable
    RemovalsNeverExceedCreations
    NoContentLeftBehind

\* Renames race, and nothing else goes wrong.
CONSTANTS
    Files = {f, g}
    Ops = {o1, o2}
    Kinds = {"rename"}
    Sizes = {1}
    Faults = FALSE
    Disconnects = FALSE
    Stale = FALSE
    Seed = seed
    None = none
SPECIFICATION Spec
SYMMETRY OpSymmetry
INVARIANT FilesAreReadable

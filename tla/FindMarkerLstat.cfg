SPECIFICATION Spec
CONSTANTS
    None = None
    Disks = {cow, data}
    MaxRestores = 1
    MaxFaults = 3
    LstatFails = TRUE
INVARIANT NeverMixed

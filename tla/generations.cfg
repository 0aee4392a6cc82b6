SPECIFICATION Spec
CONSTANTS
    Calls = {s1, s2, s3, s4}
    Configs = {none, one, two}
    Empty = none
    EmptyGen = EmptyGen
    NoLink = NoLink
    Absent = Absent
    Partial = Partial
    Free = Free
    Faults = {"reject", "timeout", "io", "cancel", "late", "crash"}
SYMMETRY CallSymmetry
INVARIANTS
    BirdTypeOK
    CurrentIsComplete
    InStep
PROPERTIES
    StartupLoads
    ActsAsRegister

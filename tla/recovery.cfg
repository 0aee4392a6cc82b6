SPECIFICATION Spec
CONSTANTS
    Keys = {k1, k2}
    TestKeys = {}
    Cfgs = {c1, c2}
    NumPorts = 1
    Preferred <- MCPreferred
    MaxId = 2
    NoRow = NoRow
    Requests = {r1}
    Listener = listener
    Reconcilers = {}
    Free = Free
    NoIface = NoIface
    Unaliased = Unaliased
    Mixed = Mixed
    NoPort = NoPort
    NoCfg = NoCfg
    NoKey = NoKey
    Initial <- NoneOrDisabled
    MaxStrays = 1
    MaxAdmin = 2
    MaxCrash = 1
SYMMETRY MachineSymmetry
INVARIANTS
    BirdCovered
    DeletedStaysGone
PROPERTIES
    KeepsOutbox
    RecoveryRepairs

SPECIFICATION Spec
CONSTANTS
    Keys = {k1, k2}
    TestKeys = {k2}
    Cfgs = {c1, c2}
    NumPorts = 2
    Preferred <- MCPreferred
    MaxId = 2
    NoRow = NoRow
    Requests = {r1, r2}
    Listener = listener
    Reconcilers = {}
    Free = Free
    NoIface = NoIface
    Unaliased = Unaliased
    Mixed = Mixed
    NoPort = NoPort
    NoCfg = NoCfg
    NoKey = NoKey
    Initial <- NoneOrOne
    MaxStrays = 0
    MaxAdmin = 1
    MaxCrash = 0
SYMMETRY RequestSymmetry
INVARIANTS
    MutualExclusion
    DeletedStaysGone
PROPERTIES
    KeepsOutbox
    SuccessMeansApplied

SPECIFICATION Spec
CONSTANTS
    Keys = {k1, k2}
    TestKeys = {}
    Cfgs = {c1}
    NumPorts = 2
    Preferred <- MCPreferred
    MaxId = 2
    NoRow = NoRow
    Requests = {r1, r2}
    Listener = listener
    Reconcilers = {}
    Free = Free
    NoIface = NoIface
    Unaliased = Unaliased
    Mixed = Mixed
    NoPort = NoPort
    NoCfg = NoCfg
    NoKey = NoKey
    Initial <- NoneOrOne
    MaxStrays = 0
    MaxAdmin = 0
    MaxCrash = 0
SYMMETRY MachineSymmetry
INVARIANTS
    DeleteRemovesBird

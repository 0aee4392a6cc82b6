SPECIFICATION LiveSpec
CONSTANTS
    Keys = {k1}
    TestKeys = {}
    Cfgs = {c1}
    NumPorts = 1
    Preferred <- MCPreferred
    MaxId = 1
    NoRow = NoRow
    Requests = {r1}
    Listener = listener
    Reconcilers = {rec}
    Free = Free
    NoIface = NoIface
    Unaliased = Unaliased
    Mixed = Mixed
    NoPort = NoPort
    NoCfg = NoCfg
    NoKey = NoKey
    Initial <- NoneOrOne
    MaxStrays = 1
    MaxAdmin = 1
    MaxCrash = 1
PROPERTIES
    Converges
    PortsConverge
    LocksReleased

SPECIFICATION Spec
CONSTANTS
    key1 = key1
    key2 = key2
    Host = Host
    host = host
    addr1 = addr1
    addr2 = addr2
    PubKeys = {key1, key2}
    Hosts = {Host}
    Normalize <- MCNormalize
    BadHost = BadHost
    Mtus = {9000}
    DefaultMtu = 1420
    AutoLocal = AutoLocal
    AutoRemote = AutoRemote
    LocalTexts = {addr1}
    RemoteTexts = {addr1, addr2}
    BadAddress = BadAddress
    Absent = Absent
    Null = Null
    None = None
    Addresses <- MCAddresses
    Requests <- MCRequests
INVARIANTS
    SettingsTypeOK
PROPERTIES
    AppliedAsAsked
    AllOrNothing
    RefusedChangesNothing
    Repaired

SPECIFICATION Spec
CONSTANTS
    s1 = s1
    s2 = s2
    mtuLow = mtuLow
    mtuGood = mtuGood
    NoMtu = NoMtu
    NoSettings = NoSettings
    NoServer = NoServer
    Methods = {"direct"}
    Details = {"d1"}
    Toggles = {"ToggleLan"}
    Blockers = {"ads"}
    Servers = {s1, s2}
    Mtus = {NoMtu}
    ValidMtus = {NoMtu}
    InitialServers <- MCOneServer
    Faults = FALSE
    OthersWrite = FALSE
    MaxServers = 2
    MaxRev = 3
PROPERTY WriteChangesOneThing

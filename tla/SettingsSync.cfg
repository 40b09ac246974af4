SPECIFICATION Spec
CONSTANTS
    s1 = s1
    s2 = s2
    NoMtu = NoMtu
    mtuLow = mtuLow
    mtuGood = mtuGood
    NoSettings = NoSettings
    NoServer = NoServer
    Methods = {"direct"}
    Details = {"d1", "d2"}
    Toggles = {"ToggleLan"}
    Blockers = {"ads"}
    Servers = {s1, s2}
    Mtus = {NoMtu, mtuLow, mtuGood}
    ValidMtus = {NoMtu, mtuGood}
    InitialServers <- MCTwoServers
    Faults = TRUE
    OthersWrite = TRUE
    MaxServers = 2
    MaxRev = 3
INVARIANT FeedCatchesUp
INVARIANT ConfirmationStillComing
INVARIANT SuccessIsVisible
PROPERTY CacheNeverGoesBack
PROPERTY FreshWriteDoesWhatWasAsked
PROPERTY SettlesOrMissed

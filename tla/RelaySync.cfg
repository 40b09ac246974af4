SPECIFICATION Spec
CONSTANTS
    CustomTunnel = CustomTunnel
    NoSettings = NoSettings
    Locations <- MCLocations
    IpVersions = {"any"}
    AnyIp = "any"
    Modes = {"Auto", "Udp2Tcp"}
    PortModes = {"Udp2Tcp"}
    Ports = {0, 80}
    AnyPort = 0
    DefaultMode = "Auto"
    InitialConstraints <- MCAnyConstraints
    Hosts = {"h1"}
    OthersWrite = TRUE
    MaxRev = 3
INVARIANT TypeOK
PROPERTY WritesAreSingleEdits
PROPERTY PicksKeepNodesApart

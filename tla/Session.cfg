SPECIFICATION Spec
CONSTANTS
    LoggedOut = LoggedOut
    Revoked = Revoked
    None = None
    Accounts = {a, b}
    UserOps = {"Login", "Logout", "SubmitVoucher", "RotateWireGuardKey", "ListDevices", "RemoveDevice"}
    Faults = TRUE
    OthersAct = TRUE
    MaxQueue = 2
INVARIANT FeedCatchesUp
INVARIANT DataIsTheAccounts
INVARIANT VerdictStillComing
PROPERTY AcceptedSucceeds

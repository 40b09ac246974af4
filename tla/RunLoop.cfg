SPECIFICATION Spec
CONSTANTS
    Linux = TRUE
    ListRows = 2
    ValidMtu = {m1}
    NoMtu = NoMtu
    BadMtu = BadMtu
    PAGE_STEP_ROWS = 2
    MaxNotes = 3
    MaxPushes = 2
INVARIANTS
    RunLoopTypeOK
    EveryWidgetIsReachable
    BreadcrumbTellsTheWayBack
    ConfirmNeedsAMove
PROPERTIES
    PopupsReturnToOpener
    PopupShieldsPage
    LeavingTheFieldCommits

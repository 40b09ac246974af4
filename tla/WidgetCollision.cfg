SPECIFICATION Spec
CONSTANTS
    Linux = FALSE
    ListRows = 22
    ValidMtu = {m1}
    NoMtu = NoMtu
    BadMtu = BadMtu
    PAGE_STEP_ROWS = 2
    MaxNotes = 2
    MaxPushes = 1
INVARIANT
    OverlayIdsAreApart

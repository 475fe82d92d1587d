SPECIFICATION Spec
CONSTANTS
  Threads = {t1, t2}
  Handles = {h1, h2}
  None = None
  MaxCalls = 2
  PlatformInitRequired = FALSE
  MessengerMayFail = TRUE
  InitSerialised = FALSE
SYMMETRY Symmetry
INVARIANTS
  RuntimeLoadedInUse

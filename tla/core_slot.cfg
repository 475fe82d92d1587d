SPECIFICATION Spec
CONSTANTS
  Threads = {t1, t2}
  Handles = {h1, h2}
  None = None
  MaxCalls = 3
  PlatformInitRequired = TRUE
  MessengerMayFail = FALSE
  InitSerialised = TRUE
SYMMETRY Symmetry
INVARIANTS
  NoStrandedInstance
  NeverTwoInstances
PROPERTIES
  ImplementsSlot
  FailedCreateCleansUp

SPECIFICATION FairSpec
CONSTANTS
  Threads = {t1, t2, t3}
  Handles = {h1, h2}
  None = None
  MaxCalls = 2
  PlatformInitRequired = FALSE
  MessengerMayFail = TRUE
  InitSerialised = TRUE
INVARIANTS
  RuntimeLoadedInUse
  InstancesNeedRuntime
  GrantedHandleWorks
  TablePresentForMessenger
  MessengerDiesFirst
PROPERTIES
  EveryCallReturns

SPECIFICATION DFairSpec
CONSTANTS
  r1 = r1
  r2 = r2
  i1 = i1
  i2 = i2
  i3 = i3
  e1 = e1
  e2 = e2
  debug_utils = debug_utils
  hand_tracking = hand_tracking
  standard = standard
  own = own
  On = On
  Manifests = {r1, r2}
  Extensions = {debug_utils, hand_tracking}
  None = None
  PlatformInitRequired = TRUE
  Environments <- MCEnvironments
  PropertyLists <- MCPropertyLists
  Implicit <- MCImplicit
  Explicit <- MCExplicit
  Default = standard
  Empty = Empty
  Valid <- MCValid
  LayerName <- MCLayerName
  EnableVar <- MCEnableVar
  DisableVar <- MCDisableVar
  Listing <- MCListing
  VersionOf <- MCVersionOf
  DebugUtils = debug_utils
  LoaderVersion = 2
  MaxCapacity = 4
INVARIANTS
  RuntimeLibraryOwned
  LoadAnswersTruly
  ExtensionsAreInstalledOnes
  NothingLoadedUninitialised
  RuntimeInitialisedOnce
  AnswerIsComplete
  DisabledStaysDisabled
  RuntimeFollowsOverride
PROPERTIES
  ImplementsLoading
  CallsReturn

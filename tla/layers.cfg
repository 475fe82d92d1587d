SPECIFICATION ChainFairSpec
CONSTANTS
  m1 = m1
  m2 = m2
  m3 = m3
  overlay = overlay
  validation = validation
  absent = absent
  debug_utils = debug_utils
  visibility = visibility
  Term = Term
  Manifests <- MCManifests
  Names <- MCNames
  NameOf <- MCNameOf
  MaxNames = 1
  Extensions <- MCExtensions
  DebugUtils = debug_utils
  SupportedBy <- MCSupportedBy
  Offers <- MCOffers
INVARIANTS
  LibrariesOwned
  PlanIsSelection
  CreationIsEarned
  InitForwardedOnce
  PlannedOrderKept
  CalledInOrder
  ExtensionsHonoured
  LayersOutliveInstance
PROPERTIES
  CreationReturns

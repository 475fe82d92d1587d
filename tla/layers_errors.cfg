SPECIFICATION Spec
CONSTANTS
  m1 = m1
  m2 = m2
  m3 = m3
  overlay = overlay
  validation = validation
  absent = absent
  Manifests <- MCManifests
  Names <- MCNames
  NameOf <- MCNameOf
  MaxNames = 1
PROPERTIES
  OneLoadedClearsErrors

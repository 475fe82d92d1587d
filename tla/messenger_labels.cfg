SPECIFICATION Spec
CONSTANTS
  Threads = {t1, t2}
  Instances = {i1}
  Messengers = {m1, m2}
  LabelIds = {l1}
  None = None
  Severities <- MCSeverities
  Requests <- MCRequests
  Logged <- MCLogged
  Submitted <- MCSubmitted
  LoaderDebug = {"", "none"}
  LabelsSerialised = FALSE
  MaxCalls = 4
  MaxLabels = 1
SYMMETRY Symmetry
INVARIANTS
  MetadataPersists

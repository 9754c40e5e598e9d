CONSTANTS
  text = text  summary = summary  picture = picture  t1 = t1  t2 = t2
  Ids = {i1, i2}
  NoManifest = NoManifest
  Contents = {text, summary, picture}
  Summaries = {summary}
  MediaOf <- ThreeMedia
  Scanners <- AllScanners
  Guard <- Settings8
  Routes <- OneRoute
  Threads = {t1, t2}
  Retention = 1
  MaxClock = 2
  MaxFaults = 2
SYMMETRY IdAndThreadSymmetry
SPECIFICATION Spec
INVARIANTS DeliversWhatPassed AcknowledgedRemains BlobKept
PROPERTIES CompletedRunCleans
CHECK_DEADLOCK FALSE

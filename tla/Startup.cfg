\* Two workers, spawned or forked, and every setting around its limits.
CONSTANTS
  w1 = w1
  w2 = w2
  MaxLen = 3
  Launcher = Launcher
  Workers <- MCWorkers
  Settings <- MCSettings
  VisionCap = 2
SPECIFICATION Spec
INVARIANT TypeOK
INVARIANT WorkersLoadOurs
INVARIANT SingleShotPrefill
SYMMETRY MCSymmetry
CHECK_DEADLOCK FALSE

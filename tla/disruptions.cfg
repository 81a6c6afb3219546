\* The scenarios that use the Kubernetes API only.
CONSTANTS
  Target = {i1, i2}
  Delay = 2
  Duration = 1
  Short = 1
  Long = 3
  ShapeFaults = 1
  Victim = {v1, v2}
  Own = 2
  Foreign = 2
  Pids = {1, 2}
  Plans <- Files
  Mishaps = 2
  Duds = 1
  Units = {1, 2}
  PodsPer = 2
  Slips = 2
  Quarry = {p1, p2}
  Kills = {1, 2, 3}
  Polls = 1
  Breaks = 1
  Fleet = {c1, c2}
  Nobody = nobody
  Orders <- ErrandFiles
  Tries = 2
  Glitches = 1
SPECIFICATION Spec
INVARIANTS DisruptionsInv OneShaper Tidy FailuresReported NetworkRestored HeldIsNamed RollbackRemoves SuccessUndoes VmsComeBack KillsAsAsked
PROPERTIES LinkRecovers DisruptionsEnd
CHECK_DEADLOCK FALSE

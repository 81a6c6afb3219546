\* What must eventually happen, with two faults.
CONSTANTS
  p1 = p1  p2 = p2  u1 = u1  u2 = u2  outage = outage  zone = zone
  Proc = {p1}
  Uuid = {u1}
  UuidOf <- OneUuid
  Type = {zone}
  Raises = {zone}
  AutoRollback <- Automatic
  Signals = {"INT", "TERM", "HUP"}
  Faults = {"api", "timeout", "fs", "disk"}
  MaxRuns = 2
  MaxFaults = 2
  Operator = Operator
  NoType = NoType
SPECIFICATION FairSpec
PROPERTIES FailedRunUndone OperatorRecovers SignalStops

\* A callable that swallows API errors.
CONSTANTS
  p1 = p1  p2 = p2  u1 = u1  u2 = u2  outage = outage  zone = zone
  Proc = {p1}
  Uuid = {u1}
  UuidOf <- OneUuid
  Type = {outage}
  Raises = {}
  AutoRollback <- Automatic
  Signals = {}
  Faults = {"api"}
  MaxRuns = 2
  MaxFaults = 2
  Operator = Operator
  NoType = NoType
SPECIFICATION Spec
INVARIANTS ExecutedMeansUndone

\* Two failed scenarios of one process, rolled back by the operator.
CONSTANTS
  p1 = p1  p2 = p2  u1 = u1  u2 = u2  outage = outage  zone = zone
  Proc = {p1}
  Uuid = {u1}
  UuidOf <- OneUuid
  Type = {zone}
  Raises = {zone}
  AutoRollback <- Manual
  Signals = {}
  Faults = {"api"}
  MaxRuns = 2
  MaxFaults = 1
  Operator = Operator
  NoType = NoType
SPECIFICATION Spec
PROPERTIES NewestFirst

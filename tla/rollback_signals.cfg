\* One process with automatic rollback, two scenario types, every signal and
\* every fault.
CONSTANTS
  p1 = p1  p2 = p2  u1 = u1  u2 = u2  outage = outage  zone = zone
  Proc = {p1}
  Uuid = {u1}
  UuidOf <- OneUuid
  Type = {outage, zone}
  Raises = {zone}
  AutoRollback <- Automatic
  Signals = {"INT", "TERM", "HUP"}
  Faults = {"api", "timeout", "fs", "disk"}
  MaxRuns = 3
  MaxFaults = 2
  Operator = Operator
  NoType = NoType
SPECIFICATION Spec
INVARIANTS CoverageInv OneRollbackAtATime
PROPERTIES CleanupSafe

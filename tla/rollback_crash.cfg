\* Two processes on one version store, one with automatic rollback and one
\* without: crashes, an interrupt, API and file system faults.
CONSTANTS
  p1 = p1  p2 = p2  u1 = u1  u2 = u2  outage = outage  zone = zone
  Proc = {p1, p2}
  Uuid = {u1, u2}
  UuidOf <- OwnUuid
  Type = {zone}
  Raises = {zone}
  AutoRollback <- FirstOnly
  Signals = {"INT"}
  Faults = {"api", "fs"}
  MaxRuns = 2
  MaxFaults = 2
  Operator = Operator
  NoType = NoType
SPECIFICATION Spec
INVARIANTS CoverageInv
PROPERTIES ContractKept ForeignFilesUntouched

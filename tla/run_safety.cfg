\* The main thread, the signal server and the health check threads.
CONSTANTS
  Url = {u1}  ExitOn = {u1}
  Code = {"200", "500"}  OK = "200"  None = None
  Batch = {b1, b2}
  Status = {"healthy", "both"}  Healthy = "healthy"
  VirtExit = TRUE  OnlyFailures = TRUE
  Iterations = 1  Scenarios = 3  Missing = {3}
  Targets <- Together
  Configs <- Variants
  MaxPosts = 1
SPECIFICATION Spec
SYMMETRY BatchSymmetry
INVARIANTS RunInv SuccessIsClean StopBound CodeIsFinal SustainedFailureReported SustainedStatusRecorded VirtFailureRecorded PostChecksCollected

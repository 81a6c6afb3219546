\* Liveness: fair threads; two requests of the operator, no step raises.
CONSTANTS
  Url = {u1}  ExitOn = {u1}
  Code = {"200"}  OK = "200"  None = None
  Batch = {b1, b2}
  Status = {"healthy"}  Healthy = "healthy"
  VirtExit = TRUE  OnlyFailures = TRUE
  Iterations = 2  Scenarios = 1  Missing = {}
  Targets <- Separate
  Configs <- Paused
  MaxPosts = 2
SPECIFICATION FairSpec
PROPERTY RunEnds

\* A step of the loop raises or exits while the health check threads run.
CONSTANTS
  Url = {u1}  ExitOn = {u1}
  Code = {"200"}  OK = "200"  None = None
  Batch = {}
  Status = {"healthy"}  Healthy = "healthy"
  VirtExit = TRUE  OnlyFailures = TRUE
  Iterations = 2  Scenarios = 1  Missing = {}
  Targets <- Everything
  Configs <- Raising
  MaxPosts = 1
SPECIFICATION FairSpec
PROPERTY ExitEnds

\* Requests that enter as ExecuteGET and ExecuteWrite send them, too.
SPECIFICATION PipelineSpec
CONSTANTS
  p1 = p1
  p2 = p2
  Procs = {p1, p2}
  Cost = 2
  Rate = 1
  Burst = 2
  Limits = {2}
  TopRate = 2
  TopBurst = 4
  Delays = {2}
  MaxNow = 4
  Empty = Empty
  Malformed = Malformed
  Values <- MCValues
  Schemas <- MCSchemas
  Workloads <- MCWorkloads
  Statuses = {200, 404, 503}
  MaxAttempts = 3
  BaseDelay = 2
  MaxDelay = 10
  Width = 16
INVARIANT TransientRetried

\* Requests through the whole chain.
SPECIFICATION PipelineSpec
CONSTANTS
  p1 = p1
  p2 = p2
  Procs = {p1, p2}
  Cost = 2
  Rate = 1
  Burst = 2
  Limits = {2}
  TopRate = 2
  TopBurst = 4
  Delays = {1, 2}
  MaxNow = 4
  Empty = Empty
  Malformed = Malformed
  Values <- MCValues
  Schemas <- MCSchemas
  Workloads <- MCWorkloads
  Statuses = {200, 404, 503}
  MaxAttempts = 3
  BaseDelay = 2
  MaxDelay = 10
  Width = 16
INVARIANTS PipelineTypeOK WindowBound SentOnce ReportsLast HandlerRetries Paid Verdict
PROPERTIES HonoursRetryAfter BackoffGrows

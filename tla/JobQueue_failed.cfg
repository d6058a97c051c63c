\* The pipeline fails after its regulation is committed.
SPECIFICATION Spec
CONSTANTS
  MaxJobs = 2
  Celex = {x1}
  Clients = {c1}
  Workers = {w1}
  UploadIds = {}
  MaxFaults = 0
  NoJob = NoJob
  NoCelex = NoCelex
  NoClient = NoClient
INVARIANTS
  FailedStaysIngestable
CHECK_DEADLOCK FALSE

\* Two enqueuing clients, uploads with and without a CELEX, two workers.
SPECIFICATION FairSpec
CONSTANTS
  MaxJobs = 3
  Celex = {x1}
  Clients = {c1, c2}
  Workers = {w1, w2}
  UploadIds = {x1, NoCelex}
  MaxFaults = 1
  NoJob = NoJob
  NoCelex = NoCelex
  NoClient = NoClient
PROPERTIES
  QueueDrains
  ImplementsLifecycle
INVARIANTS
  ExclusiveClaim
  RunAtMostOnce
  OutcomeTruthful
  OneInFlightPerClient
  StrandedOnlyByFault
CHECK_DEADLOCK FALSE

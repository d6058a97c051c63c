\* Every text of up to five lines and file of up to five blocks, in either
\* pipeline, every answer to every chunk.
SPECIFICATION Spec
CONSTANTS
  Budget = 1000
  TextLines <- SomeLines
  Blocks <- SomeBlocks
  MaxLines = 5
  Outputs <- SomeOutputs
  Answers <- SomeAnswers
  Modes = {"agentic", "classic"}
  Job = Job
  NoJob = NoJob
  MaxLost = 1
INVARIANTS
  EveryLineInOneChunk
  CoveredWhenEstimated
  LongerYieldsFirst
  MergeKeepsAllKeys
  OddFieldsDegrade
  EveryCallIsLogged
CHECK_DEADLOCK FALSE

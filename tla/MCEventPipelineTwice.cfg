SPECIFICATION PipelineSpec
CONSTANTS
  Transfers = {t1}
  Replicas = {r1, r2}
  BatchSize = 2
  LostCommitWeight = 2
  MaxFaults = 0
INVARIANTS TwoEntriesPerTransfer
CHECK_DEADLOCK FALSE

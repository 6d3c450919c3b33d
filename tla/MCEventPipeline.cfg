SPECIFICATION PipelineSpec
CONSTANTS
  Transfers = {t1}
  Replicas = {r1, r2}
  BatchSize = 2
  LostCommitWeight = 2
  MaxFaults = 2
INVARIANTS PipelineTypeOK MarkedIsSent AnnouncedFirst DuplicatesHaveACause PairsAreWhole EntriesAreTrue
PROPERTIES RowsArePublished EndingsReachTheLedger
CHECK_DEADLOCK FALSE

SPECIFICATION FairSpec
CONSTANTS
  Requests = {q1}
  Revisions = {r1}
  Empty = {}
  Workers = {w1}
  LastChunk = 2
  MaxAttempts = 2
  MaxStalls = 1
  Retries = TRUE
  Blank = Blank
INVARIANTS
  CurrentReceiptSpeaks
PROPERTIES
  OutcomesLast
  RetryRecovers
CHECK_DEADLOCK FALSE

SPECIFICATION FairSpec
CONSTANTS
  Requests = {q1}
  Revisions = {r1}
  Empty = {}
  Workers = {w1}
  LastChunk = 1
  MaxAttempts = 1
  MaxStalls = 1
  Retries = TRUE
  Blank = Blank
PROPERTY ActiveJobIsNotReopened
CHECK_DEADLOCK FALSE

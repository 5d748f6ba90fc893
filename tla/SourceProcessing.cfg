SPECIFICATION Spec
CONSTANTS
  Requests = {q1, q2}
  Revisions = {r1, r2}
  Empty = {r2}
  Workers = {w1, w2}
  LastChunk = 2
  MaxAttempts = 1
  MaxStalls = 1
  Retries = FALSE
  Blank = Blank
SYMMETRY Symmetry
VIEW View
INVARIANTS
  TypeOK
  DerivedIsCurrent
  CurrentReceiptSpeaks
  CompletedWasExtracted
  ReprocessingReplaces
CHECK_DEADLOCK FALSE

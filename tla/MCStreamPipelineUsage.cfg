\* A native stream whose client leaves when it has read response.completed.
SPECIFICATION PipelineSpec
CONSTANTS
  Index = {i1, i2}
  Fragment = {a}
  Name = {f}
  CallId = {c}
  None = None
  Synthetic = Synthetic
  ItemId = {x}
  Usage = {u}
  MaxLines = 2
  MaxPieces = 2
  MaxFragments = 2
  MaxAttempts = 2
\* A request ends.
CHECK_DEADLOCK FALSE
INVARIANTS
  ObservedUsageRecorded

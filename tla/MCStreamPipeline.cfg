\* Answers of up to three lines with two pieces, over every adapter and every
\* route, with one fallback: text, two calls that are named at once, late, again
\* or never, two fragments that can be told apart, unreadable lines, errors and
\* closings anywhere.  Call ids are the subject of MCStreamPipelineLabels.cfg.
SPECIFICATION FairPipelineSpec
CONSTANTS
  Index = {i1, i2}
  Fragment = {a, b}
  Name = {f}
  CallId = {}
  None = None
  Synthetic = Synthetic
  ItemId = {x}
  Usage = {u}
  MaxLines = 3
  MaxPieces = 2
  MaxFragments = 2
  MaxAttempts = 2
\* A request ends.
CHECK_DEADLOCK FALSE
INVARIANTS
  PipelineTypeOK
  WholeSoFar
  EndMarkerEarned
  UsageExact
  AnsweredNotFailed
PROPERTIES
  StreamSettles
  OneProviderAnswers

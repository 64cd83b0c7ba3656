\* Labels of two calls that come late, again or never: two ids and two names, three
\* deltas, one provider.  No text and no arguments: labels do not depend on them.
SPECIFICATION PipelineSpec
CONSTANTS
  Index = {i1, i2}
  Fragment = {}
  Name = {f, g}
  CallId = {c, d}
  None = None
  Synthetic = Synthetic
  ItemId = {x}
  Usage = {u}
  MaxLines = 3
  MaxPieces = 3
  MaxFragments = 3
  MaxAttempts = 1
SYMMETRY LabelSymmetry
\* A request ends.
CHECK_DEADLOCK FALSE
INVARIANTS
  CallsAreLabelled
  DeltasNameTheirCall

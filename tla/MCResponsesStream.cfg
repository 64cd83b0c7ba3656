\* Two calls and a text item; the provider may name a call, and give it an id,
\* in any delta and more than once.
SPECIFICATION Spec
CONSTANTS
  Index = {i1, i2}
  Fragment = {a, b}
  Name = {f, g}
  CallId = {c}
  None = None
  Synthetic = Synthetic
  MaxFragments = 2
SYMMETRY Symmetry
\* A stream ends.
CHECK_DEADLOCK FALSE
INVARIANTS
  TypeOK
  HeldUntilNamed
  CompletedIsWhole
PROPERTIES
  ClientProtocol

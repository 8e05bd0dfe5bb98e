\* Two push keys, two messages, an owner with both pages open.
\* The batches are bounded, so the system stops.
CHECK_DEADLOCK FALSE
SPECIFICATION Spec
CONSTANTS
  Messages = {m1, m2}
  Keys = {k1, k2}
  Texts = {a, b}
  MaxStamp = 1
  None = None
  MaxPending = 2
  MaxBatches = 2
  MaxItems = 3
SYMMETRY Symmetry
INVARIANTS
  TypeOK
  DisputesAreReal
  PurgedLeavesNothing
PROPERTIES
  DecidesWhatWasShown
  ImplementsMessageLife

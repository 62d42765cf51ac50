\* One writer, one reader whose buffer may be shorter than a line.
CONSTANTS
  Handlers = {h1}
  Readers = {r1}
  Capacity = 3
  Lens <- MCLens
  Counts <- MCShortCounts
  Unowned = Unowned
  MaxLines = 2
SPECIFICATION Spec
INVARIANT ZeroMeansDrained
CHECK_DEADLOCK FALSE

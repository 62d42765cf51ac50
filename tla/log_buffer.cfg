\* Two tasks log, two processes read: every interleaving of four lines.
CONSTANTS
  Handlers = {h1, h2}
  Readers = {r1, r2}
  Capacity = 3
  Lens <- MCLens
  Counts <- MCCounts
  Unowned = Unowned
  MaxLines = 4
SPECIFICATION FairSpec
INVARIANTS
  HeapExact
PROPERTIES
  ImplementsBoundedLog

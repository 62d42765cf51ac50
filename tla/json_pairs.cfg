\* Strings that hold a pair of surrogates.
CONSTANTS
  Shapes <- MCShapes
SPECIFICATION JsonSpec
INVARIANT StringRead
CHECK_DEADLOCK FALSE

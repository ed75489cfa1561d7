SPECIFICATION Spec
CONSTANTS
  Nodes = {n1, n2, n3, n4}
  Sizes = {1, 2}
  NULL = NULL
SYMMETRY Symmetry
INVARIANTS BestFitIsBest
PROPERTIES ListSpec

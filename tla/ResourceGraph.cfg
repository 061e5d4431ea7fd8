SPECIFICATION Spec
CONSTANTS
  Keys = {a, b, c}
  Root = root
  Specs <- MCSpecs
  Priors <- MCPriors
SYMMETRY MCSymmetry
INVARIANTS
  GraphComplete
  OrderExact
  WellBuilt
  RefusalJustified

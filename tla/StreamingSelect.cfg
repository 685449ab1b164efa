SPECIFICATION Spec
CONSTANTS
  NULL = NULL
  Nodes = {l1, l2}
  Tuples <- MCTuples
  Leaves <- MCLeaves
  StaticOf <- MCStaticOf
  SatisfiedBy <- MCSatisfiedBy
  Inputs <- MCInputs
  BareLeaves = {"P", "TRUE"}
  MaxPredicates = 2
  MaxOperands = 2
INVARIANTS
  NodesMeanWhatWasAdded
  FilterIsMeant
  BranchesPartition
  ValuesInPlace
PROPERTY ImplementsSelection
SYMMETRY Symmetry

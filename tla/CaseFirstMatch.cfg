SPECIFICATION Spec
CONSTANTS
  NULL = NULL
  Nodes = {l1}
  Tuples <- MCTuples
  Leaves <- MCLeaves
  StaticOf <- MCStaticOf
  SatisfiedBy <- MCSatisfiedBy
  Inputs <- MCInputs
  BareLeaves = {"P", "TRUE"}
  MaxPredicates = 2
  MaxOperands = 1
INVARIANT FirstMatchingWhen

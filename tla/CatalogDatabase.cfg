\* The bounds: four relations, ids 0 .. 2.
SPECIFICATION Spec
CONSTANTS
  Relations <- MCRelations
  Names <- MCNames
  NameOf <- MCNameOf
  ToLower <- MCToLower
  kCatalogMaxID = 2
  NULL = NULL
INVARIANTS
  LookupsAgree
  RestoredIsSaved
PROPERTY ImplementsDirectory

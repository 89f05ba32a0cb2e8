SPECIFICATION FairSpec
CONSTANTS
  Global = g
  Locals = {s1, s2}
  Agents = {a1}
  None = None
  MaxLinks = 2
  MaxUpsets = 2
INVARIANTS
  TypeOK
  EpochsAreExclusive
  OnlyHydratedIsOwned
  HydratingHasATask
PROPERTIES
  RefinesFencedGrants
  HydrationEnds
  FenceCloses
CHECK_DEADLOCK FALSE

SPECIFICATION MCEstateSpec
CONSTANTS
  Global = g
  Locals = {s1}
  Agents = {a1}
  None = None
  MaxLinks = 2
  MaxUpsets = 3
  MaxRev = 1
INVARIANTS
  EstateTypeOK
  HydratedContinues
PROPERTY EstateConverges
CHECK_DEADLOCK FALSE

SPECIFICATION FairSpec
CONSTANTS
  Global = g
  Locals = {s1, s2}
  Agents = {a1}
  None = None
  MaxLinks = 1
  MaxUpsets = 2
PROPERTY HomeEventuallyOwns
CHECK_DEADLOCK FALSE

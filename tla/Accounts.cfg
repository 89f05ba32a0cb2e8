SPECIFICATION AccountsSpec
CONSTANTS
  Who = {w1, w2, w3}
  Shares = {{w1, w2}}
  NoOne = NoOne
  Callers = {c1, c2}
  MaxAccounts = 4
  MaxRestarts = 2
INVARIANTS AccountsTypeOK NoDanglingLinks LinksFollow FileFollows
CHECK_DEADLOCK FALSE

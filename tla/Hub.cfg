SPECIFICATION FairSpec
CONSTANTS
  c1 = c1  c2 = c2
  u1 = u1  u2 = u2
  Conn = {c1, c2}
  User = {u1, u2}
  Room = {r1, r2}
  Addr = {a1}
  AccountOf <- MixedAccounts
  MaxOps = 4
  None = None
INVARIANTS StateIsSound NoEcho NoGhostShare
PROPERTIES EndedSharesDisappear
CHECK_DEADLOCK FALSE

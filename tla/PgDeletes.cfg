SPECIFICATION FairSpec
CONSTANTS
  m1 = m1  m2 = m2
  u1 = u1  u2 = u2
  c1 = c1  c2 = c2
  Msg = {m1, m2}
  User = {u1, u2}
  Caller = {c1, c2}
  Author <- Authors
  Actor <- Actors
  Admins = {u2}
  MaxFaults = 1
  None = None
INVARIANTS DeletionsAreSound AuditIsComplete
PROPERTIES ImplementsPromise RequestsAnswered

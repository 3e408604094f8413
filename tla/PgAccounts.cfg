SPECIFICATION Spec
CONSTANTS
  Task = {t1, t2}
  User = {u1, u2, u3}
  Name = {root, n1, n2}
  Invite = {i1, i2}
  AdminName = root
  BootInvite = i1
  None = None
  MaxFaults = 1
SYMMETRY Symmetry
INVARIANTS AccountsAreSound AccountsAreInvited
PROPERTIES InviteStaysUsed KeepsAccountPromise

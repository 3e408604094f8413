\* Two users, one of them an administrator; messages numbered by unix_ms.
SPECIFICATION FairSpec
CONSTANTS
  User = {u1, u2}
  Admins = {u1}
  Limit = 1
  MaxMsgs = 2
INVARIANTS ListsConverge ListsInOrder 
PROPERTIES SavedIsShown

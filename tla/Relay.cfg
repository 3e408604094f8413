SPECIFICATION FairSpec
CONSTANTS
  c1 = c1  d1 = d1  d2 = d2
  u1 = u1  u2 = u2
  User = {u1, u2}
  Talkers = {u1}
  Conn = {c1, d1, d2}
  OwnerOf <- Owners
  Port = {p1, p2}
  MaxJoins <- Joins
  MaxPending = 1
  None = None
INVARIANTS NoOwnVoice 
PROPERTIES VoiceIsHeard
CHECK_DEADLOCK FALSE

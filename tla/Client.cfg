SPECIFICATION FairSpec
CONSTANTS
  Handle = {h1, h2}
  None = None
  MaxQueue = 1
  MaxOps = 5
INVARIANTS OwnsItsResources SettledWindow
PROPERTIES DisconnectsEnd EndIsNoticed
CHECK_DEADLOCK FALSE

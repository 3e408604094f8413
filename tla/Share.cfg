SPECIFICATION FairSpec
CONSTANTS
  Worker = {w1, w2}
  None = None
 
PROPERTIES SharesEnd SharesEndWithConnection
CHECK_DEADLOCK FALSE

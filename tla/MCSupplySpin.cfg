\* A pump whose deadlines should wake it, and not keep it awake.
SPECIFICATION Supplied
CONSTANTS
  text = text  typing = typing  peer = peer
  Note = {text, typing}
  Heading <- MCHeading
  Light = {typing}
  Flights = 2
  LowMark = 3
  Batch = 3
  PurseMax = 3
  PoolSize = 1
  PoolMax = 2
CHECK_DEADLOCK FALSE
INVARIANT NoSpin

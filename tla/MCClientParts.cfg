\* A phone with the account, and new devices, in two sessions; the phases of two
\* engines, with what the server does with their AUTH; the tickets, sockets and
\* timers of anonymous sends; the profiles of two copies of the application; and
\* the Tor it starts.
SPECIFICATION Parts
CONSTANTS
  phone = phone  desktop = desktop  tablet = tablet
  Device = {phone, desktop, tablet}
  Holder = {phone}
  MaxSession = 2
  MaxCancel = 1
  MaxLog = 2
  x = x  y = y
  Core = {x, y}
  Nobody = Nobody
  MaxGen = 3
  MaxEnds = 2
  text = text  typing = typing  peer = peer
  c1 = c1  c2 = c2  p1 = p1
  Copy = {c1, c2}
  Session = {p1}
  Default = Default  Absent = Absent  Blank = Blank  Typed = Typed
  Found = Typed
  MaxSecrets = 2
  MaxTor = 3
  MaxGets = 2
  Note = {text, typing}
  Heading <- MCHeading
  Light = {typing}
  Flights = 2
  LowMark = 3
  Batch = 3
  PurseMax = 3
  PoolSize = 1
  PoolMax = 2
CHECK_DEADLOCK FALSE
CONSTRAINT FewParts
INVARIANTS WholeOrNothing RatchetOnce NeverTurnedAway NeverAsleep KeyOpens TorOwned
PROPERTIES CancelHolds

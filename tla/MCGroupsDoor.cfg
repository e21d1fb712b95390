\* A conversation of two, a chat and a channel; two commits may be outrun. And two peers,
\* two passes, one of them known to the relay at a time.
SPECIFICATION GroupsOrDoor
CONSTANTS
  a = a  b = b  c = c  m1 = m1  m2 = m2
  Order <- MCOrder
  Owner = a
  Partner = b
  Body = {m1, m2}
  Kinds = {"pair", "chat", "channel"}
  Retained = 2
  Limits <- MCLimits
  bob = bob  carol = carol
  Peer = {bob, carol}
  MaxPasses = 1
  MaxMade = 2
  MaxFrames = 3
CHECK_DEADLOCK FALSE
CONSTRAINTS OnePath FewFrames
INVARIANTS GroupsRead BookIsTrue
 
SYMMETRY Interchangeable

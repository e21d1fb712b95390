\* Two people, an invite and two invoices; three sockets over two addresses.
SPECIFICATION Spec
CONSTANTS
  alice = alice  bob = bob  s1 = s1  s2 = s2  s3 = s3  home = home  cafe = cafe  i1 = i1
  Person = {alice, bob}
  Invite = {i1}
  Lifetime = 1
  InviteEnds = 2
  Reach = 1
  MaxRef = 2
  MaxTx = 3
  MaxTime = 2
  Socket = {s1, s2, s3}
  Ip = {home, cafe}
  IpOf <- MCIpOf
  Nobody = Nobody
  MaxPerIp = 2
  MaxUnnamed = 2
  MaxTries = 2
  NonceTtl = 1
  MaxNonces = 2
  MaxNonce = 3
  Room = {r1, r2}
  r1 = r1  r2 = r2
  MaxRooms = 1
  LoneTtl = 1
  PairTtl = 0
  CallTtl = 1
  TicketTtl = 1
  MaxSpent = 1
  MaxTicket = 2
CONSTRAINT OnePart
CHECK_DEADLOCK FALSE
SYMMETRY Symmetric
INVARIANTS BookedOnce StaysOpen
PROPERTIES PaidIsKept

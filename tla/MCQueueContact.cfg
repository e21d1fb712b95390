\* The queue of one device and one session of a client that acknowledges, three
\* letters in batches of two, no clock; and two people who write to each other
\* first, or whose channel is lost at one end.
SPECIFICATION QueueOrContact
CONSTANTS
  phone = phone  laptop = laptop  tablet = tablet  alice = alice
  l1 = l1  l2 = l2  l3 = l3  s1 = s1  s2 = s2
  Device = {phone}
  Identity = {alice}
  Letter = {l1, l2, l3}
  Owner <- MCOwner
  To <- MCTo
  Size <- MCSize
  PassOnly = {}
  Sock = {s1}
  None = None
  DrainBatch = 2
  MaxQueued = 3
  MaxBytes = 9
  MaxOwnerBytes = 9
  MaxDevices = 2
  MaxTtl = 1
  TtlAsked = {1}
  MaxSeq = 3
  MaxTime = 0
  a = a  b = b  m1 = m1  m2 = m2  m3 = m3
  People <- MCPeople
  Order <- MCOrder
  Body = {m1, m3}
  Writer <- MCWriter
  Imported = {a}
  PerConnect = 3
  MaxPool = 3
  MaxWaiting = 2
  MaxQueue = 4
  Nil = Nil
  Commands = {"clear", "forget", "block", "repair"}
  MaxEvents = 1
CHECK_DEADLOCK FALSE
INVARIANTS NoStalledQueue DrainInOrder KeptAndRead
PROPERTIES QueueDoneIsTrue BacklogDrains Arrives

\* Three messages of one sender; a live one may overtake the backlog.
SPECIFICATION DSpec
CONSTANTS
  phone = phone  alice = alice
  l1 = l1  l2 = l2  l3 = l3  l4 = l4  s1 = s1  s2 = s2
  Device = {phone}
  Identity = {alice}
  Letter = {l1, l2, l3}
  Owner <- MCOwner
  To <- MCTo
  Size <- MCSize
  PassOnly = {}
  Sock = {s1}
  None = None
  DrainBatch = 1
  MaxQueued = 3
  MaxBytes = 9
  MaxOwnerBytes = 9
  MaxDevices = 2
  MaxTtl = 1
  TtlAsked = {1}
  MaxSeq = 3
  MaxTime = 0
  Phone = phone
  Before <- OneByOne
  Needs <- Nothing
  Garbage = {}
  Commit = {}
  Ratchet <- OneSender
  Tolerance = 1
  MaxTracked = 2
  DiskFails = FALSE
CHECK_DEADLOCK FALSE
INVARIANT RepeatedMeansRead

\* Two commits, a message of each epoch and one that cannot be read; an old session beside the new one.
\* And the calls of two devices.
SPECIFICATION MailOrCalls
CONSTANTS
  phone = phone  alice = alice
  l1 = l1  l2 = l2  l3 = l3  l4 = l4  s1 = s1  s2 = s2
  Device = {phone}
  Identity = {alice}
  Letter = {l1, l2, l3, l4}
  Owner <- MCOwner
  To <- MCTo
  Size <- MCSize
  PassOnly = {}
  Sock = {s1, s2}
  None = None
  DrainBatch = 2
  MaxQueued = 3
  MaxBytes = 9
  MaxOwnerBytes = 9
  MaxDevices = 2
  MaxTtl = 1
  TtlAsked = {1}
  MaxSeq = 4
  MaxTime = 0
  Phone = phone
  Before <- OneByOne
  Needs <- TwoEpochs
  Garbage = {l2}
  Commit = {l1, l3}
  Ratchet <- NoRatchet
  Tolerance = 5
  MaxTracked = 1
  DiskFails = FALSE
  a = a  b = b
  Talker = {a, b}
  Ahead <- MCAhead
  NoCall = NoCall
  Ttl = 2
  Slack = 1
  MaxSeen = 2
  MaxAsked = 1
  MaxCall = 2
  MaxClock = 3
  MaxRestarts = 1
VIEW UnreadAndCalls
CHECK_DEADLOCK FALSE
SYMMETRY SymmetricSessions
INVARIANTS NoMailLost CallsKept

\* Three devices of one identity, one behind passes, two sessions, tight quotas, retries against the clock and the sweep.
SPECIFICATION Spec
CONSTANTS
  phone = phone  laptop = laptop  tablet = tablet  alice = alice
  l1 = l1  l2 = l2  l3 = l3  s1 = s1  s2 = s2
  Device = {phone, laptop, tablet}
  Identity = {alice}
  Letter = {l1, l2, l3}
  Owner <- MCOwner
  To <- MCTo
  Size <- MCSize
  PassOnly = {laptop}
  Sock = {s1, s2}
  None = None
  DrainBatch = 2
  MaxQueued = 2
  MaxBytes = 3
  MaxOwnerBytes = 3
  MaxDevices = 2
  MaxTtl = 1
  TtlAsked = {2}
  MaxSeq = 3
  MaxTime = 2
VIEW WithoutLog
CHECK_DEADLOCK FALSE
SYMMETRY SymmetricSessions
INVARIANTS OneLiveCopy NoSessionAfterRevocation
PROPERTIES PromiseKept KeptForRecipient

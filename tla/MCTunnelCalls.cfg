\* Two devices of an account for one, three keys; two handlers at once, a node that fails in every way; and a client with two commands at once.
SPECIFICATION BothSpec
CONSTANTS
  a = a  b = b  ka = ka  kb = kb  ka2 = ka2  c1 = c1  c2 = c2
  n1 = n1  n2 = n2  t1 = t1  t2 = t2
  Device = {a, b}
  Key = {ka, kb, ka2}
  KeyOwner <- MCKeyOwner
  Slot = {c1, c2}
  None = None
  Ops = {"enroll", "register", "drop", "revoke", "toggle", "expired", "traffic", "page", "bonus", "sync", "deactivate"}
  MaxDevices = 1
  TrafficLimit = 1
  Faults = {"unreachable", "answer", "sync", "restart"}
  MaxCalls = 4
  MaxPeer = 3
  MaxTraffic = 2
  MaxBonus = 1
  Place = {n1, n2}
  Nowhere = Nowhere
  Task = {t1, t2}
  Offered = {"connect", "toggle", "disconnect", "sign_out", "enroll", "sign_in", "account", "list", "revoke", "settings", "quit"}
  Mishap = {"request", "answer", "token", "adapter", "call", "probe", "delete"}
  MaxTasks = 4
  MaxKeys = 2
  MaxRelays = 3
CHECK_DEADLOCK FALSE
SYMMETRY Symmetric
INVARIANTS NoUnexplainedOrphan AccessIsGranted NeverOvercharged MachineKept PartsAgree

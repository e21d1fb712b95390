\* One slot for two recipients and a group, envelopes of both policies; privacy may be maximized at any time.
SPECIFICATION UndeletedSpec
CONSTANTS
  d1 = d1  d2 = d2
  Device = {d1, d2}
  Thread <- AllThreads
  Class = {"essential", "text"}
  Expiring = {}
  Policy = {"onion", "relay"}
  Command = {"maximize"}
  Limit = 1
  MaxQueue = 8
  Blockable = {}
  MaxRef = 2
CHECK_DEADLOCK FALSE
PROPERTY Delivered

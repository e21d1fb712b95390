\* As MCTalk, for what a comment says of the history.
SPECIFICATION Talk
CONSTANTS
  d1 = d1  d2 = d2
  Device = {d1}
  Thread <- OneThread
  Class = {"essential", "text", "ephemeral"}
  Expiring = {"ephemeral"}
  Policy = {"onion", "relay"}
  Command = {"delete", "clear", "forget", "block", "maximize"}
  Limit = 2
  MaxQueue = 8
  Blockable = {d1}
  MaxRef = 2
  a1 = a1  a2 = a2
  PeerDevice = {a1, a2}
  PersonOf <- MCPersonOf
  MsgId = {i1}
  MaxGroup = 3
  MaxEdit = 1
  MaxWant = 1
  NoOne = NoOne
  Friend = {p1}
  PinName = {n1}
  PinStates <- MCPinStates
  Name = {A}
  Hidden = Hidden
  Rules <- MCRules
  MaxList = 2
  MaxChan = 2
  MaxPost = 2
  Unset = Unset
  Label = {B}
  NoLabel = NoLabel
  MaxShow = 2
  MaxWire = 2
  NoDoc = NoDoc
  h1 = h1  s1 = s1  r1 = r1  j1 = j1  e1 = e1
  Onion = {h1, s1, r1}
  Spare = {s1}
  Retired = {r1}
  Junk = {j1}
  Direct = {e1}
  Lists <- MCLists
  MaxIssue = 2
  NoRoute = NoRoute
VIEW TalkView
CHECK_DEADLOCK FALSE
INVARIANT HistoryShown

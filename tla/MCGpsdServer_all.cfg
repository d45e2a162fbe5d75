SPECIFICATION LiveSpec
CONSTANTS
  Cells = {}
  NoCell = NoCell
  Clients = {k1}
  Commands = {"?WATCH", "?WATCH off", "?POLL", "?VERSION", "?DEVICES", "unknown", "overlong"}
  InboxCap = 1
  WireCap = 1
  MaxFixes = 2
INVARIANTS
  WatchingTold
PROPERTIES
  Sessions
  NoLeak
  Shutdown
  StreamsOn

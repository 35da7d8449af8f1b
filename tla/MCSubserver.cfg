SPECIFICATION SubserverSpec
CONSTANTS
  Requests = {r1, r2}
  Formats = {"xray", "clash"}
  NoRequest = NoRequest
  OldDevice = OldDevice
  MaxDevices = 2
  MaxChanges = 1
  MaxFaults = 1
  Items <- SomeItems
  Expiries = {0, 1, 2}
  NoExpiry = NoExpiry
  MaxNodes = 3
  AddressName = "proxy-address"
  Positional <- ProxyTags
  Handlers = {h1, h2, h3}
  QueueSize = 1
INVARIANTS
  TypesOK
  ServedWhileEntitled
  NoNeedlessFanOut
  DevicesInOrder
  RenderedSoundly
  FlushedOnClose
PROPERTIES
  EveryRequestEnds
CHECK_DEADLOCK FALSE

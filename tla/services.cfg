\* The bounds on rows, keys, updates, sockets and logins end the components.
CHECK_DEADLOCK FALSE
SPECIFICATION MCSpec
CONSTANTS
  Chats = {dm, broadcast}
  Common = {dm}
  ExternalId <- MCExternalId
  MaxVersion = 2
  MaxUpdates = 1
  Browsers = {mine, other}
  Channels = {telegram}
  Accounts = {owner, stranger}
  Tabs = {1, 2}
  MaxPairings = 2
  MaxKeys = 3
  Chunks = 2
  PerChunk = 2
  MaxSockets = 5
  MaxAttempts = 3
  Rows = {1, 2, 3}
  SortKeys = {1, 2}
  Limits = {1, 2}
SYMMETRY Symmetry
INVARIANTS
  ServicesTypeOK
  RowsFaithful
  KeysAccounted
  NoSocketLeft
  NeverStranded
  
  
PROPERTIES
  DeadStaysDown

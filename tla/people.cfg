SPECIFICATION Spec
CONSTANTS
  t1 = t1
  w1 = w1
  o1 = o1
  Telegram = {t1, o1}
  WhatsApp = {w1}
  OwnAccounts = {o1}
  PhoneOf <- OneBridge
  Names = {n1, n2}
  Aliases = {x}
  ChatName = n1
  None = None
  MaxPeople = 4
  MaxActs = 1
  MaxSyncs = 2
INVARIANTS
  TypeOK
  OneOwner
PROPERTIES
  AliasesKept
  
  CreatesOnce

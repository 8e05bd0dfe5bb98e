\* Two WhatsApp connections in succession, whose credential is a directory.
SPECIFICATION Spec
CONSTANTS
  w1 = w1
  w2 = w2
  t1 = t1
  t2 = t2
  r1 = r1
  r2 = r2
  whatsapp = whatsapp
  telegram = telegram
  Conns = {w1, w2}
  Channels = {whatsapp}
  WhatsApp = whatsapp
  ChannelOf <- MCChannelOf
  Requests = {r1}
  None = None
  MaxConsecutiveOther = 2
  MaxExits = 1
SYMMETRY Symmetry
INVARIANTS
  ActiveKeepsAuth
  BackfillHaltsWithSession

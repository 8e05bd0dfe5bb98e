\* Two portal requests racing on one channel, with two ids to give out,
\* while the worker logs in and reads.
SPECIFICATION Spec
CONSTANTS
  w1 = w1
  w2 = w2
  t1 = t1
  t2 = t2
  r1 = r1
  r2 = r2
  whatsapp = whatsapp
  telegram = telegram
  Conns = {t1, t2}
  Channels = {whatsapp, telegram}
  WhatsApp = whatsapp
  ChannelOf <- MCChannelOf
  Requests = {r1, r2}
  None = None
  MaxConsecutiveOther = 1
  MaxExits = 0
SYMMETRY Symmetry
INVARIANTS
  TypeOK
  StatusAgrees
  OneLivePerChannel
PROPERTIES
  RevocationIsFinal
  

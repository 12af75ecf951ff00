\* Two senders with two values each on a ring of two slots, each kind of receiver, and a
\* close at any time.
SPECIFICATION FairChanSpec
CONSTANTS
  s1 = s1
  s2 = s2
  r = r
  none = none
  end = end
  Senders <- MCSenders
  N = 2
  MaxSends = 2
  Kinds <- MCKinds
  Receiver = r
  NoValue = none
  Closed = end
INVARIANTS
  ChanTypeOK
  SlotsHaveOneUser
  NoLostWakeup
PROPERTIES
  ChannelIsFifo
  EverySentIsReceived
  RetriesSucceed
  CloseIsHeard

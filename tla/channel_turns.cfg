SPECIFICATION FairSpec
CONSTANTS
  m1 = m1
  m2 = m2
  m3 = m3
  c1 = c1
  c2 = c2
  None = None
  Messages = {m1, m2, m3}
  Chats = {c1}
  ChatOf <- MCChatOf
  Allowed = {m1, m2}
  Blank = {m2}
  MaxWorkers = 1
  Texts = {a}
  MaxEvents = 1
  MaxKills = 1
INVARIANTS
  TypeOK
  AtMostOnce
  MessageHasOnePlace
  OneRunPerChat
  TurnIsAnswered
PROPERTIES
  LeaseSpec
  ChatIsFreed

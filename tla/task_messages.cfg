SPECIFICATION FairSpec
CONSTANTS
  m1 = m1
  m2 = m2
  m3 = m3
  Messages = {m1, m2, m3}
  MayHappen = {"kill", "answer", "worker", "handback", "refused"}
  MaxAccidents = 2
INVARIANTS
  TypeOK
  GivenOnce
  NothingIsLost
  ReportTakesLeftovers
PROPERTIES
  MailboxSpec
  MessageIsTaken

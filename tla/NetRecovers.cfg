\* A network that changes twice, lost events, wedged joins and the last resort.
SPECIFICATION FairSpec
CONSTANTS
  Trigger = 2
  StallMax = 2
  ClearAt = 2
  RebootAt = 3
  MaxEvents = 1
  MaxChanges = 2
INVARIANTS
  TypeOK
PROPERTIES
  LossIsSeen
  OnlineIsSeen
  Recovers

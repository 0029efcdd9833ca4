\* main's minute passes before the network comes up.
SPECIFICATION FairSpec
CONSTANTS
  Trigger = 2
  StallMax = 1
  ClearAt = 2
  RebootAt = 3
  MaxEvents = 1
  MaxChanges = 1
PROPERTIES
  FrontendServes

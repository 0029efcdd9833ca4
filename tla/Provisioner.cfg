\* All three transports.  Two events may wait for the handlers; an old address
\* is gone before the next test, and connections are reported in order.
SPECIFICATION ImageSpec
CONSTANTS
  home = home
  depot = depot
  wrong = wrong
  issue1 = issue1
  issue2 = issue2
  NoNetwork = NoNetwork
  NoIssue = NoIssue
  Press = Press
  Networks <- MCNetworks
  Good <- MCGood
  Issues <- MCIssues
  Bundles <- MCBundles
  Faults = {"write", "delete", "cut"}
  MaxEvents = 2
  PromptDhcp = TRUE
  Overtaken = FALSE
INVARIANTS
  ImageTypeOK
  OnlyGoodStored
  AuthorisedByPress
  AcceptedIsWorkedOn
  TenantNeedsNetwork
  BadBundleChangesNothing
PROPERTIES
  GivesUpOnFailures
  PasswordNotLost
  PasswordGivenOnce
  ImprovAdvertises

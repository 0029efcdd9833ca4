\* Flash that works, and a provisioner that is valid or absent.
SPECIFICATION FairSpec
CONSTANTS
  home = home
  depot = depot
  wrong = wrong
  NoNetwork = NoNetwork
  Networks <- MCNetworks
  Joinable <- MCJoinable
  ProvImages = {"absent", "valid"}
  BakedBuilds = {TRUE, FALSE}
  FlashFaults = {"torn"}
INVARIANTS
  NoStaleRequest
PROPERTIES
  RequestOwnership
  KeepsPromise
  SettlesWhenLeftAlone
  OperatorReturns

\* Every image state and every flash fault.
SPECIFICATION Spec
CONSTANTS
  home = home
  depot = depot
  wrong = wrong
  NoNetwork = NoNetwork
  Networks <- MCNetworks
  Joinable <- MCJoinable
  ProvImages = {"absent", "invalid", "valid"}
  BakedBuilds = {TRUE, FALSE}
  FlashFaults = {"fail", "torn"}
INVARIANTS
  TypeOK
  RequestHeldInProvisioner
  IdleIsJustified
  OnlyVerifiedStored

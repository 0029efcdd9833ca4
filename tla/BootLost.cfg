\* A power cut while the stored network is replaced.
SPECIFICATION Spec
CONSTANTS
  home = home
  depot = depot
  wrong = wrong
  NoNetwork = NoNetwork
  Networks <- MCNetworks
  Joinable <- MCJoinable
  ProvImages = {"valid"}
  BakedBuilds = {FALSE}
  FlashFaults = {}
INVARIANTS
  OperatorHasCredentials

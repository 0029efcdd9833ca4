\* A core that answers in time, and parameters applied undisturbed.
SPECIFICATION FairSpec
CONSTANTS
  first = first
  second = second
  NoClient = NoClient
  Clients <- MCClients
  Nothing = Nothing
  Order <- MCOnePoint
  Highest = 1
  MaxRequests = 2
  MaxPipelined = 1
  PromptCore = TRUE
  Undisturbed = TRUE
INVARIANTS
  TypeOK
  ReplyMatchesRequest
  OnlyParameters
PROPERTIES
  SeatIsFreed

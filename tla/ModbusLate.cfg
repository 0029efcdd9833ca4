\* A core that may be late.
SPECIFICATION Spec
CONSTANTS
  first = first
  second = second
  NoClient = NoClient
  Clients <- MCClients
  Nothing = Nothing
  Order <- MCOnePoint
  Highest = 1
  MaxRequests = 2
  MaxPipelined = 1
  PromptCore = FALSE
  Undisturbed = TRUE
INVARIANTS
  ReplyMatchesRequest

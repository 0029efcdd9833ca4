\* A master that writes while parameters are applied.
SPECIFICATION Spec
CONSTANTS
  first = first
  second = second
  NoClient = NoClient
  Clients <- MCClients
  Nothing = Nothing
  Order <- MCOrder
  Highest = 1
  MaxRequests = 2
  MaxPipelined = 1
  PromptCore = TRUE
  Undisturbed = FALSE
INVARIANTS
  OnlyParameters

\* Boards with and without sw0, two connections, and a queue of four events.
SPECIFICATION FairSpec
CONSTANTS
  first = first
  second = second
  NoRelay = NoRelay
  Relays <- MCRelays
  QueueSize = 4
  Buttons = {TRUE, FALSE}
INVARIANTS
  TypeOK
  OneMessageInFlight
  OneSendersMessage
  IdleHasNoSession
  NeverLeftRelaying
PROPERTIES
  BufferIsOwned
  ServiceReturns
  WindowEnds

\* Presses of sw0 fill the queue while an envelope is built.
SPECIFICATION Spec
CONSTANTS
  first = first
  second = second
  NoRelay = NoRelay
  Relays <- MCRelays
  QueueSize = 4
  Buttons = {TRUE}
SYMMETRY MCSymmetry
INVARIANTS
  BusyIsHandedOver

SPECIFICATION PairingSpec

CONSTANTS
  headset = headset
  keyboard = keyboard
  Devices = {headset, keyboard}
  MaxRequests = 2
  MaxActions = 0
  Nothing = nil

SYMMETRY Symmetry

INVARIANTS
  AnswerIsForItsRequest

CHECK_DEADLOCK FALSE

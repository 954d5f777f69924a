CONSTANTS
  Parts = {"socket"}
  Items = {a, b}
  Delays = {2, 3}
  MaxTime = 4
  ListenerCalls = 2
  Callbacks = {f, g}
  MaxListeners = 3
  MaxEmits = 2
  MaxRemovals = 1
  Calls = {c1, c2, c3}
  NoCallback = {c3}
  NoCall = NoCall
  MaxOutput = 2
  MaxBuffer = 1
  MaxWrites = 4
  Made = 2
  MaxPromises = 4
  MaxCalls = 3
  MaxTogether = 1
  MaxInputs = 2
SPECIFICATION PartsSpec
INVARIANT FinAfterData
CHECK_DEADLOCK FALSE

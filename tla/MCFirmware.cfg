CONSTANTS
  Procs = {p1, p2}
  Versions = {v1, v2, v3}
  Factory = v1
  Files = {bin, lua}
  Bin = {bin}
  MaxFaults = 2
  NextAfterSwitch = TRUE
SPECIFICATION FirmwareFairSpec
INVARIANTS FirmwareTypeOK LinkComplete SomeComplete
PROPERTY Upgraded
CHECK_DEADLOCK FALSE

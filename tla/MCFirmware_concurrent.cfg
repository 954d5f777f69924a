CONSTANTS
  Procs = {p1, p2}
  Versions = {v1, v2, v3}
  Factory = v1
  Files = {bin, lua}
  Bin = {bin}
  MaxFaults = 0
  NextAfterSwitch = FALSE
SPECIFICATION FirmwareSpec
INVARIANT LinkComplete
CHECK_DEADLOCK FALSE

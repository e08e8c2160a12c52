SPECIFICATION Spec
CONSTANTS
  jtag_uart = jtag_uart
  other = other
  file = file
  zip = zip
  missing = missing
  Null = null
  None = none
  ALT_MAX_FD = 6
  Devices = {null, jtag_uart, other}
  Opening = {other, zip}
  Names = {null, jtag_uart, other, file, missing}
  StdDev <- StdDevs
  Mounted <- Mounts
INVARIANTS TypeOK PoolWhole StdStays
PROPERTIES LockHolds

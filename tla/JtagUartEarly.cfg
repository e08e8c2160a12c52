SPECIFICATION Spec
CONSTANTS
  TxDepth = 2
  RxDepth = 2
  Level = 1
  BUF_LEN = 3
  INT_MAX = 4
  Default = 2
  Timeouts = {2}
  WriteSizes = {3}
  ReadSizes = {2}
  Modes = {TRUE, FALSE}
  Tags = 3
PROPERTIES OffMeansFull

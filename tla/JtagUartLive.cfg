SPECIFICATION Spec
CONSTANTS
  TxDepth = 1
  RxDepth = 1
  Level = 0
  BUF_LEN = 2
  INT_MAX = 4
  Default = 2
  Timeouts = {2}
  WriteSizes = {2}
  ReadSizes = {1}
  Modes = {FALSE}
  Tags = 2
PROPERTIES Drains CallsReturn

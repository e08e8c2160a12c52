SPECIFICATION HistFairSpec
CONSTANTS
  Keys = {13, 11, 0, 2, 4, 6}
  MaxPressed = 1
  XNums = {9}
  AdcValues <- TwoCodes
  FastPerClk = 2
INVARIANTS TypeOK DisplayLag WonByCode
PROPERTIES FreshStage NoAdvanceWhenQuiet StagesSpec ShakenOpen CountedOut

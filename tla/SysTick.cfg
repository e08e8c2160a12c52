SPECIFICATION Spec
CONSTANTS
  Alarm = {a, b}
  Head = Head
  Null = Null
  Modulus = 4
  Waits = {0, 1, 2}
  Intervals = {1, 3}
INVARIANTS TypeOK ListWhole
PROPERTIES NeverEarly AlarmsOnTime DelayEnds

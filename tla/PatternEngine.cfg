SPECIFICATION Spec
CONSTANTS
  c1 = c1
  c2 = c2
  c3 = c3
  c4 = c4
  Calls = {c1, c2, c3}
  Targets = {t1}
  Patterns = {1, 2}
  Absent = Absent
  NoPattern = NoPattern
  Books <- TwoBooks
  Hour = 1
  Day = 3
  DefaultThreshold = 2
  DefaultPause = 2
  Threads = 2
  MaxClock = 3
INVARIANTS PatternInv CapsHold EditsTakeEffect
PROPERTIES FailingPatternsRest
SYMMETRY Symmetry

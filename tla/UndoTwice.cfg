SPECIFICATION UndoSpec
CONSTANTS
  Calls = {c1, c2, c3}
  Vms = {v1}
  ActionFields = {power}
  SizeFields = {memory}
  Values = {x1, x2}
  Keep = Keep
  NoTag = NoTag
  EtagsServed = TRUE
  MaxDrift = 0
  MaxCrashes = 0
  Direct = {c1}
  Applies = {a1, a2}
  NoCall = NoCall
  Restorable = {x1}
  MaxFaults = 0
INVARIANT AppliedOnce
SYMMETRY Symmetry

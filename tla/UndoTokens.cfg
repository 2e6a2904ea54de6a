SPECIFICATION UndoSpec
CONSTANTS
  Calls = {c1, c2, c3}
  Vms = {v1}
  ActionFields = {power}
  SizeFields = {sockets, memory}
  Values = {x1, x2}
  Keep = Keep
  NoTag = NoTag
  EtagsServed = TRUE
  MaxDrift = 1
  MaxCrashes = 1
  Direct = {c1}
  Applies = {a1, a2}
  NoCall = NoCall
  Restorable = {x1}
  MaxFaults = 1
INVARIANTS UndoInv TokensTellTheTruth EffectsReversible OnceUnlessDisturbed
PROPERTIES NoLostUpdate ReplayRestores
SYMMETRY Symmetry

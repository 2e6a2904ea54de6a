SPECIFICATION Spec
CONSTANTS
  c1 = c1
  c2 = c2
  c3 = c3
  c4 = c4
  loop = loop
  other = other
  Calls = {c1, c2, c3, c4}
  Fingerprint <- MCFingerprint
  Unlimited = Unlimited
  Limits <- MCLimits
  Window = 2
  MaxSkew = 1
  MaxClock = 3
INVARIANTS BudgetInv RunawayBounded
PROPERTIES RefusalJustified
SYMMETRY Symmetry

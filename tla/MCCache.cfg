CONSTANTS
  Key = {k1, k2, k3, k4, k5}
  Value = {1, 2}
  Limit = {0, 1, 2, 3, 4}
SPECIFICATION CacheSpec
INVARIANTS CacheTypeOK KeysOnce HotStay
PROPERTIES ImplementsMap
SYMMETRY MCSymmetry

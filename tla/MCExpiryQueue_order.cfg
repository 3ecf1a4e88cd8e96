CONSTANTS
  Token = {t1, t2, t3, t4, t5, t6}
  Time = {1, 2, 3}
SYMMETRY Symmetry
SPECIFICATION Spec
INVARIANT HoldsQueued
INVARIANT Ordered
PROPERTY PopsInOrder

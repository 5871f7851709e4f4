SPECIFICATION Spec
CONSTANTS
  Slots = {s1, s2, s3}
  Observers = {o1, o2}
  MaxEvents = 4
  NoSlot = NoSlot
SYMMETRY Symmetric
INVARIANT NeverOvercounts
PROPERTY ExactWithoutEviction

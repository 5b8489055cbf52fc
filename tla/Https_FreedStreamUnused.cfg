CONSTANTS
  NSlots = 2
  Elements = {e1, e2}
  Blocks = {b1, b2}
  Null = Null
SPECIFICATION Spec
INVARIANT FreedStreamUnused
CHECK_DEADLOCK FALSE

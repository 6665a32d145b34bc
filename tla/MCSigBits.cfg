CONSTANTS
  ByteBits = 2
  IntBytes = 4
  Sizes = {1, 2, 4}
  Val <- Values
  MaxPoints = 5
SPECIFICATION Spec
INVARIANTS TypeOK InBounds PackedExactly ValuesComeBack
CHECK_DEADLOCK FALSE

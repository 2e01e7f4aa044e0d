\* A buffer that the longer lines do not fit in.
SPECIFICATION Spec
CONSTANTS
  Size = 72
  Texts = {0, 1, 3}
  Digits = {1, 3}
INVARIANT EndsEarlier

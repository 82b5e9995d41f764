SPECIFICATION Spec

CONSTANTS
  x = x
  e_acute = e_acute
  wide_blank = wide_blank
  Width <- MCWidth
  Blanks = {wide_blank}
  Panic = Panic
  MaxLine = 4

INVARIANTS
  MultibyteSafe

CONSTANTS
  out = out
  in1 = in1
  in2 = in2
  Out = {out}
  In = {in1, in2}
  MayFail = {out}
  Units <- MCUnits
  Initial = 2
  DecA = 2
  DecB = 1
  Base = 2
  Word = 4
  MaxHead = 3
  MaxFailures = 1
SPECIFICATION Spec
INVARIANT DecimalsConverted
CHECK_DEADLOCK FALSE

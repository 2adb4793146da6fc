CONSTANTS
  out = out
  in1 = in1
  in2 = in2
  Out = {out}
  In = {in1, in2}
  MayFail = {out}
  Units <- MCUnits
  Initial = 2
  DecA = 1
  DecB = 1
  Base = 2
  Word = 4
  MaxHead = 3
  MaxFailures = 1
SPECIFICATION Spec
INVARIANTS TypeOK SumsExact ResultTellsLoss NoneForgotten
CHECK_DEADLOCK FALSE

\* Two goroutines, a slice with two spare cells and one with one.
CONSTANTS
  Caller = {c1, c2}
  Spare <- MCSpare
  Amount = {3, 6, 10}
  Increment = {4}
  Digits = 2
  MaxPosition = 2
SPECIFICATION Spec
SYMMETRY Symmetry
INVARIANT TypeOK
INVARIANT OrderAsAsked
PROPERTY CloseOnlyReduces

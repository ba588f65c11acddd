\* Register runs in one folder, and whether SUCCESS of one means that it saved.
SPECIFICATION Spec
CONSTANTS
  Runs = {r1, r2, r3}
  Earlier = Earlier
  Empty = Empty
  ErrorText = ErrorText
  Asked <- Askings
  NoValue = NoValue
SYMMETRY RunSymmetry
INVARIANTS
  SuccessMeansSaved

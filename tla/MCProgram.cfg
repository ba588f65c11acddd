\* Three runs of any kind in one folder, over every file there may be at first.
SPECIFICATION Spec
CONSTANTS
  Runs = {r1, r2, r3}
  Earlier = Earlier
  Empty = Empty
  ErrorText = ErrorText
  Asked <- Askings
  NoValue = NoValue
SYMMETRY RunSymmetry
INVARIANTS
  TypeOK
  RegistrationIsReachable
  ExitTellsHowFar
  SecureBeforeUse
  ParseReadsAsWritten
  SpellingAndOrderDoNotMatter
  AskingsAreThoseOfLines
PROPERTIES
  OldRegistrationKept
  ImplementsRegistration

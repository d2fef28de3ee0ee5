SPECIFICATION Spec
CONSTANTS
  c1 = c1  c2 = c2  c3 = c3
  NoCall = NoCall
  Setup = Setup
  Call = {c1, c2, c3}
  Backend <- MCBackend
  Language <- MCLanguage
  Large = {c3}
  Plain = {c3}
  WithFiles = {c2}
  OtherLanguage = {c1}
  MaxText = 1
INVARIANT ResultsHaveCause
PROPERTY CallsReturn
\* The calls are used up.
CHECK_DEADLOCK FALSE

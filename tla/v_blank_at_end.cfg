CONSTANTS
  LineLength = 3
  SizeT = 64
  Memory = 24
  None = None
  Inputs <- MCInputs
  Contents <- MCContents
SPECIFICATION Spec
INVARIANT BlanksAreEscaped

SPECIFICATION Spec
CONSTANTS
  a = a
  b = b
  c = c
  d = d
  new = new
  MaxLen = 5
  Char <- MCChar
  Inputs <- MCInputs
INVARIANTS
  NoOverlap
  OffsetsStayValid
  OnePassSuffices
  ProgramUnchanged
  NoStubLeft
PROPERTY
  ImplementsPromise

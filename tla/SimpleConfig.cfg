SPECIFICATION Spec
CONSTANTS
  Char <- MCChar
  Key <- MCKey
  Order <- MCOrder
  Kinds = {"bool", "int", "string"}
  Line <- MCLine
  LineMax = 13
  Rejected <- MCRejected
  MaxCalls = 4
  MaxLines = 2
  MaxParses = 2
INVARIANTS Outcome Verdict Ownership

CONSTANTS
  q1 = q1  q2 = q2
  Requests <- MCRequests
  Life = 2
SPECIFICATION Spec
SYMMETRY Symmetry
INVARIANTS TokensLapse
PROPERTIES NoSelfPromotion

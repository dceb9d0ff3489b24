SPECIFICATION Spec
CONSTANTS
  x = x
  y = y
  z = z
  n1 = n1
  n2 = n2
  n3 = n3
  a1 = a1
  a2 = a2
  b1 = b1
  NULL = NULL
  Container <- MCContainer
  NetsOf <- MCNetsOf
  Pool <- MCPool
  MaxStarts = 2
  ApiFaults = FALSE
SYMMETRY AddressSymmetry
INVARIANTS
  AddressBehindVeth

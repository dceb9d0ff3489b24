SPECIFICATION Spec
CONSTANTS
  Others <- MCOthers
  Addresses <- MCAddresses
  OptionSums = {0, 1800}
INVARIANTS
  FullyRecomputed

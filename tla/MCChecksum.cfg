SPECIFICATION Spec
CONSTANTS
  Others <- MCOthers
  Addresses <- MCAddresses
  OptionSums = {0}
INVARIANT
  ChecksumVerifies

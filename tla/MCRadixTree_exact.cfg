SPECIFICATION Spec
CONSTANTS
  Bits = 3
  NoValue = NoValue
  MaxNodes = 8
  Nets <- MCNets
INVARIANTS TypeOK ExactUntilReuse

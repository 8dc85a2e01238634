SPECIFICATION Spec
CONSTANTS
  Bits = 2
  Bytes4 = 2
  Groups = 3
  None = null
  Maps <- AllMaps
  Addresses <- AllAddresses
INVARIANTS
  SmallestNetworkOverrides

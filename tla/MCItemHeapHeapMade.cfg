\* Every array of up to five keys out of three.
SPECIFICATION Spec
CONSTANTS
  MaxLen = 5
  MaxKey = 3
INVARIANT HeapMade

CONSTANTS
  Bytes = {a, b}
  Size = 4
  Requests = {0, 1, 2, 3, 4}
  MaxBytes = 6
  NoByte = NoByte
SPECIFICATION Spec
SYMMETRY ByteSymmetry
INVARIANTS IInv CellExclusion
PROPERTY ImplementsByteStream

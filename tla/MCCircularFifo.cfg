SPECIFICATION Spec
CONSTANTS
  SIZE = 3
  buf_size = 6
  PROTOCOL_SIZE = 2
  WORD = 65536
  MaxBytes = 21
INVARIANTS
  TypeOK
  InOrder
  WholeElements
  CountHonest

CONSTANTS
    ByteBits = 1
    Polynomial <- MCShort
    Users = {reader, writer}
    MaxSize = 6
SPECIFICATION Spec
INVARIANT ResetToZero

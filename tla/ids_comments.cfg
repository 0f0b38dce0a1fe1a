SPECIFICATION Spec
CONSTANTS
    KeyBytes = 2
    ByteBits = 3
INVARIANTS
    OneCommentHolds

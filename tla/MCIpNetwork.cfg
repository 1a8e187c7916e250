CONSTANTS
    V4Bits = 6
    V6Bits = 3
    BadAddr = BadAddr
    NaN = NaN
SPECIFICATION Spec
INVARIANT TypeOK
INVARIANT V4RangeIsCidr

CONSTANTS
    ByteBits = 2
    IntBits = 16
    Inputs <- MCInputs
SPECIFICATION Spec
INVARIANT
    DecodersExactWhenFits

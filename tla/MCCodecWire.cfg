\* 64 = 9 * 7 + 1 and 32 = 4 * 7 + 4 bits, scaled down: 15 = 2 * 7 + 1 and
\* 11 = 7 + 4, so that the last byte of the longest varint holds the same bits.
CONSTANTS
    WordBits = 15
    IntBits = 11
    Inputs <- MCInputs
SPECIFICATION Spec
INVARIANTS DecodesAsMerge SizeExact CutKeepsPrefix IndexInBounds
PROPERTY AlwaysProgresses

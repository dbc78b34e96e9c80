\* Every text of up to four characters, '$' among them.
SPECIFICATION HuffmanSpec
CONSTANTS
    Texts <- MCTexts
    Alphabet <- MCAlphabet
    NULL = NULL
INVARIANT TreeReconstructed
CHECK_DEADLOCK FALSE

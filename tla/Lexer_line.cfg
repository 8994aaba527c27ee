\* Every file of up to four characters.
SPECIFICATION LexerSpec
CONSTANTS
    TokenMax = 3
    MaxLength = 4
INVARIANTS
    MessageNamesLine

CONSTANTS
    Letters <- MCLetters
    Digits <- MCDigits
    Literals <- MCLiterals
    AsciiText <- MCAsciiText
    NumberOf <- MCNumberOf
    Sources <- MCSources
    MaxSkip = 500
    MaxDecls = 100
SPECIFICATION Spec
CHECK_DEADLOCK FALSE
INVARIANTS
    TypeOK
    TreeIsTheSource
    NeverSpins
PROPERTIES
    EveryIterationAdvances

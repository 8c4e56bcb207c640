CONSTANTS
    Letters <- MCLetters
    Digits <- MCDigits
    Literals <- MCLiterals
    AsciiText <- MCAsciiText
    NumberOf <- MCNumberOf
    Sources <- GenericSources
    MaxSkip = 500
    MaxDecls = 100
SPECIFICATION Spec
CHECK_DEADLOCK FALSE
INVARIANT TreeIsTheSource

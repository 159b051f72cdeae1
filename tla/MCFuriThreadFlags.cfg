SPECIFICATION FlagsFairSpec
CONSTANTS
    Flag = {A, B}
    Setter = {s1, s2}
    Option <- WaitForAnything
    FuriFlagError = FuriFlagError
    UsesClear = TRUE
PROPERTIES
    ReceivedOnce
    FlagsKept
    WaitReturnsOnSet

\* No statement fails; a range holds at most one row more than fits.
SPECIFICATION Spec
CONSTANTS
    Threads = {t1}
    Matching = {0, 1, 2}
    MaxRecords = 1
    MayFail = FALSE
    Chars <- MCChars
    Key <- MCKey
    Xor <- MCXor
    NewPasswords <- MCNew
    Operator <- MCOperator
    Admin <- MCAdmin
    Garbled <- MCGarbled
    MinLength = 2
INVARIANT
    NoDataMeansNone

\* New passwords, with and without a character of the key; two query threads; a row that is
\* not read as written may be read as the other one.
SPECIFICATION FairSpec
CONSTANTS
    Threads = {t1, t2}
    Matching = {0, 1, 2}
    MaxRecords = 1
    MayFail = TRUE
    Chars <- MCChars
    Key <- MCKey
    Xor <- MCXor
    NewPasswords <- MCNew
    Operator <- MCOperator
    Admin <- MCAdmin
    Garbled <- MCGarbled
    MinLength = 2
INVARIANTS
    TypeOK
    ScreenMatchesRole
    NoDialogLeft
    PasswordKept
    OneQuery
    ShownIsLast
PROPERTIES
    LoadingEnds
    AnswerShown

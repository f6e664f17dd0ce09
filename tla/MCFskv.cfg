SPECIFICATION FskvSpec
CONSTANTS
    Key <- MCKey
    Scalar = {empty}
    Empty = empty
    Field = {f}
    None = None
    Long <- MCLong
    NoFile = NoFile
    Blank = Blank
    MayFail = TRUE
INVARIANTS
    FskvTypeOK
    IterationLists
PROPERTY ImplementsKeyValue

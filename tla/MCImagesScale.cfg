\* images.rs: a colliding row is a miss.  Not one of a scale within a thousandth
SPECIFICATION Spec
CONSTANTS
    n1 = n1  n2 = n2  r1 = r1  r2 = r2  v1 = v1  v2 = v2
    NoVersion = NoVersion  None = None  Garbled = Garbled
    Ids = {n1, n2}
    RefSeq <- MCRefs
    Formats = {"png@1", "png@1.0004", "svg"}
    Filed <- MCFiled
    Versions = {v1, v2}
    Fills <- MCFills
    Key <- MCKey
    Large <- MCLarge
    NotUtf8 <- MCNotUtf8
    MaxRequest = 2
INVARIANT ExactBytes
CHECK_DEADLOCK FALSE

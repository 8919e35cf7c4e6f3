\* Any edits between any pulls
SPECIFICATION Spec
CONSTANTS
    root = root  p1 = p1  p2 = p2  l1 = l1  l2 = l2  None = None
    lib = lib  set1 = set1  fill = fill  v1 = v1  v2 = v2
    Root = root
    Pages = {p1, p2}
    Layers = {l1, l2}
    LooksOf <- MCLooksOf
    Rank <- MCRank
    Component <- MCComponent
    SetName <- MCSetName
    Style <- MCStyle
    Variables = {v1, v2}
    Imported = {v2}
    IdOrder <- MCIdOrder
INVARIANTS TreeFaithful ScopesAgree SearchFillsLimit ReferencesFound ScansAgree
CHECK_DEADLOCK FALSE

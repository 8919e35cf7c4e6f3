\* Exports, imports, proxied calls and images between the steps of pulls, with a crash; no wipe.
SPECIFICATION Spec
CONSTANTS
    n1 = n1  n2 = n2  x1 = x1  x2 = x2  a = a  b = b
    serve = serve  c1 = c1  c2 = c2  call1 = call1  image1 = image1
    Absent = Absent  NoVersion = NoVersion  Imported = Imported
    Nodes = {n1}
    Vars = {x1, x2}
    Calls = {call1}
    Images = {image1}
    Bodies = {a, b}
    MaxVersion = 1
    Doc <- MCDoc
    VarDoc <- MCVarDoc
    Serve = serve
    Clis = {c1}
    Saved = {0}
    MaxGen = 0
    MaxCrash = 1
INVARIANTS ExportWhole HitNotOlder NoStaleRowKept
PROPERTIES ImportSurvives ChurnBalances
CHECK_DEADLOCK FALSE

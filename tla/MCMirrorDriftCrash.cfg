\* SPEC 14: records never churn from flag drift.  One command line, one crash
SPECIFICATION Spec
CONSTANTS
    n1 = n1  n2 = n2  x1 = x1  x2 = x2  a = a  b = b
    serve = serve  c1 = c1  c2 = c2  call1 = call1  image1 = image1
    Absent = Absent  NoVersion = NoVersion  Imported = Imported
    Nodes = {n1}
    Vars = {}
    Calls = {}
    Images = {}
    Bodies = {a, b}
    MaxVersion = 0
    Doc <- MCDoc
    VarDoc <- MCVarDoc
    Serve = serve
    Clis = {c1}
    Saved = {}
    MaxGen = 0
    MaxCrash = 1
PROPERTIES NoFlagDrift
CHECK_DEADLOCK FALSE

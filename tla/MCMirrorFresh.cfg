\* README: one process may open a store at a time.  pull --fresh breaks it.
SPECIFICATION Spec
CONSTANTS
    n1 = n1  n2 = n2  x1 = x1  x2 = x2  a = a  b = b
    serve = serve  c1 = c1  c2 = c2  call1 = call1  image1 = image1
    Absent = Absent  NoVersion = NoVersion  Imported = Imported
    Nodes = {n1, n2}
    Vars = {}
    Calls = {}
    Images = {}
    Bodies = {a, b}
    MaxVersion = 0
    Doc <- MCDoc
    VarDoc <- MCVarDoc
    Serve = serve
    Clis = {c1}
    Saved = {}
    MaxGen = 1
    MaxCrash = 0
INVARIANTS OneProcessHasTheStore
CHECK_DEADLOCK FALSE

\* Pulls by serve and one command line, crashes and wipes; no variables, no cache rows.
SPECIFICATION Spec
CONSTANTS
    n1 = n1  n2 = n2  x1 = x1  x2 = x2  a = a  b = b
    serve = serve  c1 = c1  c2 = c2  call1 = call1  image1 = image1
    Absent = Absent  NoVersion = NoVersion  Imported = Imported
    Nodes = {n1, n2}
    Vars = {}
    Calls = {}
    Images = {}
    Bodies = {a, b}
    MaxVersion = 1
    Doc <- MCDoc
    VarDoc <- MCVarDoc
    Serve = serve
    Clis = {c1}
    Saved = {0, 1}
    MaxGen = 1
    MaxCrash = 1
INVARIANTS TypeOK SnapshotConsistent
PROPERTIES GeometrySticky ServeNeverRegresses ImplementsAtomicMirror
CHECK_DEADLOCK FALSE

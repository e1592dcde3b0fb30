CONSTANTS
    t1 = t1
    t2 = t2
    n1 = n1
    n2 = n2
    Thread <- ThreadTwo
    Name <- NameTwo
    Second <- SecondTwo
    NoPath = NoPath
    MaxFiles = 1
    MaxSize = 2
    MaxLog = 4
SPECIFICATION Spec
SYMMETRY Symmetry
INVARIANTS OneConsole WrittenOnce InOrder
PROPERTIES FullIsLeft

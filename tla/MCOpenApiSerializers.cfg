SPECIFICATION SerializersSpec
CONSTANTS
    A = A
    B = B
    C = C
    None = None
    Class <- MCClass
    Name <- MCName
    Field <- MCField
    Attribute <- MCAttribute
    Views <- MCViews
    Graphs <- MCGraphs
    MaxDepth = 2
    MaxLength = 6
INVARIANTS
    GapsReported
    ExpandsOnce
CHECK_DEADLOCK FALSE

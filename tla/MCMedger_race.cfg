\* Two goroutines: a DeleteItem overlapping a SaveEdges; New was given a
\* prefix without spare capacity.
CONSTANTS
    Clients = {c1, c2}
    None = None
    KeySize = 2
    RelTypes = {0, 1}
    Ids <- MCIds
    Px <- MCPx
    Ops <- MCOps
    PxSpare = 0
SPECIFICATION Spec
PROPERTY Refinement

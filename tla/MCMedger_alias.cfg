\* One goroutine; New was given the one-byte prefix in a slice with 7 bytes
\* of spare capacity, as []byte("e") or make([]byte, 1, 8) gives: a key of
\* 2 + 2 * KeySize = 6 bytes fits in it.
CONSTANTS
    Clients = {c1}
    None = None
    KeySize = 2
    RelTypes = {0, 1}
    Ids <- MCIds
    Px <- MCPx
    Ops <- MCOps
    PxSpare = 7
SPECIFICATION Spec
PROPERTY Refinement

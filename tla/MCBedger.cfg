\* One caller; kl is 0 as newTx leaves it, keySize 2 as passed to New.
CONSTANTS
    Clients = {c1}
    None = None
    KeySize = 2
    TxnKl = 0
    RelTypes = {0}
    Ids <- MCIds
    Px <- MCPx
    Ops <- MCOps
SPECIFICATION Spec
PROPERTY Refinement

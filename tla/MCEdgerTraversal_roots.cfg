\* Acyclic graphs with one root marked by a self relation, as edger.go
\* tells callers to mark roots.
CONSTANTS
    KeySize = 3
    Ids <- MCIds
    Rel1 <- MCRel1
    StorePrefix <- MCPrefix
    Levels = {0, 1, 2}
    Graphs <- RootedDAGs
SPECIFICATION Spec
INVARIANT LoadTerminates

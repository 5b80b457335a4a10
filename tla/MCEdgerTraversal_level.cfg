\* The spec's depth bound, on acyclic graphs over the three ids.
CONSTANTS
    KeySize = 3
    Ids <- MCIds
    Rel1 <- MCRel1
    StorePrefix <- MCPrefix
    Levels = {0, 1, 2}
    Graphs <- DAGs
SPECIFICATION Spec
INVARIANT LevelBound

\* The spec's pair-symmetry round trip, with the bounds of the keys caller in MCPure.cfg.
CONSTANTS
    KeySize = 3
    Bytes = {0, 1}
    RelTypes = {0, 1}
    StorePrefix <- PrefixOne
    BadIds <- BadIdsW3
    MaxArgs = 4
SPECIFICATION Spec
INVARIANT PairRoundTrip

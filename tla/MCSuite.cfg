\* keys: ids of 3 bytes over {0,1}, two short and one long id, argument lists
\*   of up to 4 ids (0, 1, 2 pairs and the odd lengths).
\* traversal: the spec's ids 001, 010, 100 and every graph over them, a
\*   relation-type-1 edge against the graphs' directions, maxLevel absent, 1, 2.
\* tlv: up to three records of 0-2 bytes, the Reader's loop run and reset.
\* string_array: slices of up to 3 strings over 3 ranks, chunk sizes 0-3.
\* bijective: n in 0..40 over a three-letter alphabet (up to 4 digits).
\* medger: the calls of MedgerCalls, by one goroutine and by two.
\* throttle: max 2 and three tasks, two failing (errCh never fills).
\* fanin: sources a and b sending two values each, out of size 1 (full
\*   after one value, so the drop happens), Add a, Add b, Remove a, Close.
\* logrotator: three messages, two SIGHUPs (sigChan holds one), one Rotate and
\*   one Close, with OpenFile, handle.Close, handle.Write, io.Copy, files.Copy
\*   and Truncate failing or not.
\* conder: three goroutines in Wait and two Next/Done calls in any order.
\* closer: two goroutines calling Close, the wrapped Close failing or not.
\* broker: two clients subscribing to x or y and closing, one Broadcast,
\*   b.empty of the code's capacity 10 (at most two empty signals are queued).
CONSTANTS
    KeySize = 3
    StorePrefix <- MCPrefix
    Bytes = {0, 1}
    RelTypes = {0, 1}
    BadIds <- MCBadIds
    MaxArgs = 4
    TIds <- MCTIds
    Rel1 <- MCRel1
    Levels = {0, 1, 2}
    Graphs <- MCGraphs
    Records <- MCRecords
    MaxRecords = 3
    Strs = {1, 2, 3}
    MaxLen = 3
    Sizes = {0, 1, 2, 3}
    MaxN = 40
    Letters <- MCLetters
    MClients = {c1, c2}
    MNone = MNone
SPECIFICATION MCSpec
INVARIANT SuiteTypeOK
INVARIANT ScanExact
INVARIANT DirectExact
INVARIANT ReachExact
INVARIANT UntilPath
 
INVARIANT SetOpsExact
INVARIANT EqualIsBagEqual
INVARIANT ChunkPartition
INVARIANT BijectiveRoundTrip
INVARIANT ErrorReported
INVARIANT LogExact
INVARIANT NoSilentLoss
INVARIANT CloseOnce
PROPERTY SerialRefinement
PROPERTY ReadsArePaired
PROPERTY DoneReleases
PROPERTY DesertedStops

\* Two read-write clients, payloads m1 and m2, and a raw payload r.  The
\* event loop and the clients may all stop waiting (the program is idle) and
\* a panic stops the process: deadlock is not an error here.
CONSTANTS
    Clients = {a, b}
    WriteOnly = {}
    Msgs = {m1, m2}
    RawMsgs = {r}
    None = None
SPECIFICATION Spec
INVARIANT NoSendOnClosed
CHECK_DEADLOCK FALSE

\* Two callers and the listener; the scripts end, so the program really
\* stops: deadlock is not an error here.
CONSTANTS
    Callers = {g1, g2}
    None = None
    Script <- MCScript
SPECIFICATION Spec
INVARIANT NoChangeAfterStop
CHECK_DEADLOCK FALSE

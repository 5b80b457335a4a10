\* Two workers; one goroutine Wait(0)s while the other Take(1)s and
\* Return()s; listen's ping runs in its own goroutine.  The scripts end, so
\* the program really stops: deadlock is left to the liveness property.
CONSTANTS
    Max = 2
    Callers = {w, t}
    PingSlots = {s1}
    None = None
    Script <- MCScript
SPECIFICATION Spec
PROPERTY TakeReturnReturns
CHECK_DEADLOCK FALSE

\* Two listeners with unbuffered or one-slot pipes, two senders of two
\* messages each, so a Send can start while another waits and a listener
\* can stop reading with values of both pending.  Listeners and sender run their one script and stop, so the
\* program may really halt: deadlock is left to the liveness property.
CONSTANTS
    Listeners = {l1, l2}
    Senders = {s1, s2}
    Topics = {t1}
    Buffers = {0, 1}
    NumMsgs = 2
SPECIFICATION Spec
INVARIANT SendNoDrop
 
CHECK_DEADLOCK FALSE

\* max = 1 and two failing tasks: the second Do may take the free slot
\* although the first error waits in errCh.  The caller's script ends, so
\* the program really stops: deadlock is left to the liveness property.
CONSTANTS
    Max = 1
    Tasks <- MCTasks
    NoErr = NoErr
SPECIFICATION Spec
PROPERTY FinishReturns
CHECK_DEADLOCK FALSE

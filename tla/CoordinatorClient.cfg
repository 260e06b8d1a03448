\* Three sender bthreads: main joins them in order while the others may
\* still be mid-loop, and a start can fail after some threads are running.
CONSTANTS
    ThreadNum = 3

SPECIFICATION FairSpec

INVARIANT TypeOK BoundedCallsAfterQuit
PROPERTY ClientTerminates

\* main returns (0 or -1) and the process ends: a final state, no deadlock.
CHECK_DEADLOCK FALSE

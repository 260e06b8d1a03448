CONSTANTS
    AsyncReqs = {a1}
    SyncReqs = {s1}
    Keys = {k1}
    EmptyKey = EmptyKey
    Vals = {v1, v2}
    NoVal = NoVal
    NoReq = NoReq
    MaxLog <- MCMaxLog
    MaxElections <- MCMaxElections
    MaxCrashes <- MCMaxCrashes

SPECIFICATION Spec


INVARIANT ReplayNeverRollsBack

\* A run ends when its bounded set of requests has been served and the node
\* is idle; that final state is not a deadlock of the system.
CHECK_DEADLOCK FALSE

CONSTANTS
    Writers = {w1, w2}
    Readers = {r1}
    Keys = {k1, k2}
    EmptyKey = EmptyKey
    Vals = {v1, v2}
    NoVal = NoVal

SPECIFICATION Spec

INVARIANT TypeOK
PROPERTY KVSpec

\* A run ends when its bounded set of requests has been served.
CHECK_DEADLOCK FALSE

\* One reader and one key: a KvPut overwrites the value between KvGet and
\* the caller's read of the Slice.
CONSTANTS
    Readers = {r1}
    Keys = {k1}
    Vals = {v1, v2}
    NoVal = NoVal
    Torn = Torn
    MaxPuts <- MCMaxPuts

SPECIFICATION Spec

INVARIANT KvGetLinearizable

\* Every reader reads once and the puts are bounded: the run ends.
CHECK_DEADLOCK FALSE

CONSTANTS
    Writers = {w1}
    Admins = {a1, a2}
    Keys = {k1}
    Vals = {v1}
    NoVal = NoVal
    MaxGen <- MCMaxGen
    MaxCrashes <- MCMaxCrashes

SPECIFICATION Spec

INVARIANT RunningNodeRegistered

\* A run ends when its bounded set of calls has been served; the idle node
\* that remains is not a deadlock of the system.
CHECK_DEADLOCK FALSE

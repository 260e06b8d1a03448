\* Every key of the prefix "r" followed by at most three characters.
CONSTANTS
    Prefix <- MCPrefix
    Width <- MCWidth

INIT Init
NEXT Next

INVARIANT ParseNeverAborts

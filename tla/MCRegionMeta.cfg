\* Two RPC threads whose AddRegion and DeleteRegion steps interleave, with
\* a crash between any two steps and a recovery from the meta column family.
CONSTANTS
    Threads = {t1, t2}
    RegionIds = {2, 10}
    Descs = {d1, d2}
    None = None
    MaxCrashes <- MCMaxCrashes
    Prefix <- MCPrefix
    Width <- MCWidth

SPECIFICATION Spec

INVARIANT TypeOK
PROPERTY RecoverRestoresDirectory

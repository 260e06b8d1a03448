\* Two RPC threads, one descriptor per id: AddRegion and DeleteRegion of
\* the same id interleave.
CONSTANTS
    Threads = {t1, t2}
    RegionIds = {10}
    Descs = {d1, d2}
    None = None
    MaxCrashes <- MCMaxCrashes
    Prefix <- MCPrefix
    Width <- MCWidth

SPECIFICATION Spec

INVARIANT DirectoryMirrored

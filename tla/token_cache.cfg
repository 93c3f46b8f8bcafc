\* Two processes that share the caches, with or without the keyring package,
\* and each fault at most once.
CONSTANTS
    p1 = p1
    p2 = p2
    t1 = t1
    t2 = t2
    t3 = t3
    t4 = t4
    t5 = t5
    Process = {p1, p2}
    Token = {t1, t2, t3, t4, t5}
    None = None
    Faults = {"lookup", "store", "crash", "lost answer"}
SPECIFICATION CacheFairSpec
INVARIANTS CacheTypeOK CachedTokenIsAccepted
PROPERTY CacheRecovers

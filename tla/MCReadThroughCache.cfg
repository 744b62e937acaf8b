CONSTANTS
    r1 = r1
    r2 = r2
    w1 = w1
    w2 = w2
    Readers <- MCReaders
    Writers <- MCWriters
    Load <- MCLoad
    MaxWrites = 2
    MayAbort = TRUE
SYMMETRY MCSymmetry
SPECIFICATION CacheSpec
INVARIANTS
    CacheTypeOK
    FreshUnlessRaced

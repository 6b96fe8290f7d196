SPECIFICATION FairSpec
CONSTANTS
    NoThread = NoThread
    NoBinary = NoBinary
    Threads = {t1, t2}
    Binaries = {agy, antigravity}
    Dirs = {here, there}
    TTL = 2
    MaxChanges = 2
INVARIANTS TypeOK AnswersMatchBinary ResolvesFromItsCatalogue
PROPERTIES CallsReturn CatalogueHeals

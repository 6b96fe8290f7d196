SPECIFICATION Spec
CONSTANTS
    Stagings = {s1, s2, s3}
    Images = {i1, i2}
    Blocks = 3
INVARIANTS TypeOK SettledFilesAreWhole
PROPERTIES SettledFilesStay
CHECK_DEADLOCK FALSE

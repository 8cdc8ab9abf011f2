SPECIFICATION Spec
CONSTANTS
    Runs = {r1, r2, r3}
    Servers = {s1}
    PublicBlocks = 2
    SecretBlocks = 1
SYMMETRY RunSymmetry
INVARIANTS
    TypeOK
    RefusedOnlyAfterDamage
    LoadedKeysMatch
    KeyFilesInv

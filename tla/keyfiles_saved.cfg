SPECIFICATION Spec
CONSTANTS
    Runs = {r1, r2}
    Servers = {s1}
    PublicBlocks = 2
    SecretBlocks = 2
INVARIANT SavedMeansSaved

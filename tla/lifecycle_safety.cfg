SPECIFICATION Spec
CONSTANT
    Programs <- AllPrograms
INVARIANTS
    TypeOK
    ReleasesAreSafe
    NothingLeaks
    SecretsErased
    KeysAllOrNothing
    TextIsVerified
    LifecycleInv

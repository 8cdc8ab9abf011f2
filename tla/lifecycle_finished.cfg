SPECIFICATION Spec
CONSTANT
    Programs = {"secure_server", "secure_client"}
INVARIANT
    FinishedKeyErased

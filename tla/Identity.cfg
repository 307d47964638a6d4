SPECIFICATION FairVaultSpec
CONSTANTS
    MaxFaults = 2
    MaxLosses = 1
INVARIANTS
    PermanentIdentity
    VaultConsistent
PROPERTIES
    StartsAgain
CHECK_DEADLOCK FALSE

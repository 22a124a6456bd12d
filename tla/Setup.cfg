SPECIFICATION FairSpec
CONSTANTS
    MaxEdition = 2
    MaxFaults = 3
INVARIANTS
    TypeOK
    NoServiceDuringReplacement
    NeverLockedOut
    ConfigurationKept
    CleanStart
PROPERTIES
    ReadyIsNewest
    RerunSucceeds

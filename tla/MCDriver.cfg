SPECIFICATION Spec
CONSTANTS
    Sources <- MCSources
    Sessions <- MCSessions
    MaxFileImports = 3
    MaxMergedImports = 2
    HeaderSize = 2
    GeneSize = 2
    RelocSize = 1
    IdentitySize = 1
    MaxIdentities = 2
INVARIANTS
    TypeOK
    OnlySoundSourcesReachTheDisk
    ContractIsTheUnion
    WeaversGetWhatWasCompiled
    FailureLeavesNoImage
    NoTemporaryRemains
PROPERTIES
    CommandsAreAtomic
\* A session ends.
CHECK_DEADLOCK FALSE

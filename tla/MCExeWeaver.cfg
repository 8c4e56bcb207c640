CONSTANTS
    Specs <- MCSpecs
    StrLen <- MCStrLen
    Programs <- MCPrograms
    MaxImports = 2
    MaxLibraries = 8
    MaxSections = 8
    MaxUnwind = 64
SPECIFICATION Spec
INVARIANTS
    TypeOK
    CallsReachTheirImports
    ReferencesReachTheirConstants
    ExceptionTableCoversText
    ImageIsLoadable
CHECK_DEADLOCK FALSE

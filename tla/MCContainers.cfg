\* Every format on its jobs, with the system calls of macOS.
SPECIFICATION Spec
CONSTANTS
    Host = "darwin"
    Jobs <- MCJobs
INVARIANTS
    ImagesReadBack
    SuccessMeansWritten
    RomReachesEntry
PROPERTY
    RomArrives
\* A job ends when its image is written, or when the machine runs it.
CHECK_DEADLOCK FALSE

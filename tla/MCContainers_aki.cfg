\* The zones of the kernel image at the places its documentation gives them.
SPECIFICATION Spec
CONSTANTS
    Host = "darwin"
    Jobs <- MCJobs
INVARIANT
    AkiZonesAsDocumented
CHECK_DEADLOCK FALSE

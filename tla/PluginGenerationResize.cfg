SPECIFICATION Spec
CONSTANTS
    Assemblies <- MCAssemblies
    Calls = {1}
    MaxInflight = 1
    MaxLeases = 1
    MaxReplies = 1
    MaxFaults = 1
    CleanResizeFailures = TRUE
PROPERTY
    RetireCompletes
\* A freed generation, and an unloaded plugin, have nothing left to do.
CHECK_DEADLOCK FALSE

SPECIFICATION Spec
CONSTANTS
    Services = {"daemon", "api"}
    Commands = {c1}
    Jobs <- TwoJobs
    MaxPid = 3
    Launcher = TRUE
PROPERTIES NoMixedOwners
CHECK_DEADLOCK FALSE

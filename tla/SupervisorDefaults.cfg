\* The defaults of commands/ws/supervisor.ts in units of 500 ms.
SPECIFICATION FairSpec
CONSTANTS
    MaxRestarts = 10
    Window = 120
    BaseBackoff = 1
    MaxBackoff = 20
PROPERTY CrashLoopDetected
CHECK_DEADLOCK FALSE

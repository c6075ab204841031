\* prod | wc where prod writes more than the pipe holds.
CONSTANTS
    Lines <- MCPipeOnly
    MaxLines = 1
    MaxCmds = 2
    PIPE_CAP = 1
    Out = 2
SPECIFICATION Spec
PROPERTY Terminates
\* The shell exits at end of file and its last children finish: the system stops.
CHECK_DEADLOCK FALSE

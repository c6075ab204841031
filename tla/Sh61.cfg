\* Scripts of two lines drawn from MCLines; prod's output fits the pipe.
CONSTANTS
    Lines <- MCLines
    MaxLines = 2
    MaxCmds = 4
    PIPE_CAP = 1
    Out = 1
SPECIFICATION Spec
INVARIANT RunsOnce
INVARIANT ConditionalsFollowStatus
INVARIANT ForegroundDone
INVARIANT NoWaitOnBackground
PROPERTY Terminates
\* The shell exits at end of file and its last children finish: the system stops.
CHECK_DEADLOCK FALSE

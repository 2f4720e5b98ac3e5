SPECIFICATION ToolsSpec
CONSTANTS
    Confs <- Calls
    RemoteEnds = TRUE
    MAX_BACKLOG = 1
    MAX_STDIN_BACKLOG = 1
    Capacity = 1
    MaxIn = 3
    MaxRemote = 4
INVARIANTS PlinkSound FilesRight RequestsMatch
PROPERTIES ToolsEnd
CHECK_DEADLOCK FALSE

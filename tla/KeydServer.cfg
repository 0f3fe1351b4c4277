SPECIFICATION Spec
CONSTANTS
    Client = {c1, c2}
    Key = {k1}
    NoOne = NoOne
    Listener = Listener
    MaxClients = 2
    Backlog = 1
    MaxCommands = 2
    MaxStops = 1
CHECK_DEADLOCK FALSE
INVARIANT TablesAligned
INVARIANT AnswersMatch
INVARIANT ReadsOwnWrites
 

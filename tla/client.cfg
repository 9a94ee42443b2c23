SPECIFICATION Spec
CONSTANTS
    Clients <- MCClients
    CommandLines <- MCCommandLines
    MaxRetry = 1
    MaxWait = 1
    None = None
INVARIANT ListeningIsNamed
INVARIANT SomeServerListens
INVARIANT HelloIsTaken
PROPERTY ClientsEnd
CHECK_DEADLOCK FALSE

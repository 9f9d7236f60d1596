\* Two tabs, one other command, two frames read per reply; the third request
\* may meet the answers to two earlier ones.  What does not fit into a socket
\* waits in the browser, which is the same to the client.
SPECIFICATION FairSpec
CONSTANTS
    Self = self
    Others = {other}
    Tabs = 2
    Attempts = 2
    MaxRequests = 3
    MaxInbox = 1
CHECK_DEADLOCK FALSE
INVARIANTS
    TypeOK
    RepliesMatch
    ShownTabChosen
    SocketsBounded
PROPERTIES
    SelectionEnds

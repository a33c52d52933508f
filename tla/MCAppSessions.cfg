SPECIFICATION Spec
CONSTANTS
    Clients = {"ann", "bob", "cat"}
    MaxViewers = 2
    QueueCap = 2
    MaxMessages = 3
    MaxLocal = 1
INVARIANTS
    TypeOK
    WrittenForItsClient
    BuffersAccounted
CHECK_DEADLOCK FALSE

\* Three readers and four values: two readers can be woken while a third one
\* takes a value from under them, and there are more values than readers.
CONSTANTS
    Poppers = {p1, p2, p3}
    MaxPush = 4
SPECIFICATION QueueSpec
INVARIANTS
    NoLostWakeup
    EOFIsFinal
PROPERTIES
    CloseReleases
    ValuesAreTaken
\* Every goroutine may have returned and nobody calls again.
CHECK_DEADLOCK FALSE

CONSTANTS
    Submitters = 2
    QueueCapacity = 1
    QueueFullPolicy = "Block"
    MaxTasks = 3
    Cancellable = {2}
SPECIFICATION Spec
INVARIANT NoMovedFromAccess

CONSTANTS
    Submitters = 1
    QueueCapacity = 1
    QueueFullPolicy = "Block"
    MaxTasks = 3
    Cancellable = {2}
    StageQueueCapacity = 1
SPECIFICATION Spec
INVARIANTS CancellationDecides CancelledInQueueNeverRuns
PROPERTIES ImplementsTaskDelivery WaitReturns

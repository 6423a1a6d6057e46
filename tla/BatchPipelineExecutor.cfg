CONSTANTS
    Submitters = 1
    QueueCapacity = 1
    QueueFullPolicy = "Block"
    MaxTasks = 3
    Cancellable = {2}
    StageQueueCapacity = 1
    MaxBatchSize = 2
SPECIFICATION Spec
INVARIANTS EveryTaskInOnePlace OnlyPreprocessedAreStranded SuccessesInOrder CancellationDecides
PROPERTIES WaitReturns

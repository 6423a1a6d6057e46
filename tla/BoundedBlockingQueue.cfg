CONSTANTS
    Capacity = 2
    MaxItems = 5
SPECIFICATION Spec
INVARIANTS TypeOK SlotExclusion FifoDelivery DrainedOnClose NoLostWakeup
PROPERTIES CloseReleasesAll ImplementsFifo

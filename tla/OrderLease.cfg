\* Two workers, leases of one instant, every lease taken with a fresh clock
SPECIFICATION Spec
SYMMETRY WorkerSymmetry
CONSTANTS
    Workers = {w1, w2}
    LeaseMs = 1
    MaxClock = 3
    MaxVersion = 5
    FreshClock = TRUE
INVARIANTS NoLostUpdate LeaseLasts
PROPERTIES ImplementsLifecycle

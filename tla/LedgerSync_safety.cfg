SPECIFICATION Spec
CONSTANTS
    Tasks = {t1, t2}
    Principals = {p1}
    MaxBlocks = 3
    MaxArchives = 1
    BatchSize = 2
    MaxExceptional = 1
    MaxFailures = 1
SYMMETRY Symmetry
INVARIANTS
    ExactlyOnce
    PaymentsConserved
    AttachedWasPaid
PROPERTIES
    AsksHolder
    ProgressIsKept

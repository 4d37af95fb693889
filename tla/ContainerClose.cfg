\* An operation and two registrations against two closers.
SPECIFICATION Spec
CONSTANTS
    Calls = {c1}
    Closers = {k1, k2}
    Regs = {1, 2}
    None = None
CHECK_DEADLOCK FALSE
INVARIANTS
    EarlyRegistrationsCancelled
    CloseReturnsDestroyed
PROPERTIES
    CloseCompletes
    ImplementsDraining

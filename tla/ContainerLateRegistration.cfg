\* One registration against one close(): the promise of the comment on onClose.
SPECIFICATION SafeSpec
CONSTANTS
    Calls = {}
    Closers = {k1}
    Regs = {1}
    None = None
CHECK_DEADLOCK FALSE
INVARIANTS
    CancelledBeforeDestruction

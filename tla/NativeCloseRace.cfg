\* Three callers on one session: operations, nativeClose and a second nativeClose
\* race, and the freed descriptor number is taken by the rest of the process.
SPECIFICATION Spec
CONSTANTS
    Threads = {t1, t2, t3}
    Sessions = {s1}
    Containers = {c1}
    Fds = {3}
    HandleModulus = 3
    Foreign = Foreign
    None = None
INVARIANTS
    PlaintextOfOwnContainer
    KeyCopiesGuarded
    ClosedSessionsWiped
PROPERTIES
    RetiredCallsEnd
    ImplementsLifecycle

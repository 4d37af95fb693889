\* A stream of either provider against an unmount and a replacement.
SPECIFICATION Spec
CONSTANTS
    Streams = {1}
    Unmounts = {u1}
    Replacements = {r1}
    Chunks = 3
    Capacity = 1
    None = None
CHECK_DEADLOCK FALSE
INVARIANTS
    EndedIsForgotten
PROPERTIES
    SilentAfterClose
    ImplementsTransfer
    StoppedStreamsEnd

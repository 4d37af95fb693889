\* Two callers, two sessions on two containers, two descriptor numbers shared
\* with the rest of the process, and a single handle, which the counter reaches
\* again while it is live.
SPECIFICATION SafeSpec
CONSTANTS
    Threads = {t1, t2}
    Sessions = {s1, s2}
    Containers = {c1, c2}
    Fds = {3, 4}
    HandleModulus = 2
    Foreign = Foreign
    None = None
SYMMETRY Symmetry
INVARIANTS
    DescriptorsOwned
    ExFatDataValidated
PROPERTIES
    ForeignDescriptorsUntouched
    LiveHandlesStable

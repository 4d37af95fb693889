\* A tree of three levels, two containers, a recreation, an export.
SPECIFICATION Spec
CONSTANTS
    Root = "/"
    Folders = {"/", "d", "e"}
    Files = {"g", "h"}
    Children <- MCChildren
    Size <- MCSize
    LastSession = 2
    MaxInstances = 2
    MaxRequests = 3
    None = None
CHECK_DEADLOCK FALSE
INVARIANTS
    AllMeansWhole
    OneContainer
PROPERTIES
    NewestListingStays
    ProgressEnds

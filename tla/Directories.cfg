\* Three clusters for directories, at most two entries in a listing.
SPECIFICATION Spec
CONSTANTS
    ClusterCount = 3
    MaxEntries = 2
    Kinds = {"fat32", "exfat"}
    Chains = {0, 2, 3, 4, 6}
    Contents <- MCContents
    Bitmaps <- MCBitmaps
    Paths <- MCPaths
CHECK_DEADLOCK FALSE
INVARIANTS
    ListingIsWhole
    OpensWhatWasListed

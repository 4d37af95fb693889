\* The bounds of Directories.cfg: nativeListDir is documented to return null on error.
SPECIFICATION Spec
CONSTANTS
    ClusterCount = 3
    MaxEntries = 2
    Kinds = {"fat32", "exfat"}
    Chains = {0, 2, 3, 4, 6}
    Contents <- MCContents
    Bitmaps <- MCBitmaps
    Paths <- MCPaths
CHECK_DEADLOCK FALSE
INVARIANT
    ErrorIsNull

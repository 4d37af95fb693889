\* FAT32: a chain shorter than the file.
SPECIFICATION SafeSpec
CONSTANTS
    ClusterCount = 2
    SectorsPerCluster = 1
    SectorSize = 2
    ChunkSize = 2
    Kinds = {"fat32"}
    Sizes = {4}
CHECK_DEADLOCK FALSE
INVARIANTS
    CleanMeansWhole

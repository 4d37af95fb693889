\* Three clusters of two sectors of two bytes, chunks of five bytes.
SPECIFICATION Spec
CONSTANTS
    ClusterCount = 3
    SectorsPerCluster = 2
    SectorSize = 2
    ChunkSize = 5
    Kinds = {"fat32", "exfat", "noFatChain"}
    Sizes = {0, 1, 5, 8, 11, 13}
CHECK_DEADLOCK FALSE
INVARIANTS
    PrefixOfFile
    SoundFilesArrive
PROPERTIES
    StreamEnds

\* Geometry: sectors of 2 or 4 bytes, clusters of 1 or 2 sectors, FAT entries of
\* 2 bytes, in integers of 2, 3 and 6 bits, so that every value of every field of
\* a boot sector is tried and products leave the 32-bit type.
\* Digest: blocks of 4 bytes, the last 2 of them for the length.
\* Metadata: nine clusters of one byte. Records: names of two pieces, sets
\* of two secondaries. Names: at most 6 bytes, in paths of at most 8. Sectors: four
\* blocks of three bytes of two bits, in a file that may end before the sector does.
SPECIFICATION VolumeSpec
CONSTANTS
    U16 = 4
    U32 = 8
    U64 = 64
    SectorSizes = {2, 4}
    ClusterSizes = {1, 2}
    EntryBytes = 2
    BootSectors = 1
    FileSizes = {0, 15, 31}
    DataOffsets = {0, 2, 3, 62}
    AreaSizes = {0, 3, 4, 16, 28, 30}
    BlockSize = 4
    LengthSize = 2
    Word = 16
    Bytes <- MCBytes
    Messages <- MCMessages
    Stop = Stop
    Zero = Zero
    Garbage = Garbage
    KeyBlock = 4
    DigestSize = 2
    SaltSize = 2
    Counter <- MCCounter
    NoByte <- MCNoByte
    Passwords <- MCPasswords
    Salts <- MCSalts
    Iterations = {1, 2, 3}
    Areas = {"lfn", "set", "boot", "upcase"}
    Size <- MCSize
    Unsummed <- MCUnsummed
    Half <- MCHalf
    ByteValues = {0, 1, 2, 3}
    Count = 9
    Root = 2
    ClusterBytes = 1
    Records = 1
    UpcaseLimit = 3
    Chains <- MCChains
    Directories <- MCDirectories
    Heaps <- MCHeaps
    Formats = {"fat32", "exfat"}
    Sums = {1, 2}
    MaxSeq = 2
    MaxSecondary = 2
    MaxRecords <- MCMaxRecords
    LongNames <- MCLongNames
    BaseSize = 2
    ExtSize = 1
    ShortNames <- MCShortNames
    Parents <- MCParents
    Garbled <- MCGarbled
    MaxNameBytes = 6
    MaxPath = 8
    SectorBytes = 12
    BlockBytes = 3
    ByteBits = 2
    Reduction = {0, 1}
    FirstTweaks <- MCFirstTweaks
    Places = {0, 12}
    FileEnds = {11, 12, 24}
CHECK_DEADLOCK FALSE
INVARIANTS
    ReadsAreGranted
    ClustersApart
    DigestOfMessage
    KeyIsDerived
    DamageIsSeen
    BitmapServes
    LongNamesBelong
    SetsAreWhole
    NamesComeBack
    SectorDecrypted

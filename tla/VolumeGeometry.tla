---------------------------- MODULE VolumeGeometry ----------------------------
(***************************************************************************)
(* Where the sectors of a volume are: the checks of nativeOpen on the      *)
(* decrypted header, of validate_fat32_boot_sector and of                  *)
(* validate_exfat_boot_sector on the boot sector, and the arithmetic that  *)
(* takes a cluster to a sector and a sector to a place in the file, in the *)
(* integers of the machine.                                                *)
(*                                                                         *)
(* Every field of the header and of the boot sector may have any value.    *)
(* Checks that are not about places (signatures, checksums, flags, root    *)
(* metadata) are left out: a volume that fails them is not accepted.       *)
(***************************************************************************)
EXTENDS Integers

CONSTANTS U16, U32, U64,      \* values of uint16_t, uint32_t, uint64_t: 2^16, ...
          SectorSizes,        \* 512, ..., 4096
          ClusterSizes,       \* sectors per cluster: powers of two
          EntryBytes,         \* of a cluster in a FAT: 4
          BootSectors,        \* of exFAT: 24
          FileSizes, DataOffsets, AreaSizes  \* of the container and its header

ASSUME WidthsAssumption ==
    /\ U16 \in Nat \ {0} /\ U32 \in Nat \ {0} /\ U64 \in Nat \ {0}
    /\ U16 <= U32
ASSUME SizesAssumption ==
    /\ SectorSizes \subseteq 1 .. U32 - 1 /\ ClusterSizes \subseteq 1 .. U32 - 1
    /\ EntryBytes \in Nat \ {0} /\ BootSectors \in Nat
    /\ \A n \in SectorSizes : n % EntryBytes = 0
(* The widest products of a uint32_t, with one to add, fit a uint64_t. *)
ASSUME RoomAssumption ==
    \A n \in SectorSizes \cup ClusterSizes \cup {EntryBytes, 2} : U32 * (n + 1) <= U64
ASSUME HeadersAssumption ==
    /\ FileSizes \subseteq 0 .. U64 - 1
    /\ DataOffsets \subseteq 0 .. U64 - 1 /\ AreaSizes \subseteq 0 .. U64 - 1

u16 == 0 .. U16 - 1
u32 == 0 .. U32 - 1
u64 == 0 .. U64 - 1

VARIABLES phase,    \* closed, open, mounted: see Open, MountFat32, MountExFat
          header,   \* of the session
          boot,     \* Fat32Info or ExFatInfo
          access    \* the last sector asked for

geometryVars == <<phase, header, boot, access>>

NoAccess == [use |-> "none", cluster |-> 0, index |-> 0, sector |-> 0,
             granted |-> FALSE]

Headers == [fileSize : FileSizes, dataOffset : DataOffsets,
            areaSize : AreaSizes, sectorSize : SectorSizes]
Boots == [kind : {"fat32", "exfat"}, fat : u32, fatLength : u32, fats : {1, 2},
          heap : u32, clusters : u32, perCluster : ClusterSizes]
Accesses == [use : {"none", "fat", "data", "bitmap"}, cluster : u32, index : Nat,
             sector : Nat, granted : BOOLEAN]

GeometryInit ==
    /\ phase = "closed"
    /\ header \in Headers
    /\ boot \in {[kind |-> "fat32", fat |-> 0, fatLength |-> 0, fats |-> 1,
                  heap |-> 0, clusters |-> 0, perCluster |-> n] : n \in ClusterSizes}
    /\ access = NoAccess

-----------------------------------------------------------------------------
(* The header *)

(* checked_add_u64 would refuse the sum. *)
Overflows(n) == n >= U64

(* The area, in whole sectors, lies inside the file. *)
ValidHeader(h) ==
    /\ h.areaSize # 0
    /\ h.dataOffset % h.sectorSize = 0 /\ h.areaSize % h.sectorSize = 0
    /\ ~Overflows(h.dataOffset + h.areaSize)
    /\ h.dataOffset + h.areaSize <= h.fileSize

Open ==
    /\ phase = "closed"
    /\ ValidHeader(header)
    /\ phase' = "open"
    /\ UNCHANGED <<header, boot, access>>

Available == header.areaSize \div header.sectorSize

-----------------------------------------------------------------------------
(* The boot sector *)

(* The number of clusters that a FAT has entries for. *)
Capacity(fatLength) == ((fatLength * header.sectorSize) % U64) \div EntryBytes

LastCluster(clusters) == (clusters + 1) % U32

(* A second copy of the FAT that is forgotten. *)
FatEndOfOne(fat, fatLength, fats) == (fat + fatLength) % U64

FatEnd(fat, fatLength, fats) == (fat + fatLength * fats) % U64

(* The product of two uint32_t without the cast. *)
HeapEnd32(heap, clusters, perCluster) == heap + ((clusters * perCluster) % U32)

HeapEnd(heap, clusters, perCluster) == (heap + clusters * perCluster) % U64

(* The reserved sectors hold FSInfo and the backup of the boot sector, at
   places from 1 on; the root is one of the clusters. *)
MountFat32 ==
    /\ phase = "open"
    /\ \E reserved \in u16, fats \in {1, 2}, fatLength \in u32, total \in u32,
          perCluster \in ClusterSizes :
          LET firstData == FatEnd(reserved, fatLength, fats)
              clusters == (total - firstData) \div perCluster
          IN  /\ total <= Available
              /\ reserved > 1 /\ fatLength # 0 /\ firstData < total
              /\ clusters \in 1 .. U32 - 2
              /\ Capacity(fatLength) >= clusters + 2
              /\ boot' = [kind |-> "fat32", fat |-> reserved, fatLength |-> fatLength,
                          fats |-> fats, heap |-> firstData, clusters |-> clusters,
                          perCluster |-> perCluster]
    /\ phase' = "mounted"
    /\ UNCHANGED <<header, access>>

(* The first comparison says that there is a root cluster in range. *)
MountExFat ==
    /\ phase = "open"
    /\ \E fat \in u32, fatLength \in u32, heap \in u32, clusters \in u32,
          perCluster \in ClusterSizes, fats \in {1, 2}, length \in u64 :
          /\ LastCluster(clusters) >= 2 /\ clusters # 0 /\ fatLength # 0
          /\ length >= BootSectors /\ length <= Available
          /\ fat >= BootSectors
          /\ Capacity(fatLength) >= clusters + 2
          /\ FatEnd(fat, fatLength, fats) <= length
          /\ heap >= FatEnd(fat, fatLength, fats) /\ heap < length
          /\ HeapEnd(heap, clusters, perCluster) <= length
          /\ boot' = [kind |-> "exfat", fat |-> fat, fatLength |-> fatLength,
                      fats |-> fats, heap |-> heap, clusters |-> clusters,
                      perCluster |-> perCluster]
    /\ phase' = "mounted"
    /\ UNCHANGED <<header, access>>

-----------------------------------------------------------------------------
(* Sectors *)

(* vc_read_sector: what it multiplies, adds and compares. *)
Granted(sector) ==
    LET relative == sector * header.sectorSize
        place == header.dataOffset + relative
    IN  /\ ~Overflows(relative) /\ ~Overflows(place)
        /\ place <= header.fileSize /\ header.sectorSize <= header.fileSize - place
        /\ relative <= header.areaSize
        /\ header.sectorSize <= header.areaSize - relative

Ask(use, cluster, index, sector) ==
    access' = [use |-> use, cluster |-> cluster, index |-> index, sector |-> sector,
               granted |-> Granted(sector)]

Refuse(use, cluster) ==
    access' = [NoAccess EXCEPT !.use = use, !.cluster = cluster]

Usable(c) == c >= 2 /\ c <= LastCluster(boot.clusters)

(* fat32_cluster_to_sector, exfat_cluster_to_sector *)
FirstSector(c) == (boot.heap + (c - 2) * boot.perCluster) % U64

(* fat32_next_cluster, exfat_next_cluster: an entry behind the end of the FAT or
   across the end of a sector is refused, and taken for an end of chain. *)
ReadFat ==
    /\ phase = "mounted"
    /\ \E c \in u32 :
          LET at == (c * EntryBytes) % U64
              sector == boot.fat + at \div header.sectorSize
          IN  /\ Usable(c)
              /\ IF /\ sector < boot.fat + boot.fatLength
                    /\ (at % header.sectorSize) + EntryBytes <= header.sectorSize
                 THEN Ask("fat", c, at \div header.sectorSize, sector)
                 ELSE Refuse("fat", c)
    /\ UNCHANGED <<phase, header, boot>>

(* The loops over the sectors of a cluster, of directories and of files. *)
ReadCluster ==
    /\ phase = "mounted"
    /\ \E c \in u32 : \E s \in 0 .. boot.perCluster - 1 :
          /\ Usable(c)
          /\ Ask("data", c, s, FirstSector(c) + s)
    /\ UNCHANGED <<phase, header, boot>>

(* exfat_read_contiguous_byte: the byte of the bitmap for a cluster, eight
   clusters to a byte, in a bitmap that starts at cluster first. *)
ReadBitmap ==
    /\ phase = "mounted" /\ boot.kind = "exfat"
    /\ \E first \in u32, c \in u32 :
          LET offset == (c - 2) \div 8
              bytes == (boot.perCluster * header.sectorSize) % U64
              cluster == first + offset \div bytes
              s == (offset % bytes) \div header.sectorSize
          IN  /\ Usable(first) /\ Usable(c)
              /\ offset \div bytes < boot.clusters /\ cluster <= boot.clusters + 1
              /\ Ask("bitmap", cluster, s, FirstSector(cluster % U32) + s)
    /\ UNCHANGED <<phase, header, boot>>

GeometryNext == Open \/ MountFat32 \/ MountExFat \/ ReadFat \/ ReadCluster \/ ReadBitmap

GeometrySpec == GeometryInit /\ [][GeometryNext]_geometryVars

-----------------------------------------------------------------------------
(* Properties *)

GeometryTypeOK ==
    /\ phase \in {"closed", "open", "mounted"}
    /\ header \in Headers /\ boot \in Boots /\ access \in Accesses

(* Nothing in an accepted volume is refused where it is read: the checks on
   header and boot sector leave nothing to find for vc_read_sector and for those
   on an entry of the FAT, whatever cluster the code goes to. What is read of a
   FAT is in its first copy, and anything else is in the clusters. *)
ReadsAreGranted ==
    access # NoAccess =>
        /\ access.granted
        /\ access.use = "fat" =>
              access.sector \in boot.fat .. boot.fat + boot.fatLength - 1
        /\ access.use # "fat" =>
              access.sector - boot.heap \in 0 .. boot.clusters * boot.perCluster - 1

(* Each sector of the volume has one use: the clusters that the code may go to
   share no sector with each other, with a copy of the FAT or with what is in
   front of it. *)
ClustersApart ==
    phase = "mounted" =>
        \A c \in {d \in u32 : Usable(d)} :
            /\ FirstSector(c) >= boot.fat + boot.fats * boot.fatLength
            /\ \A d \in {e \in u32 : Usable(e)} :
                  c < d => FirstSector(c) + boot.perCluster <= FirstSector(d)
=============================================================================

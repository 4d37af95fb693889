----------------------------- MODULE FormatProof -----------------------------
(***************************************************************************)
(* Proofs about the formats of a volume, each for every size and width:    *)
(* the geometry of a boot sector (VolumeGeometry), the records of a        *)
(* directory (DirectoryRecords), the checksums (RotatingChecksum), the     *)
(* allocation bitmap (ExFatMetadata), the digest of a message              *)
(* (MessageDigest), the derived key (KeyDerivation), the plaintext of a    *)
(* sector (SectorReads) and the names of its entries (EntryNames).         *)
(*                                                                         *)
(* Geometry: an accepted volume carries three facts: its area is inside    *)
(* the file, its clusters are inside the area and behind the FATs, and its *)
(* FAT has an entry for each of them. They are stated without wraparound;  *)
(* the mount steps show that none happened.                                *)
(*                                                                         *)
(* Records: what the loops keep from one record to the next says exactly   *)
(* what the last records are: the pieces of a name from its end down to    *)
(* the one expected next (RunInv), or the beginning of a set (SetInv).     *)
(* That they say it exactly, and not only that they do not lie, is what    *)
(* makes a name or a set that follows a broken one come out whole.         *)
(*                                                                         *)
(* Names: Read and Split are functions that take a sequence apart from its *)
(* front, and names and paths grow at their end. Both are the first value  *)
(* of a function on the places of the sequence (Reading, Parts), and that  *)
(* one more character, or one more part, changes each value only by what   *)
(* is appended follows from the greatest place where it would not.         *)
(***************************************************************************)
EXTENDS VolumeGeometry, DirectoryRecords, MessageDigest, RotatingChecksum, ExFatMetadata,
        KeyDerivation, SectorReads, EntryNames, FiniteSetTheorems, WellFoundedInduction,
        TLAPS

-----------------------------------------------------------------------------
(* Geometry: arithmetic *)

LEMMA SmallMod ==
    ASSUME NEW x \in Nat, NEW m \in Nat, x < m
    PROVE  x % m = x
  BY SMT

LEMMA DivBounds ==
    ASSUME NEW x \in Nat, NEW m \in Nat \ {0}
    PROVE  /\ x \div m \in Nat
           /\ m * (x \div m) <= x
           /\ x < m * (x \div m) + m
           /\ x % m \in 0 .. m - 1
  BY SMT

LEMMA MulMonotone ==
    ASSUME NEW x \in Nat, NEW y \in Nat, NEW z \in Nat, x <= y
    PROVE  x * z <= y * z /\ x * z \in Nat /\ z * x = x * z
  BY SMT

LEMMA DivLess ==
    ASSUME NEW x \in Nat, NEW y \in Nat, NEW m \in Nat \ {0}, x < y * m
    PROVE  x \div m < y
<1>1. x \div m \in Nat /\ m * (x \div m) <= x
  BY DivBounds
<1>2. SUFFICES ASSUME y <= x \div m PROVE FALSE
  BY <1>1
<1>3. y * m <= (x \div m) * m /\ m * (x \div m) = (x \div m) * m
  BY <1>1, <1>2, MulMonotone
<1>. QED
  BY <1>1, <1>3

(* An entry is not cut by the end of a sector when a sector holds a whole number
   of entries. *)
LEMMA EntryInSector ==
    ASSUME NEW c \in Nat, NEW b \in Nat \ {0}, NEW n \in Nat \ {0}, n % b = 0
    PROVE  ((c * b) % n) + b <= n
<1>. DEFINE k == n \div b
            q == (c * b) \div n
<1>1. k \in Nat /\ n = b * k
  BY SMT
<1>2. c * b \in Nat /\ q \in Nat
  BY DivBounds, SMT
<1>3. (c * b) % n = c * b - n * q /\ (c * b) % n < n
  BY <1>2, SMT
<1>4. n * q = (k * q) * b /\ k * q \in Nat
  BY <1>1, <1>2, SMT
<1>. DEFINE d == c - k * q
<1>5. d \in Int /\ c * b - (k * q) * b = d * b
  BY <1>4, SMT
<1>6. d * b < k * b
  BY <1>1, <1>3, <1>4, <1>5, SMT
<1>7. d < k
  <2>1. SUFFICES ASSUME k <= d PROVE FALSE
    BY <1>1, <1>5
  <2>2. d \in Nat
    BY <2>1, <1>1, <1>5
  <2>. HIDE DEF d, k, q
  <2>3. k * b <= d * b
    BY <2>1, <2>2, <1>1, MulMonotone
  <2>. QED
    BY <2>2, <2>3, <1>1, <1>6
<1>8. (d + 1) * b <= k * b
  <2>1. k - (d + 1) \in Nat
    BY <1>7, <1>1, <1>5
  <2>. HIDE DEF d, k, q
  <2>2. (k - (d + 1)) * b \in Nat
    BY <2>1, SMT
  <2>3. (d + 1) * b + (k - (d + 1)) * b = k * b
    BY <1>1, <1>5, SMT
  <2>. QED
    BY <2>2, <2>3, <1>1, <1>5, SMT
<1>9. (d + 1) * b = d * b + b /\ k * b = n
  BY <1>5, <1>1, SMT
<1>. QED
  BY <1>3, <1>4, <1>5, <1>8, <1>9

LEMMA SizeTypes ==
    ASSUME NEW n \in SectorSizes \cup ClusterSizes
    PROVE  n \in Nat \ {0} /\ n \in u32
<1>1. SectorSizes \subseteq 1 .. U32 - 1 /\ ClusterSizes \subseteq 1 .. U32 - 1
  BY SizesAssumption
<1>2. n \in 1 .. U32 - 1
  BY <1>1
<1>. QED
  BY <1>2, WidthsAssumption DEF u32

(* The products of the code fit their type. *)
LEMMA Room ==
    ASSUME NEW a \in u32, NEW b \in u32, NEW n \in Nat,
           NEW m \in SectorSizes \cup ClusterSizes \cup {EntryBytes, 2}, n <= m
    PROVE  a * n \in Nat /\ a * n + b < U64
<1>. USE WidthsAssumption, SizesAssumption DEF u32
<1>1. m \in Nat /\ a \in Nat /\ b \in Nat /\ U32 \in Nat /\ U64 \in Nat
  BY SMT
<1>2. U32 * (m + 1) <= U64 /\ U32 * (m + 1) = U32 * m + U32
  BY <1>1, RoomAssumption, SMT
<1>3. n * a <= m * a /\ n * a = a * n /\ n * a \in Nat
  BY <1>1, MulMonotone
<1>4. a * m <= U32 * m /\ m * a = a * m
  BY <1>1, MulMonotone
<1>. QED
  BY <1>1, <1>2, <1>3, <1>4

-----------------------------------------------------------------------------
(* Geometry: the invariant *)

HeaderOK == phase # "closed" => ValidHeader(header)

BootOK ==
    phase = "mounted" =>
        /\ boot.clusters \in 1 .. U32 - 2
        /\ boot.heap >= boot.fat + boot.fats * boot.fatLength
        /\ boot.heap + boot.clusters * boot.perCluster <= Available
        /\ (boot.clusters + 2) * EntryBytes <= boot.fatLength * header.sectorSize

NoAccessYet == phase # "mounted" => access = NoAccess

GeometryInv == GeometryTypeOK /\ HeaderOK /\ BootOK /\ NoAccessYet /\ ReadsAreGranted

LEMMA HeaderTypes ==
    ASSUME GeometryTypeOK
    PROVE  /\ header.fileSize \in u64 /\ header.dataOffset \in u64
           /\ header.areaSize \in u64 /\ header.sectorSize \in SectorSizes
           /\ header.sectorSize \in Nat \ {0} /\ header.areaSize \in Nat
           /\ U64 \in Nat /\ Available \in Nat
           /\ header.dataOffset \in Nat /\ header.fileSize \in Nat
<1>1. /\ header.fileSize \in u64 /\ header.dataOffset \in u64
      /\ header.areaSize \in u64 /\ header.sectorSize \in SectorSizes
      /\ header.sectorSize \in Nat \ {0} /\ header.areaSize \in Nat
      /\ U64 \in Nat
      /\ header.dataOffset \in Nat /\ header.fileSize \in Nat
  <2>1. /\ header.fileSize \in FileSizes /\ header.dataOffset \in DataOffsets
        /\ header.areaSize \in AreaSizes /\ header.sectorSize \in SectorSizes
    BY DEF GeometryTypeOK, Headers
  <2>2. /\ header.fileSize \in u64 /\ header.dataOffset \in u64
        /\ header.areaSize \in u64
    BY <2>1, HeadersAssumption DEF u64
  <2>3. header.sectorSize \in Nat \ {0}
    BY <2>1, SizeTypes
  <2>. QED
    BY <2>1, <2>2, <2>3, WidthsAssumption DEF u64
<1>. QED
  BY <1>1, DivBounds DEF Available

(* vc_read_sector grants every sector of the area. *)
LEMMA SectorGranted ==
    ASSUME GeometryTypeOK, ValidHeader(header), NEW s \in Nat, s < Available
    PROVE  Granted(s)
<1>. DEFINE n == header.sectorSize
            room == header.areaSize
<1>1. n \in Nat \ {0} /\ room \in Nat /\ room < U64 /\ Available \in Nat
      /\ header.dataOffset \in Nat /\ header.fileSize \in Nat /\ U64 \in Nat
      /\ header.dataOffset + room < U64
      /\ header.dataOffset + room <= header.fileSize
  BY HeaderTypes DEF u64, ValidHeader, Overflows
<1>2. n * Available <= room
  BY <1>1, DivBounds DEF Available
<1>3. (s + 1) * n <= Available * n /\ n * Available = Available * n
  BY <1>1, MulMonotone
<1>4. (s + 1) * n = s * n + n /\ s * n \in Nat
  BY <1>1, SMT
<1>5. s * n + n <= room
  BY <1>1, <1>2, <1>3, <1>4
<1>. HIDE DEF n, room
<1>6. /\ s * n < U64 /\ header.dataOffset + s * n < U64
      /\ header.dataOffset + s * n <= header.fileSize
      /\ n <= header.fileSize - (header.dataOffset + s * n)
      /\ s * n <= room /\ n <= room - s * n
  BY <1>1, <1>4, <1>5
<1>. QED
  BY <1>1, <1>4, <1>6 DEF Granted, Overflows, n, room

LEMMA CapacityFits ==
    ASSUME GeometryTypeOK, NEW f \in u32, NEW n \in Nat, Capacity(f) >= n
    PROVE  n * EntryBytes <= f * header.sectorSize
<1>. DEFINE bytes == f * header.sectorSize
<1>1. header.sectorSize \in SectorSizes /\ header.sectorSize \in Nat /\ U64 \in Nat
  BY HeaderTypes
<1>2. 0 \in u32
  BY WidthsAssumption DEF u32
<1>3. bytes \in Nat /\ bytes < U64
  <2>1. header.sectorSize <= header.sectorSize
    BY <1>1
  <2>2. bytes \in Nat /\ bytes + 0 < U64
    BY <2>1, <1>1, <1>2, Room
  <2>. QED
    BY <2>2
<1>4. bytes % U64 = bytes
  BY <1>1, <1>3, SmallMod
<1>5. bytes \div EntryBytes >= n
  BY <1>4 DEF Capacity
<1>. HIDE DEF bytes
<1>6. /\ bytes \div EntryBytes \in Nat /\ EntryBytes \in Nat
      /\ EntryBytes * (bytes \div EntryBytes) <= bytes
  BY <1>3, SizesAssumption, DivBounds
<1>7. n * EntryBytes <= (bytes \div EntryBytes) * EntryBytes
      /\ EntryBytes * (bytes \div EntryBytes) = (bytes \div EntryBytes) * EntryBytes
      /\ n * EntryBytes \in Nat
  BY <1>5, <1>6, MulMonotone
<1>. QED
  BY <1>3, <1>6, <1>7 DEF bytes

LEMMA BootTypes ==
    ASSUME GeometryTypeOK
    PROVE  /\ boot.fat \in u32 /\ boot.fatLength \in u32 /\ boot.fats \in {1, 2}
           /\ boot.heap \in u32 /\ boot.clusters \in u32
           /\ boot.perCluster \in ClusterSizes
           /\ boot.perCluster \in Nat \ {0}
           /\ boot.kind \in {"fat32", "exfat"}
<1>1. boot \in Boots
  BY DEF GeometryTypeOK
<1>2. boot.perCluster \in ClusterSizes
  BY <1>1 DEF Boots
<1>3. boot.perCluster \in Nat \ {0}
  BY <1>2, SizeTypes
<1>. QED
  BY <1>1, <1>2, <1>3 DEF Boots

-----------------------------------------------------------------------------
(* Geometry: mounting *)

LEMMA MountFat32Fits ==
    ASSUME GeometryTypeOK, HeaderOK, MountFat32
    PROVE  BootOK' /\ boot' \in Boots
<1>1. PICK reserved \in u16, fats \in {1, 2}, fatLength \in u32, total \in u32,
           perCluster \in ClusterSizes :
        LET firstData == FatEnd(reserved, fatLength, fats)
            clusters == (total - firstData) \div perCluster
        IN  /\ total <= Available
            /\ reserved > 1 /\ fatLength # 0 /\ firstData < total
            /\ clusters \in 1 .. U32 - 2
            /\ Capacity(fatLength) >= clusters + 2
            /\ boot' = [kind |-> "fat32", fat |-> reserved, fatLength |-> fatLength,
                        fats |-> fats, heap |-> firstData, clusters |-> clusters,
                        perCluster |-> perCluster]
  BY DEF MountFat32
<1>. DEFINE firstData == FatEnd(reserved, fatLength, fats)
            clusters == (total - firstData) \div perCluster
<1>2. /\ reserved \in u32 /\ reserved \in Nat /\ fatLength \in Nat /\ fats \in Nat
      /\ fats <= 2 /\ total \in Nat /\ U64 \in Nat /\ U32 \in Nat
      /\ perCluster \in Nat \ {0}
  BY WidthsAssumption, SizesAssumption DEF u16, u32
<1>3. fatLength * fats \in Nat /\ fatLength * fats + reserved < U64
  BY <1>2, Room
<1>4. firstData = reserved + fatLength * fats /\ firstData \in Nat
  <2>1. (reserved + fatLength * fats) % U64 = reserved + fatLength * fats
    BY <1>2, <1>3, SmallMod
  <2>. QED
    BY <2>1, <1>2, <1>3 DEF FatEnd
<1>5. /\ total <= Available /\ firstData < total
      /\ clusters \in 1 .. U32 - 2 /\ Capacity(fatLength) >= clusters + 2
      /\ boot' = [kind |-> "fat32", fat |-> reserved, fatLength |-> fatLength,
                  fats |-> fats, heap |-> firstData, clusters |-> clusters,
                  perCluster |-> perCluster]
  BY <1>1
<1>6. (clusters + 2) * EntryBytes <= fatLength * header.sectorSize
  <2>1. clusters + 2 \in Nat
    BY <1>5, <1>2
  <2>. HIDE DEF clusters
  <2>. QED
    BY <2>1, <1>5, CapacityFits
<1>. HIDE DEF firstData
<1>7. perCluster * clusters <= total - firstData
  <2>1. total - firstData \in Nat
    BY <1>2, <1>4, <1>5
  <2>. QED
    BY <2>1, <1>2, DivBounds
<1>. HIDE DEF clusters
<1>8. perCluster * clusters = clusters * perCluster /\ clusters * perCluster \in Nat
  BY <1>2, <1>5, MulMonotone
<1>9. firstData + clusters * perCluster <= Available
  BY <1>2, <1>4, <1>5, <1>7, <1>8, HeaderTypes
<1>10. fatLength * fats = fats * fatLength
  BY <1>2, MulMonotone
<1>11. UNCHANGED header
  BY DEF MountFat32
<1>12. firstData \in u32 /\ clusters \in u32
  BY <1>2, <1>4, <1>5 DEF u32
<1>. QED
  BY <1>2, <1>4, <1>5, <1>6, <1>9, <1>10, <1>11, <1>12 DEF BootOK, Available, Boots

LEMMA MountExFatFits ==
    ASSUME GeometryTypeOK, HeaderOK, MountExFat
    PROVE  BootOK' /\ boot' \in Boots
<1>1. PICK fat \in u32, fatLength \in u32, heap \in u32, clusters \in u32,
           perCluster \in ClusterSizes, fats \in {1, 2}, length \in u64 :
          /\ LastCluster(clusters) >= 2 /\ clusters # 0 /\ fatLength # 0
          /\ length >= BootSectors /\ length <= Available
          /\ fat >= BootSectors
          /\ Capacity(fatLength) >= clusters + 2
          /\ FatEnd(fat, fatLength, fats) <= length
          /\ heap >= FatEnd(fat, fatLength, fats) /\ heap < length
          /\ HeapEnd(heap, clusters, perCluster) <= length
          /\ boot' = [kind |-> "exfat", fat |-> fat, fatLength |-> fatLength,
                      fats |-> fats, heap |-> heap, clusters |-> clusters,
                      perCluster |-> perCluster]
  BY DEF MountExFat
<1>2. /\ fat \in Nat /\ fatLength \in Nat /\ heap \in Nat /\ clusters \in Nat
      /\ perCluster \in Nat \ {0} /\ fats \in Nat /\ fats <= 2 /\ length \in Nat
      /\ U32 \in Nat \ {0} /\ U64 \in Nat
  BY WidthsAssumption, SizesAssumption DEF u32, u64
<1>3. FatEnd(fat, fatLength, fats) = fat + fatLength * fats
  <2>. DEFINE p == fatLength * fats
  <2>1. p \in Nat /\ p + fat < U64
    BY <1>2, Room
  <2>. HIDE DEF p
  <2>2. fat + p \in Nat /\ fat + p < U64
    BY <2>1, <1>2
  <2>3. (fat + p) % U64 = fat + p
    BY <2>2, <1>2, SmallMod
  <2>. QED
    BY <2>3 DEF FatEnd, p
<1>4. HeapEnd(heap, clusters, perCluster) = heap + clusters * perCluster
  <2>. DEFINE p == clusters * perCluster
  <2>1. p \in Nat /\ p + heap < U64
    BY <1>2, Room
  <2>. HIDE DEF p
  <2>2. heap + p \in Nat /\ heap + p < U64
    BY <2>1, <1>2
  <2>3. (heap + p) % U64 = heap + p
    BY <2>2, <1>2, SmallMod
  <2>. QED
    BY <2>3 DEF HeapEnd, p
<1>5. clusters \in 1 .. U32 - 2
  <2>1. SUFFICES ASSUME clusters = U32 - 1 PROVE FALSE
    BY <1>1, <1>2 DEF u32
  <2>2. LastCluster(clusters) = 0
    BY <2>1, <1>2, SMT DEF LastCluster
  <2>. QED
    BY <2>2, <1>1
<1>6. (clusters + 2) * EntryBytes <= fatLength * header.sectorSize
  BY <1>1, <1>2, CapacityFits
<1>7. clusters * perCluster \in Nat /\ fatLength * fats = fats * fatLength
  BY <1>2, MulMonotone
<1>8. heap + clusters * perCluster <= Available
  BY <1>1, <1>2, <1>4, <1>7, HeaderTypes
<1>9. UNCHANGED header
  BY DEF MountExFat
<1>. QED
  BY <1>1, <1>2, <1>3, <1>5, <1>6, <1>7, <1>8, <1>9 DEF BootOK, Available, Boots

-----------------------------------------------------------------------------
(* Geometry: reading *)

Mounted == GeometryTypeOK /\ HeaderOK /\ BootOK /\ phase = "mounted"

LEMMA UsableRange ==
    ASSUME Mounted, NEW c \in u32
    PROVE  Usable(c) <=> c \in 2 .. boot.clusters + 1
<1>1. boot.clusters \in 1 .. U32 - 2 /\ U32 \in Nat
  BY WidthsAssumption DEF Mounted, BootOK
<1>2. LastCluster(boot.clusters) = boot.clusters + 1
  <2>1. boot.clusters + 1 \in Nat /\ boot.clusters + 1 < U32
    BY <1>1
  <2>. QED
    BY <2>1, <1>1, SmallMod DEF LastCluster
<1>. QED
  BY <1>1, <1>2 DEF Usable, u32

(* The sectors of a cluster, without wraparound. *)
LEMMA ClusterSectors ==
    ASSUME Mounted, NEW c \in u32, c \in 2 .. boot.clusters + 1
    PROVE  /\ FirstSector(c) = boot.heap + (c - 2) * boot.perCluster
           /\ FirstSector(c) \in Nat /\ FirstSector(c) >= boot.heap
           /\ FirstSector(c) + boot.perCluster
                  <= boot.heap + boot.clusters * boot.perCluster
<1>. DEFINE p == (c - 2) * boot.perCluster
            all == boot.clusters * boot.perCluster
<1>1. /\ boot.heap \in u32 /\ boot.heap \in Nat /\ boot.perCluster \in ClusterSizes
      /\ boot.perCluster \in Nat \ {0} /\ boot.clusters \in Nat
      /\ c \in Nat /\ c - 2 \in Nat /\ c - 2 \in u32 /\ U64 \in Nat
      /\ (c - 2) + 1 <= boot.clusters
  BY BootTypes, WidthsAssumption DEF Mounted, u32
<1>2. p \in Nat /\ p + boot.heap < U64
  BY <1>1, Room
<1>3. ((c - 2) + 1) * boot.perCluster <= all /\ all \in Nat
  BY <1>1, MulMonotone
<1>4. ((c - 2) + 1) * boot.perCluster = p + boot.perCluster
  BY <1>1, SMT
<1>. HIDE DEF p, all
<1>5. (boot.heap + p) % U64 = boot.heap + p
  <2>1. boot.heap + p \in Nat /\ boot.heap + p < U64
    BY <1>1, <1>2
  <2>. QED
    BY <2>1, <1>1, SmallMod
<1>6. FirstSector(c) = boot.heap + p
  BY <1>5 DEF FirstSector, p
<1>. QED
  BY <1>1, <1>2, <1>3, <1>4, <1>6 DEF p, all

LEMMA DataGranted ==
    ASSUME Mounted, NEW c \in u32, c \in 2 .. boot.clusters + 1,
           NEW s \in 0 .. boot.perCluster - 1
    PROVE  /\ FirstSector(c) + s \in Nat /\ Granted(FirstSector(c) + s)
           /\ (FirstSector(c) + s) - boot.heap
                  \in 0 .. boot.clusters * boot.perCluster - 1
<1>. DEFINE f == FirstSector(c)
            all == boot.clusters * boot.perCluster
<1>1. f \in Nat /\ f >= boot.heap /\ f + boot.perCluster <= boot.heap + all
  BY ClusterSectors
<1>2. /\ boot.heap \in Nat /\ boot.perCluster \in Nat /\ boot.clusters \in Nat
      /\ s \in Nat
  BY BootTypes DEF Mounted, u32
<1>3. all \in Nat
  BY <1>2, SMT
<1>4. boot.heap + all <= Available /\ Available \in Nat /\ ValidHeader(header)
  BY HeaderTypes DEF Mounted, BootOK, HeaderOK
<1>. HIDE DEF f, all
<1>5. f + s \in Nat /\ f + s < Available /\ (f + s) - boot.heap \in 0 .. all - 1
  BY <1>1, <1>2, <1>3, <1>4
<1>6. Granted(f + s)
  BY <1>4, <1>5, SectorGranted DEF Mounted
<1>. QED
  BY <1>5, <1>6 DEF f, all

LEMMA ReadFatGranted ==
    ASSUME Mounted, ReadFat
    PROVE  access' \in Accesses /\ ReadsAreGranted'
<1>1. PICK c \in u32 :
        LET byte == (c * EntryBytes) % U64
            number == boot.fat + byte \div header.sectorSize
        IN  /\ Usable(c)
            /\ IF /\ number < boot.fat + boot.fatLength
                  /\ (byte % header.sectorSize) + EntryBytes <= header.sectorSize
               THEN Ask("fat", c, byte \div header.sectorSize, number)
               ELSE Refuse("fat", c)
  BY DEF ReadFat
<1>. DEFINE p == c * EntryBytes
            n == header.sectorSize
            i == p \div n
<1>2. /\ c \in Nat /\ c \in 2 .. boot.clusters + 1 /\ boot.clusters \in Nat
      /\ EntryBytes \in Nat \ {0} /\ n \in SectorSizes /\ n \in Nat \ {0}
      /\ U64 \in Nat /\ 0 \in u32
      /\ boot.fat \in Nat /\ boot.fatLength \in Nat /\ boot.fats \in {1, 2}
      /\ boot.perCluster \in Nat /\ boot.heap \in Nat
  BY <1>1, UsableRange, BootTypes, HeaderTypes, SizesAssumption, WidthsAssumption
     DEF Mounted, u32
<1>3. p \in Nat /\ p % U64 = p
  <2>1. EntryBytes <= EntryBytes
    BY <1>2
  <2>2. p \in Nat /\ p + 0 < U64
    BY <2>1, <1>2, Room
  <2>3. p < U64
    BY <2>2
  <2>. QED
    BY <2>2, <2>3, <1>2, SmallMod
<1>4. (p % n) + EntryBytes <= n
  BY <1>2, SizesAssumption, EntryInSector
<1>5. i \in Nat /\ i < boot.fatLength
  <2>1. (boot.clusters + 2) * EntryBytes <= boot.fatLength * n
    BY DEF Mounted, BootOK
  <2>2. (c + 1) * EntryBytes <= (boot.clusters + 2) * EntryBytes
    BY <1>2, MulMonotone
  <2>3. (c + 1) * EntryBytes = p + EntryBytes
    BY <1>2, SMT
  <2>4. (boot.clusters + 2) * EntryBytes \in Nat /\ boot.fatLength * n \in Nat
    BY <1>2, SMT
  <2>5. p < boot.fatLength * n
    BY <2>1, <2>2, <2>3, <2>4, <1>2, <1>3
  <2>. HIDE DEF p, n
  <2>. QED
    BY <2>5, <1>2, <1>3, DivLess, DivBounds
<1>6. Granted(boot.fat + i) /\ boot.fat + i \in Nat
  <2>1. boot.fatLength <= boot.fats * boot.fatLength
    BY <1>2, SMT
  <2>2. boot.clusters * boot.perCluster \in Nat
    BY <1>2, SMT
  <2>3. /\ boot.heap >= boot.fat + boot.fats * boot.fatLength
        /\ boot.heap + boot.clusters * boot.perCluster <= Available
        /\ ValidHeader(header) /\ Available \in Nat
    BY HeaderTypes DEF Mounted, BootOK, HeaderOK
  <2>4. boot.fats * boot.fatLength \in Nat
    BY <1>2, SMT
  <2>. HIDE DEF i
  <2>5. boot.fat + i \in Nat /\ boot.fat + i < Available
    BY <2>1, <2>2, <2>3, <2>4, <1>2, <1>5
  <2>. QED
    BY <2>3, <2>5, SectorGranted DEF Mounted
<1>7. access' = [use |-> "fat", cluster |-> c, index |-> i, sector |-> boot.fat + i,
                 granted |-> TRUE]
  <2>1. boot.fat + i < boot.fat + boot.fatLength
    BY <1>2, <1>5
  <2>2. Ask("fat", c, i, boot.fat + i)
    BY <2>1, <1>1, <1>3, <1>4
  <2>. QED
    BY <2>2, <1>6 DEF Ask
<1>8. UNCHANGED <<header, boot>>
  BY DEF ReadFat
<1>. HIDE DEF i
<1>9. access' \in Accesses
  BY <1>5, <1>6, <1>7 DEF Accesses
<1>. QED
  BY <1>2, <1>5, <1>7, <1>8, <1>9 DEF ReadsAreGranted

LEMMA ReadClusterGranted ==
    ASSUME Mounted, ReadCluster
    PROVE  access' \in Accesses /\ ReadsAreGranted'
<1>1. PICK c \in u32, s \in 0 .. boot.perCluster - 1 :
        Usable(c) /\ Ask("data", c, s, FirstSector(c) + s)
  BY DEF ReadCluster
<1>2. c \in 2 .. boot.clusters + 1
  BY <1>1, UsableRange
<1>3. /\ FirstSector(c) + s \in Nat /\ Granted(FirstSector(c) + s)
      /\ (FirstSector(c) + s) - boot.heap
             \in 0 .. boot.clusters * boot.perCluster - 1
  BY <1>2, DataGranted
<1>4. access' = [use |-> "data", cluster |-> c, index |-> s,
                 sector |-> FirstSector(c) + s, granted |-> TRUE]
  BY <1>1, <1>3 DEF Ask
<1>5. s \in Nat
  BY BootTypes DEF Mounted
<1>6. UNCHANGED <<header, boot>>
  BY DEF ReadCluster
<1>. QED
  BY <1>3, <1>4, <1>5, <1>6 DEF ReadsAreGranted, Accesses

LEMMA ReadBitmapGranted ==
    ASSUME Mounted, ReadBitmap
    PROVE  access' \in Accesses /\ ReadsAreGranted'
<1>1. PICK first \in u32, c \in u32 :
        LET offset == (c - 2) \div 8
            bytes == (boot.perCluster * header.sectorSize) % U64
            cluster == first + offset \div bytes
            s == (offset % bytes) \div header.sectorSize
        IN  /\ Usable(first) /\ Usable(c)
            /\ offset \div bytes < boot.clusters /\ cluster <= boot.clusters + 1
            /\ Ask("bitmap", cluster, s, FirstSector(cluster % U32) + s)
  BY DEF ReadBitmap
<1>. DEFINE offset == (c - 2) \div 8
            n == header.sectorSize
            per == boot.perCluster
            bytes == per * n
            cluster == first + offset \div bytes
            s == (offset % bytes) \div n
<1>2. /\ c \in Nat /\ c \in 2 .. boot.clusters + 1 /\ c - 2 \in Nat
      /\ first \in Nat /\ first \in 2 .. boot.clusters + 1
      /\ boot.clusters \in 1 .. U32 - 2 /\ U32 \in Nat /\ U64 \in Nat
      /\ n \in SectorSizes /\ n \in Nat \ {0} /\ 0 \in u32
      /\ per \in Nat \ {0} /\ per \in u32
  BY <1>1, UsableRange, BootTypes, HeaderTypes, SizeTypes, WidthsAssumption
     DEF Mounted, BootOK, u32
<1>3. bytes \in Nat \ {0} /\ bytes % U64 = bytes
  <2>1. n <= n
    BY <1>2
  <2>2. bytes \in Nat /\ bytes + 0 < U64
    BY <2>1, <1>2, Room
  <2>3. bytes # 0
    BY <1>2, SMT
  <2>. QED
    BY <2>2, <2>3, <1>2, SmallMod
<1>4. /\ cluster <= boot.clusters + 1
      /\ Ask("bitmap", cluster, s, FirstSector(cluster % U32) + s)
  BY <1>1, <1>3
<1>. HIDE DEF per, n
<1>5. offset \in Nat
  BY <1>2, DivBounds
<1>. HIDE DEF offset
<1>6. s \in 0 .. per - 1
  <2>1. offset % bytes \in 0 .. bytes - 1
    BY <1>3, <1>5, DivBounds
  <2>. DEFINE r == offset % bytes
  <2>2. r \in Nat /\ r < per * n
    BY <2>1, <1>3
  <2>. HIDE DEF r
  <2>3. r \div n < per /\ r \div n \in Nat
    BY <2>2, <1>2, DivLess, DivBounds
  <2>. QED
    BY <2>3, <1>2 DEF r
<1>7. offset \div bytes \in Nat
  BY <1>3, <1>5, DivBounds
<1>. HIDE DEF bytes, s
<1>8. cluster \in 2 .. boot.clusters + 1 /\ cluster \in Nat /\ cluster < U32
      /\ cluster \in u32
  BY <1>2, <1>4, <1>7 DEF u32
<1>. HIDE DEF cluster
<1>9. cluster % U32 = cluster
  BY <1>2, <1>8, SmallMod
<1>10. /\ FirstSector(cluster) + s \in Nat /\ Granted(FirstSector(cluster) + s)
       /\ (FirstSector(cluster) + s) - boot.heap
              \in 0 .. boot.clusters * boot.perCluster - 1
  BY <1>6, <1>8, DataGranted DEF per
<1>11. access' = [use |-> "bitmap", cluster |-> cluster, index |-> s,
                  sector |-> FirstSector(cluster) + s, granted |-> TRUE]
  BY <1>4, <1>9, <1>10 DEF Ask
<1>12. UNCHANGED <<header, boot>>
  BY DEF ReadBitmap
<1>13. s \in Nat
  BY <1>6, <1>2
<1>. QED
  BY <1>8, <1>10, <1>11, <1>12, <1>13 DEF ReadsAreGranted, Accesses

-----------------------------------------------------------------------------
(* Geometry: the invariant holds *)

LEMMA InitGeometry == GeometryInit => GeometryInv
<1>. SUFFICES ASSUME GeometryInit PROVE GeometryInv
  OBVIOUS
<1>1. PICK n \in ClusterSizes :
        boot = [kind |-> "fat32", fat |-> 0, fatLength |-> 0, fats |-> 1,
                heap |-> 0, clusters |-> 0, perCluster |-> n]
  BY DEF GeometryInit
<1>2. 0 \in u32
  BY WidthsAssumption DEF u32
<1>3. boot \in Boots /\ NoAccess \in Accesses
  BY <1>1, <1>2 DEF Boots, Accesses, NoAccess
<1>. QED
  BY <1>3 DEF GeometryInit, GeometryInv, GeometryTypeOK, HeaderOK, BootOK,
            NoAccessYet, ReadsAreGranted

LEMMA NextGeometry == GeometryInv /\ [GeometryNext]_geometryVars => GeometryInv'
<1>. SUFFICES ASSUME GeometryInv, [GeometryNext]_geometryVars PROVE GeometryInv'
  OBVIOUS
<1>. USE DEF GeometryInv
<1>1. CASE Open
  <2>1. GeometryTypeOK' /\ HeaderOK'
    BY <1>1 DEF Open, GeometryTypeOK, HeaderOK
  <2>2. BootOK' /\ NoAccessYet' /\ ReadsAreGranted'
    BY <1>1 DEF Open, BootOK, NoAccessYet, ReadsAreGranted
  <2>. QED
    BY <2>1, <2>2
<1>2. CASE MountFat32
  <2>1. BootOK' /\ boot' \in Boots
    BY <1>2, MountFat32Fits
  <2>2. GeometryTypeOK' /\ HeaderOK'
    BY <1>2, <2>1 DEF MountFat32, GeometryTypeOK, HeaderOK
  <2>3. NoAccessYet' /\ ReadsAreGranted'
    BY <1>2 DEF MountFat32, NoAccessYet, ReadsAreGranted
  <2>. QED
    BY <2>1, <2>2, <2>3
<1>3. CASE MountExFat
  <2>1. BootOK' /\ boot' \in Boots
    BY <1>3, MountExFatFits
  <2>2. GeometryTypeOK' /\ HeaderOK'
    BY <1>3, <2>1 DEF MountExFat, GeometryTypeOK, HeaderOK
  <2>3. NoAccessYet' /\ ReadsAreGranted'
    BY <1>3 DEF MountExFat, NoAccessYet, ReadsAreGranted
  <2>. QED
    BY <2>1, <2>2, <2>3
<1>4. CASE ReadFat \/ ReadCluster \/ ReadBitmap
  <2>1. phase = "mounted" /\ UNCHANGED <<phase, header, boot>>
    BY <1>4 DEF ReadFat, ReadCluster, ReadBitmap
  <2>2. Mounted
    BY <2>1 DEF Mounted
  <2>3. access' \in Accesses /\ ReadsAreGranted'
    BY <1>4, <2>2, ReadFatGranted, ReadClusterGranted, ReadBitmapGranted
  <2>4. GeometryTypeOK' /\ HeaderOK' /\ NoAccessYet'
    BY <2>1, <2>3 DEF GeometryTypeOK, HeaderOK, NoAccessYet
  <2>5. BootOK'
    BY <2>1 DEF BootOK, Available
  <2>. QED
    BY <2>3, <2>4, <2>5
<1>5. CASE UNCHANGED geometryVars
  <2>1. GeometryTypeOK' /\ HeaderOK' /\ NoAccessYet' /\ ReadsAreGranted'
    BY <1>5 DEF geometryVars, GeometryTypeOK, HeaderOK, NoAccessYet, ReadsAreGranted
  <2>2. BootOK'
    BY <1>5 DEF geometryVars, BootOK, Available
  <2>. QED
    BY <2>1, <2>2
<1>. QED
  BY <1>1, <1>2, <1>3, <1>4, <1>5 DEF GeometryNext

LEMMA GeometryHolds == GeometrySpec => []GeometryInv
<1>. QED
  BY InitGeometry, NextGeometry, PTL DEF GeometrySpec

(* The state of the model keeps its types: in particular the numbers of a mounted
   volume fit the fields of Fat32Info and ExFatInfo. *)
THEOREM GeometryTypeCorrect == GeometrySpec => []GeometryTypeOK
<1>1. GeometryInv => GeometryTypeOK
  BY DEF GeometryInv
<1>. QED
  BY <1>1, GeometryHolds, PTL

(* No read inside an accepted volume is refused by vc_read_sector or for its place
   in the FAT, for every header and boot sector. *)
THEOREM ReadsGranted == GeometrySpec => []ReadsAreGranted
<1>1. GeometryInv => ReadsAreGranted
  BY DEF GeometryInv
<1>. QED
  BY <1>1, GeometryHolds, PTL

LEMMA ApartWhenMounted == GeometryInv => ClustersApart
<1>. SUFFICES ASSUME GeometryInv, phase = "mounted",
                     NEW c \in {e \in u32 : Usable(e)}, NEW d \in {e \in u32 : Usable(e)}
              PROVE  /\ FirstSector(c) >= boot.fat + boot.fats * boot.fatLength
                     /\ c < d => FirstSector(c) + boot.perCluster <= FirstSector(d)
  BY DEF ClustersApart
<1>1. Mounted
  BY DEF GeometryInv, Mounted
<1>2. c \in 2 .. boot.clusters + 1 /\ d \in 2 .. boot.clusters + 1
  BY <1>1, UsableRange
<1>3. /\ FirstSector(c) = boot.heap + (c - 2) * boot.perCluster
      /\ FirstSector(d) = boot.heap + (d - 2) * boot.perCluster
      /\ FirstSector(c) \in Nat /\ FirstSector(c) >= boot.heap
  BY <1>1, <1>2, ClusterSectors
<1>4. /\ boot.heap \in Nat /\ boot.perCluster \in Nat /\ boot.fat \in Nat
      /\ boot.fats \in Nat /\ boot.fatLength \in Nat /\ c \in Nat /\ d \in Nat
  BY BootTypes DEF GeometryInv, u32
<1>5. FirstSector(c) >= boot.fat + boot.fats * boot.fatLength
  <2>. DEFINE p == boot.fats * boot.fatLength
  <2>1. p \in Nat /\ boot.heap >= boot.fat + p
    BY <1>1, <1>4 DEF Mounted, BootOK
  <2>. HIDE DEF p
  <2>2. FirstSector(c) >= boot.fat + p
    BY <2>1, <1>3, <1>4
  <2>. QED
    BY <2>2 DEF p
<1>6. ASSUME c < d PROVE FirstSector(c) + boot.perCluster <= FirstSector(d)
  <2>1. (c - 1) * boot.perCluster <= (d - 2) * boot.perCluster
    BY <1>2, <1>4, <1>6, MulMonotone
  <2>2. (c - 1) * boot.perCluster = (c - 2) * boot.perCluster + boot.perCluster
    BY <1>4, SMT
  <2>3. (c - 2) * boot.perCluster \in Int /\ (d - 2) * boot.perCluster \in Int
    BY <1>4
  <2>. QED
    BY <2>1, <2>2, <2>3, <1>3, <1>4
<1>. QED
  BY <1>5, <1>6

(* The clusters of an accepted volume share no sector with each other nor with
   what is in front of them, for every header and boot sector. *)
THEOREM ClustersAreApart == GeometrySpec => []ClustersApart
<1>. QED
  BY ApartWhenMounted, GeometryHolds, PTL

-----------------------------------------------------------------------------

Here == Len(records)

(* The last records are the pieces m, ..., e + 1 of a name with checksum c. *)
Partial(m, e, c) ==
    /\ m - e <= Here
    /\ \A i \in e + 1 .. m :
          /\ records[Here + e + 1 - i].kind = "piece"
          /\ records[Here + e + 1 - i].seq = i
          /\ records[Here + e + 1 - i].isLast = (i = m)
          /\ records[Here + e + 1 - i].sum = c

Waits(m, e, c) == haveLFN /\ maxSeq = m /\ expected = e /\ checksum = c

RunInv ==
    format = "fat32" =>
        \A m \in 1 .. MaxSeq : \A e \in 0 .. m - 1 : \A c \in Sums :
            Waits(m, e, c) <=> Partial(m, e, c)

PartsInv ==
    haveLFN =>
        /\ format = "fat32"
        /\ maxSeq \in 1 .. MaxSeq /\ expected \in 0 .. maxSeq - 1 /\ checksum \in Sums
        /\ \A i \in expected + 1 .. maxSeq : parts[i] = Here + expected + 1 - i

InUse(r) == r.kind \in {"stream", "name", "other"}

(* The records from p on are the beginning of a set and not yet all of it. *)
Begun(p) ==
    /\ records[p].kind = "file" /\ records[p].count \in 2 .. MaxSecondary
    /\ p + records[p].count > Here
    /\ \A q \in p + 1 .. Here : InUse(records[q])

SetInv ==
    format = "exfat" =>
        /\ \A p \in 1 .. Here : pending # <<>> /\ pending[1] = p <=> Begun(p)
        /\ pending # <<>> =>
              /\ pending[1] \in 1 .. Here
              /\ need = records[pending[1]].count + 1
              /\ Len(pending) = Here - pending[1] + 1
              /\ \A i \in 1 .. Len(pending) : pending[i] = pending[1] + i - 1

RecordsInv == TypeOK /\ RunInv /\ PartsInv /\ SetInv /\ LongNamesBelong /\ SetsAreWhole

-----------------------------------------------------------------------------
(* Records: sequences and types *)

LEMMA AppendFacts ==
    ASSUME NEW S, NEW s \in Seq(S), NEW x \in S
    PROVE  /\ Append(s, x) \in Seq(S)
           /\ Len(Append(s, x)) = Len(s) + 1
           /\ \A i \in 1 .. Len(s) : Append(s, x)[i] = s[i]
           /\ Append(s, x)[Len(s) + 1] = x
           /\ Len(s) \in Nat /\ Append(s, x) # <<>>
  OBVIOUS

LEMMA ElementType ==
    ASSUME NEW S, NEW s \in Seq(S)
    PROVE  \A i \in 1 .. Len(s) : s[i] \in S
  OBVIOUS

RecordTypes == IF format = "fat32" THEN Fat32Records ELSE ExFatRecords

LEMMA TakeFacts ==
    ASSUME TypeOK, NEW r \in RecordTypes, Take(r)
    PROVE  /\ records' = Append(records, r) /\ records' \in Seq(RecordTypes)
           /\ Here \in Nat /\ Here' = Here + 1
           /\ \A i \in 1 .. Here : records'[i] = records[i]
           /\ records'[Here + 1] = r
           /\ UNCHANGED format
<1>1. records \in Seq(RecordTypes)
  BY DEF TypeOK, RecordTypes
<1>. QED
  BY <1>1, AppendFacts DEF Take, Here

LEMMA KindsOfRecords ==
    /\ \A r \in Pieces : r.kind = "piece" /\ r.seq \in 1 .. MaxSeq
                          /\ r.isLast \in BOOLEAN /\ r.sum \in Sums
    /\ \A r \in Shorts : r.kind = "short" /\ r.sum \in Sums
    /\ \A r \in Others : r.kind \in {"deleted", "broken", "volume"}
    /\ \A r \in Primaries : r.kind = "file" /\ r.count \in 0 .. MaxSecondary + 1
    /\ \A r \in ExFatRecords \ Primaries : r.kind # "file"
    /\ \A r \in ExFatRecords : r.kind \in {"file", "free"} \/ InUse(r)
  BY DEF Pieces, Shorts, Others, Primaries, Streams, ExFatRecords, InUse

-----------------------------------------------------------------------------
(* Records: what the last ones are on FAT32 *)

(* One record more: a partial name ends with it if it carries on with one that
   ended before it, or starts one. *)
LEMMA PartialStep ==
    ASSUME TypeOK, format = "fat32", NEW r \in Fat32Records, Take(r),
           NEW m \in 1 .. MaxSeq, NEW e \in 0 .. m - 1, NEW c \in Sums
    PROVE  Partial(m, e, c)' <=>
               /\ r.kind = "piece" /\ r.seq = e + 1
               /\ r.isLast = (e + 1 = m) /\ r.sum = c
               /\ e + 1 < m => Partial(m, e + 1, c)
<1>1. /\ Here \in Nat /\ Here' = Here + 1
      /\ \A i \in 1 .. Here : records'[i] = records[i]
      /\ records'[Here + 1] = r
  BY TakeFacts DEF RecordTypes
<1>2. m \in Nat /\ e \in Nat /\ e < m
  BY BoundsAssumption
<1>3. ASSUME Partial(m, e, c)'
      PROVE  /\ r.kind = "piece" /\ r.seq = e + 1
             /\ r.isLast = (e + 1 = m) /\ r.sum = c
             /\ e + 1 < m => Partial(m, e + 1, c)
  <2>1. e + 1 \in e + 1 .. m /\ Here' + e + 1 - (e + 1) = Here + 1
    BY <1>1, <1>2
  <2>2. /\ r.kind = "piece" /\ r.seq = e + 1
        /\ r.isLast = (e + 1 = m) /\ r.sum = c
    BY <1>1, <1>3, <2>1 DEF Partial
  <2>3. ASSUME e + 1 < m PROVE Partial(m, e + 1, c)
    <3>1. m - (e + 1) <= Here
      BY <1>1, <1>2, <1>3 DEF Partial
    <3>2. ASSUME NEW i \in (e + 1) + 1 .. m
          PROVE  /\ records[Here + (e + 1) + 1 - i].kind = "piece"
                 /\ records[Here + (e + 1) + 1 - i].seq = i
                 /\ records[Here + (e + 1) + 1 - i].isLast = (i = m)
                 /\ records[Here + (e + 1) + 1 - i].sum = c
      <4>1. i \in e + 1 .. m /\ Here' + e + 1 - i = Here + (e + 1) + 1 - i
        BY <1>1, <1>2
      <4>2. Here + (e + 1) + 1 - i \in 1 .. Here
        BY <1>1, <1>2, <3>1
      <4>. QED
        BY <1>1, <1>3, <4>1, <4>2 DEF Partial
    <3>. QED
      BY <3>1, <3>2 DEF Partial
  <2>. QED
    BY <2>2, <2>3
<1>4. ASSUME /\ r.kind = "piece" /\ r.seq = e + 1
             /\ r.isLast = (e + 1 = m) /\ r.sum = c
             /\ e + 1 < m => Partial(m, e + 1, c)
      PROVE  Partial(m, e, c)'
  <2>1. m - e <= Here'
    <3>1. CASE e + 1 < m
      BY <1>1, <1>2, <1>4, <3>1 DEF Partial
    <3>2. CASE e + 1 = m
      BY <1>1, <1>2, <3>2
    <3>. QED
      BY <1>2, <3>1, <3>2
  <2>2. ASSUME NEW i \in e + 1 .. m
        PROVE  /\ records'[Here' + e + 1 - i].kind = "piece"
               /\ records'[Here' + e + 1 - i].seq = i
               /\ records'[Here' + e + 1 - i].isLast = (i = m)
               /\ records'[Here' + e + 1 - i].sum = c
    <3>1. CASE i = e + 1
      <4>1. Here' + e + 1 - i = Here + 1
        BY <1>1, <1>2, <3>1
      <4>. QED
        BY <1>1, <1>4, <3>1, <4>1
    <3>2. CASE i # e + 1
      <4>1. i \in (e + 1) + 1 .. m /\ e + 1 < m
        BY <1>2, <3>2
      <4>2. Here' + e + 1 - i = Here + (e + 1) + 1 - i
        BY <1>1, <1>2
      <4>3. m - (e + 1) <= Here
        BY <1>4, <4>1 DEF Partial
      <4>4. Here + (e + 1) + 1 - i \in 1 .. Here
        BY <1>1, <1>2, <4>1, <4>3
      <4>. QED
        BY <1>1, <1>4, <4>1, <4>2, <4>4 DEF Partial
    <3>. QED
      BY <3>1, <3>2
  <2>. QED
    BY <2>1, <2>2 DEF Partial
<1>. QED
  BY <1>3, <1>4

FatStep(r) == FatOther(r) \/ FatFirstPiece(r) \/ FatNextPiece(r) \/ FatEntry(r)

LEMMA RunStep ==
    ASSUME TypeOK, RunInv, PartsInv, NEW r \in Fat32Records, FatStep(r)
    PROVE  RunInv' /\ PartsInv'
<1>1. format = "fat32" /\ Take(r) /\ UNCHANGED format
  BY DEF FatStep, FatOther, FatFirstPiece, FatNextPiece, FatEntry, Take
<1>2. /\ Here \in Nat /\ Here' = Here + 1
  BY <1>1, TakeFacts DEF RecordTypes
<1>3. MaxSeq \in Nat /\ parts \in [1 .. MaxSeq -> Nat]
  BY BoundsAssumption DEF TypeOK
<1>. DEFINE Ends(m, e, c) ==
              /\ r.kind = "piece" /\ r.seq = e + 1
              /\ r.isLast = (e + 1 = m) /\ r.sum = c
              /\ e + 1 < m => Partial(m, e + 1, c)
<1>4. SUFFICES
        /\ \A m \in 1 .. MaxSeq : \A e \in 0 .. m - 1 : \A c \in Sums :
              (haveLFN' /\ maxSeq' = m /\ expected' = e /\ checksum' = c) <=> Ends(m, e, c)
        /\ PartsInv'
  <2>1. \A m \in 1 .. MaxSeq : \A e \in 0 .. m - 1 : \A c \in Sums :
          Partial(m, e, c)' <=> Ends(m, e, c)
    BY <1>1, PartialStep
  <2>. HIDE DEF Ends
  <2>. QED
    BY <2>1 DEF RunInv, Waits
<1>5. CASE FatOther(r) \/ FatEntry(r)
  <2>1. r.kind # "piece" /\ haveLFN' = FALSE
    BY <1>5, KindsOfRecords DEF FatOther, FatEntry, Forget
  <2>. QED
    BY <2>1 DEF PartsInv
<1>6. CASE FatFirstPiece(r)
  <2>1. /\ r.kind = "piece" /\ r.isLast = TRUE /\ r.seq \in 1 .. MaxSeq /\ r.sum \in Sums
        /\ haveLFN' = TRUE /\ maxSeq' = r.seq /\ expected' = r.seq - 1
        /\ checksum' = r.sum
        /\ parts' = [i \in 1 .. MaxSeq |-> IF i = r.seq THEN Here + 1 ELSE 0]
    BY <1>6, KindsOfRecords DEF FatFirstPiece, place, Here
  <2>2. ASSUME NEW m \in 1 .. MaxSeq, NEW e \in 0 .. m - 1, NEW c \in Sums
        PROVE  (haveLFN' /\ maxSeq' = m /\ expected' = e /\ checksum' = c)
                  <=> Ends(m, e, c)
    <3>1. (r.isLast = (e + 1 = m)) <=> e + 1 = m
      BY <2>1, Zenon
    <3>2. Ends(m, e, c) <=> r.seq = e + 1 /\ e + 1 = m /\ r.sum = c
      BY <1>3, <2>1, <3>1
    <3>. HIDE DEF Ends
    <3>. QED
      BY <1>3, <2>1, <3>2
  <2>3. PartsInv'
    <3>1. /\ maxSeq' \in 1 .. MaxSeq /\ expected' \in 0 .. maxSeq' - 1
          /\ checksum' \in Sums
      BY <1>3, <2>1
    <3>2. ASSUME NEW i \in expected' + 1 .. maxSeq'
          PROVE  parts'[i] = Here' + expected' + 1 - i
      <4>1. i = r.seq
        BY <1>3, <2>1
      <4>. QED
        BY <1>2, <1>3, <2>1, <4>1
    <3>. QED
      BY <1>1, <3>1, <3>2 DEF PartsInv
  <2>. QED
    BY <2>2, <2>3
<1>7. CASE FatNextPiece(r)
  <2>1. /\ r.kind = "piece" /\ r.isLast = FALSE /\ r.seq \in 1 .. MaxSeq /\ r.sum \in Sums
        /\ haveLFN' = Fits(r) /\ UNCHANGED <<maxSeq, checksum>>
    BY <1>7, KindsOfRecords DEF FatNextPiece
  <2>2. CASE Fits(r)
    <3>1. /\ haveLFN /\ haveLFN' = TRUE /\ r.seq = expected /\ r.sum = checksum
          /\ expected' = expected - 1 /\ parts' = [parts EXCEPT ![r.seq] = Here + 1]
      BY <1>7, <2>1, <2>2 DEF FatNextPiece, Fits, place, Here
    <3>2. /\ maxSeq \in 1 .. MaxSeq /\ expected \in 0 .. maxSeq - 1 /\ checksum \in Sums
          /\ \A i \in expected + 1 .. maxSeq : parts[i] = Here + expected + 1 - i
      BY <3>1 DEF PartsInv
    <3>3. ASSUME NEW m \in 1 .. MaxSeq, NEW e \in 0 .. m - 1, NEW c \in Sums
          PROVE  (haveLFN' /\ maxSeq' = m /\ expected' = e /\ checksum' = c)
                    <=> Ends(m, e, c)
      <4>1. ASSUME e + 1 < m
            PROVE  Partial(m, e + 1, c) <=> Waits(m, e + 1, c)
        BY <1>1, <1>3, <4>1 DEF RunInv
      <4>2. (r.isLast = (e + 1 = m)) <=> e + 1 # m
        BY <2>1, Zenon
      <4>3. Ends(m, e, c) <=>
              r.seq = e + 1 /\ e + 1 < m /\ r.sum = c /\ Waits(m, e + 1, c)
        BY <1>3, <2>1, <4>1, <4>2
      <4>. HIDE DEF Ends
      <4>. QED
        BY <1>3, <2>1, <3>1, <3>2, <4>3 DEF Waits
    <3>4. PartsInv'
      <4>1. ASSUME NEW i \in expected .. maxSeq
            PROVE  parts'[i] = Here + 1 + expected - i
        <5>1. i \in 1 .. MaxSeq
          BY <1>3, <2>1, <3>1, <3>2
        <5>. QED
          BY <1>2, <1>3, <2>1, <3>1, <3>2, <5>1
      <4>2. /\ maxSeq' \in 1 .. MaxSeq /\ expected' \in 0 .. maxSeq' - 1
            /\ checksum' \in Sums
        BY <2>1, <3>1, <3>2, <1>3
      <4>3. ASSUME NEW i \in expected' + 1 .. maxSeq'
            PROVE  parts'[i] = Here' + expected' + 1 - i
        <5>1. i \in expected .. maxSeq
          BY <1>3, <2>1, <3>1, <3>2
        <5>. QED
          BY <4>1, <5>1, <1>2, <1>3, <2>1, <3>1, <3>2
      <4>. QED
        BY <1>1, <4>2, <4>3 DEF PartsInv
    <3>. QED
      BY <3>3, <3>4
  <2>3. CASE ~Fits(r)
    <3>1. haveLFN' = FALSE
      BY <2>1, <2>3
    <3>2. ASSUME NEW m \in 1 .. MaxSeq, NEW e \in 0 .. m - 1, NEW c \in Sums,
                 Ends(m, e, c)
          PROVE  FALSE
      <4>0. e + 1 # m
        BY <2>1, <3>2, Zenon
      <4>1. e + 1 < m /\ e + 1 \in 0 .. m - 1
        BY <1>3, <4>0
      <4>2. Waits(m, e + 1, c)
        BY <1>1, <3>2, <4>1 DEF RunInv
      <4>. QED
        BY <2>3, <3>2, <4>2 DEF Waits, Fits
    <3>. QED
      BY <3>1, <3>2 DEF PartsInv
  <2>. QED
    BY <2>2, <2>3
<1>. QED
  BY <1>5, <1>6, <1>7 DEF FatStep

-----------------------------------------------------------------------------
(* Records: what is listed on FAT32 *)

Wanted(p) == IF LongAt(p) THEN records[p].long = "name" ELSE ~records[p].dots

ListedOnce ==
    \A p \in 1 .. Here : records[p].kind = "short" =>
        ((\E e \in 1 .. Len(results) : results[e].at = p) <=> Wanted(p))

GoodEntry(x) ==
    /\ x.at \in 1 .. Here /\ records[x.at].kind = "short"
    /\ x.name # <<>> <=> LongAt(x.at)
    /\ \A i \in DOMAIN x.name : x.name[i] = x.at - i
    /\ x.name # <<>> => WholeName(x.at, Len(x.name))

AllGood == \A e \in 1 .. Len(results) : GoodEntry(results[e])

Rising == \A e \in 1 .. Len(results) : \A d \in 1 .. e - 1 : results[d].at < results[e].at

LEMMA LongNamesParts ==
    ASSUME TypeOK
    PROVE  LongNamesBelong <=>
             (format = "fat32" =>
                 ListedOnce /\ Rising /\ AllGood)
<1>1. DOMAIN records = 1 .. Here /\ DOMAIN results = 1 .. Len(results)
  BY DEF TypeOK, Here
<1>. QED
  BY <1>1 DEF LongNamesBelong, ListedOnce, Rising, AllGood, GoodEntry, Wanted

(* What is in front of a record does not change. *)
LEMMA WholeKept ==
    ASSUME TypeOK, NEW r \in RecordTypes, Take(r), NEW p \in 1 .. Here
    PROVE  /\ \A n \in Nat : WholeName(p, n)' <=> WholeName(p, n)
           /\ LongAt(p)' <=> LongAt(p)
           /\ Wanted(p)' <=> Wanted(p)
<1>1. Here \in Nat /\ \A i \in 1 .. Here : records'[i] = records[i]
  BY TakeFacts
<1>2. ASSUME NEW n \in Nat PROVE WholeName(p, n)' <=> WholeName(p, n)
  <2>1. n < p => \A i \in 1 .. n : p - i \in 1 .. Here
    BY <1>1
  <2>2. records'[p] = records[p]
    BY <1>1
  <2>3. n < p => \A i \in 1 .. n : records'[p - i] = records[p - i]
    BY <1>1, <2>1
  <2>4. ASSUME WholeName(p, n) PROVE WholeName(p, n)'
    BY <2>2, <2>3, <2>4 DEF WholeName
  <2>5. ASSUME WholeName(p, n)' PROVE WholeName(p, n)
    BY <2>2, <2>3, <2>5 DEF WholeName
  <2>. QED
    BY <2>4, <2>5
<1>3. LongAt(p)' <=> LongAt(p)
  BY <1>1, <1>2, BoundsAssumption DEF LongAt
<1>. QED
  BY <1>1, <1>2, <1>3 DEF Wanted

(* The pieces of a whole name are those that the code has put together. *)
LEMMA NamesOfEntries ==
    ASSUME TypeOK, RunInv, PartsInv, NEW r \in Shorts, FatEntry(r),
           NEW p \in Nat, p = Here + 1
    PROVE  /\ HasLong(r) <=> LongAt(p)'
           /\ IsListed(r) <=> Wanted(p)'
           /\ HasLong(r) => \E n \in 1 .. MaxSeq :
                                /\ WholeName(p, n)'
                                /\ NameOf(r) = [i \in 1 .. n |-> p - i]
<1>1. r \in RecordTypes /\ Take(r) /\ format = "fat32"
  BY DEF FatEntry, RecordTypes, Fat32Records
<1>2. /\ Here \in Nat /\ \A i \in 1 .. Here : records'[i] = records[i]
      /\ records'[p] = r /\ r.kind = "short" /\ r.sum \in Sums
      /\ MaxSeq \in Nat
  BY <1>1, TakeFacts, KindsOfRecords, BoundsAssumption
<1>3. ASSUME NEW n \in 1 .. MaxSeq
      PROVE  WholeName(p, n)' <=> Waits(n, 0, r.sum)
  <2>1. WholeName(p, n)' <=> Partial(n, 0, r.sum)
    <3>1. n < p <=> n - 0 <= Here
      BY <1>2
    <3>2. ASSUME n < p, NEW i \in 1 .. n
          PROVE  /\ records'[p - i] = records[Here + 0 + 1 - i]
      BY <1>2, <3>2
    <3>. DEFINE Fine(x, i) == /\ x.kind = "piece" /\ x.seq = i
                             /\ x.isLast = (i = n) /\ x.sum = r.sum
    <3>3. WholeName(p, n)' <=> n < p /\ \A i \in 1 .. n : Fine(records'[p - i], i)
      BY <1>2, Zenon DEF WholeName
    <3>4. Partial(n, 0, r.sum) <=>
            n - 0 <= Here /\ \A i \in 0 + 1 .. n : Fine(records[Here + 0 + 1 - i], i)
      BY Zenon DEF Partial
    <3>5. 0 + 1 .. n = 1 .. n
      OBVIOUS
    <3>. HIDE DEF Fine
    <3>. QED
      BY <3>1, <3>2, <3>3, <3>4, <3>5, Zenon
  <2>2. 0 \in 0 .. n - 1
    BY <1>2
  <2>. QED
    BY <1>1, <1>2, <2>1, <2>2 DEF RunInv
<1>4. HasLong(r) <=> LongAt(p)'
  <2>1. HasLong(r) => maxSeq \in 1 .. MaxSeq /\ Waits(maxSeq, 0, r.sum)
    BY DEF HasLong, PartsInv, Waits
  <2>2. ASSUME NEW n \in 1 .. MaxSeq, Waits(n, 0, r.sum), r.long # "none"
        PROVE  HasLong(r)
    BY <1>2, <2>2 DEF HasLong, Waits
  <2>3. HasLong(r) => r.long # "none"
    BY DEF HasLong
  <2>. QED
    BY <1>2, <1>3, <2>1, <2>2, <2>3 DEF LongAt
<1>5. IsListed(r) <=> Wanted(p)'
  <2>1. records'[p] = r
    BY <1>2
  <2>2. Wanted(p)' <=> IF LongAt(p)' THEN records'[p].long = "name"
                              ELSE ~records'[p].dots
    BY <1>2 DEF Wanted
  <2>. QED
    BY <1>4, <2>1, <2>2, Zenon DEF IsListed
<1>6. ASSUME HasLong(r)
      PROVE  \E n \in 1 .. MaxSeq :
                 WholeName(p, n)' /\ NameOf(r) = [i \in 1 .. n |-> p - i]
  <2>1. maxSeq \in 1 .. MaxSeq /\ Waits(maxSeq, 0, r.sum) /\ expected = 0
        /\ \A i \in 1 .. maxSeq : parts[i] = p - i
    BY <1>2, <1>6 DEF HasLong, PartsInv, Waits
  <2>2. NameOf(r) = [i \in 1 .. maxSeq |-> parts[i]]
    BY <1>6 DEF NameOf
  <2>3. PICK n \in 1 .. MaxSeq : n = maxSeq
    BY <2>1
  <2>4. NameOf(r) = [i \in 1 .. n |-> p - i]
    BY <2>1, <2>2, <2>3
  <2>5. WholeName(p, n)'
    BY <1>3, <2>1, <2>3
  <2>. QED
    BY <2>4, <2>5
<1>. QED
  BY <1>4, <1>5, <1>6

(* A listing that gets one more entry, for the record just read, or none. *)
LEMMA ResultsGrow ==
    ASSUME TypeOK, NEW x \in [at : Nat, name : Seq(Nat)],
           results' = Append(results, x)
    PROVE  /\ Len(results) \in Nat /\ Len(results') = Len(results) + 1
           /\ \A e \in 1 .. Len(results) : results'[e] = results[e]
           /\ results'[Len(results) + 1] = x
           /\ results' \in Seq([at : Nat, name : Seq(Nat)])
  BY AppendFacts DEF TypeOK

LEMMA LongStep ==
    ASSUME TypeOK, TypeOK', RunInv, PartsInv, LongNamesBelong,
           NEW r \in Fat32Records, FatStep(r)
    PROVE  LongNamesBelong'
<1>1. format = "fat32" /\ Take(r) /\ UNCHANGED format /\ r \in RecordTypes
  BY DEF FatStep, FatOther, FatFirstPiece, FatNextPiece, FatEntry, Take, RecordTypes
<1>2. /\ Here \in Nat /\ Here' = Here + 1
      /\ \A i \in 1 .. Here : records'[i] = records[i]
      /\ records'[Here + 1] = r
  BY <1>1, TakeFacts
<1>3. ListedOnce /\ Rising /\ AllGood
  BY <1>1, LongNamesParts
<1>4. \A q \in 1 .. Here : Wanted(q)' <=> Wanted(q)
  BY <1>1, WholeKept
<1>5. ASSUME NEW x \in [at : Nat, name : Seq(Nat)], GoodEntry(x)
      PROVE  GoodEntry(x)' /\ x.at \in 1 .. Here
  <2>1. x.at \in 1 .. Here /\ records'[x.at] = records[x.at] /\ Len(x.name) \in Nat
    BY <1>2, <1>5 DEF GoodEntry
  <2>2. PICK p \in 1 .. Here : p = x.at
    BY <2>1
  <2>3. /\ LongAt(p)' <=> LongAt(p)
        /\ WholeName(p, Len(x.name))' <=> WholeName(p, Len(x.name))
    BY <1>1, <2>1, WholeKept
  <2>. QED
    BY <1>2, <1>5, <2>1, <2>2, <2>3 DEF GoodEntry
<1>6. SUFFICES ListedOnce' /\ Rising' /\ AllGood'
  <2>1. LongNamesBelong' <=>
          (format' = "fat32" => ListedOnce' /\ Rising' /\ AllGood')
    BY LongNamesParts, PTL
  <2>. QED
    BY <2>1
<1>7. \A e \in 1 .. Len(results) : results[e] \in [at : Nat, name : Seq(Nat)]
  <2>1. results \in Seq([at : Nat, name : Seq(Nat)])
    BY DEF TypeOK
  <2>. QED
    BY <2>1, ElementType
<1>8. \A e \in 1 .. Len(results) : results[e].at \in 1 .. Here
  BY <1>3, <1>7, <1>5 DEF AllGood
<1>9. CASE UNCHANGED results /\ ~(r.kind = "short" /\ IsListed(r))
  <2>1. Rising' /\ AllGood'
    <3>1. ASSUME NEW e \in 1 .. Len(results) PROVE GoodEntry(results[e])'
      <4>1. PICK x \in [at : Nat, name : Seq(Nat)] : x = results[e]
        BY <1>7
      <4>2. GoodEntry(x)'
        BY <1>3, <1>5, <4>1 DEF AllGood
      <4>3. results'[e] = x
        BY <1>9, <4>1
      <4>. QED
        BY <4>2, <4>3
    <3>. QED
      BY <1>3, <1>9, <3>1 DEF Rising, AllGood
  <2>2. ASSUME NEW q \in 1 .. Here', records'[q].kind = "short"
        PROVE  (\E e \in 1 .. Len(results') : results'[e].at = q) <=> Wanted(q)'
    <3>1. CASE q \in 1 .. Here
      BY <1>2, <1>3, <1>4, <1>9, <2>2, <3>1 DEF ListedOnce
    <3>2. CASE q = Here + 1
      <4>1. r.kind = "short"
        BY <1>2, <2>2, <3>2
      <4>2. r \in Shorts /\ FatEntry(r)
        BY <4>1, KindsOfRecords
           DEF FatStep, FatOther, FatFirstPiece, FatNextPiece, FatEntry
      <4>3. ~Wanted(q)'
        BY <1>2, <1>9, <3>2, <4>1, <4>2, NamesOfEntries
      <4>. QED
        BY <1>2, <1>8, <1>9, <3>2, <4>3
    <3>. QED
      BY <1>2, <3>1, <3>2
  <2>. QED
    BY <2>1, <2>2 DEF ListedOnce
<1>10. CASE FatEntry(r) /\ IsListed(r)
  <2>1. PICK p \in Nat : p = Here + 1
    BY <1>2
  <2>2. /\ r \in Shorts /\ r.kind = "short"
        /\ results' = Append(results, [at |-> p, name |-> NameOf(r)])
    BY <1>10, <2>1, KindsOfRecords DEF FatEntry, place, Here
  <2>3. /\ HasLong(r) <=> LongAt(p)'
        /\ Wanted(p)'
        /\ HasLong(r) => \E n \in 1 .. MaxSeq :
                             WholeName(p, n)' /\ NameOf(r) = [i \in 1 .. n |-> p - i]
    BY <1>10, <2>1, <2>2, NamesOfEntries
  <2>4. \E x \in [at : Nat, name : Seq(Nat)] :
            x = [at |-> p, name |-> NameOf(r)] /\ GoodEntry(x)'
    <3>1. CASE HasLong(r)
      <4>1. PICK n \in 1 .. MaxSeq :
              WholeName(p, n)' /\ NameOf(r) = [i \in 1 .. n |-> p - i]
        BY <2>3, <3>1
      <4>2. n \in Nat /\ n > 0 /\ n < p
        BY <4>1, BoundsAssumption DEF WholeName
      <4>3. PICK s : s = [i \in 1 .. n |-> p - i]
        OBVIOUS
      <4>4. /\ s \in Seq(Nat) /\ Len(s) = n /\ s # <<>> /\ DOMAIN s = 1 .. n
            /\ \A i \in 1 .. n : s[i] = p - i
        BY <4>2, <4>3, <2>1
      <4>5. WholeName(p, Len(s))'
        BY <4>1, <4>4
      <4>6. PICK x \in [at : Nat, name : Seq(Nat)] : x = [at |-> p, name |-> s]
        BY <4>4
      <4>7. x.at = p /\ x.name = s /\ x = [at |-> p, name |-> NameOf(r)]
        BY <4>1, <4>3, <4>6
      <4>8. GoodEntry(x)'
        <5>1. WholeName(x.at, Len(x.name))' /\ LongAt(x.at)'
          BY <2>3, <3>1, <4>5, <4>7
        <5>. QED
          BY <1>2, <2>1, <2>2, <4>4, <4>7, <5>1 DEF GoodEntry
      <4>. QED
        BY <4>7, <4>8
    <3>2. CASE ~HasLong(r)
      <4>1. NameOf(r) = <<>>
        BY <3>2 DEF NameOf
      <4>2. <<>> \in Seq(Nat) /\ DOMAIN <<>> = {}
        OBVIOUS
      <4>3. PICK s \in Seq(Nat) : s = <<>>
        BY <4>2
      <4>4. PICK x \in [at : Nat, name : Seq(Nat)] : x = [at |-> p, name |-> s]
        OBVIOUS
      <4>5. x.at = p /\ x.name = <<>> /\ x = [at |-> p, name |-> NameOf(r)]
        BY <4>1, <4>3, <4>4
      <4>6. GoodEntry(x)'
        <5>1. ~LongAt(x.at)'
          BY <2>3, <3>2, <4>5
        <5>. QED
          BY <1>2, <2>1, <2>2, <4>2, <4>5, <5>1 DEF GoodEntry
      <4>. QED
        BY <4>5, <4>6
    <3>. QED
      BY <3>1, <3>2
  <2>5. PICK x \in [at : Nat, name : Seq(Nat)] :
            x = [at |-> p, name |-> NameOf(r)] /\ GoodEntry(x)'
    BY <2>4
  <2>6. x.at = p
    BY <2>5
  <2>7. /\ Len(results) \in Nat /\ Len(results') = Len(results) + 1
        /\ \A e \in 1 .. Len(results) : results'[e] = results[e]
        /\ results'[Len(results) + 1] = x
    BY <2>2, <2>5, ResultsGrow
  <2>8. AllGood'
    <3>1. ASSUME NEW e \in 1 .. Len(results') PROVE GoodEntry(results[e])'
      <4>1. CASE e \in 1 .. Len(results)
        <5>1. PICK y \in [at : Nat, name : Seq(Nat)] : y = results[e]
          BY <1>7, <4>1
        <5>2. GoodEntry(y)'
          BY <1>3, <1>5, <4>1, <5>1 DEF AllGood
        <5>3. results'[e] = y
          BY <2>7, <4>1, <5>1
        <5>. QED
          BY <5>2, <5>3
      <4>2. CASE e = Len(results) + 1
        <5>1. results'[e] = x
          BY <2>7, <4>2
        <5>. QED
          BY <2>5, <5>1
      <4>. QED
        BY <2>7, <4>1, <4>2
    <3>. QED
      BY <3>1 DEF AllGood
  <2>9. Rising'
    <3>1. ASSUME NEW e \in 1 .. Len(results'), NEW d \in 1 .. e - 1
          PROVE  results'[d].at < results'[e].at
      <4>1. d \in 1 .. Len(results) /\ results'[d] = results[d]
            /\ results[d].at \in 1 .. Here
        BY <1>8, <2>7
      <4>2. CASE e \in 1 .. Len(results)
        BY <1>3, <2>7, <4>1, <4>2 DEF Rising
      <4>3. CASE e = Len(results) + 1
        BY <1>2, <2>1, <2>7, <2>6, <4>1, <4>3
      <4>. QED
        BY <2>7, <4>2, <4>3, SMTT(30)
    <3>. QED
      BY <3>1 DEF Rising
  <2>10. ListedOnce'
    <3>1. ASSUME NEW q \in 1 .. Here', records'[q].kind = "short"
          PROVE  (\E e \in 1 .. Len(results') : results'[e].at = q) <=> Wanted(q)'
      <4>1. CASE q = p
        BY <2>3, <2>7, <2>6, <4>1
      <4>2. CASE q # p
        <5>1. q \in 1 .. Here
          BY <1>2, <2>1, <4>2
        <5>2. (\E e \in 1 .. Len(results') : results'[e].at = q)
                <=> (\E e \in 1 .. Len(results) : results[e].at = q)
          <6>1. ASSUME NEW e \in 1 .. Len(results'), results'[e].at = q
                PROVE  \E d \in 1 .. Len(results) : results[d].at = q
            <7>1. e # Len(results) + 1
              BY <2>7, <2>6, <4>2, <6>1
            <7>. QED
              BY <2>7, <6>1, <7>1
          <6>2. ASSUME NEW e \in 1 .. Len(results), results[e].at = q
                PROVE  \E d \in 1 .. Len(results') : results'[d].at = q
            BY <2>7, <6>2
          <6>. QED
            BY <6>1, <6>2
        <5>. QED
          BY <1>2, <1>3, <1>4, <3>1, <5>1, <5>2 DEF ListedOnce
      <4>. QED
        BY <4>1, <4>2
    <3>. QED
      BY <3>1 DEF ListedOnce
  <2>. QED
    BY <2>8, <2>9, <2>10
<1>. QED
  <2>1. CASE FatOther(r) \/ FatFirstPiece(r) \/ FatNextPiece(r)
    BY <2>1, <1>9, KindsOfRecords DEF FatOther, FatFirstPiece, FatNextPiece
  <2>2. CASE FatEntry(r)
    BY <2>2, <1>9, <1>10 DEF FatEntry
  <2>. QED
    BY <2>1, <2>2 DEF FatStep

-----------------------------------------------------------------------------
(* Records: what the last ones are on exFAT *)

ExFatStep(r) == ExFatFree(r) \/ ExFatPrimary(r) \/ ExFatSecondary(r)

(* The set under way goes on with a record in use that does not complete it. *)
LEMMA BegunStep ==
    ASSUME TypeOK, format = "exfat", NEW r \in ExFatRecords, Take(r), NEW p \in 1 .. Here
    PROVE  Begun(p)' <=> Begun(p) /\ InUse(r) /\ p + records[p].count > Here + 1
<1>1. /\ Here \in Nat /\ Here' = Here + 1
      /\ \A i \in 1 .. Here : records'[i] = records[i]
      /\ records'[Here + 1] = r
  BY TakeFacts DEF RecordTypes
<1>2. records'[p] = records[p] /\ p \in Nat
  BY <1>1
<1>3. (\A q \in p + 1 .. Here' : InUse(records'[q])) <=>
          InUse(r) /\ \A q \in p + 1 .. Here : InUse(records[q])
  <2>1. \A q \in p + 1 .. Here' : q = Here + 1 \/ q \in p + 1 .. Here
    BY <1>1, <1>2
  <2>2. p + 1 .. Here \subseteq 1 .. Here /\ Here + 1 \in p + 1 .. Here'
        /\ p + 1 .. Here \subseteq p + 1 .. Here'
    BY <1>1, <1>2
  <2>. QED
    BY <1>1, <2>1, <2>2, Zenon
<1>4. ASSUME records[p].count \in 2 .. MaxSecondary
      PROVE  p + records[p].count > Here + 1 => p + records[p].count > Here
  BY <1>1, <1>2, <1>4, BoundsAssumption
<1>. QED
  BY <1>1, <1>2, <1>3, <1>4 DEF Begun

LEMMA BegunHere ==
    ASSUME TypeOK, format = "exfat", NEW r \in ExFatRecords, Take(r),
           NEW p \in Nat, p = Here + 1
    PROVE  Begun(p)' <=> r.kind = "file" /\ r.count \in 2 .. MaxSecondary
<1>1. /\ Here \in Nat /\ Here' = Here + 1 /\ records'[p] = r
  BY TakeFacts DEF RecordTypes
<1>2. p + 1 .. Here' = {}
  BY <1>1
<1>3. r.count \in 2 .. MaxSecondary => p + r.count > Here'
  BY <1>1, BoundsAssumption
<1>. QED
  BY <1>1, <1>2, <1>3 DEF Begun

LEMMA SetStep ==
    ASSUME TypeOK, SetInv, NEW r \in ExFatRecords, ExFatStep(r)
    PROVE  SetInv'
<1>1. format = "exfat" /\ Take(r) /\ UNCHANGED format /\ r \in RecordTypes
  BY DEF ExFatStep, ExFatFree, ExFatPrimary, ExFatSecondary, Take, RecordTypes
<1>2. /\ Here \in Nat /\ Here' = Here + 1
      /\ \A i \in 1 .. Here : records'[i] = records[i]
      /\ records'[Here + 1] = r
  BY <1>1, TakeFacts
<1>3. pending \in Seq(Nat) /\ MaxSecondary \in Nat
  BY BoundsAssumption DEF TypeOK
<1>4. /\ \A p \in 1 .. Here : Begun(p)' <=>
             Begun(p) /\ InUse(r) /\ p + records[p].count > Here + 1
      /\ \A p \in Nat : p = Here + 1 =>
             (Begun(p)' <=> r.kind = "file" /\ r.count \in 2 .. MaxSecondary)
  BY <1>1, BegunStep, BegunHere
<1>5. \A p \in 1 .. Here' : p \in 1 .. Here \/ (p \in Nat /\ p = Here + 1)
  BY <1>2
<1>6. CASE pending' = <<>>
  <2>1. SUFFICES ASSUME NEW p \in 1 .. Here' PROVE ~Begun(p)'
    BY <1>6 DEF SetInv
  <2>2. CASE ExFatFree(r)
    <3>1. ~InUse(r) /\ r.kind # "file"
      BY <2>2 DEF ExFatFree, InUse
    <3>. QED
      BY <1>4, <1>5, <3>1
  <2>3. CASE ExFatPrimary(r)
    <3>1. ~InUse(r) /\ r.count \notin 2 .. MaxSecondary
      BY <1>6, <2>3, KindsOfRecords DEF ExFatPrimary, InUse
    <3>. QED
      BY <1>4, <1>5, <3>1
  <2>4. CASE ExFatSecondary(r)
    <3>1. r.kind # "file"
      BY <2>4, KindsOfRecords DEF ExFatSecondary
    <3>2. ASSUME p \in 1 .. Here, Begun(p), p + records[p].count > Here + 1
          PROVE  FALSE
      <4>1. /\ pending # <<>> /\ pending[1] = p /\ need = records[p].count + 1
            /\ Len(pending) = Here - p + 1 /\ records[p].count \in Nat
        BY <1>1, <1>3, <3>2 DEF SetInv, Begun
      <4>2. Len(pending) + 1 < need
        BY <1>2, <3>2, <4>1
      <4>3. pending' = Append(pending, Here + 1)
        BY <2>4, <4>1, <4>2 DEF ExFatSecondary, place, Here
      <4>. QED
        BY <1>2, <1>3, <1>6, <4>3, AppendFacts
    <3>. QED
      BY <1>4, <1>5, <3>1, <3>2
  <2>. QED
    BY <2>2, <2>3, <2>4 DEF ExFatStep
<1>7. CASE pending' = <<Here + 1>> /\ ExFatPrimary(r)
  <2>1. /\ r.kind = "file" /\ ~InUse(r) /\ r.count \in 2 .. MaxSecondary
        /\ need' = r.count + 1
    <3>1. r.kind = "file" /\ ~InUse(r)
      BY <1>7, KindsOfRecords DEF ExFatPrimary, InUse
    <3>2. <<Here + 1>> # <<>>
      OBVIOUS
    <3>. QED
      BY <1>7, <3>1, <3>2 DEF ExFatPrimary
  <2>2. pending' # <<>> /\ Len(pending') = 1 /\ pending'[1] = Here + 1
    BY <1>7
  <2>3. ASSUME NEW p \in 1 .. Here'
        PROVE  pending' # <<>> /\ pending'[1] = p <=> Begun(p)'
    BY <1>2, <1>4, <1>5, <2>1, <2>2
  <2>4. /\ pending'[1] \in 1 .. Here'
        /\ need' = records'[pending'[1]].count + 1
        /\ Len(pending') = Here' - pending'[1] + 1
        /\ \A i \in 1 .. Len(pending') : pending'[i] = pending'[1] + i - 1
    <3>1. pending'[1] \in 1 .. Here' /\ Len(pending') = Here' - pending'[1] + 1
      BY <1>2, <2>2
    <3>2. need' = records'[pending'[1]].count + 1
      BY <1>2, <2>1, <2>2
    <3>3. ASSUME NEW i \in 1 .. Len(pending') PROVE pending'[i] = pending'[1] + i - 1
      <4>1. i = 1 /\ pending'[1] \in Nat
        BY <1>2, <2>2, <3>1, <3>3
      <4>. QED
        BY <4>1
    <3>. QED
      BY <3>1, <3>2, <3>3
  <2>. QED
    BY <2>3, <2>4 DEF SetInv
<1>8. CASE /\ pending # <<>> /\ Len(pending) + 1 < need /\ ExFatSecondary(r)
           /\ pending' = Append(pending, Here + 1) /\ UNCHANGED need
  <2>1. PICK b \in 1 .. Here : b = pending[1]
    BY <1>1, <1>8 DEF SetInv
  <2>2. /\ need = records[b].count + 1 /\ Len(pending) = Here - b + 1
        /\ \A i \in 1 .. Len(pending) : pending[i] = b + i - 1
        /\ Begun(b) /\ \A p \in 1 .. Here : Begun(p) => p = b
    BY <1>1, <1>8, <2>1 DEF SetInv
  <2>3. records[b].count \in Nat /\ b + records[b].count > Here + 1
    <3>1. records[b].count \in Nat
      BY <1>3, <2>2 DEF Begun
    <3>2. PICK n \in Nat : n = records[b].count
      BY <3>1
    <3>3. (Here - b + 1) + 1 < n + 1
      BY <1>8, <2>2, <3>2
    <3>4. b + n > Here + 1
      BY <1>2, <2>1, <3>3
    <3>. QED
      BY <3>2, <3>4
  <2>4. InUse(r) /\ r.kind # "file"
    BY <1>8, KindsOfRecords DEF ExFatSecondary, InUse
  <2>5. /\ pending' # <<>> /\ Len(pending') = Len(pending) + 1
        /\ \A i \in 1 .. Len(pending) : pending'[i] = pending[i]
        /\ pending'[Len(pending) + 1] = Here + 1 /\ Len(pending) \in Nat
    BY <1>2, <1>3, <1>8, AppendFacts
  <2>6. pending'[1] = b /\ Len(pending) = Here - b + 1
    <3>1. Len(pending) = Here - b + 1
      BY <2>2
    <3>2. 1 \in 1 .. Len(pending)
      BY <1>2, <2>1, <3>1
    <3>. QED
      BY <2>1, <2>5, <3>1, <3>2
  <2>7. ASSUME NEW p \in 1 .. Here'
        PROVE  pending' # <<>> /\ pending'[1] = p <=> Begun(p)'
    <3>1. CASE p \in 1 .. Here
      BY <1>4, <2>1, <2>2, <2>3, <2>4, <2>5, <2>6, <3>1
    <3>2. CASE p = Here + 1
      BY <1>2, <1>4, <1>5, <2>1, <2>4, <2>6, <3>2, SMTT(30)
    <3>. QED
      BY <1>5, <3>1, <3>2
  <2>8. ASSUME NEW i \in 1 .. Len(pending') PROVE pending'[i] = b + i - 1
    <3>1. CASE i \in 1 .. Len(pending)
      BY <2>2, <2>5, <3>1
    <3>2. CASE i = Len(pending) + 1
      BY <1>2, <2>1, <2>5, <2>6, <3>2, SMTT(30)
    <3>. QED
      BY <2>5, <3>1, <3>2
  <2>9. /\ b \in 1 .. Here' /\ need' = records'[b].count + 1
        /\ Len(pending') = Here' - b + 1
    <3>1. need' = records'[b].count + 1
      BY <1>2, <1>8, <2>1, <2>2
    <3>2. Len(pending') = (Here - b + 1) + 1
      BY <2>5, <2>6
    <3>3. (Here - b + 1) + 1 = Here' - b + 1 /\ b \in 1 .. Here'
      BY <1>2, <2>1
    <3>. QED
      BY <3>1, <3>2, <3>3
  <2>. QED
    BY <2>6, <2>7, <2>8, <2>9 DEF SetInv
<1>9. CASE pending = <<>> /\ UNCHANGED pending
  BY <1>6, <1>9
<1>. QED
  <2>1. CASE ExFatFree(r)
    BY <1>6, <2>1 DEF ExFatFree
  <2>2. CASE ExFatPrimary(r)
    BY <1>6, <1>7, <2>2 DEF ExFatPrimary, place, Here
  <2>3. CASE ExFatSecondary(r)
    BY <1>6, <1>8, <1>9, <2>3 DEF ExFatSecondary, set, place, Here
  <2>. QED
    BY <2>1, <2>2, <2>3 DEF ExFatStep

-----------------------------------------------------------------------------
(* Records: what is listed on exFAT *)

(* The set under way with the record that has just been read. *)
SetOf(r) == [i \in 1 .. need |-> IF i = need THEN r ELSE records[pending[i]]]

Completes(r) ==
    /\ pending # <<>> /\ ~(Len(pending) + 1 < need) /\ ExFatSecondary(r)
    /\ Parses(SetOf(r))

(* The last record of a set is the one that makes it whole. *)
LEMMA WholeSetStep ==
    ASSUME TypeOK, SetInv, NEW r \in ExFatRecords, ExFatStep(r), NEW p \in 1 .. Here
    PROVE  WholeSet(p)' <=> WholeSet(p) \/ (Completes(r) /\ pending[1] = p)
<1>1. format = "exfat" /\ Take(r) /\ r \in RecordTypes
  BY DEF ExFatStep, ExFatFree, ExFatPrimary, ExFatSecondary, RecordTypes
<1>2. /\ Here \in Nat /\ Here' = Here + 1
      /\ \A i \in 1 .. Here : records'[i] = records[i]
      /\ records'[Here + 1] = r /\ p \in Nat /\ MaxSecondary \in Nat
  BY <1>1, TakeFacts, BoundsAssumption
<1>3. records'[p] = records[p]
  BY <1>2
<1>4. ASSUME Completes(r), pending[1] = p
      PROVE  /\ Begun(p) /\ need = records[p].count + 1 /\ records[p].count \in 2 .. MaxSecondary
             /\ p + records[p].count = Here + 1
  <2>1. Begun(p) /\ need = records[p].count + 1 /\ Len(pending) = Here - p + 1
    BY <1>1, <1>4 DEF SetInv, Completes
  <2>2. records[p].count \in 2 .. MaxSecondary /\ p + records[p].count > Here
    BY <2>1 DEF Begun
  <2>3. ~(Here - p + 1 + 1 < records[p].count + 1)
    BY <1>4, <2>1 DEF Completes
  <2>4. p + records[p].count = Here + 1
    BY <1>2, <2>2, <2>3
  <2>. QED
    BY <2>1, <2>2, <2>4
<1>5. ASSUME records[p].count \in 2 .. MaxSecondary, p + records[p].count <= Here
      PROVE  WholeSet(p)' <=> WholeSet(p) \/ (Completes(r) /\ pending[1] = p)
  <2>1. ~(Completes(r) /\ pending[1] = p)
    BY <1>2, <1>4, <1>5
  <2>2. \A i \in 1 .. records[p].count : p + i \in 1 .. Here
    BY <1>2, <1>5
  <2>3. /\ records'[p + 1] = records[p + 1]
        /\ \A i \in 2 .. records[p].count : records'[p + i] = records[p + i]
    BY <1>2, <1>5, <2>2
  <2>4. p + records[p].count <= Len(records) /\ p + records[p].count <= Len(records')
    BY <1>2, <1>5 DEF Here
  <2>. QED
    BY <1>3, <2>1, <2>3, <2>4 DEF WholeSet
<1>6. ASSUME records[p].count \in 2 .. MaxSecondary, p + records[p].count = Here + 1
      PROVE  WholeSet(p)' <=> WholeSet(p) \/ (Completes(r) /\ pending[1] = p)
  <2>1. ~WholeSet(p)
    BY <1>2, <1>6 DEF WholeSet, Here
  <2>. DEFINE Good == /\ records[p].good
                      /\ records'[p + 1].kind = "stream"
                      /\ records'[p + 1].names + 1 = records[p].count
                      /\ \A i \in 2 .. records[p].count : records'[p + i].kind = "name"
  <2>2. WholeSet(p)' <=> records[p].kind = "file" /\ Good
    <3>1. p + records[p].count <= Len(records')
      BY <1>2, <1>6 DEF Here
    <3>. QED
      BY <1>3, <1>6, <3>1 DEF WholeSet
  <2>3. ASSUME Begun(p), ExFatSecondary(r)
        PROVE  /\ pending # <<>> /\ pending[1] = p /\ ~(Len(pending) + 1 < need)
               /\ Parses(SetOf(r)) <=> Good
    <3>1. /\ pending # <<>> /\ pending[1] = p /\ need = records[p].count + 1
          /\ Len(pending) = Here - p + 1
          /\ \A i \in 1 .. Len(pending) : pending[i] = p + i - 1
      BY <1>1, <2>3 DEF SetInv
    <3>2. ~(Len(pending) + 1 < need)
      BY <1>2, <1>6, <3>1
    <3>3. /\ need \in Nat /\ need >= 3 /\ Len(pending) = need - 1 /\ p + need - 1 = Here + 1
          /\ records[p].count = need - 1
      <4>1. PICK n \in 2 .. MaxSecondary : n = records[p].count
        BY <1>6
      <4>2. p + n = Here + 1 /\ need = n + 1
        BY <1>6, <3>1, <4>1
      <4>3. Here - p + 1 = need - 1 /\ need \in Nat /\ need >= 3 /\ p + need - 1 = Here + 1
            /\ n = need - 1
        BY <1>2, <4>2
      <4>. QED
        BY <3>1, <4>1, <4>3
    <3>4. PICK s : s = SetOf(r)
      OBVIOUS
    <3>5. Len(s) = need /\ \A i \in 1 .. need : s[i] = records'[p + i - 1]
      <4>1. s = [i \in 1 .. need |-> IF i = need THEN r ELSE records[pending[i]]]
        BY <3>4 DEF SetOf
      <4>2. ASSUME NEW i \in 1 .. need - 1 PROVE s[i] = records'[p + i - 1]
        <5>1. i \in 1 .. Len(pending)
          BY <3>3
        <5>2. pending[i] = p + i - 1
          BY <3>1, <5>1
        <5>3. p + i - 1 \in 1 .. Here
          BY <1>2, <3>3
        <5>. QED
          BY <1>2, <3>3, <4>1, <5>2, <5>3
      <4>3. s[need] = records'[p + need - 1]
        BY <1>2, <3>3, <4>1
      <4>4. Len(s) = need
        BY <3>3, <4>1
      <4>. QED
        BY <3>3, <4>2, <4>3, <4>4
    <3>6. s[1] = records[p] /\ s[2] = records'[p + 1]
      BY <1>2, <1>3, <3>3, <3>5
    <3>7. (\A i \in 3 .. need : s[i].kind = "name") <=>
            \A i \in 2 .. records[p].count : records'[p + i].kind = "name"
      <4>1. ASSUME NEW i \in 2 .. need - 1
            PROVE  i + 1 \in 3 .. need /\ s[i + 1] = records'[p + i]
        <5>1. i + 1 \in 3 .. need /\ i + 1 \in 1 .. need /\ p + (i + 1) - 1 = p + i
          BY <1>2, <3>3
        <5>. QED
          BY <3>5, <5>1
      <4>2. ASSUME NEW i \in 3 .. need
            PROVE  i - 1 \in 2 .. need - 1 /\ s[i] = records'[p + (i - 1)]
        <5>1. i - 1 \in 2 .. need - 1 /\ i \in 1 .. need /\ p + i - 1 = p + (i - 1)
          BY <1>2, <3>3
        <5>. QED
          BY <3>5, <5>1
      <4>3. 2 .. records[p].count = 2 .. need - 1
        BY <3>3
      <4>. QED
        BY <4>1, <4>2, <4>3
    <3>8. Parses(s) <=> Good
      BY <3>5, <3>6, <3>7 DEF Parses
    <3>. QED
      BY <3>1, <3>2, <3>4, <3>8
  <2>4. ASSUME records[p].kind = "file", Good
        PROVE  Begun(p) /\ ExFatSecondary(r)
    <3>1. \A q \in p + 1 .. Here + 1 : InUse(records'[q])
      <4>1. ASSUME NEW q \in p + 1 .. Here + 1
            PROVE  \E i \in 1 .. records[p].count : q = p + i
        <5>1. q - p \in 1 .. records[p].count /\ q = p + (q - p)
          BY <1>2, <1>6
        <5>. QED
          BY <5>1
      <4>2. \A i \in 1 .. records[p].count : i = 1 \/ i \in 2 .. records[p].count
        BY <1>6
      <4>. QED
        BY <2>4, <4>1, <4>2 DEF InUse
    <3>2. \A q \in p + 1 .. Here : records'[q] = records[q] /\ q \in p + 1 .. Here + 1
      BY <1>2
    <3>3. Begun(p)
      BY <1>2, <1>6, <2>4, <3>1, <3>2 DEF Begun
    <3>4. InUse(r)
      BY <1>2, <3>1
    <3>. QED
      BY <3>3, <3>4, KindsOfRecords DEF InUse, ExFatStep, ExFatFree, ExFatPrimary
  <2>5. ASSUME Completes(r), pending[1] = p
        PROVE  records[p].kind = "file" /\ Good
    <3>1. Begun(p) /\ ExFatSecondary(r) /\ Parses(SetOf(r))
      BY <1>4, <2>5 DEF Completes
    <3>. QED
      BY <2>3, <3>1 DEF Begun
  <2>. HIDE DEF Good
  <2>. QED
    BY <2>1, <2>2, <2>3, <2>4, <2>5 DEF Completes
<1>7. ASSUME records[p].count \in 2 .. MaxSecondary, p + records[p].count > Here + 1
      PROVE  ~WholeSet(p)' /\ ~WholeSet(p) /\ ~(Completes(r) /\ pending[1] = p)
  BY <1>2, <1>3, <1>4, <1>7 DEF WholeSet, Here
<1>8. ASSUME records[p].count \notin 2 .. MaxSecondary
      PROVE  ~WholeSet(p)' /\ ~WholeSet(p) /\ ~(Completes(r) /\ pending[1] = p)
  BY <1>3, <1>4, <1>8 DEF WholeSet
<1>. QED
  <2>1. records[p].count \in 2 .. MaxSecondary =>
          \/ p + records[p].count <= Here
          \/ p + records[p].count = Here + 1
          \/ p + records[p].count > Here + 1
    BY <1>2
  <2>. QED
    BY <1>5, <1>6, <1>7, <1>8, <2>1

SetsListed ==
    \A q \in 1 .. Here : WholeSet(q) => \E e \in 1 .. Len(results) : results[e].at = q

GoodSet(a) == a \in 1 .. Here /\ WholeSet(a)

AllSets == \A e \in 1 .. Len(results) : GoodSet(results[e].at)

LEMMA SetsParts ==
    ASSUME TypeOK
    PROVE  SetsAreWhole <=> (format = "exfat" => SetsListed /\ AllSets /\ Rising)
<1>1. DOMAIN records = 1 .. Here /\ DOMAIN results = 1 .. Len(results)
  BY DEF TypeOK, Here
<1>. QED
  BY <1>1 DEF SetsAreWhole, SetsListed, AllSets, GoodSet, Rising

LEMMA SetsStep ==
    ASSUME TypeOK, TypeOK', SetInv, SetsAreWhole, NEW r \in ExFatRecords, ExFatStep(r)
    PROVE  SetsAreWhole'
<1>1. format = "exfat" /\ Take(r) /\ UNCHANGED format /\ r \in RecordTypes
  BY DEF ExFatStep, ExFatFree, ExFatPrimary, ExFatSecondary, Take, RecordTypes
<1>2. /\ Here \in Nat /\ Here' = Here + 1
      /\ \A i \in 1 .. Here : records'[i] = records[i]
      /\ records'[Here + 1] = r
  BY <1>1, TakeFacts
<1>3. SetsListed /\ AllSets /\ Rising
  BY <1>1, SetsParts
<1>4. SUFFICES SetsListed' /\ AllSets' /\ Rising'
  <2>1. SetsAreWhole' <=> (format' = "exfat" => SetsListed' /\ AllSets' /\ Rising')
    BY SetsParts, PTL
  <2>. QED
    BY <2>1
<1>5. ASSUME NEW q \in Nat, q = Here + 1 PROVE ~WholeSet(q)'
  <2>1. ASSUME records'[q].count \in 2 .. MaxSecondary
        PROVE  ~(q + records'[q].count <= Here')
    BY <1>2, <1>5, <2>1, BoundsAssumption
  <2>. QED
    BY <2>1 DEF WholeSet, Here
<1>6. \A q \in 1 .. Here' : q \in 1 .. Here \/ (q \in Nat /\ q = Here + 1)
  BY <1>2
<1>7. \A q \in 1 .. Here : WholeSet(q)' <=> WholeSet(q) \/ (Completes(r) /\ pending[1] = q)
  BY WholeSetStep
<1>8. ASSUME NEW a, GoodSet(a) PROVE GoodSet(a)'
  BY <1>2, <1>7, <1>8 DEF GoodSet
<1>9. CASE ~Completes(r) /\ UNCHANGED results
  <2>1. SetsListed'
    BY <1>3, <1>5, <1>6, <1>7, <1>9 DEF SetsListed
  <2>2. ASSUME NEW e \in 1 .. Len(results) PROVE GoodSet(results[e].at)'
    <3>1. PICK a : a = results[e].at
      OBVIOUS
    <3>2. GoodSet(a)'
      BY <1>3, <1>8, <3>1 DEF AllSets
    <3>3. results'[e].at = a
      BY <1>9, <3>1
    <3>. QED
      BY <3>2, <3>3
  <2>3. AllSets' /\ Rising'
    BY <1>3, <1>9, <2>2 DEF AllSets, Rising
  <2>. QED
    BY <2>1, <2>3
<1>10. CASE /\ Completes(r)
            /\ results' = Append(results, [at |-> pending[1], name |-> <<>>])
  <2>1. PICK b \in 1 .. Here : b = pending[1] /\ Begun(b)
    BY <1>1, <1>10 DEF Completes, SetInv
  <2>2. PICK x \in [at : Nat, name : Seq(Nat)] : x = [at |-> b, name |-> <<>>]
    <3>1. b \in Nat /\ <<>> \in Seq(Nat)
      BY <1>2
    <3>. QED
      BY <3>1
  <2>3. x.at = b /\ results' = Append(results, x)
    BY <1>10, <2>1, <2>2
  <2>4. /\ Len(results) \in Nat /\ Len(results') = Len(results) + 1
        /\ \A e \in 1 .. Len(results) : results'[e] = results[e]
        /\ results'[Len(results) + 1] = x
    BY <2>3, ResultsGrow
  <2>5. WholeSet(b)'
    BY <1>7, <1>10, <2>1
  <2>6. SetsListed'
    <3>1. ASSUME NEW q \in 1 .. Here', WholeSet(q)'
          PROVE  \E e \in 1 .. Len(results') : results'[e].at = q
      <4>1. q \in 1 .. Here
        BY <1>5, <1>6, <3>1
      <4>2. CASE q = b
        <5>1. Len(results) + 1 \in 1 .. Len(results')
          BY <2>4
        <5>2. results'[Len(results) + 1].at = q
          BY <2>3, <2>4, <4>2
        <5>. QED
          BY <5>1, <5>2
      <4>3. CASE q # b
        <5>1. WholeSet(q)
          BY <1>7, <2>1, <3>1, <4>1, <4>3
        <5>2. PICK e \in 1 .. Len(results) : results[e].at = q
          BY <1>3, <4>1, <5>1 DEF SetsListed
        <5>3. e \in 1 .. Len(results') /\ results'[e].at = q
          BY <2>4, <5>2
        <5>. QED
          BY <5>3
      <4>. QED
        BY <4>2, <4>3
    <3>. QED
      BY <3>1 DEF SetsListed
  <2>7. AllSets'
    <3>1. ASSUME NEW e \in 1 .. Len(results') PROVE GoodSet(results[e].at)'
      <4>1. CASE e \in 1 .. Len(results)
        <5>1. PICK a : a = results[e].at
          OBVIOUS
        <5>2. GoodSet(a)'
          BY <1>3, <1>8, <4>1, <5>1 DEF AllSets
        <5>3. results'[e].at = a
          BY <2>4, <4>1, <5>1
        <5>. QED
          BY <5>2, <5>3
      <4>2. CASE e = Len(results) + 1
        <5>1. results'[e].at = b
          BY <2>3, <2>4, <4>2
        <5>2. GoodSet(b)'
          BY <1>2, <2>1, <2>5 DEF GoodSet
        <5>. QED
          BY <5>1, <5>2
      <4>. QED
        BY <2>4, <4>1, <4>2
    <3>. QED
      BY <3>1 DEF AllSets
  <2>8. Rising'
    <3>1. ASSUME NEW d \in 1 .. Len(results) PROVE results[d].at < b
      <4>1. PICK a \in 1 .. Here : a = results[d].at /\ WholeSet(a)
        BY <1>3 DEF AllSets, GoodSet
      <4>2. records[a].kind = "file"
        BY <4>1 DEF WholeSet
      <4>3. a \notin b + 1 .. Here
        BY <2>1, <4>2 DEF Begun, InUse
      <4>4. a # b
        <5>1. CASE a = b
          <6>1. records[b].count \in Int /\ b + records[b].count <= Here
                /\ b + records[b].count > Here
            BY <2>1, <4>1, <5>1 DEF Begun, WholeSet, Here
          <6>. QED
            BY <1>2, <6>1
        <5>. QED
          BY <5>1
      <4>. QED
        BY <1>2, <4>1, <4>3, <4>4
    <3>2. ASSUME NEW e \in 1 .. Len(results'), NEW d \in 1 .. e - 1
          PROVE  results'[d].at < results'[e].at
      <4>1. d \in 1 .. Len(results) /\ results'[d] = results[d]
        BY <2>4
      <4>2. CASE e \in 1 .. Len(results)
        BY <1>3, <2>4, <4>1, <4>2 DEF Rising
      <4>3. CASE e = Len(results) + 1
        BY <2>3, <2>4, <3>1, <4>1, <4>3
      <4>. QED
        BY <2>4, <4>2, <4>3
    <3>. QED
      BY <3>2 DEF Rising
  <2>. QED
    BY <2>6, <2>7, <2>8
<1>. QED
  <2>1. CASE ExFatFree(r)
    <3>1. r.kind = "free" /\ UNCHANGED results
      BY <2>1 DEF ExFatFree
    <3>. QED
      BY <1>9, <3>1 DEF Completes, ExFatSecondary
  <2>2. CASE ExFatPrimary(r)
    <3>1. ~ExFatSecondary(r) /\ UNCHANGED results
      BY <2>2 DEF ExFatPrimary, ExFatSecondary
    <3>. QED
      BY <1>9, <3>1 DEF Completes
  <2>3. CASE ExFatSecondary(r)
    BY <1>9, <1>10, <2>3 DEF ExFatSecondary, Completes, SetOf
  <2>. QED
    BY <2>1, <2>2, <2>3 DEF ExFatStep

-----------------------------------------------------------------------------
(* Records: the invariant *)

LEMMA TypeStepFat ==
    ASSUME TypeOK, PartsInv, NEW r \in Fat32Records, FatStep(r)
    PROVE  TypeOK'
<1>1. format = "fat32" /\ Take(r) /\ UNCHANGED format /\ r \in RecordTypes /\ UNCHANGED set
  BY DEF FatStep, FatOther, FatFirstPiece, FatNextPiece, FatEntry, Take, RecordTypes
<1>2. /\ Here \in Nat /\ records' \in Seq(Fat32Records) /\ MaxSeq \in Nat
      /\ place = Here + 1
  BY <1>1, TakeFacts, BoundsAssumption DEF RecordTypes, place, Here
<1>3. /\ format' \in Formats /\ pending' \in Seq(Nat) /\ need' \in 0 .. MaxSecondary + 1
      /\ records' \in Seq(IF format' = "fat32" THEN Fat32Records ELSE ExFatRecords)
  BY <1>1, <1>2 DEF TypeOK, set
<1>4. /\ haveLFN \in BOOLEAN /\ maxSeq \in 0 .. MaxSeq /\ expected \in 0 .. MaxSeq
      /\ checksum \in Sums \cup {0} /\ parts \in [1 .. MaxSeq -> Nat]
      /\ results \in Seq([at : Nat, name : Seq(Nat)])
  BY DEF TypeOK
<1>5. SUFFICES /\ haveLFN' \in BOOLEAN /\ maxSeq' \in 0 .. MaxSeq /\ expected' \in 0 .. MaxSeq
               /\ checksum' \in Sums \cup {0} /\ parts' \in [1 .. MaxSeq -> Nat]
               /\ results' \in Seq([at : Nat, name : Seq(Nat)])
  BY <1>3 DEF TypeOK
<1>6. CASE FatOther(r)
  <2>1. /\ haveLFN' = FALSE /\ maxSeq' = 0 /\ expected' = 0
        /\ UNCHANGED <<checksum, parts, results>>
    BY <1>6 DEF FatOther, Forget
  <2>2. haveLFN' \in BOOLEAN
    BY <2>1, Zenon
  <2>3. maxSeq' \in 0 .. MaxSeq /\ expected' \in 0 .. MaxSeq
    BY <1>2, <2>1
  <2>. QED
    BY <1>4, <2>1, <2>2, <2>3
<1>7. CASE FatFirstPiece(r)
  <2>1. r.seq \in 1 .. MaxSeq /\ r.sum \in Sums
    BY <1>7, KindsOfRecords DEF FatFirstPiece
  <2>2. r.seq \in 0 .. MaxSeq /\ r.seq - 1 \in 0 .. MaxSeq
    BY <1>2, <2>1
  <2>3. parts' \in [1 .. MaxSeq -> Nat]
    BY <1>2, <1>7 DEF FatFirstPiece
  <2>. QED
    BY <1>4, <1>7, <2>1, <2>2, <2>3 DEF FatFirstPiece
<1>8. CASE FatNextPiece(r)
  <2>1. /\ r.seq \in 1 .. MaxSeq /\ haveLFN' = Fits(r)
        /\ UNCHANGED <<maxSeq, checksum, results>>
    BY <1>8, KindsOfRecords DEF FatNextPiece
  <2>2. Fits(r) \in BOOLEAN
    BY DEF Fits
  <2>3. expected' \in 0 .. MaxSeq /\ parts' \in [1 .. MaxSeq -> Nat]
    <3>1. CASE Fits(r)
      <4>1. /\ r.seq = expected /\ expected' = expected - 1
            /\ parts' = [parts EXCEPT ![r.seq] = Here + 1]
        BY <1>2, <1>8, <3>1 DEF FatNextPiece, Fits
      <4>. QED
        BY <1>2, <1>4, <2>1, <4>1
    <3>2. CASE ~Fits(r)
      BY <1>4, <1>8, <3>2 DEF FatNextPiece
    <3>. QED
      BY <3>1, <3>2
  <2>. QED
    BY <1>4, <2>1, <2>2, <2>3
<1>9. CASE FatEntry(r)
  <2>1. /\ haveLFN' = FALSE /\ maxSeq' = 0 /\ expected' = 0 /\ UNCHANGED <<checksum, parts>>
    BY <1>9 DEF FatEntry, Forget
  <2>2. NameOf(r) \in Seq(Nat)
    BY <1>2, <1>4 DEF NameOf, HasLong
  <2>3. PICK p \in Nat, s \in Seq(Nat) : p = place /\ s = NameOf(r)
    BY <1>2, <2>2
  <2>4. PICK x \in [at : Nat, name : Seq(Nat)] : x = [at |-> p, name |-> s]
    OBVIOUS
  <2>5. results' = results \/ results' = Append(results, x)
    BY <1>9, <2>3, <2>4 DEF FatEntry
  <2>6. results' \in Seq([at : Nat, name : Seq(Nat)])
    <3>1. CASE results' = results
      BY <1>4, <3>1
    <3>2. CASE results' = Append(results, x)
      BY <3>2, ResultsGrow
    <3>. QED
      BY <2>5, <3>1, <3>2
  <2>7. checksum' \in Sums \cup {0} /\ parts' \in [1 .. MaxSeq -> Nat]
    BY <1>4, <2>1
  <2>8. haveLFN' \in BOOLEAN
    BY <2>1, Zenon
  <2>9. maxSeq' \in 0 .. MaxSeq /\ expected' \in 0 .. MaxSeq
    BY <1>2, <2>1
  <2>. QED
    BY <2>6, <2>7, <2>8, <2>9
<1>. QED
  BY <1>6, <1>7, <1>8, <1>9 DEF FatStep

LEMMA TypeStepExFat ==
    ASSUME TypeOK, SetInv, NEW r \in ExFatRecords, ExFatStep(r)
    PROVE  TypeOK'
<1>1. format = "exfat" /\ Take(r) /\ UNCHANGED format /\ r \in RecordTypes /\ UNCHANGED lfn
  BY DEF ExFatStep, ExFatFree, ExFatPrimary, ExFatSecondary, Take, RecordTypes
<1>2. /\ Here \in Nat /\ records' \in Seq(ExFatRecords) /\ MaxSecondary \in Nat
      /\ place = Here + 1
  BY <1>1, TakeFacts, BoundsAssumption DEF RecordTypes, place, Here
<1>3. /\ format' \in Formats
      /\ records' \in Seq(IF format' = "fat32" THEN Fat32Records ELSE ExFatRecords)
      /\ haveLFN' \in BOOLEAN /\ maxSeq' \in 0 .. MaxSeq /\ expected' \in 0 .. MaxSeq
      /\ checksum' \in Sums \cup {0} /\ parts' \in [1 .. MaxSeq -> Nat]
  BY <1>1, <1>2 DEF TypeOK, lfn
<1>4. /\ pending \in Seq(Nat) /\ need \in 0 .. MaxSecondary + 1
      /\ results \in Seq([at : Nat, name : Seq(Nat)])
  BY DEF TypeOK
<1>5. SUFFICES /\ pending' \in Seq(Nat) /\ need' \in 0 .. MaxSecondary + 1
               /\ results' \in Seq([at : Nat, name : Seq(Nat)])
  BY <1>3 DEF TypeOK
<1>6. 0 \in 0 .. MaxSecondary + 1 /\ <<>> \in Seq(Nat)
  BY <1>2
<1>7. CASE ExFatFree(r)
  BY <1>4, <1>6, <1>7 DEF ExFatFree
<1>8. CASE ExFatPrimary(r)
  <2>1. r.count \in 2 .. MaxSecondary => r.count + 1 \in 0 .. MaxSecondary + 1
    BY <1>2
  <2>2. <<place>> \in Seq(Nat)
    BY <1>2
  <2>. QED
    BY <1>4, <1>6, <1>8, <2>1, <2>2 DEF ExFatPrimary
<1>9. CASE ExFatSecondary(r)
  <2>1. CASE pending = <<>>
    BY <1>4, <1>9, <2>1 DEF ExFatSecondary, set
  <2>2. CASE pending # <<>> /\ Len(pending) + 1 < need
    <3>1. pending' = Append(pending, place) /\ UNCHANGED <<need, results>>
      BY <1>9, <2>2 DEF ExFatSecondary
    <3>. QED
      BY <1>2, <1>4, <3>1, AppendFacts
  <2>3. CASE pending # <<>> /\ ~(Len(pending) + 1 < need)
    <3>1. pending[1] \in Nat
      BY <1>1, <1>2, <2>3 DEF SetInv
    <3>2. PICK x \in [at : Nat, name : Seq(Nat)] : x = [at |-> pending[1], name |-> <<>>]
      BY <1>6, <3>1
    <3>3. /\ pending' = <<>> /\ need' = 0
          /\ results' = results \/ results' = Append(results, x)
      BY <1>9, <2>3, <3>2 DEF ExFatSecondary
    <3>4. results' \in Seq([at : Nat, name : Seq(Nat)])
      <4>1. CASE results' = results
        BY <1>4, <4>1
      <4>2. CASE results' = Append(results, x)
        BY <4>2, ResultsGrow
      <4>. QED
        BY <3>3, <4>1, <4>2
    <3>. QED
      BY <1>6, <3>3, <3>4
  <2>. QED
    BY <2>1, <2>2, <2>3
<1>. QED
  BY <1>7, <1>8, <1>9 DEF ExFatStep

LEMMA InitRecords == Init => RecordsInv
<1>. SUFFICES ASSUME Init PROVE RecordsInv
  OBVIOUS
<1>1. records = <<>> /\ results = <<>> /\ pending = <<>> /\ Here = 0 /\ Len(results) = 0
  BY DEF Init, Here
<1>2. TypeOK
  <2>1. 0 \in 0 .. MaxSeq /\ 0 \in 0 .. MaxSecondary + 1
    BY BoundsAssumption
  <2>2. /\ parts \in [1 .. MaxSeq -> Nat]
        /\ checksum \in Sums \cup {0} /\ format \in Formats
    BY DEF Init
  <2>3. /\ \A S : <<>> \in Seq(S)
    OBVIOUS
  <2>. QED
    BY <1>1, <2>1, <2>2, <2>3 DEF Init, TypeOK
<1>3. RunInv
  <2>1. ASSUME NEW m \in 1 .. MaxSeq, NEW e \in 0 .. m - 1, NEW c \in Sums
        PROVE  ~Partial(m, e, c)
    BY <1>1, BoundsAssumption DEF Partial
  <2>. QED
    BY <2>1 DEF Init, RunInv, Waits
<1>4. PartsInv /\ SetInv
  BY <1>1 DEF Init, PartsInv, SetInv
<1>5. LongNamesBelong
  BY <1>1, <1>2, LongNamesParts DEF ListedOnce, Rising, AllGood
<1>6. SetsAreWhole
  BY <1>1, <1>2, SetsParts DEF SetsListed, Rising, AllSets
<1>. QED
  BY <1>2, <1>3, <1>4, <1>5, <1>6 DEF RecordsInv

LEMMA NextRecords == RecordsInv /\ [Next]_vars => RecordsInv'
<1>. SUFFICES ASSUME RecordsInv, [Next]_vars PROVE RecordsInv'
  OBVIOUS
<1>1. TypeOK /\ RunInv /\ PartsInv /\ SetInv /\ LongNamesBelong /\ SetsAreWhole
  BY DEF RecordsInv
<1>2. ASSUME NEW r \in Fat32Records, FatStep(r) PROVE RecordsInv'
  <2>1. format' = "fat32"
    BY <1>2 DEF FatStep, FatOther, FatFirstPiece, FatNextPiece, FatEntry, Take
  <2>2. TypeOK'
    BY <1>1, <1>2, TypeStepFat
  <2>3. RunInv' /\ PartsInv'
    BY <1>1, <1>2, RunStep
  <2>4. LongNamesBelong'
    BY <1>1, <1>2, <2>2, LongStep
  <2>5. SetInv' /\ SetsAreWhole'
    BY <2>1 DEF SetInv, SetsAreWhole
  <2>. QED
    BY <2>2, <2>3, <2>4, <2>5 DEF RecordsInv
<1>3. ASSUME NEW r \in ExFatRecords, ExFatStep(r) PROVE RecordsInv'
  <2>1. format = "exfat" /\ format' = "exfat" /\ UNCHANGED lfn
    BY <1>3 DEF ExFatStep, ExFatFree, ExFatPrimary, ExFatSecondary, Take
  <2>2. TypeOK' /\ SetInv'
    BY <1>1, <1>3, TypeStepExFat, SetStep
  <2>3. SetsAreWhole'
    BY <1>1, <1>3, <2>2, SetsStep
  <2>4. RunInv' /\ LongNamesBelong'
    BY <2>1 DEF RunInv, LongNamesBelong
  <2>5. PartsInv'
    BY <1>1, <2>1 DEF lfn, PartsInv
  <2>. QED
    BY <2>2, <2>3, <2>4, <2>5 DEF RecordsInv
<1>4. CASE UNCHANGED vars
  <2>1. /\ UNCHANGED <<format, records, results>> /\ UNCHANGED <<pending, need>>
        /\ UNCHANGED <<haveLFN, maxSeq, expected, checksum, parts>>
    BY <1>4 DEF vars, lfn, set
  <2>2. TypeOK' /\ PartsInv'
    BY <1>1, <2>1 DEF TypeOK, PartsInv, Here
  <2>3. RunInv'
    <3>1. ASSUME NEW m \in 1 .. MaxSeq, NEW e \in 0 .. m - 1, NEW c \in Sums
          PROVE  (Waits(m, e, c)' <=> Waits(m, e, c)) /\ (Partial(m, e, c)' <=> Partial(m, e, c))
      <4>1. Here' = Here /\ records' = records
        BY <2>1 DEF Here
      <4>2. Waits(m, e, c)' <=> Waits(m, e, c)
        BY <2>1, Zenon DEF Waits
      <4>3. Partial(m, e, c)' <=> Partial(m, e, c)
        BY <4>1, Zenon DEF Partial
      <4>. QED
        BY <4>2, <4>3
    <3>. QED
      BY <1>1, <2>1, <3>1, Zenon DEF RunInv
  <2>4. SetInv'
    BY <1>1, <2>1 DEF SetInv, Begun, InUse, Here
  <2>5. LongNamesBelong'
    BY <1>1, <2>1 DEF LongNamesBelong, LongAt, WholeName
  <2>6. SetsAreWhole'
    BY <1>1, <2>1 DEF SetsAreWhole, WholeSet
  <2>. QED
    BY <2>2, <2>3, <2>4, <2>5, <2>6 DEF RecordsInv
<1>. QED
  BY <1>2, <1>3, <1>4 DEF Next, FatStep, ExFatStep

LEMMA RecordsHold == Spec => []RecordsInv
  BY InitRecords, NextRecords, PTL DEF Spec

(* Every variable keeps its type; in particular, the code never writes a piece
   behind the 20 places it has for them. *)
THEOREM RecordsTypeCorrect == Spec => []TypeOK
<1>1. RecordsInv => TypeOK
  BY DEF RecordsInv
<1>. QED
  BY <1>1, RecordsHold, PTL

(* fat32_list_cluster lists each 8.3 entry once and in order, with the long name
   that belongs to it, for names of any length, any number of checksums and
   directories of any size. *)
THEOREM LongNamesHold == Spec => []LongNamesBelong
<1>1. RecordsInv => LongNamesBelong
  BY DEF RecordsInv
<1>. QED
  BY <1>1, RecordsHold, PTL

(* exfat_list_cluster lists the whole and valid sets of a directory, each once
   and in order, and nothing else, for sets and directories of any size. *)
THEOREM SetsHold == Spec => []SetsAreWhole
<1>1. RecordsInv => SetsAreWhole
  BY DEF RecordsInv
<1>. QED
  BY <1>1, RecordsHold, PTL

-----------------------------------------------------------------------------
(* Arithmetic of words and blocks *)

LEMMA DivMod ==
    ASSUME NEW q \in Int, NEW d \in Nat \ {0}, NEW r \in 0 .. d - 1
    PROVE  (q * d + r) \div d = q /\ (q * d + r) % d = r
  BY SMT

LEMMA DivModOf ==
    ASSUME NEW n \in Nat, NEW d \in Nat \ {0}
    PROVE  /\ n \div d \in Nat /\ n % d \in 0 .. d - 1
           /\ n = (n \div d) * d + (n % d)
<1>1. n \div d \in Nat /\ n % d \in 0 .. d - 1 /\ n % d = n - d * (n \div d)
  BY SMT
<1>. DEFINE q == n \div d
            r == n % d
<1>2. q \in Nat /\ r \in Int /\ r = n - d * q
  BY <1>1
<1>. HIDE DEF q, r
<1>3. d * q = q * d /\ q * d \in Nat
  BY <1>2, SMT
<1>4. n = q * d + r
  BY <1>2, <1>3
<1>5. n = (n \div d) * d + (n % d)
  BY <1>4, Zenon DEF q, r
<1>6. n \div d \in Nat /\ n % d \in 0 .. d - 1
  BY <1>1, Zenon
<1>. QED
  BY <1>5, <1>6, Zenon

LEMMA ModOnce ==
    ASSUME NEW d \in Nat \ {0}, NEW n \in 0 .. 2 * d - 1
    PROVE  n % d = IF n < d THEN n ELSE n - d
<1>1. CASE n < d
  <2>1. n = 0 * d + n
    BY SMT
  <2>. QED
    BY <1>1, <2>1, DivMod, SMT
<1>2. CASE n >= d
  <2>1. n = 1 * d + (n - d) /\ n - d \in 0 .. d - 1
    BY <1>2, SMT
  <2>2. (1 * d + (n - d)) % d = n - d
    BY <2>1, DivMod, SMT
  <2>. QED
    BY <1>2, <2>1, <2>2
<1>. QED
  BY <1>1, <1>2

-----------------------------------------------------------------------------
(* Checksums *)

(* The part of Rotated before the byte is added. *)
Turned(sum, half) == sum \div 2 + (sum % 2) * half

LEMMA TurnedType ==
    ASSUME NEW half \in Nat \ {0}, NEW s \in 0 .. 2 * half - 1
    PROVE  Turned(s, half) \in 0 .. 2 * half - 1
<1>1. s = (s \div 2) * 2 + (s % 2) /\ s \div 2 \in Nat /\ s % 2 \in {0, 1}
  BY DivModOf
<1>2. CASE s % 2 = 0
  BY <1>1, <1>2, SMT DEF Turned
<1>3. CASE s % 2 = 1
  BY <1>1, <1>3, SMT DEF Turned
<1>. QED
  BY <1>1, <1>2, <1>3

(* The low bit decides in which half the sum is after the turn. *)
LEMMA TurnedOneToOne ==
    ASSUME NEW half \in Nat \ {0}, NEW s \in 0 .. 2 * half - 1,
           NEW t \in 0 .. 2 * half - 1, Turned(s, half) = Turned(t, half)
    PROVE  s = t
<1>1. /\ s = (s \div 2) * 2 + (s % 2) /\ s \div 2 \in Nat /\ s % 2 \in {0, 1}
      /\ t = (t \div 2) * 2 + (t % 2) /\ t \div 2 \in Nat /\ t % 2 \in {0, 1}
  <2>1. \A n \in Nat : n = (n \div 2) * 2 + (n % 2) /\ n \div 2 \in Nat /\ n % 2 \in 0 .. 1
    BY DivModOf
  <2>2. s \in Nat /\ t \in Nat /\ 0 .. 1 = {0, 1}
    OBVIOUS
  <2>. QED
    BY <2>1, <2>2, Zenon
<1>2. s \div 2 < half /\ t \div 2 < half
  <2>1. PICK a \in Nat : a = s \div 2 /\ s = a * 2 + (s % 2)
    BY <1>1
  <2>2. PICK b \in Nat : b = t \div 2 /\ t = b * 2 + (t % 2)
    BY <1>1
  <2>3. a < half /\ b < half
    BY <2>1, <2>2, <1>1
  <2>. QED
    BY <2>1, <2>2, <2>3
<1>3. CASE s % 2 = 0 /\ t % 2 = 0
  BY <1>1, <1>3, SMT DEF Turned
<1>4. CASE s % 2 = 1 /\ t % 2 = 1
  BY <1>1, <1>4, SMT DEF Turned
<1>5. CASE s % 2 = 0 /\ t % 2 = 1
  BY <1>1, <1>2, <1>5, SMT DEF Turned
<1>6. CASE s % 2 = 1 /\ t % 2 = 0
  BY <1>1, <1>2, <1>6, SMT DEF Turned
<1>. QED
  BY <1>1, <1>3, <1>4, <1>5, <1>6

LEMMA RotatedIs ==
    ASSUME NEW half \in Nat \ {0}, NEW s \in 0 .. 2 * half - 1,
           NEW b \in 0 .. 2 * half - 1
    PROVE  /\ Rotated(s, half, b) \in 0 .. 2 * half - 1
           /\ Rotated(s, half, b) = IF Turned(s, half) + b < 2 * half
                                    THEN Turned(s, half) + b
                                    ELSE Turned(s, half) + b - 2 * half
<1>. DEFINE n == Turned(s, half) + b
            d == 2 * half
<1>1. Turned(s, half) \in 0 .. d - 1
  BY TurnedType
<1>2. n \in 0 .. 2 * d - 1 /\ d \in Nat \ {0}
  BY <1>1
<1>3. Rotated(s, half, b) = n % d
  BY DEF Rotated, Turned
<1>4. n % d = IF n < d THEN n ELSE n - d
  <2>. HIDE DEF n, d
  <2>. QED
    BY <1>2, ModOnce
<1>. QED
  BY <1>1, <1>2, <1>3, <1>4

(* What follows a damaged byte cannot hide it: equal bytes keep different sums
   different. A damaged byte makes equal sums different. *)
LEMMA DamageStays ==
    ASSUME NEW half \in Nat \ {0}, NEW s \in 0 .. 2 * half - 1,
           NEW t \in 0 .. 2 * half - 1, NEW b \in 0 .. 2 * half - 1, s # t
    PROVE  Rotated(s, half, b) # Rotated(t, half, b)
<1>1. Turned(s, half) # Turned(t, half)
  BY TurnedOneToOne
<1>. DEFINE x == Turned(s, half)
            y == Turned(t, half)
            d == 2 * half
<1>2. x \in 0 .. d - 1 /\ y \in 0 .. d - 1 /\ d \in Nat
  BY TurnedType
<1>3. /\ Rotated(s, half, b) = IF x + b < d THEN x + b ELSE x + b - d
      /\ Rotated(t, half, b) = IF y + b < d THEN y + b ELSE y + b - d
  BY RotatedIs
<1>. HIDE DEF x, y, d
<1>4. x # y /\ b \in 0 .. d - 1
  BY <1>1 DEF x, y, d
<1>. QED
  BY <1>2, <1>3, <1>4

LEMMA DamageShows ==
    ASSUME NEW half \in Nat \ {0}, NEW s \in 0 .. 2 * half - 1,
           NEW b \in 0 .. 2 * half - 1, NEW c \in 0 .. 2 * half - 1, b # c
    PROVE  Rotated(s, half, b) # Rotated(s, half, c)
<1>. DEFINE x == Turned(s, half)
            d == 2 * half
<1>1. x \in 0 .. d - 1 /\ d \in Nat
  BY TurnedType
<1>2. /\ Rotated(s, half, b) = IF x + b < d THEN x + b ELSE x + b - d
      /\ Rotated(s, half, c) = IF x + c < d THEN x + c ELSE x + c - d
  BY RotatedIs
<1>. QED
  BY <1>1, <1>2

(* The sums agree until the damage is passed, and from then on only if it is at
   a place that is left out. *)
SumsPart ==
    area # "none" =>
        (written = found <=> passed <= damage \/ damage \in Unsummed[area])
ChecksumInv == ChecksumTypeOK /\ SumsPart

LEMMA ChecksumStep == ChecksumInv /\ [ChecksumNext]_checksumVars => ChecksumInv'
<1>. SUFFICES ASSUME ChecksumInv, [ChecksumNext]_checksumVars PROVE ChecksumInv'
  OBVIOUS
<1>. USE DEF ChecksumInv, ChecksumTypeOK, SumsPart
<1>1. CASE SumStart
  <2>1. area' \in Areas /\ area' # "none" /\ area = "none"
    BY <1>1, AreasAssumption DEF SumStart
  <2>2. Size[area'] \in Nat /\ Half[area'] \in Nat \ {0}
    BY <2>1, AreasAssumption
  <2>3. damage' \in 0 .. Size[area'] /\ passed' = 0 /\ written' = 0 /\ found' = 0
    BY <1>1, <2>1 DEF SumStart
  <2>. QED
    BY <2>1, <2>2, <2>3
<1>2. CASE SumByte
  <2>. DEFINE H == Half[area]
  <2>1. area \in Areas /\ Size[area] \in Nat /\ H \in Nat \ {0}
    BY <1>2, AreasAssumption DEF SumByte
  <2>2. PICK was \in ByteValues, is \in ByteValues :
           /\ (was # is) <=> (passed = damage)
           /\ IF passed \in Unsummed[area] THEN UNCHANGED <<written, found>>
              ELSE /\ written' = Rotated(written, H, was)
                   /\ found' = Rotated(found, H, is)
    BY <1>2 DEF SumByte, PassedOver
  <2>3. was \in 0 .. 2 * H - 1 /\ is \in 0 .. 2 * H - 1
    BY <2>1, AreasAssumption
  <2>4. /\ area' = area /\ damage' = damage /\ passed' = passed + 1
        /\ area # "none" /\ passed < Size[area]
    BY <1>2 DEF SumByte
  <2>5. /\ passed \in 0 .. Size[area] /\ damage \in 0 .. Size[area]
        /\ written \in 0 .. 2 * H - 1 /\ found \in 0 .. 2 * H - 1
    BY <2>4
  <2>6. CASE passed \in Unsummed[area]
    <3>1. written' = written /\ found' = found
      BY <2>2, <2>6
    <3>. QED
      BY <3>1, <2>1, <2>4, <2>5, <2>6
  <2>7. CASE passed \notin Unsummed[area]
    <3>1. written' = Rotated(written, H, was) /\ found' = Rotated(found, H, is)
      BY <2>2, <2>7
    <3>2. written' \in 0 .. 2 * H - 1 /\ found' \in 0 .. 2 * H - 1
      BY <3>1, <2>1, <2>3, <2>5, RotatedIs
    <3>3. written' = found' <=> passed + 1 <= damage \/ damage \in Unsummed[area]
      <4>. HIDE DEF H
      <4>1. CASE passed < damage
        BY <4>1, <3>1, <2>2, <2>4, <2>5
      <4>2. CASE passed = damage
        <5>1. written = found /\ was # is
          BY <4>2, <2>2, <2>4, <2>5
        <5>2. Rotated(written, H, was) # Rotated(written, H, is)
          BY <5>1, <2>1, <2>3, <2>5, DamageShows
        <5>. QED
          BY <5>1, <5>2, <4>2, <3>1, <2>5, <2>7
      <4>3. CASE passed > damage
        <5>1. was = is
          BY <4>3, <2>2, <2>5
        <5>2. written # found => Rotated(written, H, was) # Rotated(found, H, was)
          BY <2>1, <2>3, <2>5, DamageStays
        <5>3. written = found <=> damage \in Unsummed[area]
          BY <4>3, <2>4, <2>5
        <5>. QED
          BY <5>1, <5>2, <5>3, <4>3, <3>1, <2>5
      <4>. QED
        BY <4>1, <4>2, <4>3, <2>5
    <3>. QED
      BY <3>2, <3>3, <2>1, <2>4, <2>5
  <2>. QED
    BY <2>6, <2>7
<1>3. CASE UNCHANGED checksumVars
  BY <1>3 DEF checksumVars
<1>. QED
  BY <1>1, <1>2, <1>3 DEF ChecksumNext

LEMMA ChecksumHolds == ChecksumSpec => []ChecksumInv
<1>1. ChecksumInit => ChecksumInv
  BY AreasAssumption DEF ChecksumInit, ChecksumInv, ChecksumTypeOK, SumsPart
<1>. QED
  BY <1>1, ChecksumStep, PTL DEF ChecksumSpec

(* The checksums of FAT and exFAT see any one damaged byte that is summed, in
   areas of every length, however wide the sum is. *)
THEOREM DamageSeen == ChecksumSpec => []DamageIsSeen
<1>1. ChecksumInv => DamageIsSeen
  <2>. SUFFICES ASSUME ChecksumInv, area # "none", passed = Size[area]
                PROVE  written = found <=>
                           damage = Size[area] \/ damage \in Unsummed[area]
    BY DEF DamageIsSeen
  <2>1. damage \in 0 .. Size[area] /\ area \in Areas
    BY DEF ChecksumInv, ChecksumTypeOK
  <2>2. Size[area] \in Nat
    BY <2>1, AreasAssumption
  <2>. QED
    BY <2>1, <2>2 DEF ChecksumInv, SumsPart
<1>. QED
  BY <1>1, ChecksumHolds, PTL
-----------------------------------------------------------------------------
(* The allocation bitmap *)

LEMMA Product ==
    ASSUME NEW a \in Nat, NEW b \in Nat
    PROVE  a * b \in Nat /\ a * b = b * a
  BY SMT

LEMMA ProductOrder ==
    ASSUME NEW a \in Nat, NEW b \in Nat, NEW d \in Nat, a <= b
    PROVE  a * d <= b * d
  BY SMT

(* The quotient of a sum is below a bound exactly if the sum is. *)
LEMMA QuotientBelow ==
    ASSUME NEW q \in Nat, NEW d \in Nat \ {0}, NEW r \in 0 .. d - 1, NEW n \in Nat
    PROVE  q < n <=> q * d + r < n * d
<1>1. q * d \in Nat /\ n * d \in Nat /\ (q + 1) * d = q * d + d
  BY SMT
<1>2. ASSUME q < n PROVE q * d + r < n * d
  <2>1. (q + 1) * d <= n * d
    BY <1>2, ProductOrder
  <2>. QED
    BY <1>1, <2>1
<1>3. ASSUME n <= q PROVE n * d <= q * d + r
  <2>1. n * d <= q * d
    BY <1>3, ProductOrder
  <2>. QED
    BY <1>1, <2>1
<1>. QED
  BY <1>1, <1>2, <1>3

(* A bit of neighbouring clusters: its place in the row of all bits of the heap
   if the first of them is cluster m + 2, and the cluster that it lies in. *)
PlaceFrom(size, m, bit) == 8 * size * m + bit
IndexOf(size, bit) == (bit \div 8) \div size

LEMMA PlaceParts ==
    ASSUME NEW m \in Nat, NEW bit \in Nat, NEW size \in Nat \ {0}
    PROVE  /\ IndexOf(size, bit) \in Nat
           /\ PlaceFrom(size, m, bit) % 8 = bit % 8
           /\ (PlaceFrom(size, m, bit) \div 8) % size = (bit \div 8) % size
           /\ PlaceFrom(size, m, bit) \div (8 * size) = m + IndexOf(size, bit)
           /\ \A n \in Nat :
                 m + IndexOf(size, bit) < n <=> PlaceFrom(size, m, bit) < 8 * size * n
<1>. DEFINE k == 8 * size * m + bit
            q == bit \div 8
            r == bit % 8
            i == q \div size
            o == q % size
            w == 8 * size
<1>1. q \in Nat /\ r \in 0 .. 7 /\ bit = q * 8 + r
  BY DivModOf
<1>2. i \in Nat /\ o \in 0 .. size - 1 /\ q = i * size + o
  <2>. HIDE DEF q
  <2>. QED
    BY <1>1, DivModOf
<1>. HIDE DEF q, r, i, o
<1>3. /\ m * size \in Nat /\ i * size \in Nat /\ (m + i) * size = m * size + i * size
      /\ 8 * size * m = (m * size) * 8
      /\ (m + i) * w = ((m + i) * size) * 8
  BY <1>1, <1>2, SMT
<1>4. k = (m * size + q) * 8 + r
  BY <1>1, <1>3
<1>5. k % 8 = r /\ k \div 8 = m * size + q
  <2>1. m * size + q \in Int /\ 8 \in Nat \ {0} /\ r \in 0 .. 8 - 1
    BY <1>1, <1>3
  <2>. HIDE DEF k
  <2>. QED
    BY <2>1, <1>4, DivMod
<1>6. m * size + q = (m + i) * size + o
  BY <1>2, <1>3
<1>7. (m * size + q) % size = o
  <2>1. m + i \in Int
    BY <1>2
  <2>. QED
    BY <2>1, <1>2, <1>6, DivMod
<1>. DEFINE rest == o * 8 + r
<1>8. k = (m + i) * w + rest /\ rest \in 0 .. w - 1 /\ w \in Nat \ {0}
  BY <1>1, <1>2, <1>3, <1>4, <1>6
<1>9. k \div w = m + i
  <2>1. m + i \in Int
    BY <1>2
  <2>. HIDE DEF k, w, rest
  <2>. QED
    BY <2>1, <1>8, DivMod
<1>10. ASSUME NEW n \in Nat PROVE m + i < n <=> k < w * n
  <2>1. m + i \in Nat
    BY <1>2
  <2>. HIDE DEF k, w, rest
  <2>2. m + i < n <=> (m + i) * w + rest < n * w
    BY <2>1, <1>8, QuotientBelow
  <2>3. n * w = w * n
    BY <1>8, Product
  <2>. QED
    BY <2>2, <2>3, <1>8
<1>. QED
  <2>1. PlaceFrom(size, m, bit) = k /\ IndexOf(size, bit) = i
    BY Zenon DEF PlaceFrom, IndexOf, q, i, k
  <2>2. r = bit % 8 /\ o = (bit \div 8) % size /\ w = 8 * size
    BY Zenon DEF q, r, o
  <2>. HIDE DEF k, w
  <2>. QED
    BY <1>2, <1>5, <1>6, <1>7, <1>9, <1>10, <2>1, <2>2

(* exfat_read_contiguous_byte finds the bit of a cluster where it lies on disk. *)
LEMMA BitOfCluster ==
    ASSUME NEW c \in Clusters, metadata.bitmap \in Clusters
    PROVE  BitIsSet(metadata.bitmap, c - 2) <=>
              Place(c) < 8 * ClusterBytes * Count /\ HeapBit(Place(c))
<1>. DEFINE m == metadata.bitmap - 2
            bit == c - 2
            number == IndexOf(ClusterBytes, bit)
            k == PlaceFrom(ClusterBytes, m, bit)
<1>1. /\ Count \in Nat /\ ClusterBytes \in Nat \ {0} /\ m \in Nat
      /\ bit \in 0 .. Count - 1 /\ metadata.bitmap \in Nat /\ Place(c) = k
  BY CountAssumption, BytesAssumption DEF Clusters, Place, PlaceFrom
<1>2. bit \in Nat
  BY <1>1
<1>3. /\ number \in Nat
      /\ k % 8 = bit % 8
      /\ (k \div 8) % ClusterBytes = (bit \div 8) % ClusterBytes
      /\ k \div (8 * ClusterBytes) = m + number
      /\ m + number < Count <=> k < 8 * ClusterBytes * Count
  <2>. HIDE DEF m, bit
  <2>1. m \in Nat /\ ClusterBytes \in Nat \ {0} /\ Count \in Nat
    BY <1>1
  <2>2. /\ IndexOf(ClusterBytes, bit) \in Nat
        /\ PlaceFrom(ClusterBytes, m, bit) % 8 = bit % 8
        /\ (PlaceFrom(ClusterBytes, m, bit) \div 8) % ClusterBytes
              = (bit \div 8) % ClusterBytes
        /\ PlaceFrom(ClusterBytes, m, bit) \div (8 * ClusterBytes)
              = m + IndexOf(ClusterBytes, bit)
        /\ \A n \in Nat : m + IndexOf(ClusterBytes, bit) < n <=>
                          PlaceFrom(ClusterBytes, m, bit) < 8 * ClusterBytes * n
    BY <2>1, <1>2, PlaceParts, Zenon
  <2>. QED
    BY <2>1, <2>2, Zenon
<1>4. number < Count
  <2>. DEFINE q == bit \div 8
  <2>1. q \in Nat /\ q <= bit
    BY <1>2, SMT
  <2>2. number <= q
    <3>1. number = q \div ClusterBytes
      BY DEF IndexOf
    <3>. HIDE DEF q, number
    <3>2. number \in Nat /\ q % ClusterBytes \in 0 .. ClusterBytes - 1
          /\ q = number * ClusterBytes + (q % ClusterBytes)
      BY <2>1, <3>1, <1>1, DivModOf
    <3>3. 1 * number <= ClusterBytes * number
      <4>1. 1 \in Nat /\ ClusterBytes \in Nat /\ 1 <= ClusterBytes /\ number \in Nat
        BY <1>1, <3>2
      <4>. QED
        BY <4>1, ProductOrder, Zenon
    <3>4. ClusterBytes * number = number * ClusterBytes /\ 1 * number = number
          /\ number * ClusterBytes \in Nat
      BY <1>1, <3>2, SMT
    <3>5. q >= number * ClusterBytes
      <4>. DEFINE u == number * ClusterBytes
                  v == q % ClusterBytes
      <4>1. u \in Nat /\ v \in 0 .. ClusterBytes - 1 /\ q = u + v
        BY <3>2, <3>4, Zenon
      <4>. HIDE DEF u, v
      <4>2. q >= u
        BY <4>1, <1>1
      <4>. QED
        BY <4>2, Zenon DEF u
    <3>. QED
      BY <2>1, <3>2, <3>3, <3>4, <3>5
  <2>. HIDE DEF q, number
  <2>. QED
    BY <1>1, <1>3, <2>1, <2>2
<1>5. Readable(metadata.bitmap, bit \div 8) <=> m + number < Count
  <2>1. Readable(metadata.bitmap, bit \div 8) <=>
            number < Count /\ metadata.bitmap + number <= Count + 1
    BY Zenon DEF Readable, IndexOf
  <2>. HIDE DEF number
  <2>. QED
    BY <2>1, <1>1, <1>3, <1>4
<1>6. metadata.bitmap + number = 2 + (m + number)
  <2>. HIDE DEF number
  <2>. QED
    BY <1>1, <1>3
<1>7. bit % 8 \in ByteAt(metadata.bitmap, bit \div 8) <=> HeapBit(k)
  <2>1. ByteAt(metadata.bitmap, bit \div 8) =
            disk.heap[metadata.bitmap + number][(bit \div 8) % ClusterBytes]
    BY Zenon DEF ByteAt, IndexOf
  <2>2. HeapBit(k) <=> bit % 8 \in disk.heap[2 + (m + number)][(bit \div 8) % ClusterBytes]
    <3>. HIDE DEF m, number, k, bit
    <3>. QED
      BY <1>3, Zenon DEF HeapBit
  <2>. QED
    BY <2>1, <2>2, <1>6, Zenon
<1>. QED
  BY <1>1, <1>3, <1>5, <1>7, Zenon DEF BitIsSet

(* Eight bits to a byte are enough for every cluster. *)
LEMMA BitmapReaches ==
    ASSUME NEW length \in Nat, length >= MinimumLength(Count)
    PROVE  /\ length * 8 >= Count
           /\ \A c \in Clusters : (c - 2) \div 8 < length
<1>1. Count \in Nat
  BY CountAssumption
<1>2. length * 8 >= Count
  BY <1>1, SMT DEF MinimumLength
<1>3. ASSUME NEW c \in Clusters PROVE (c - 2) \div 8 < length
  <2>1. c - 2 \in Nat /\ c - 2 < Count
    BY <1>1 DEF Clusters
  <2>. DEFINE p == (c - 2) \div 8
              r == (c - 2) % 8
              n == c - 2
  <2>. HIDE DEF n
  <2>2. n \in Nat /\ n < Count
    BY <2>1 DEF n
  <2>3. n \div 8 \in Nat /\ n % 8 \in 0 .. 8 - 1 /\ n = (n \div 8) * 8 + (n % 8)
    BY <2>2, DivModOf
  <2>4. p = n \div 8 /\ r = n % 8
    BY Zenon DEF n
  <2>. HIDE DEF p, r, n
  <2>5. p \in Nat /\ r \in 0 .. 7 /\ n = p * 8 + r
    BY <2>3, <2>4
  <2>6. p < length
    BY <2>2, <2>5, <1>1, <1>2
  <2>. QED
    BY <2>6, Zenon DEF p
<1>. QED
  BY <1>2, <1>3

(* What the walk has read, and what Verify has seen to when it accepts. *)
MetadataTypes ==
    /\ walk # "none" => disk.directory \in Directories
    /\ slot \in Nat
    /\ walk = "read" => at \in Clusters
    /\ metadata \in [bitmap : Nat, length : Nat, upcase : Nat, upcaseLength : Nat]
AskedLate == walk # "accepted" => asked = NoQuestion
AcceptedBitmap ==
    walk = "accepted" =>
        /\ metadata.bitmap \in Clusters
        /\ metadata.length >= MinimumLength(Count)
        /\ BitIsSet(metadata.bitmap, Root - 2)
Answered ==
    walk = "accepted" /\ asked.read =>
        (asked.answer <=> /\ asked.cluster \in Clusters
                          /\ Place(asked.cluster) < 8 * ClusterBytes * Count
                          /\ HeapBit(Place(asked.cluster)))
MetadataInv == MetadataTypes /\ AskedLate /\ AcceptedBitmap /\ Answered

LEMMA AnswerIsBit ==
    ASSUME MetadataInv, NEW c \in Int, AskBitmap(c)
    PROVE  MetadataInv'
<1>1. /\ walk = "accepted" /\ UNCHANGED <<walk, disk, at, slot, visited, metadata>>
      /\ asked'.cluster = c
      /\ asked'.answer <=> /\ c \in Clusters
                           /\ (c - 2) \div 8 < metadata.length
                           /\ BitIsSet(metadata.bitmap, c - 2)
  BY DEF AskBitmap
<1>2. MetadataTypes' /\ AskedLate'
  BY <1>1 DEF MetadataInv, MetadataTypes, AskedLate
<1>3. AcceptedBitmap'
  BY <1>1 DEF MetadataInv, AcceptedBitmap, BitIsSet, Readable, ByteAt
<1>4. Answered'
  <2>1. ASSUME c \in Clusters
        PROVE  asked'.answer <=> /\ Place(c) < 8 * ClusterBytes * Count
                                 /\ HeapBit(Place(c))
    <3>1. metadata.bitmap \in Clusters /\ metadata.length >= MinimumLength(Count)
          /\ metadata.length \in Nat
      BY <1>1 DEF MetadataInv, AcceptedBitmap, MetadataTypes
    <3>2. (c - 2) \div 8 < metadata.length
      BY <2>1, <3>1, BitmapReaches
    <3>3. BitIsSet(metadata.bitmap, c - 2) <=>
              Place(c) < 8 * ClusterBytes * Count /\ HeapBit(Place(c))
      BY <2>1, <3>1, BitOfCluster
    <3>. QED
      BY <1>1, <2>1, <3>2, <3>3, Zenon
  <2>2. Place(c)' = Place(c) /\ (HeapBit(Place(c))' <=> HeapBit(Place(c)))
    BY <1>1 DEF Place, HeapBit
  <2>. QED
    BY <1>1, <2>1, <2>2 DEF Answered
<1>. QED
  BY <1>2, <1>3, <1>4 DEF MetadataInv

LEMMA MetadataStep == MetadataInv /\ [MetadataNext]_metadataVars => MetadataInv'
<1>. SUFFICES ASSUME MetadataInv, [MetadataNext]_metadataVars PROVE MetadataInv'
  OBVIOUS
<1>. USE DEF MetadataInv, MetadataTypes, AskedLate, AcceptedBitmap, Answered
<1>1. CASE MetadataCall
  BY <1>1 DEF MetadataCall
<1>2. CASE EnterRootCluster
  BY <1>2 DEF EnterRootCluster
<1>3. CASE ReadRecord
  <2>. DEFINE record == disk.directory[at][slot]
  <2>1. /\ walk = "read" /\ slot \in 0 .. Records - 1 /\ at \in Clusters
        /\ disk.directory \in Directories
    BY <1>3, BytesAssumption DEF ReadRecord
  <2>2. record.cluster \in Nat /\ record.length \in Nat
    BY <2>1, RecordsAssumption
  <2>3. metadata' \in [bitmap : Nat, length : Nat, upcase : Nat, upcaseLength : Nat]
    <3>1. CASE record.type = "bitmap"
      BY <1>3, <2>2, <3>1 DEF ReadRecord
    <3>2. CASE record.type = "upcase"
      BY <1>3, <2>2, <3>2 DEF ReadRecord
    <3>3. CASE record.type \notin {"bitmap", "upcase"}
      BY <1>3, <3>3 DEF ReadRecord
    <3>. QED
      BY <3>1, <3>2, <3>3
  <2>. QED
    BY <1>3, <2>1, <2>3 DEF ReadRecord
<1>4. CASE RecordsUnread
  BY <1>4 DEF RecordsUnread
<1>5. CASE NextRootCluster
  BY <1>5 DEF NextRootCluster
<1>6. CASE FatUnread
  BY <1>6 DEF FatUnread
<1>7. CASE Verify
  <2>1. /\ walk = "verify" /\ UNCHANGED <<disk, at, slot, visited, metadata, asked>>
        /\ walk' \in {"accepted", "refused"}
        /\ walk' = "accepted" => Verified
    BY <1>7 DEF Verify
  <2>2. asked = NoQuestion /\ ~ asked.read
    BY <2>1 DEF NoQuestion
  <2>3. AcceptedBitmap'
    BY <2>1 DEF Verified, BitIsSet, Readable, ByteAt
  <2>. QED
    BY <2>1, <2>2, <2>3
<1>8. CASE VerifyUnread
  BY <1>8 DEF VerifyUnread
<1>9. ASSUME NEW c \in 0 .. Count + 2, AskBitmap(c) PROVE MetadataInv'
  <2>1. c \in Int
    OBVIOUS
  <2>. QED
    BY <1>9, <2>1, AnswerIsBit
<1>10. ASSUME NEW c \in 0 .. Count + 2, AskUnread(c) PROVE MetadataInv'
  <2>1. /\ walk = "accepted" /\ UNCHANGED <<walk, disk, at, slot, visited, metadata>>
        /\ ~ asked'.read
    BY <1>10 DEF AskUnread
  <2>. QED
    BY <2>1 DEF BitIsSet, Readable, ByteAt
<1>11. CASE UNCHANGED metadataVars
  <2>1. UNCHANGED <<walk, disk, at, slot, visited, metadata, asked>>
    BY <1>11 DEF metadataVars
  <2>. QED
    BY <2>1 DEF BitIsSet, Readable, ByteAt, Place, HeapBit
<1>. QED
  BY <1>1, <1>2, <1>3, <1>4, <1>5, <1>6, <1>7, <1>8, <1>9, <1>10, <1>11
  DEF MetadataNext

(* In every volume that exfat_validate_root_metadata accepts, of any number of
   clusters of any size, the bitmap has a bit for every cluster, exfat_cluster_
   is_allocated answers with that bit, and the root directory is allocated. *)
THEOREM BitmapServed == MetadataSpec => []BitmapServes
<1>1. MetadataInit => MetadataInv
  BY DEF MetadataInit, MetadataInv, MetadataTypes, AskedLate, AcceptedBitmap, Answered,
         NoMetadata
<1>2. MetadataInv => BitmapServes
  <2>. SUFFICES ASSUME MetadataInv, walk = "accepted" PROVE BitmapServes
    BY DEF BitmapServes
  <2>1. /\ metadata.bitmap \in Clusters /\ metadata.length \in Nat
        /\ metadata.length >= MinimumLength(Count)
        /\ BitIsSet(metadata.bitmap, Root - 2)
    BY DEF MetadataInv, MetadataTypes, AcceptedBitmap
  <2>2. metadata.length * 8 >= Count
    BY <2>1, BitmapReaches
  <2>3. Root \in Clusters
    BY CountAssumption
  <2>4. Place(Root) < 8 * ClusterBytes * Count /\ HeapBit(Place(Root))
    BY <2>1, <2>3, BitOfCluster
  <2>5. asked.read => (asked.answer <=> /\ asked.cluster \in Clusters
                                        /\ Place(asked.cluster) < 8 * ClusterBytes * Count
                                        /\ HeapBit(Place(asked.cluster)))
    BY DEF MetadataInv, Answered
  <2>6. asked.cluster = Root /\ asked.read => asked.answer
    BY <2>3, <2>4, <2>5, Zenon
  <2>. QED
    BY <2>2, <2>5, <2>6, Zenon DEF BitmapServes
<1>. QED
  BY <1>1, <1>2, MetadataStep, PTL DEF MetadataSpec

-----------------------------------------------------------------------------
(* The digest *)

Octets == Bytes \cup Filling

LEMMA ConcatBlock ==
    ASSUME NEW S, NEW s \in Seq(S), NEW b \in [Index -> S]
    PROVE  /\ s \o Block(b) \in Seq(S)
           /\ Len(s \o Block(b)) = Len(s) + BlockSize
           /\ \A i \in 1 .. Len(s) + BlockSize :
                 (s \o Block(b))[i] = IF i <= Len(s) THEN s[i] ELSE b[i - Len(s) - 1]
<1>1. BlockSize \in Nat
  BY BlockAssumption
<1>2. \A i \in 1 .. BlockSize : i - 1 \in Index
  BY <1>1 DEF Index
<1>3. Block(b) \in [1 .. BlockSize -> S]
  BY <1>2 DEF Block
<1>4. Block(b) \in Seq(S) /\ Len(Block(b)) = BlockSize
  BY <1>1, <1>3
<1>5. \A i \in 1 .. BlockSize : Block(b)[i] = b[i - 1]
  BY DEF Block
<1>. DEFINE t == Block(b)
<1>6. t \in Seq(S) /\ Len(t) = BlockSize /\ \A i \in 1 .. BlockSize : t[i] = b[i - 1]
  BY <1>4, <1>5, Zenon
<1>. HIDE DEF t
<1>7. s \o t \in Seq(S) /\ Len(s \o t) = Len(s) + BlockSize /\ Len(s) \in Nat
  <2>1. s \in Seq(S) /\ t \in Seq(S)
    BY <1>6, Zenon
  <2>2. s \o t \in Seq(S)
    BY <2>1
  <2>3. Len(s \o t) = Len(s) + Len(t)
    BY <2>1
  <2>4. Len(s) \in Nat
    OBVIOUS
  <2>. QED
    BY <2>2, <2>3, <2>4, <1>6
<1>8. ASSUME NEW i \in 1 .. Len(s) + BlockSize
      PROVE  (s \o t)[i] = IF i <= Len(s) THEN s[i] ELSE b[i - Len(s) - 1]
  <2>1. CASE i <= Len(s)
    BY <1>6, <2>1
  <2>2. CASE i > Len(s)
    <3>1. i - Len(s) \in 1 .. BlockSize /\ ~ (i <= Len(s))
      BY <1>1, <1>7, <2>2
    <3>2. (s \o t)[i] = t[i - Len(s)]
      BY <1>1, <1>6, <1>7, <2>2
    <3>. QED
      BY <3>1, <3>2, <1>6, Zenon
  <2>. QED
    BY <1>7, <2>1, <2>2
<1>. QED
  BY <1>7, <1>8 DEF t

LEMMA ZeroedIs ==
    ASSUME NEW b \in [Index -> Octets], NEW from \in Nat, NEW to \in Nat
    PROVE  /\ Zeroed(b, from, to) \in [Index -> Octets]
           /\ \A j \in Index :
                 Zeroed(b, from, to)[j] = IF from <= j /\ j < to THEN Zero ELSE b[j]
<1>1. Zero \in Octets
  BY DEF Octets, Filling
<1>2. Zeroed(b, from, to) \in [Index -> Octets]
  BY <1>1 DEF Zeroed
<1>3. ASSUME NEW j \in Index
      PROVE  Zeroed(b, from, to)[j] = IF from <= j /\ j < to THEN Zero ELSE b[j]
  <2>1. Zeroed(b, from, to)[j] = IF j \in from .. to - 1 THEN Zero ELSE b[j]
    BY Zenon DEF Zeroed
  <2>2. j \in from .. to - 1 <=> from <= j /\ j < to
    BY BlockAssumption DEF Index
  <2>. QED
    BY <2>1, <2>2, Zenon
<1>. QED
  BY <1>2, <1>3

LEMMA SameSequence ==
    ASSUME NEW S, NEW s \in Seq(S), NEW f,
           f = [i \in 1 .. Len(s) |-> f[i]], \A i \in 1 .. Len(s) : s[i] = f[i]
    PROVE  s = f
<1>1. s = [i \in 1 .. Len(s) |-> s[i]]
  OBVIOUS
<1>. QED
  BY <1>1

(* The zeros of the padding end where a block has room for the length. *)
LEMMA ZeroRunIs ==
    ASSUME NEW q \in Nat, NEW p \in 0 .. BlockSize - 1
    PROVE  ZeroRun(q * BlockSize + p) =
               (IF Spills(p + 1) THEN 2 * BlockSize ELSE BlockSize) - (p + 1 + LengthSize)
<1>. DEFINE B == BlockSize
            x == p + 1 + LengthSize
<1>1. B \in Nat \ {0} /\ LengthSize \in Nat \ {0} /\ LengthSize < B /\ x \in 1 .. 2 * B - 1
  BY BlockAssumption
<1>2. Spills(p + 1) <=> x > B
  BY <1>1 DEF Spills, lengthAt
<1>3. ZeroRun(q * BlockSize + p) = (B - ((q * B + x) % B)) % B
  <2>1. q * B \in Nat
    BY <1>1, SMT
  <2>. DEFINE u == q * B
  <2>2. (u + p) + 1 + LengthSize = u + x
    BY <2>1, <1>1
  <2>. QED
    BY <2>2, Zenon DEF ZeroRun
<1>. HIDE DEF B, x
<1>4. CASE x < B
  <2>1. (q * B + x) % B = x
    BY <1>1, <1>4, DivMod
  <2>2. (B - x) % B = B - x
    <3>1. B - x \in 0 .. 2 * B - 1 /\ B - x < B
      BY <1>1, <1>4
    <3>. QED
      BY <3>1, <1>1, ModOnce, Zenon
  <2>. QED
    BY <1>1, <1>2, <1>3, <1>4, <2>1, <2>2 DEF B, x
<1>5. CASE x = B
  <2>1. q * B + x = (q + 1) * B + 0 /\ 0 \in 0 .. B - 1 /\ q + 1 \in Int
    BY <1>1, <1>5, SMT
  <2>2. (q * B + x) % B = 0
    BY <2>1, <1>1, DivMod
  <2>3. (B - 0) % B = 0
    BY <1>1, ModOnce
  <2>. QED
    BY <1>1, <1>2, <1>3, <1>5, <2>2, <2>3 DEF B, x
<1>6. CASE x > B
  <2>1. q * B + x = (q + 1) * B + (x - B) /\ x - B \in 0 .. B - 1 /\ q + 1 \in Int
    BY <1>1, <1>6, SMT
  <2>2. (q * B + x) % B = x - B
    <3>1. ((q + 1) * B + (x - B)) % B = x - B
      BY <2>1, <1>1, DivMod, Zenon
    <3>. QED
      BY <2>1, <3>1, Zenon
  <2>3. (B - (x - B)) % B = B - (x - B)
    <3>1. B - (x - B) \in 0 .. 2 * B - 1 /\ B - (x - B) < B
      BY <1>1, <1>6
    <3>. QED
      BY <3>1, <1>1, ModOnce, Zenon
  <2>. QED
    BY <1>1, <1>2, <1>3, <1>6, <2>2, <2>3 DEF B, x
<1>. QED
  BY <1>1, <1>4, <1>5, <1>6

(* The two words that sha512_final shifts out of the byte count are the number
   of bits. *)
LEMMA LengthWords ==
    ASSUME NEW n \in 0 .. Word - 1
    PROVE  /\ BitsHigh(n) = (n * 8) \div Word /\ BitsHigh(n) \in 0 .. Word - 1
           /\ BitsLow(n) = (n * 8) % Word /\ BitsLow(n) \in 0 .. Word - 1
<1>. DEFINE w == Word \div 8
<1>1. Word \in Nat \ {0} /\ w \in Nat \ {0} /\ Word = 8 * w
  BY WordAssumption
<1>. DEFINE a == n \div w
            r == n % w
<1>2. a \in Nat /\ r \in 0 .. w - 1 /\ n = a * w + r
  <2>1. n \in Nat
    BY <1>1
  <2>. HIDE DEF w
  <2>. QED
    BY <2>1, <1>1, DivModOf, Zenon
<1>3. a <= n
  <2>. HIDE DEF w, a, r
  <2>1. 1 * a <= w * a
    BY <1>1, <1>2, ProductOrder
  <2>2. w * a = a * w /\ 1 * a = a
    BY <1>1, <1>2, SMT
  <2>3. w * a \in Nat
    BY <1>1, <1>2, SMT
  <2>. QED
    BY <2>1, <2>2, <2>3, <1>2
<1>4. (n * 8) \div Word = a
  <2>. HIDE DEF w, a, r
  <2>1. (a * w) * 8 = a * (8 * w) /\ a * w \in Nat
    BY <1>1, <1>2, SMT
  <2>2. n * 8 = (a * w) * 8 + 8 * r
    BY <2>1, <1>2
  <2>3. n * 8 = a * Word + 8 * r
    BY <2>1, <2>2, <1>1
  <2>4. 8 * r \in 0 .. Word - 1
    BY <1>1, <1>2
  <2>. QED
    BY <2>3, <2>4, <1>1, <1>2, DivMod
<1>5. (n * 8) % Word \in 0 .. Word - 1
  <2>1. n * 8 \in Nat
    OBVIOUS
  <2>. QED
    BY <1>1, <2>1, DivModOf
<1>. QED
  BY <1>1, <1>2, <1>3, <1>4, <1>5 DEF BitsHigh, BitsLow

DigestTypes ==
    /\ hashing \in {"none", "update", "done"}
    /\ message \in Seq(Bytes) /\ Len(message) < Word
    /\ left \in Nat /\ fed \in Nat
    /\ compressed \in Seq(Octets)
    /\ buf \in [Index -> Octets]
    /\ bufPos \in Nat
(* While the message is fed, it is cut in two: whole blocks that are compressed
   and less than a block in the buffer. *)
Counted ==
    hashing = "update" =>
        /\ byteCount = fed /\ fed + left <= Len(message)
        /\ bufPos < BlockSize
        /\ Len(compressed) + bufPos = fed
        /\ \E q \in Nat : Len(compressed) = q * BlockSize
Kept ==
    hashing = "update" =>
        /\ \A i \in 1 .. Len(compressed) : compressed[i] = message[i]
        /\ \A j \in 0 .. bufPos - 1 : buf[j] = message[Len(compressed) + j + 1]
DigestInv == DigestTypes /\ Counted /\ Kept /\ DigestOfMessage

LEMMA TurnKeeps ==
    ASSUME DigestInv, UpdateTurn
    PROVE  DigestInv'
<1>. DEFINE room == BlockSize - bufPos
            take == IF left < room THEN left ELSE room
            filled == [i \in Index |->
                IF i \in bufPos .. bufPos + take - 1
                THEN message[fed + i - bufPos + 1] ELSE buf[i]]
            full == bufPos + take = BlockSize
<1>1. /\ hashing = "update" /\ hashing' = "update" /\ message' = message /\ left > 0
      /\ buf' = filled
      /\ bufPos' = IF full THEN 0 ELSE bufPos + take
      /\ compressed' = IF full THEN compressed \o Block(filled) ELSE compressed
      /\ byteCount' = (byteCount + take) % Word
      /\ left' = left - take
      /\ fed' = fed + take
  BY Zenon DEF UpdateTurn
<1>2. /\ message \in Seq(Bytes) /\ Len(message) \in Nat /\ Len(message) < Word
      /\ left \in Nat /\ fed \in Nat /\ compressed \in Seq(Octets)
      /\ Len(compressed) \in Nat
      /\ buf \in [Index -> Octets] /\ bufPos \in Nat
      /\ byteCount = fed /\ fed + left <= Len(message) /\ bufPos < BlockSize
      /\ Len(compressed) + bufPos = fed
  BY <1>1 DEF DigestInv, DigestTypes, Counted
<1>3. PICK q \in Nat : Len(compressed) = q * BlockSize
  BY <1>1 DEF DigestInv, Counted
<1>4. /\ \A i \in 1 .. Len(compressed) : compressed[i] = message[i]
      /\ \A j \in 0 .. bufPos - 1 : buf[j] = message[Len(compressed) + j + 1]
  BY <1>1 DEF DigestInv, Kept
<1>5. BlockSize \in Nat /\ Word \in Nat \ {0}
  BY BlockAssumption, WordAssumption
<1>6. /\ take \in Nat /\ take > 0 /\ take <= left /\ bufPos + take <= BlockSize
      /\ fed + take <= Len(message)
  BY <1>1, <1>2, <1>5
<1>. HIDE DEF take
<1>7. left' \in Nat /\ fed' \in Nat /\ fed' + left' <= Len(message)
  BY <1>1, <1>2, <1>6
<1>8. byteCount' = fed'
  <2>1. fed + take \in 0 .. Word - 1
    BY <1>2, <1>5, <1>6
  <2>2. (fed + take) % Word = fed + take
    <3>. DEFINE n == fed + take
    <3>1. n \in 0 .. 2 * Word - 1 /\ n < Word
      BY <2>1, <1>5
    <3>. HIDE DEF n
    <3>2. n % Word = n
      BY <3>1, <1>5, ModOnce
    <3>. QED
      BY <3>2 DEF n
  <2>. QED
    BY <1>1, <1>2, <2>2, Zenon
<1>9. \A j \in 0 .. bufPos + take - 1 : filled[j] = message[Len(compressed) + j + 1]
  <2>. SUFFICES ASSUME NEW j \in 0 .. bufPos + take - 1
                PROVE  filled[j] = message[Len(compressed) + j + 1]
    OBVIOUS
  <2>1. j \in Index /\ j \in Nat
    BY <1>2, <1>5, <1>6 DEF Index
  <2>2. CASE j < bufPos
    <3>1. j \in 0 .. bufPos - 1 /\ j \notin bufPos .. bufPos + take - 1
      BY <2>1, <2>2, <1>2
    <3>2. filled[j] = buf[j]
      BY <2>1, <3>1, Zenon
    <3>. QED
      BY <3>1, <3>2, <1>4, Zenon
  <2>3. CASE j >= bufPos
    <3>1. j \in bufPos .. bufPos + take - 1
      BY <2>1, <2>3, <1>2, <1>6
    <3>2. filled[j] = message[fed + j - bufPos + 1]
      BY <2>1, <3>1, Zenon
    <3>3. fed + j - bufPos + 1 = Len(compressed) + j + 1
      BY <1>2, <2>1
    <3>. QED
      BY <3>2, <3>3, Zenon
  <2>. QED
    BY <2>1, <2>2, <2>3, <1>2
<1>10. filled \in [Index -> Octets]
  <2>. SUFFICES ASSUME NEW j \in Index PROVE filled[j] \in Octets
    BY Zenon
  <2>1. CASE j < bufPos + take
    <3>1. j \in 0 .. bufPos + take - 1
      BY <2>1, <1>2, <1>5, <1>6 DEF Index
    <3>2. filled[j] = message[Len(compressed) + j + 1]
      BY <3>1, <1>9, Zenon
    <3>3. Len(compressed) + j + 1 \in 1 .. Len(message)
      BY <3>1, <1>2, <1>6
    <3>4. message[Len(compressed) + j + 1] \in Bytes
      BY <3>3, <1>2
    <3>. QED
      BY <3>2, <3>4 DEF Octets
  <2>2. CASE ~ (j < bufPos + take)
    <3>1. j \notin bufPos .. bufPos + take - 1
      BY <2>2, <1>2, <1>5, <1>6 DEF Index
    <3>. QED
      BY <3>1, <1>2
  <2>. QED
    BY <2>1, <2>2
<1>. HIDE DEF filled
<1>11. CASE ~ full
  <2>1. bufPos' = bufPos + take /\ compressed' = compressed /\ buf' = filled
    BY <1>1, <1>11, Zenon
  <2>2. bufPos' \in Nat /\ bufPos' < BlockSize /\ Len(compressed') + bufPos' = fed'
    BY <2>1, <1>1, <1>2, <1>5, <1>6, <1>11
  <2>3. DigestTypes'
    BY <1>1, <1>2, <1>7, <1>10, <2>1, <2>2 DEF DigestTypes
  <2>4. Counted'
    BY <1>1, <1>3, <1>7, <1>8, <2>1, <2>2 DEF Counted
  <2>5. Kept'
    <3>1. /\ message' = message /\ compressed' = compressed /\ buf' = filled
          /\ bufPos' = bufPos + take
      BY <1>1, <2>1, Zenon
    <3>2. \A i \in 1 .. Len(compressed') : compressed'[i] = message'[i]
      BY <3>1, <1>4
    <3>3. \A j \in 0 .. bufPos' - 1 : buf'[j] = message'[Len(compressed') + j + 1]
      <4>. SUFFICES ASSUME NEW j \in 0 .. bufPos' - 1
                    PROVE  buf'[j] = message'[Len(compressed') + j + 1]
        BY Zenon
      <4>1. j \in 0 .. bufPos + take - 1
        BY <3>1, <1>2, <1>6
      <4>. QED
        BY <4>1, <3>1, <1>9, Zenon
    <3>. QED
      BY <3>2, <3>3, Zenon DEF Kept
  <2>. QED
    BY <2>3, <2>4, <2>5, <1>1 DEF DigestInv, DigestOfMessage
<1>12. CASE full
  <2>1. bufPos' = 0 /\ compressed' = compressed \o Block(filled) /\ buf' = filled
    BY <1>1, <1>12, Zenon
  <2>2. /\ compressed' \in Seq(Octets) /\ Len(compressed') = Len(compressed) + BlockSize
        /\ \A i \in 1 .. Len(compressed) + BlockSize :
              compressed'[i] = IF i <= Len(compressed) THEN compressed[i]
                               ELSE filled[i - Len(compressed) - 1]
    BY <2>1, <1>2, <1>10, ConcatBlock
  <2>3. Len(compressed') + bufPos' = fed' /\ bufPos' < BlockSize
    <3>1. Len(compressed') = Len(compressed) + BlockSize /\ bufPos' = 0
          /\ fed' = fed + take /\ bufPos + take = BlockSize
      BY <2>1, <2>2, <1>1, <1>12, Zenon
    <3>. QED
      BY <3>1, <1>2, <1>5, <1>6
  <2>4. Len(compressed') = (q + 1) * BlockSize /\ q + 1 \in Nat
    <3>1. (q + 1) * BlockSize = q * BlockSize + BlockSize
      BY <1>5, SMT
    <3>. QED
      BY <3>1, <2>2, <1>3
  <2>5. \A i \in 1 .. Len(compressed') : compressed'[i] = message[i]
    <3>. SUFFICES ASSUME NEW i \in 1 .. Len(compressed) + BlockSize
                  PROVE  compressed'[i] = message[i]
      BY <2>2
    <3>1. CASE i <= Len(compressed)
      BY <3>1, <2>2, <1>2, <1>4
    <3>2. CASE i > Len(compressed)
      <4>. DEFINE j == i - Len(compressed) - 1
      <4>1. j \in 0 .. bufPos + take - 1 /\ Len(compressed) + j + 1 = i
            /\ ~ (i <= Len(compressed))
        BY <3>2, <1>2, <1>5, <1>6, <1>12
      <4>2. compressed'[i] = filled[j]
        BY <2>2, <4>1, Zenon
      <4>. HIDE DEF j
      <4>. QED
        BY <4>1, <4>2, <1>9
    <3>. QED
      BY <3>1, <3>2, <1>2, <1>5
  <2>6. DigestTypes'
    BY <1>1, <1>2, <1>7, <1>10, <2>1, <2>2, SMTT(30) DEF DigestTypes
  <2>7. Counted'
    BY <1>1, <1>7, <1>8, <2>3, <2>4 DEF Counted
  <2>8. Kept'
    BY <1>1, <2>1, <2>5 DEF Kept
  <2>. QED
    BY <2>6, <2>7, <2>8, <1>1 DEF DigestInv, DigestOfMessage
<1>. QED
  BY <1>11, <1>12

(* What sha512_final writes behind the bytes of the message in the buffer. *)
LEMMA FinalPads ==
    ASSUME DigestInv, HashFinal
    PROVE  DigestInv'
<1>. DEFINE p == bufPos
            c == Len(compressed)
            B == BlockSize
            stopped == [buf EXCEPT ![bufPos] = Stop]
            spilled == Zeroed(stopped, bufPos + 1, BlockSize)
            spills == Spills(bufPos + 1)
            from == IF spills THEN 0 ELSE bufPos + 1
            last == WithLength(Zeroed(IF spills THEN spilled ELSE stopped,
                                      from, lengthAt), byteCount)
            n == Len(message)
<1>1. /\ hashing = "update" /\ hashing' = "done" /\ left = 0 /\ fed = Len(message)
      /\ buf' = last /\ bufPos' = from
      /\ compressed' = IF spills THEN compressed \o Block(spilled) \o Block(last)
                                 ELSE compressed \o Block(last)
      /\ UNCHANGED <<message, left, fed, byteCount>>
  BY Zenon DEF HashFinal
<1>2. /\ message \in Seq(Bytes) /\ n \in 0 .. Word - 1 /\ left \in Nat /\ fed \in Nat
      /\ compressed \in Seq(Octets) /\ c \in Nat /\ buf \in [Index -> Octets]
      /\ p \in 0 .. B - 1 /\ byteCount = n /\ c + p = n
  BY <1>1, WordAssumption, BlockAssumption DEF DigestInv, DigestTypes, Counted
<1>3. PICK q \in Nat : c = q * B
  BY <1>1 DEF DigestInv, Counted
<1>4. /\ \A i \in 1 .. c : compressed[i] = message[i]
      /\ \A j \in 0 .. p - 1 : buf[j] = message[c + j + 1]
  BY <1>1 DEF DigestInv, Kept
<1>5. /\ B \in Nat /\ LengthSize \in Nat /\ LengthSize > 0 /\ LengthSize < B
      /\ lengthAt \in 1 .. B - 1 /\ lengthAt = B - LengthSize
      /\ Index = 0 .. B - 1 /\ Word \in Nat
  BY BlockAssumption, WordAssumption DEF lengthAt, Index
<1>6. spills <=> p + 1 > lengthAt
  BY DEF Spills
<1>. DEFINE total == (IF spills THEN c + B ELSE c) + B
<1>7. n + 1 + ZeroRun(n) + LengthSize = total /\ ZeroRun(n) \in Int
  <2>1. n = q * BlockSize + p /\ p \in 0 .. BlockSize - 1
    BY <1>2, <1>3
  <2>2. ZeroRun(n) = (IF spills THEN 2 * BlockSize ELSE BlockSize) - (p + 1 + LengthSize)
    BY <2>1, ZeroRunIs
  <2>. DEFINE z == ZeroRun(n)
  <2>3. /\ z = (IF spills THEN 2 * B ELSE B) - (p + 1 + LengthSize) /\ c + p = n
        /\ p \in Int /\ c \in Int /\ B \in Int /\ LengthSize \in Int /\ n \in Int
    BY <2>2, <1>2, <1>5
  <2>. HIDE DEF z, n, c, p, B, spills
  <2>4. z \in Int /\ n + 1 + z + LengthSize = (IF spills THEN c + B ELSE c) + B
    BY <2>3
  <2>. QED
    BY <2>4, Zenon DEF z
<1>8. /\ BitsHigh(n) = (n * 8) \div Word /\ BitsHigh(n) \in 0 .. Word - 1
      /\ BitsLow(n) = (n * 8) % Word /\ BitsLow(n) \in 0 .. Word - 1
  BY <1>2, LengthWords
<1>9. stopped \in [Index -> Octets]
      /\ \A j \in Index : stopped[j] = IF j = p THEN Stop ELSE buf[j]
  <2>1. Stop \in Octets
    BY DEF Octets, Filling
  <2>. QED
    BY <2>1, <1>2
<1>10. LengthSize \div 2 \in Nat /\ LengthSize \div 2 <= LengthSize
  BY <1>5, SMT
<1>11. spilled \in [Index -> Octets]
       /\ \A j \in Index : spilled[j] = IF j > p THEN Zero ELSE stopped[j]
  <2>. HIDE DEF stopped
  <2>1. p + 1 \in Nat /\ B \in Nat
    BY <1>2, <1>5
  <2>2. /\ spilled \in [Index -> Octets]
        /\ \A j \in Index :
              spilled[j] = IF p + 1 <= j /\ j < B THEN Zero ELSE stopped[j]
    BY <2>1, <1>9, ZeroedIs, Zenon
  <2>. HIDE DEF spilled
  <2>. QED
    BY <2>2, <1>2, <1>5
<1>. DEFINE body == Zeroed(IF spills THEN spilled ELSE stopped, from, lengthAt)
            half == LengthSize \div 2
<1>12. body \in [Index -> Octets]
       /\ \A j \in 0 .. lengthAt - 1 :
             body[j] = IF spills THEN Zero ELSE IF j > p THEN Zero ELSE stopped[j]
  <2>. HIDE DEF stopped, spilled, spills
  <2>1. CASE spills
    <3>1. body = Zeroed(spilled, 0, lengthAt)
      BY <2>1, Zenon
    <3>. HIDE DEF body
    <3>2. /\ body \in [Index -> Octets]
          /\ \A j \in Index :
                body[j] = IF 0 <= j /\ j < lengthAt THEN Zero ELSE spilled[j]
      BY <3>1, <1>5, <1>11, ZeroedIs
    <3>. QED
      BY <2>1, <3>2, <1>5
  <2>2. CASE ~ spills
    <3>1. body = Zeroed(stopped, p + 1, lengthAt)
      BY <2>2, Zenon
    <3>. HIDE DEF body
    <3>2. /\ body \in [Index -> Octets]
          /\ \A j \in Index :
                body[j] = IF p + 1 <= j /\ j < lengthAt THEN Zero ELSE stopped[j]
      BY <3>1, <1>2, <1>5, <1>9, ZeroedIs
    <3>. QED
      BY <2>2, <3>2, <1>2, <1>5
  <2>. QED
    BY <2>1, <2>2
<1>13. \A j \in Index :
          last[j] = IF j < lengthAt THEN body[j]
                    ELSE IF j - lengthAt < half
                    THEN LengthByte(BitsHigh(n), j - lengthAt)
                    ELSE LengthByte(BitsLow(n), j - lengthAt - half)
  <2>. HIDE DEF body
  <2>1. last = WithLength(body, n)
    BY <1>2, Zenon DEF body
  <2>. HIDE DEF last, n
  <2>. QED
    BY <2>1, Zenon DEF WithLength
<1>14. last \in [Index -> Octets]
  <2>1. ASSUME NEW w \in 0 .. Word - 1, NEW k \in 0 .. LengthSize
        PROVE  LengthByte(w, k) \in Octets
    BY DEF Octets, Filling
  <2>. HIDE DEF body
  <2>2. last = WithLength(body, n)
    BY <1>2, Zenon DEF body
  <2>3. \A j \in Index : last[j] \in Octets
    <3>. HIDE DEF last, n
    <3>. SUFFICES ASSUME NEW j \in Index PROVE last[j] \in Octets
      OBVIOUS
    <3>1. CASE j < lengthAt
      BY <3>1, <1>12, <1>13
    <3>2. CASE ~ (j < lengthAt) /\ j - lengthAt < half
      <4>1. j - lengthAt \in 0 .. LengthSize
        BY <3>2, <1>5, <1>10
      <4>. QED
        BY <4>1, <3>2, <1>8, <1>13, <2>1, Zenon
    <3>3. CASE ~ (j < lengthAt) /\ ~ (j - lengthAt < half)
      <4>1. j - lengthAt - half \in 0 .. LengthSize
        BY <3>3, <1>5, <1>10
      <4>. QED
        BY <4>1, <3>3, <1>8, <1>13, <2>1, Zenon
    <3>. QED
      BY <3>1, <3>2, <3>3
  <2>4. last = [j \in Index |-> last[j]]
    BY <2>2 DEF WithLength
  <2>. HIDE DEF last
  <2>. QED
    BY <2>3, <2>4
<1>. HIDE DEF stopped, spilled, body, last
<1>15. Padded(message) = [i \in 1 .. total |-> PaddedByte(message, i)]
  BY <1>7, Zenon DEF Padded
<1>. DEFINE k(i) == i - (total - LengthSize) - 1
<1>16. ASSUME NEW i \in 1 .. total
       PROVE  PaddedByte(message, i) =
                  IF i <= n THEN message[i]
                  ELSE IF i = n + 1 THEN Stop
                  ELSE IF k(i) < 0 THEN Zero
                  ELSE IF k(i) < half THEN LengthByte(BitsHigh(n), k(i))
                  ELSE LengthByte(BitsLow(n), k(i) - half)
  <2>1. i - (n + 1 + ZeroRun(n)) - 1 = k(i)
    <3>. DEFINE z == ZeroRun(n)
    <3>1. /\ z \in Int /\ n \in Int /\ n + 1 + z + LengthSize = total /\ i \in Int
          /\ LengthSize \in Int
      BY <1>2, <1>5, <1>7
    <3>. HIDE DEF z, n, total
    <3>2. i - (n + 1 + z) - 1 = i - (total - LengthSize) - 1
      BY <3>1
    <3>. QED
      BY <3>2 DEF z
  <2>. HIDE DEF total
  <2>. QED
    BY <2>1, <1>8, Zenon DEF PaddedByte
(* The byte that a block has at place j of the buffer. *)
<1>17. ASSUME NEW j \in Index
       PROVE  stopped[j] = IF j < p THEN message[c + j + 1]
                           ELSE IF j = p THEN Stop ELSE buf[j]
  <2>1. CASE j < p
    <3>1. j \in 0 .. p - 1 /\ j # p
      BY <2>1, <1>2, <1>5
    <3>. QED
      BY <3>1, <2>1, <1>4, <1>9
  <2>2. CASE ~ (j < p)
    BY <2>2, <1>9
  <2>. QED
    BY <2>1, <2>2
<1>18. ASSUME /\ compressed' \in Seq(Octets) /\ Len(compressed') = total
              /\ \A i \in 1 .. total : compressed'[i] = PaddedByte(message, i)
       PROVE  DigestInv'
  <2>1. compressed' = Padded(message)
    <3>. DEFINE f == Padded(message)
    <3>. HIDE DEF total
    <3>1. /\ f = [i \in 1 .. total |-> f[i]]
          /\ \A i \in 1 .. total : f[i] = PaddedByte(message, i)
      BY <1>15
    <3>. HIDE DEF f
    <3>2. f = [i \in 1 .. Len(compressed') |-> f[i]]
          /\ \A i \in 1 .. Len(compressed') : compressed'[i] = f[i]
      BY <3>1, <1>18, Zenon
    <3>3. compressed' = f
      BY <3>2, <1>18, SameSequence, Zenon
    <3>. QED
      BY <3>3 DEF f
  <2>2. DigestTypes'
    <3>1. /\ hashing' \in {"none", "update", "done"}
          /\ message' \in Seq(Bytes) /\ Len(message') < Word
          /\ left' \in Nat /\ fed' \in Nat
      <4>1. hashing' = "done" /\ message' = message /\ left' = left /\ fed' = fed
        BY <1>1, Zenon
      <4>2. message \in Seq(Bytes) /\ Len(message) < Word /\ left \in Nat /\ fed \in Nat
        BY <1>1 DEF DigestInv, DigestTypes
      <4>. QED
        BY <4>1, <4>2, Zenon
    <3>2. bufPos' \in Nat
      BY <1>1, <1>2
    <3>3. buf' \in [Index -> Octets]
      BY <1>1, <1>14, Zenon
    <3>. QED
      BY <3>1, <3>2, <3>3, <1>18, Zenon DEF DigestTypes
  <2>. QED
    BY <1>1, <2>1, <2>2 DEF DigestInv, Counted, Kept, DigestOfMessage
<1>19. CASE spills
  <2>1. /\ compressed' = (compressed \o Block(spilled)) \o Block(last)
        /\ total = c + B + B
    BY <1>1, <1>19, Zenon
  <2>. HIDE DEF total, spills
  <2>. DEFINE first == compressed \o Block(spilled)
  <2>2. /\ first \in Seq(Octets) /\ Len(first) = c + B
        /\ \A i \in 1 .. c + B :
              first[i] = IF i <= c THEN compressed[i] ELSE spilled[i - c - 1]
    BY <1>2, <1>11, ConcatBlock
  <2>. HIDE DEF first
  <2>3. /\ compressed' \in Seq(Octets) /\ Len(compressed') = total
        /\ \A i \in 1 .. c + B + B :
              compressed'[i] = IF i <= c + B THEN first[i] ELSE last[i - (c + B) - 1]
    <3>1. /\ first \o Block(last) \in Seq(Octets)
          /\ Len(first \o Block(last)) = Len(first) + B
          /\ \A i \in 1 .. Len(first) + B : (first \o Block(last))[i] =
                IF i <= Len(first) THEN first[i] ELSE last[i - Len(first) - 1]
      BY <2>2, <1>14, ConcatBlock
    <3>2. compressed' = first \o Block(last)
      BY <2>1, Zenon DEF first
    <3>. QED
      BY <3>1, <3>2, <2>1, <2>2, Zenon
  <2>4. ASSUME NEW i \in 1 .. total PROVE compressed'[i] = PaddedByte(message, i)
    <3>0. i \in 1 .. c + B + B /\ i \in Int
      BY <2>1, <1>2, <1>5
    <3>1. CASE i <= c
      <4>1. i \in 1 .. c /\ i <= n /\ i <= c + B /\ i \in 1 .. c + B
        BY <3>0, <3>1, <1>2, <1>5
      <4>. QED
        BY <4>1, <3>0, <3>1, <2>2, <2>3, <1>4, <1>16, Zenon
    <3>2. CASE c < i /\ i <= c + B
      <4>. DEFINE j == i - c - 1
      <4>1. /\ j \in Index /\ c + j + 1 = i /\ ~ (i <= c) /\ i \in 1 .. c + B
            /\ (j < p <=> i <= n) /\ (j = p <=> i = n + 1) /\ k(i) < 0
        BY <3>0, <3>2, <2>1, <1>2, <1>5
      <4>2. compressed'[i] = spilled[j]
        BY <4>1, <3>0, <3>2, <2>2, <2>3, Zenon
      <4>. QED
        <5>. HIDE DEF j, k
        <5>1. CASE j < p
          <6>1. ~ (j > p) /\ j \in Index
            BY <5>1, <4>1, <1>2, <1>5
          <6>2. spilled[j] = message[c + j + 1]
            BY <6>1, <5>1, <1>11, <1>17, Zenon
          <6>. QED
            BY <6>2, <5>1, <4>1, <4>2, <1>16, Zenon
        <5>2. CASE j = p
          <6>1. ~ (j > p) /\ ~ (j < p) /\ j \in Index
            BY <5>2, <4>1, <1>2, <1>5
          <6>2. spilled[j] = Stop
            BY <6>1, <5>2, <1>11, <1>17, Zenon
          <6>. QED
            BY <6>1, <6>2, <5>2, <4>1, <4>2, <1>16, Zenon
        <5>3. CASE j > p
          <6>1. ~ (j < p) /\ j # p /\ j \in Index
            BY <5>3, <4>1, <1>2, <1>5
          <6>2. spilled[j] = Zero
            BY <6>1, <5>3, <1>11, Zenon
          <6>. QED
            BY <6>1, <6>2, <4>1, <4>2, <1>16, Zenon
        <5>. QED
          BY <5>1, <5>2, <5>3, <1>2, <1>5, <4>1
    <3>3. CASE c + B < i
      <4>. DEFINE j == i - (c + B) - 1
      <4>1. /\ j \in Index /\ k(i) = j - lengthAt /\ ~ (i <= n) /\ i # n + 1
            /\ ~ (i <= c + B)
        BY <3>0, <3>3, <2>1, <1>2, <1>5
      <4>2. compressed'[i] = last[j]
        BY <4>1, <3>0, <2>3, Zenon
      <4>. HIDE DEF j, k
      <4>3. j \in 0 .. B - 1
        BY <4>1, <1>5
      <4>4. CASE j < lengthAt
        <5>1. j \in 0 .. lengthAt - 1 /\ k(i) < 0
          BY <4>1, <4>3, <4>4, <1>5
        <5>2. last[j] = Zero
          BY <5>1, <4>1, <4>4, <1>12, <1>13, <1>19, Zenon
        <5>. QED
          BY <5>1, <5>2, <4>1, <4>2, <1>16, Zenon
      <4>5. CASE ~ (j < lengthAt)
        <5>1. ~ (k(i) < 0)
          BY <4>1, <4>3, <4>5, <1>5
        <5>. QED
          BY <5>1, <4>1, <4>2, <4>5, <1>13, <1>16, Zenon
      <4>. QED
        BY <4>4, <4>5
    <3>. QED
      BY <3>0, <3>1, <3>2, <3>3, <1>2, <1>5
  <2>. QED
    BY <2>3, <2>4, <1>18, Zenon
<1>20. CASE ~ spills
  <2>1. compressed' = compressed \o Block(last) /\ total = c + B
    BY <1>1, <1>20, Zenon
  <2>. HIDE DEF total, spills
  <2>2. /\ compressed' \in Seq(Octets) /\ Len(compressed') = total
        /\ \A i \in 1 .. c + B :
              compressed'[i] = IF i <= c THEN compressed[i] ELSE last[i - c - 1]
    BY <2>1, <1>2, <1>14, ConcatBlock
  <2>3. ASSUME NEW i \in 1 .. total PROVE compressed'[i] = PaddedByte(message, i)
    <3>1. i \in 1 .. c + B /\ i \in Int
      BY <2>1, <1>2, <1>5
    <3>2. CASE i <= c
      <4>1. i \in 1 .. c /\ i <= n
        BY <3>1, <3>2, <1>2, <1>5
      <4>. QED
        BY <4>1, <3>1, <3>2, <2>2, <1>4, <1>16, Zenon
    <3>3. CASE c < i
      <4>. DEFINE j == i - c - 1
      <4>1. /\ j \in Index /\ c + j + 1 = i /\ ~ (i <= c) /\ k(i) = j - lengthAt
            /\ (j < p <=> i <= n) /\ (j = p <=> i = n + 1)
        BY <3>1, <3>3, <2>1, <1>2, <1>5
      <4>2. compressed'[i] = last[j]
        BY <4>1, <3>1, <2>2, Zenon
      <4>3. p < lengthAt
        BY <1>2, <1>5, <1>6, <1>20
      <4>. HIDE DEF j, k
      <4>4. j \in 0 .. B - 1
        BY <4>1, <1>5
      <4>5. CASE j < lengthAt
        <5>1. last[j] = IF j > p THEN Zero ELSE stopped[j]
          <6>1. j \in 0 .. lengthAt - 1
            BY <4>4, <4>5, <1>5
          <6>. QED
            BY <6>1, <4>1, <4>5, <1>12, <1>13, <1>20, Zenon
        <5>2. k(i) < 0
          BY <4>1, <4>4, <4>5, <1>5
        <5>. QED
          BY <5>1, <5>2, <4>1, <4>2, <4>4, <1>2, <1>16, <1>17
      <4>6. CASE ~ (j < lengthAt)
        <5>1. ~ (k(i) < 0) /\ ~ (i <= n) /\ i # n + 1
          BY <4>1, <4>3, <4>4, <4>6, <1>2, <1>5
        <5>. QED
          BY <5>1, <4>1, <4>2, <4>6, <1>13, <1>16, Zenon
      <4>. QED
        BY <4>5, <4>6
    <3>. QED
      BY <3>1, <3>2, <3>3, <1>2
  <2>. QED
    BY <2>2, <2>3, <1>18, Zenon
<1>. QED
  BY <1>19, <1>20

LEMMA DigestStep == DigestInv /\ [DigestNext]_digestVars => DigestInv'
<1>. SUFFICES ASSUME DigestInv, [DigestNext]_digestVars PROVE DigestInv'
  OBVIOUS
<1>1. CASE HashInit
  <2>1. /\ hashing' = "update" /\ message' \in Messages /\ left' = 0 /\ fed' = 0
        /\ compressed' = <<>> /\ byteCount' = 0 /\ bufPos' = 0 /\ buf' = buf
    BY <1>1 DEF HashInit
  <2>2. message' \in Seq(Bytes) /\ Len(message') < Word /\ Len(message') \in Nat
    BY <2>1, MessagesAssumption
  <2>3. DigestTypes'
    BY <2>1, <2>2 DEF DigestInv, DigestTypes
  <2>4. Counted'
    <3>1. 0 < BlockSize /\ 0 = 0 * BlockSize /\ 0 \in Nat
      BY BlockAssumption
    <3>. QED
      BY <2>1, <2>2, <3>1 DEF Counted
  <2>. QED
    BY <2>1, <2>3, <2>4 DEF DigestInv, Kept, DigestOfMessage
<1>2. CASE UpdateCall
  <2>1. /\ hashing = "update" /\ left' \in 1 .. Len(message) - fed
        /\ UNCHANGED <<hashing, message, fed, compressed, byteCount, buf, bufPos>>
    BY <1>2 DEF UpdateCall, ctxVars
  <2>2. Len(message) \in Nat /\ fed \in Nat
    BY DEF DigestInv, DigestTypes
  <2>3. left' \in Nat /\ fed' + left' <= Len(message')
    BY <2>1, <2>2
  <2>. QED
    BY <2>1, <2>3 DEF DigestInv, DigestTypes, Counted, Kept, DigestOfMessage
<1>3. CASE UpdateTurn
  BY <1>3, TurnKeeps
<1>4. CASE HashFinal
  BY <1>4, FinalPads
<1>5. CASE UNCHANGED digestVars
  <2>1. UNCHANGED <<hashing, message, left, fed, compressed, byteCount, buf, bufPos>>
    BY <1>5 DEF digestVars, ctxVars
  <2>. QED
    BY <2>1 DEF DigestInv, DigestTypes, Counted, Kept, DigestOfMessage
<1>. QED
  BY <1>1, <1>2, <1>3, <1>4, <1>5 DEF DigestNext

(* sha512_final compresses the padded message and nothing else, for messages of
   every length below the limit of the byte count, however sha512_update cuts
   them and whatever an earlier message left in the buffer. *)
THEOREM DigestCorrect == DigestSpec => []DigestOfMessage
<1>1. DigestInit => DigestInv
  <2>. SUFFICES ASSUME DigestInit PROVE DigestInv
    OBVIOUS
  <2>1. Garbage \in Octets
    BY DEF Octets, Filling
  <2>2. buf \in [Index -> Octets]
    BY <2>1 DEF DigestInit
  <2>3. Word > 0
    BY WordAssumption
  <2>. QED
    BY <2>2, <2>3
    DEF DigestInit, DigestInv, DigestTypes, Counted, Kept, DigestOfMessage
<1>2. DigestInv => DigestOfMessage
  BY DEF DigestInv
<1>. QED
  BY <1>1, <1>2, DigestStep, PTL DEF DigestSpec

-----------------------------------------------------------------------------
(* The derivation of a key *)

LEMMA LeastNumber ==
    ASSUME NEW S, S \subseteq Nat, S # {}
    PROVE  \E x \in S : \A y \in S : x <= y
<1>1. PICK x \in S : \A y \in S : ~(<<y, x>> \in OpToRel(<, Nat))
  BY NatLessThanWellFounded, WFMin
<1>2. ASSUME NEW y \in S PROVE x <= y
  <2>1. SUFFICES ASSUME y < x PROVE FALSE
    OBVIOUS
  <2>2. <<y, x>> \in Nat \X Nat /\ <<y, x>>[1] < <<y, x>>[2]
    BY <2>1
  <2>3. <<y, x>> \in {ss \in Nat \X Nat : ss[1] < ss[2]}
    BY <2>2, Zenon
  <2>. QED
    BY <2>3, <1>1, Zenon DEF OpToRel
<1>. QED
  BY <1>2

(* The message of the n-th HMAC, when f holds the results of those before, and a
   beginning of the chain. *)
ChainMessage(f, n) == IF n = 1 THEN input.salt \o Counter ELSE f[n - 1]
ChainStart(f, n) ==
    /\ f = [i \in 1 .. n |-> f[i]]
    /\ \A i \in 1 .. n : f[i] = Hmac(input.password, ChainMessage(f, i))

LEMMA ChainStarts ==
    ASSUME NEW n \in Nat
    PROVE  \E f : ChainStart(f, n)
<1>. DEFINE B == {i \in Nat : ~ \E f : ChainStart(f, i)}
<1>1. SUFFICES ASSUME B # {} PROVE FALSE
  OBVIOUS
<1>2. B \subseteq Nat
  OBVIOUS
<1>3. PICK m \in B : \A y \in B : m <= y
  <2>. HIDE DEF B
  <2>. QED
    BY <1>1, <1>2, LeastNumber
<1>4. CASE m = 0
  <2>1. ChainStart([i \in 1 .. 0 |-> 0], 0)
    BY DEF ChainStart
  <2>. QED
    BY <2>1, <1>3, <1>4
<1>5. CASE m # 0
  <2>1. m \in Nat /\ m - 1 \in Nat /\ m - 1 \notin B
    BY <1>3, <1>5
  <2>2. PICK f : ChainStart(f, m - 1)
    BY <2>1
  <2>. DEFINE g == [i \in 1 .. m |->
                      IF i = m THEN Hmac(input.password, ChainMessage(f, m)) ELSE f[i]]
  <2>3. g = [i \in 1 .. m |-> g[i]]
    OBVIOUS
  <2>4. ASSUME NEW i \in 1 .. m
        PROVE  g[i] = Hmac(input.password, ChainMessage(g, i))
    <3>1. ChainMessage(g, i) = ChainMessage(f, i)
      <4>1. CASE i = 1
        BY <4>1 DEF ChainMessage
      <4>2. CASE i # 1
        <5>1. i - 1 \in 1 .. m /\ i - 1 # m
          BY <4>2, <2>1
        <5>2. g[i - 1] = f[i - 1]
          BY <5>1
        <5>. QED
          BY <4>2, <5>2 DEF ChainMessage
      <4>. QED
        BY <4>1, <4>2
    <3>2. CASE i = m
      <4>1. g[i] = Hmac(input.password, ChainMessage(f, i))
        BY <3>2
      <4>. QED
        BY <4>1, <3>1
    <3>3. CASE i # m
      <4>1. i \in 1 .. m - 1
        BY <3>3, <2>1
      <4>2. g[i] = f[i]
        BY <3>3
      <4>3. f[i] = Hmac(input.password, ChainMessage(f, i))
        BY <4>1, <2>2 DEF ChainStart
      <4>. QED
        BY <4>2, <4>3, <3>1
    <3>. QED
      BY <3>2, <3>3
  <2>5. ChainStart(g, m)
    <3>. HIDE DEF g
    <3>. QED
      BY <2>3, <2>4 DEF ChainStart
  <2>. QED
    BY <2>5, <1>3
<1>. QED
  BY <1>4, <1>5

LEMMA ChainStartsAgree ==
    ASSUME NEW n \in Nat \ {0}, NEW f, ChainStart(f, n), NEW g, ChainStart(g, n + 1)
    PROVE  f[n] = g[n]
<1>. DEFINE B == {i \in 1 .. n : f[i] # g[i]}
<1>1. SUFFICES ASSUME B # {} PROVE FALSE
  OBVIOUS
<1>2. B \subseteq Nat
  OBVIOUS
<1>3. PICK m \in B : \A y \in B : m <= y
  <2>. HIDE DEF B
  <2>. QED
    BY <1>1, <1>2, LeastNumber
<1>4. /\ f[m] = Hmac(input.password, ChainMessage(f, m))
      /\ g[m] = Hmac(input.password, ChainMessage(g, m))
  BY <1>3 DEF ChainStart
<1>5. ChainMessage(f, m) = ChainMessage(g, m)
  <2>1. CASE m = 1
    BY <2>1 DEF ChainMessage
  <2>2. CASE m # 1
    <3>1. m - 1 \in 1 .. n /\ m - 1 \notin B
      BY <1>3, <2>2
    <3>2. f[m - 1] = g[m - 1]
      BY <3>1
    <3>. QED
      BY <2>2, <3>2 DEF ChainMessage
  <2>. QED
    BY <2>1, <2>2
<1>. QED
  BY <1>3, <1>4, <1>5

(* U is the chain of HMACs that it is defined to be. *)
LEMMA ChainIs ==
    \A n \in Nat \ {0} :
        U[n] = Hmac(input.password, IF n = 1 THEN input.salt \o Counter ELSE U[n - 1])
<1>. DEFINE G(n) == CHOOSE f : ChainStart(f, n)
            F == [n \in Nat \ {0} |-> G(n)[n]]
            Body(f) == [n \in Nat \ {0} |->
                Hmac(input.password, IF n = 1 THEN input.salt \o Counter ELSE f[n - 1])]
<1>1. ASSUME NEW n \in Nat PROVE ChainStart(G(n), n)
  BY ChainStarts
<1>. HIDE DEF G
<1>2. ASSUME NEW n \in Nat \ {0} PROVE F[n] = Body(F)[n]
  <2>1. G(n)[n] = Hmac(input.password, ChainMessage(G(n), n))
    BY <1>1 DEF ChainStart
  <2>2. CASE n = 1
    BY <2>1, <2>2 DEF ChainMessage
  <2>3. CASE n # 1
    <3>1. n - 1 \in Nat \ {0} /\ (n - 1) + 1 = n
      BY <2>3
    <3>2. ChainStart(G(n - 1), n - 1) /\ ChainStart(G(n), (n - 1) + 1)
      BY <1>1, <3>1
    <3>3. G(n - 1)[n - 1] = G(n)[n - 1]
      BY <3>1, <3>2, ChainStartsAgree
    <3>4. F[n - 1] = G(n)[n - 1] /\ F[n] = G(n)[n]
      BY <3>1, <3>3
    <3>5. ChainMessage(G(n), n) = F[n - 1]
      BY <2>3, <3>4 DEF ChainMessage
    <3>. QED
      BY <2>1, <2>3, <3>4, <3>5
  <2>. QED
    BY <2>2, <2>3
<1>3. F = Body(F)
  BY <1>2
<1>4. U = Body(U)
  BY <1>3, Zenon DEF U
<1>. HIDE DEF Body
<1>. QED
  BY <1>4 DEF Body

(* One byte more turns what there is an odd number of. *)
LEMMA XorStep ==
    ASSUME NEW n \in Nat, NEW j
    PROVE  XorOf(n + 1, j) = IF U[n + 1][j] \in XorOf(n, j)
                             THEN XorOf(n, j) \ {U[n + 1][j]}
                             ELSE XorOf(n, j) \cup {U[n + 1][j]}
<1>. DEFINE C(m, x) == {h \in 1 .. m : U[h][j] = x}
<1>1. ASSUME NEW m \in Nat, NEW x
      PROVE  /\ IsFiniteSet(C(m, x)) /\ Cardinality(C(m, x)) \in Nat
             /\ x \in XorOf(m, j) <=> Cardinality(C(m, x)) % 2 = 1
  <2>1. IsFiniteSet(1 .. m)
    BY FS_Interval
  <2>2. C(m, x) \subseteq 1 .. m
    OBVIOUS
  <2>3. IsFiniteSet(C(m, x)) /\ Cardinality(C(m, x)) \in Nat
    BY <2>1, <2>2, FS_Subset, FS_CardinalityType
  <2>4. ASSUME x \in XorOf(m, j) PROVE Cardinality(C(m, x)) % 2 = 1
    BY <2>4 DEF XorOf
  <2>5. ASSUME Cardinality(C(m, x)) % 2 = 1 PROVE x \in XorOf(m, j)
    <3>1. C(m, x) # {}
      BY <2>5, FS_EmptySet
    <3>2. PICK i \in 1 .. m : U[i][j] = x
      BY <3>1
    <3>. QED
      BY <3>2, <2>5 DEF XorOf
  <2>. QED
    BY <2>3, <2>4, <2>5
<1>2. \A x : C(n + 1, x) = IF U[n + 1][j] = x THEN C(n, x) \cup {n + 1} ELSE C(n, x)
  OBVIOUS
<1>3. \A x : n + 1 \notin C(n, x)
  OBVIOUS
<1>. HIDE DEF C
<1>4. ASSUME NEW x
      PROVE  x \in XorOf(n + 1, j) <=>
             IF x = U[n + 1][j] THEN x \notin XorOf(n, j) ELSE x \in XorOf(n, j)
  <2>1. CASE x = U[n + 1][j]
    <3>1. PICK c \in Nat : c = Cardinality(C(n, x))
      BY <1>1
    <3>2. Cardinality(C(n + 1, x)) = c + 1
      <4>1. IsFiniteSet(C(n, x)) /\ n + 1 \notin C(n, x)
        BY <1>1, <1>3
      <4>2. Cardinality(C(n, x) \cup {n + 1}) = Cardinality(C(n, x)) + 1
        BY <4>1, FS_AddElement
      <4>. QED
        BY <4>2, <3>1, <2>1, <1>2
    <3>3. (c + 1) % 2 = 1 <=> c % 2 # 1
      OBVIOUS
    <3>4. x \in XorOf(n + 1, j) <=> (c + 1) % 2 = 1
      BY <1>1, <3>2
    <3>5. x \in XorOf(n, j) <=> c % 2 = 1
      BY <1>1, <3>1
    <3>. QED
      BY <2>1, <3>3, <3>4, <3>5
  <2>2. CASE x # U[n + 1][j]
    <3>1. C(n + 1, x) = C(n, x)
      BY <1>2, <2>2
    <3>2. x \in XorOf(n + 1, j) <=> Cardinality(C(n + 1, x)) % 2 = 1
      BY <1>1
    <3>3. x \in XorOf(n, j) <=> Cardinality(C(n, x)) % 2 = 1
      BY <1>1
    <3>. QED
      BY <2>2, <3>1, <3>2, <3>3
  <2>. QED
    BY <2>1, <2>2
<1>. QED
  BY <1>4

(* Where a derivation is: k0 and inner belong to the HMAC of this turn, the buffer U
   holds the one of the turn before, and T what has been folded. *)
KeyOf(p) == Fill(IF Len(p) > KeyBlock THEN Digest(p) ELSE p, KeyBlock)
MessageOf(n) == IF n = 1 THEN input.salt \o Counter ELSE U[n - 1]
Folded(n) == [j \in 1 .. DigestSize |-> XorOf(n, j)]

DerivePlaces == {"key", "inner", "outer", "fold", "derived"}
Deriving ==
    /\ deriving \in DerivePlaces \cup {"none"} /\ turn \in Nat
    /\ deriving = "none" => turn = 0 /\ tBytes = [j \in 1 .. DigestSize |-> {}]
    /\ deriving # "none" =>
          /\ input.salt \in Salts /\ input.iterations \in Iterations
          /\ tBytes = Folded(turn)
    /\ deriving \in {"key", "inner", "outer", "fold"} => turn < input.iterations
    /\ deriving \in {"key", "inner", "outer"} /\ turn > 0 => uBytes = U[turn]
    /\ deriving \in {"inner", "outer"} => k0 = KeyOf(input.password)
    /\ deriving = "outer" => inner = Digest(Xored(54, k0) \o MessageOf(turn + 1))
    /\ deriving = "fold" => uBytes = U[turn + 1]
    /\ deriving = "derived" => turn = input.iterations /\ dk = Folded(turn)

LEMMA SameChain ==
    ASSUME input' = input
    PROVE  /\ U' = U
           /\ \A n : Folded(n)' = Folded(n) /\ MessageOf(n)' = MessageOf(n)
<1>1. U' = U
  BY Zenon DEF U
<1>. QED
  BY <1>1 DEF Folded, XorOf, MessageOf

LEMMA FoldedNone == Folded(0) = [j \in 1 .. DigestSize |-> {}]
<1>1. \A j : XorOf(0, j) = {}
  BY DEF XorOf
<1>. QED
  BY <1>1 DEF Folded

LEMMA WholeSalt ==
    ASSUME NEW s \in Salts
    PROVE  Upto(s, SaltSize) = s
<1>. DEFINE S == {s[i] : i \in DOMAIN s}
<1>1. s \in Seq(S) /\ Len(s) <= SaltSize
  BY InputAssumption
<1>. HIDE DEF S
<1>2. Upto(s, SaltSize) = SubSeq(s, 1, Len(s))
  BY <1>1, SizesOfKeyAssumption DEF Upto
<1>3. SubSeq(s, 1, Len(s)) = s
  BY <1>1
<1>. QED
  BY <1>2, <1>3

LEMMA DeriveStep == Deriving /\ [DeriveNext]_deriveVars => Deriving'
<1>. SUFFICES ASSUME Deriving, [DeriveNext]_deriveVars PROVE Deriving'
  OBVIOUS
<1>. USE DEF Deriving, DerivePlaces
<1>1. CASE UNCHANGED deriveVars
  <2>1. input' = input
    BY <1>1 DEF deriveVars
  <2>. QED
    BY <1>1, <2>1, SameChain DEF deriveVars
<1>2. CASE DeriveCall
  <2>1. input'.salt \in Salts /\ input'.iterations \in Iterations
    BY <1>2 DEF DeriveCall
  <2>2. deriving' = "key" /\ turn' = 0 /\ tBytes' = [j \in 1 .. DigestSize |-> {}]
    BY <1>2 DEF DeriveCall
  <2>3. Folded(0)' = [j \in 1 .. DigestSize |-> {}]
    <3>1. \A j : XorOf(0, j)' = {}
      BY DEF XorOf
    <3>. QED
      BY <3>1 DEF Folded
  <2>4. input'.iterations \in Nat /\ 0 < input'.iterations
    <3>1. PICK n : n = input'.iterations
      OBVIOUS
    <3>2. n \in Iterations /\ Iterations \subseteq Nat \ {0}
      BY <2>1, <3>1, InputAssumption, Zenon
    <3>3. n \in Nat /\ 0 < n
      BY <3>2
    <3>. QED
      BY <3>1, <3>3
  <2>. QED
    BY <2>1, <2>2, <2>3, <2>4
<1>3. CASE HmacKey
  <2>1. input' = input /\ k0' = KeyOf(input.password)
    BY <1>3 DEF HmacKey, KeyOf
  <2>2. KeyOf(input'.password) = KeyOf(input.password)
    BY <2>1
  <2>. QED
    BY <1>3, <2>1, <2>2, SameChain DEF HmacKey
<1>4. CASE HmacInner
  <2>1. /\ input' = input /\ k0' = k0
        /\ inner' = Digest(Xored(54, k0) \o
              (IF turn = 0 THEN Upto(input.salt, SaltSize) \o Counter ELSE uBytes))
    BY <1>4 DEF HmacInner
  <2>2. MessageOf(turn + 1)
           = IF turn = 0 THEN Upto(input.salt, SaltSize) \o Counter ELSE uBytes
    <3>1. CASE turn = 0
      <4>1. Upto(input.salt, SaltSize) = input.salt
        BY <1>4, WholeSalt DEF HmacInner
      <4>. QED
        BY <3>1, <4>1 DEF MessageOf
    <3>2. CASE turn # 0
      <4>1. turn + 1 # 1 /\ (turn + 1) - 1 = turn /\ turn > 0
        BY <3>2
      <4>. QED
        BY <3>2, <4>1, <1>4 DEF MessageOf, HmacInner
    <3>. QED
      BY <3>1, <3>2
  <2>3. inner' = Digest(Xored(54, k0) \o MessageOf(turn + 1))
    BY <2>1, <2>2
  <2>4. PICK n : n = turn + 1
    OBVIOUS
  <2>5. MessageOf(n)' = MessageOf(n) /\ U' = U
        /\ \A t : Folded(t)' = Folded(t)
    BY <2>1, SameChain
  <2>6. turn' + 1 = n /\ turn' = turn
    BY <1>4, <2>4 DEF HmacInner
  <2>7. inner' = Digest(Xored(54, k0') \o MessageOf(n)')
    BY <2>1, <2>3, <2>4, <2>5
  <2>8. MessageOf(turn + 1)' = MessageOf(n)'
    BY <2>6 DEF MessageOf
  <2>9. inner' = Digest(Xored(54, k0') \o MessageOf(turn + 1)')
    BY <2>7, <2>8
  <2>10. /\ deriving' = "outer" /\ uBytes' = uBytes /\ tBytes' = tBytes /\ turn' = turn
         /\ deriving = "inner"
    BY <1>4 DEF HmacInner
  <2>. QED
    BY <2>1, <2>5, <2>9, <2>10
<1>5. CASE HmacOuter
  <2>1. /\ input' = input /\ turn' = turn /\ deriving = "outer" /\ deriving' = "fold"
        /\ uBytes' = Digest(Xored(92, k0) \o inner) /\ tBytes' = tBytes
    BY <1>5 DEF HmacOuter
  <2>2. uBytes' = Hmac(input.password, MessageOf(turn + 1))
    BY <2>1 DEF Hmac, KeyOf
  <2>3. uBytes' = U[turn + 1]
    BY <2>2, ChainIs DEF MessageOf
  <2>4. U' = U /\ Folded(turn)' = Folded(turn)
    BY <2>1, SameChain
  <2>. QED
    BY <2>1, <2>3, <2>4
<1>6. CASE Fold
  <2>1. /\ input' = input /\ turn' = turn + 1 /\ deriving = "fold"
        /\ uBytes' = uBytes /\ uBytes = U[turn + 1] /\ tBytes = Folded(turn)
    BY <1>6 DEF Fold
  <2>2. tBytes' = Folded(turn + 1)
    <3>1. ASSUME NEW j \in 1 .. DigestSize
          PROVE  tBytes'[j] = XorOf(turn + 1, j)
      <4>1. tBytes[j] = XorOf(turn, j)
        BY <2>1 DEF Folded
      <4>2. turn = 0 => tBytes[j] = {}
        BY <2>1, FoldedNone
      <4>3. tBytes'[j] = IF uBytes[j] \in tBytes[j] THEN tBytes[j] \ {uBytes[j]}
                         ELSE tBytes[j] \cup {uBytes[j]}
        BY <1>6, <4>2 DEF Fold
      <4>4. XorOf(turn + 1, j) = IF U[turn + 1][j] \in XorOf(turn, j)
                                 THEN XorOf(turn, j) \ {U[turn + 1][j]}
                                 ELSE XorOf(turn, j) \cup {U[turn + 1][j]}
        <5>1. turn \in Nat
          OBVIOUS
        <5>. QED
          BY <5>1, XorStep
      <4>5. uBytes[j] = U[turn + 1][j]
        BY <2>1
      <4>. QED
        BY <4>1, <4>3, <4>4, <4>5, Zenon
    <3>2. tBytes' = [j \in 1 .. DigestSize |-> tBytes'[j]]
      BY <1>6 DEF Fold
    <3>. QED
      BY <3>1, <3>2 DEF Folded
  <2>3. PICK n \in Nat : n = turn + 1
    OBVIOUS
  <2>4. U' = U /\ Folded(n)' = Folded(n) /\ tBytes' = Folded(n)' /\ turn' = n
    BY <2>1, <2>2, <2>3, SameChain
  <2>5. input.iterations \in Nat
    BY <2>1, InputAssumption
  <2>6. CASE turn + 1 < input.iterations
    <3>1. deriving' = "key"
      BY <1>6, <2>6 DEF Fold
    <3>. QED
      BY <3>1, <2>1, <2>3, <2>4, <2>6
  <2>7. CASE ~(turn + 1 < input.iterations)
    <3>1. deriving' = "derived" /\ dk' = tBytes' /\ turn + 1 = input.iterations
      BY <1>6, <2>1, <2>5, <2>7 DEF Fold
    <3>. QED
      BY <3>1, <2>1, <2>3, <2>4
  <2>. QED
    BY <2>6, <2>7
<1>. QED
  BY <1>1, <1>2, <1>3, <1>4, <1>5, <1>6 DEF DeriveNext

(* pbkdf2_sha512 returns the XOR of the chain of HMACs, each of the result before it
   and the first of the salt and the counter 1, for every password, number of
   iterations and size of block, digest and salt, although hmac_sha512 gets U as its
   message and its result in the same call. *)
THEOREM KeyDerived == DeriveSpec => []KeyIsDerived
<1>1. DeriveInit => Deriving
  BY DEF DeriveInit, Deriving, DerivePlaces
<1>2. Deriving => KeyIsDerived
  BY DEF Deriving, KeyIsDerived, Folded
<1>. QED
  BY <1>1, <1>2, DeriveStep, PTL DEF DeriveSpec

-----------------------------------------------------------------------------
(* Tweaks *)

Tweaks == [0 .. BlockBytes - 1 -> SUBSET (0 .. ByteBits - 1)]

(* The bits of a byte are together in the polynomial. *)
LEMMA ExponentIs ==
    ASSUME NEW t \in Tweaks, NEW i \in 0 .. BlockBytes - 1, NEW b \in 0 .. ByteBits - 1
    PROVE  /\ ByteBits * i + b \in Nat
           /\ ByteBits * i + b \in Exponents(t) <=> b \in t[i]
<1>. USE BlocksAssumption
<1>1. \A k \in Nat : ByteBits * k = k * ByteBits /\ k * ByteBits \in Nat
  BY SMT
<1>2. ByteBits * i + b \in Nat
  BY <1>1
<1>3. ASSUME b \in t[i] PROVE ByteBits * i + b \in Exponents(t)
  BY <1>3 DEF Exponents
<1>4. ASSUME ByteBits * i + b \in Exponents(t) PROVE b \in t[i]
  <2>1. PICK j \in 0 .. BlockBytes - 1 : \E c \in t[j] : ByteBits * i + b = ByteBits * j + c
    BY <1>4 DEF Exponents
  <2>2. PICK c \in t[j] : ByteBits * i + b = ByteBits * j + c
    BY <2>1
  <2>3. c \in 0 .. ByteBits - 1
    BY DEF Tweaks
  <2>4. i * ByteBits + b = j * ByteBits + c
    BY <1>1, <2>2
  <2>5. /\ i \in Int /\ j \in Int
        /\ \A q \in Int : \A r \in 0 .. ByteBits - 1 :
              (q * ByteBits + r) \div ByteBits = q /\ (q * ByteBits + r) % ByteBits = r
    BY DivMod
  <2>6. (i * ByteBits + b) \div ByteBits = i /\ (i * ByteBits + b) % ByteBits = b
    BY <2>5
  <2>7. (j * ByteBits + c) \div ByteBits = j /\ (j * ByteBits + c) % ByteBits = c
    BY <2>3, <2>5
  <2>. QED
    BY <2>4, <2>6, <2>7
<1>. QED
  BY <1>2, <1>3, <1>4

(* A number is an exponent, or none, of a bit of a byte. *)
LEMMA ExponentParts ==
    ASSUME NEW t \in Tweaks
    PROVE  \A e \in Exponents(t) :
              \E i \in 0 .. BlockBytes - 1, b \in 0 .. ByteBits - 1 :
                  e = ByteBits * i + b /\ b \in t[i]
  BY DEF Exponents, Tweaks

LEMMA DoubledType ==
    ASSUME NEW t \in Tweaks
    PROVE  Doubled(t) \in Tweaks
<1>. USE BlocksAssumption
<1>1. ASSUME NEW i \in 0 .. BlockBytes - 1
      PROVE  ShiftedLeft(t[i]) \subseteq 0 .. ByteBits - 1
  BY DEF ShiftedLeft, Top, Tweaks
<1>2. ASSUME NEW i \in 0 .. BlockBytes - 1
      PROVE  Carried(t[i]) \subseteq 0 .. ByteBits - 1
  BY DEF Carried
<1>3. LowByte(t) \subseteq 0 .. ByteBits - 1
  <2>1. 0 \in 0 .. BlockBytes - 1
    OBVIOUS
  <2>2. ShiftedLeft(t[0]) \subseteq 0 .. ByteBits - 1
    BY <1>1, <2>1
  <2>. QED
    BY <2>2 DEF LowByte, Xor
<1>4. ASSUME NEW i \in 0 .. BlockBytes - 1, i # 0
      PROVE  ShiftedLeft(t[i]) \cup Carried(t[i - 1]) \subseteq 0 .. ByteBits - 1
  <2>1. i - 1 \in 0 .. BlockBytes - 1
    BY <1>4
  <2>. QED
    BY <1>1, <1>2, <2>1
<1>5. \A i \in 0 .. BlockBytes - 1 : Doubled(t)[i] \in SUBSET (0 .. ByteBits - 1)
  BY <1>3, <1>4 DEF Doubled
<1>6. Doubled(t) = [i \in 0 .. BlockBytes - 1 |-> Doubled(t)[i]]
  BY DEF Doubled
<1>. QED
  BY <1>5, <1>6 DEF Tweaks

(* A bit of a byte that is shifted was the one below. *)
LEMMA ShiftedBit ==
    ASSUME NEW s \in SUBSET (0 .. ByteBits - 1), NEW b \in 0 .. ByteBits - 1
    PROVE  b \in ShiftedLeft(s) <=> b # 0 /\ b - 1 \in s
  BY BlocksAssumption DEF ShiftedLeft, Top

(* The loop of the code over the bytes is the product with x. *)
LEMMA DoubledTimesX ==
    ASSUME NEW t \in Tweaks
    PROVE  Exponents(Doubled(t)) = TimesX(Exponents(t))
<1>. USE BlocksAssumption
<1>. DEFINE up == {e + 1 : e \in Exponents(t)}
            degree == ByteBits * BlockBytes
<1>1. Doubled(t) \in Tweaks
  BY DoubledType
<1>2. ASSUME NEW i \in 0 .. BlockBytes - 1, NEW b \in 0 .. ByteBits - 1
      PROVE  ByteBits * i + b \in up <=>
             IF b # 0 THEN b - 1 \in t[i] ELSE i # 0 /\ Top \in t[i - 1]
  <2>1. \A e \in Exponents(t) : e \in Nat
    BY ExponentParts, ExponentIs
  <2>2. ByteBits * i + b \in Nat
    BY ExponentIs
  <2>3. ByteBits * i + b \in up <=> (ByteBits * i + b) - 1 \in Exponents(t)
    BY <2>1, <2>2
  <2>4. CASE b # 0
    <3>1. b - 1 \in 0 .. ByteBits - 1 /\ ByteBits * i \in Nat
      BY <2>4, SMT
    <3>2. (ByteBits * i + b) - 1 = ByteBits * i + (b - 1)
      BY <3>1
    <3>. QED
      BY <2>3, <2>4, <3>1, <3>2, ExponentIs
  <2>5. CASE b = 0 /\ i # 0
    <3>1. i - 1 \in 0 .. BlockBytes - 1 /\ Top \in 0 .. ByteBits - 1
      BY <2>5 DEF Top
    <3>2. ByteBits * i = ByteBits * (i - 1) + ByteBits /\ ByteBits * (i - 1) \in Nat
      BY <3>1, SMT
    <3>3. (ByteBits * i + b) - 1 = ByteBits * (i - 1) + Top
      BY <3>2, <2>5 DEF Top
    <3>. QED
      BY <2>3, <2>5, <3>1, <3>3, ExponentIs
  <2>6. CASE b = 0 /\ i = 0
    <3>1. ByteBits * i + b = 0
      BY <2>6, SMT
    <3>2. (ByteBits * i + b) - 1 \notin Nat
      BY <3>1
    <3>. QED
      BY <2>1, <2>3, <2>6, <3>2
  <2>. QED
    BY <2>4, <2>5, <2>6
<1>3. degree \in up <=> Top \in t[BlockBytes - 1]
  <2>1. BlockBytes - 1 \in 0 .. BlockBytes - 1 /\ Top \in 0 .. ByteBits - 1
    BY DEF Top
  <2>2. degree = ByteBits * (BlockBytes - 1) + ByteBits /\ ByteBits * (BlockBytes - 1) \in Nat
    BY SMT
  <2>3. degree - 1 = ByteBits * (BlockBytes - 1) + Top /\ degree \in Nat
    BY <2>2 DEF Top
  <2>4. \A e \in Exponents(t) : e \in Nat
    BY ExponentParts, ExponentIs
  <2>. HIDE DEF degree
  <2>5. degree \in up <=> degree - 1 \in Exponents(t)
    BY <2>3, <2>4
  <2>. QED
    BY <2>1, <2>3, <2>5, ExponentIs
<1>4. ASSUME NEW i \in 0 .. BlockBytes - 1, NEW b \in 0 .. ByteBits - 1
      PROVE  /\ ByteBits * i + b < degree /\ degree \in Nat
             /\ ByteBits * i + b \in Reduction <=> i = 0 /\ b \in Reduction
  <2>1. /\ ByteBits * (i + 1) <= ByteBits * BlockBytes
        /\ ByteBits * (i + 1) = ByteBits * i + ByteBits
        /\ ByteBits * i \in Nat /\ ByteBits * BlockBytes \in Nat
    BY SMT
  <2>2. i # 0 => ByteBits * i >= ByteBits
    BY SMT
  <2>3. i = 0 => ByteBits * i = 0
    BY SMT
  <2>. QED
    BY <2>1, <2>2, <2>3
<1>5. ASSUME NEW i \in 0 .. BlockBytes - 1, NEW b \in 0 .. ByteBits - 1
      PROVE  b \in Doubled(t)[i] <=> ByteBits * i + b \in TimesX(Exponents(t))
  <2>. HIDE DEF up, degree
  <2>1. ByteBits * i + b \in TimesX(Exponents(t)) <=>
          IF Top \in t[BlockBytes - 1] /\ i = 0 /\ b \in Reduction
          THEN ByteBits * i + b \notin up ELSE ByteBits * i + b \in up
    <3>1. ByteBits * i + b # degree
      BY <1>4
    <3>2. TimesX(Exponents(t)) = IF degree \in up THEN Xor(up \ {degree}, Reduction) ELSE up
      BY DEF TimesX, up, degree
    <3>. QED
      BY <1>3, <1>4, <3>1, <3>2 DEF Xor
  <2>2. t[i] \in SUBSET (0 .. ByteBits - 1)
    BY DEF Tweaks
  <2>3. b \in ShiftedLeft(t[i]) <=> b # 0 /\ b - 1 \in t[i]
    BY <2>2, ShiftedBit
  <2>4. CASE i = 0
    <3>1. Doubled(t)[i] = LowByte(t)
      BY <2>4 DEF Doubled
    <3>2. b \in LowByte(t) <=>
             IF Top \in t[BlockBytes - 1] /\ b \in Reduction
             THEN b \notin ShiftedLeft(t[0]) ELSE b \in ShiftedLeft(t[0])
      BY DEF LowByte, Xor
    <3>. QED
      BY <2>1, <2>3, <2>4, <3>1, <3>2, <1>2
  <2>5. CASE i # 0
    <3>1. Doubled(t)[i] = ShiftedLeft(t[i]) \cup Carried(t[i - 1])
      BY <2>5 DEF Doubled
    <3>2. b \in Carried(t[i - 1]) <=> b = 0 /\ Top \in t[i - 1]
      BY DEF Carried
    <3>. QED
      BY <2>1, <2>3, <2>5, <3>1, <3>2, <1>2
  <2>. QED
    BY <2>4, <2>5
<1>6. ASSUME NEW e \in Exponents(Doubled(t)) PROVE e \in TimesX(Exponents(t))
  <2>1. PICK i \in 0 .. BlockBytes - 1, b \in 0 .. ByteBits - 1 :
          e = ByteBits * i + b /\ b \in Doubled(t)[i]
    BY <1>1, ExponentParts
  <2>. QED
    BY <2>1, <1>5
<1>7. ASSUME NEW e \in TimesX(Exponents(t)) PROVE e \in Exponents(Doubled(t))
  <2>1. \E i \in 0 .. BlockBytes - 1, b \in 0 .. ByteBits - 1 : e = ByteBits * i + b
    <3>1. CASE e \in Reduction
      <4>1. e \in 0 .. ByteBits - 1 /\ 0 \in 0 .. BlockBytes - 1 /\ e = ByteBits * 0 + e
        BY <3>1, SMT
      <4>. QED
        BY <4>1
    <3>2. CASE e \in up /\ e # degree
      <4>1. PICK i \in 0 .. BlockBytes - 1, b \in 0 .. ByteBits - 1 :
              e - 1 = ByteBits * i + b /\ e \in Int
        <5>1. PICK x \in Exponents(t) : e = x + 1
          BY <3>2
        <5>2. PICK i \in 0 .. BlockBytes - 1, b \in 0 .. ByteBits - 1 :
                x = ByteBits * i + b /\ b \in t[i]
          <6>. HIDE DEF up, degree
          <6>. QED
            BY ExponentParts, Zenon
        <5>3. x \in Nat
          BY <5>2, ExponentIs
        <5>4. e - 1 = x /\ e \in Int
          BY <5>1, <5>3
        <5>. QED
          BY <5>2, <5>4, Zenon
      <4>2. CASE b # ByteBits - 1
        <5>1. b + 1 \in 0 .. ByteBits - 1 /\ ByteBits * i \in Nat
          BY <4>2, SMT
        <5>2. e = ByteBits * i + (b + 1)
          BY <4>1, <5>1
        <5>. QED
          BY <5>1, <5>2
      <4>3. CASE b = ByteBits - 1
        <5>1. ByteBits * (i + 1) = ByteBits * i + ByteBits /\ ByteBits * i \in Nat
          BY SMT
        <5>2. e = ByteBits * (i + 1)
          BY <4>1, <4>3, <5>1
        <5>3. i + 1 # BlockBytes
          BY <3>2, <5>2
        <5>4. i + 1 \in 0 .. BlockBytes - 1 /\ 0 \in 0 .. ByteBits - 1 /\ e = ByteBits * (i + 1) + 0
          BY <5>1, <5>2, <5>3
        <5>. QED
          BY <5>4
      <4>. QED
        BY <4>2, <4>3
    <3>3. CASE e \in up /\ degree \notin up
      BY <3>2, <3>3
    <3>. HIDE DEF up, degree
    <3>4. TimesX(Exponents(t)) = IF degree \in up THEN Xor(up \ {degree}, Reduction) ELSE up
      BY DEF TimesX, up, degree
    <3>. QED
      BY <3>1, <3>2, <3>3, <3>4 DEF Xor
  <2>2. PICK i \in 0 .. BlockBytes - 1, b \in 0 .. ByteBits - 1 : e = ByteBits * i + b
    BY <2>1
  <2>. QED
    BY <2>2, <1>1, <1>5, ExponentIs
<1>. QED
  BY <1>6, <1>7

(* The products with the first n powers. *)
PowerStart(t, f, n) ==
    /\ f = [i \in 0 .. n |-> f[i]] /\ f[0] = Exponents(t)
    /\ \A i \in 0 .. n - 1 : f[i + 1] = TimesX(f[i])

LEMMA PowerStarts ==
    ASSUME NEW t, NEW n \in Nat
    PROVE  \E f : PowerStart(t, f, n)
<1>. DEFINE B == {i \in Nat : ~ \E f : PowerStart(t, f, i)}
<1>1. SUFFICES ASSUME B # {} PROVE FALSE
  OBVIOUS
<1>2. B \subseteq Nat
  OBVIOUS
<1>3. PICK m \in B : \A y \in B : m <= y
  <2>. HIDE DEF B
  <2>. QED
    BY <1>1, <1>2, LeastNumber
<1>4. CASE m = 0
  <2>1. PowerStart(t, [i \in 0 .. 0 |-> Exponents(t)], 0)
    BY DEF PowerStart
  <2>. QED
    BY <2>1, <1>3, <1>4
<1>5. CASE m # 0
  <2>1. m \in Nat /\ m - 1 \in Nat /\ m - 1 \notin B
    BY <1>3, <1>5
  <2>2. PICK f : PowerStart(t, f, m - 1)
    BY <2>1
  <2>3. f[0] = Exponents(t) /\ \A i \in 0 .. (m - 1) - 1 : f[i + 1] = TimesX(f[i])
    BY <2>2, Zenon DEF PowerStart
  <2>. DEFINE g == [i \in 0 .. m |-> IF i = m THEN TimesX(f[m - 1]) ELSE f[i]]
  <2>4. g = [i \in 0 .. m |-> g[i]] /\ g[0] = Exponents(t)
    BY <2>1, <2>3, <1>5
  <2>5. ASSUME NEW i \in 0 .. m - 1 PROVE g[i + 1] = TimesX(g[i])
    <3>1. g[i] = f[i]
      BY <2>1
    <3>2. CASE i = m - 1
      <4>1. i + 1 = m /\ i + 1 \in 0 .. m
        BY <3>2, <2>1
      <4>. QED
        BY <4>1, <3>1, <3>2
    <3>3. CASE i # m - 1
      <4>1. i \in 0 .. (m - 1) - 1 /\ i + 1 \in 0 .. m /\ i + 1 # m
        BY <3>3, <2>1
      <4>2. f[i + 1] = TimesX(f[i])
        BY <4>1, <2>3
      <4>. QED
        BY <4>1, <4>2, <3>1
    <3>. QED
      BY <3>2, <3>3
  <2>6. PowerStart(t, g, m)
    <3>. HIDE DEF g
    <3>. QED
      BY <2>4, <2>5 DEF PowerStart
  <2>. QED
    BY <2>6, <1>3
<1>. QED
  BY <1>4, <1>5

LEMMA PowerStartsAgree ==
    ASSUME NEW t, NEW n \in Nat, NEW f, PowerStart(t, f, n),
           NEW g, PowerStart(t, g, n + 1)
    PROVE  f[n] = g[n]
<1>. DEFINE B == {i \in 0 .. n : f[i] # g[i]}
<1>1. SUFFICES ASSUME B # {} PROVE FALSE
  OBVIOUS
<1>2. B \subseteq Nat
  OBVIOUS
<1>3. PICK m \in B : \A y \in B : m <= y
  <2>. HIDE DEF B
  <2>. QED
    BY <1>1, <1>2, LeastNumber
<1>4. /\ f[0] = g[0]
      /\ \A i \in 0 .. n - 1 : f[i + 1] = TimesX(f[i])
      /\ \A i \in 0 .. n : g[i + 1] = TimesX(g[i])
  <2>1. f[0] = Exponents(t) /\ \A i \in 0 .. n - 1 : f[i + 1] = TimesX(f[i])
    BY Zenon DEF PowerStart
  <2>2. g[0] = Exponents(t) /\ \A i \in 0 .. (n + 1) - 1 : g[i + 1] = TimesX(g[i])
    BY Zenon DEF PowerStart
  <2>3. (n + 1) - 1 = n
    OBVIOUS
  <2>. QED
    BY <2>1, <2>2, <2>3, Zenon
<1>5. m # 0
  BY <1>3, <1>4
<1>6. m - 1 \in 0 .. n - 1 /\ m - 1 \notin B /\ (m - 1) + 1 = m
  BY <1>3, <1>5
<1>7. f[m - 1] = g[m - 1]
  BY <1>6
<1>8. f[m] = TimesX(f[m - 1]) /\ g[m] = TimesX(g[m - 1])
  BY <1>4, <1>6
<1>. QED
  BY <1>3, <1>7, <1>8

LEMMA PowerIs ==
    ASSUME NEW t
    PROVE  /\ PowerOf(t)[0] = Exponents(t)
           /\ \A n \in Nat : PowerOf(t)[n + 1] = TimesX(PowerOf(t)[n])
<1>. DEFINE G(n) == CHOOSE f : PowerStart(t, f, n)
            F == [n \in Nat |-> G(n)[n]]
            Body(f) == [n \in Nat |-> IF n = 0 THEN Exponents(t) ELSE TimesX(f[n - 1])]
<1>1. ASSUME NEW n \in Nat PROVE PowerStart(t, G(n), n)
  BY PowerStarts
<1>. HIDE DEF G
<1>2. ASSUME NEW n \in Nat PROVE F[n] = Body(F)[n]
  <2>1. CASE n = 0
    BY <2>1, <1>1 DEF PowerStart
  <2>2. CASE n # 0
    <3>1. n - 1 \in Nat /\ (n - 1) + 1 = n
      BY <2>2
    <3>2. PowerStart(t, G(n - 1), n - 1) /\ PowerStart(t, G(n), (n - 1) + 1)
      BY <1>1, <3>1
    <3>3. G(n - 1)[n - 1] = G(n)[n - 1]
      BY <3>1, <3>2, PowerStartsAgree
    <3>4. G(n)[(n - 1) + 1] = TimesX(G(n)[n - 1])
      <4>1. n - 1 \in 0 .. n - 1
        BY <3>1
      <4>. QED
        BY <4>1, <1>1 DEF PowerStart
    <3>5. F[n - 1] = G(n)[n - 1] /\ F[n] = G(n)[n]
      BY <3>1, <3>3
    <3>. QED
      BY <2>2, <3>1, <3>4, <3>5
  <2>. QED
    BY <2>1, <2>2
<1>3. F = Body(F)
  BY <1>2
<1>4. PowerOf(t) = Body(PowerOf(t))
  BY <1>3, Zenon DEF PowerOf
<1>. HIDE DEF Body
<1>5. \A n \in Nat :
        PowerOf(t)[n] = IF n = 0 THEN Exponents(t) ELSE TimesX(PowerOf(t)[n - 1])
  BY <1>4 DEF Body
<1>6. ASSUME NEW n \in Nat PROVE PowerOf(t)[n + 1] = TimesX(PowerOf(t)[n])
  <2>1. n + 1 \in Nat /\ n + 1 # 0 /\ (n + 1) - 1 = n
    OBVIOUS
  <2>. QED
    BY <1>5, <2>1
<1>. QED
  BY <1>5, <1>6

-----------------------------------------------------------------------------
(* One sector *)

Blocks == SectorBytes \div BlockBytes
BlockAt(b) == [i \in 0 .. BlockBytes - 1 |-> sector.place + b * BlockBytes + i]

LEMMA SectorParts ==
    Blocks \in Nat /\ SectorBytes = Blocks * BlockBytes
<1>. DEFINE q == SectorBytes \div BlockBytes
            r == SectorBytes % BlockBytes
<1>1. q \in Nat /\ r = 0 /\ SectorBytes = q * BlockBytes + r
  BY BlocksAssumption, DivModOf
<1>2. q * BlockBytes \in Nat
  <2>. HIDE DEF q, r
  <2>. QED
    BY <1>1, BlocksAssumption, SMT
<1>3. SectorBytes = q * BlockBytes
  <2>. HIDE DEF q, r
  <2>. QED
    BY <1>1, <1>2
<1>. QED
  BY <1>1, <1>3 DEF Blocks

(* Where a read of a sector is: the first count bytes of the buffer come from the
   file, and of the blocks before pos each is decrypted with its power. *)
SectorInv ==
    /\ reading \in {"none", "pread", "blocks", "read", "failed"}
    /\ count \in 0 .. SectorBytes
    /\ plain = [b \in 0 .. Blocks - 1 |-> plain[b]]
    /\ reading \in {"none", "pread", "failed"} =>
          \A b \in 0 .. Blocks - 1 : plain[b] = OldBlock
    /\ reading = "none" => count = 0
    /\ reading # "none" =>
          /\ sector.place \in Nat /\ sector.end \in Nat
          /\ sector.tweak \in FirstTweaks
    /\ enc = [i \in SectorIndex |-> enc[i]]
    /\ reading \in {"pread", "blocks", "read"} =>
          /\ \A i \in 0 .. count - 1 : enc[i] = sector.place + i
          /\ count # 0 => sector.place + count <= sector.end
    /\ reading \in {"blocks", "read"} => count = SectorBytes
    /\ reading \in {"blocks", "read"} =>
          \E m \in 0 .. Blocks :
             /\ pos = m * BlockBytes
             /\ reading = "read" => m = Blocks
             /\ reading = "blocks" =>
                   T \in Tweaks /\ Exponents(T) = PowerOf(sector.tweak)[m]
             /\ \A b \in 0 .. m - 1 :
                   /\ plain[b][1] = BlockAt(b)
                   /\ Exponents(plain[b][2]) = PowerOf(sector.tweak)[b]

LEMMA SectorBegins == SectorInit => SectorInv
<1>1. Blocks \in Nat
  BY SectorParts
<1>. QED
  BY <1>1, BlocksAssumption DEF SectorInit, SectorInv, SectorIndex, Blocks

LEMMA PreadStep ==
    ASSUME SectorInv, Pread
    PROVE  SectorInv'
<1>. USE DEF SectorInv
<1>1. PICK n \in 1 .. SectorBytes - count :
        /\ sector.place + count + n <= sector.end
        /\ enc' = [i \in SectorIndex |->
               IF i \in count .. count + n - 1 THEN sector.place + i ELSE enc[i]]
        /\ count' = count + n
  BY DEF Pread
<1>2. /\ reading = "pread" /\ reading' = reading /\ sector' = sector /\ plain' = plain
  BY DEF Pread
<1>3. count' \in 0 .. SectorBytes /\ count \in Nat /\ count' # 0 /\ n \in Nat
      /\ sector.place \in Nat /\ sector.end \in Nat
  BY <1>1, <1>2, BlocksAssumption
<1>4. \A i \in 0 .. count' - 1 : enc'[i] = sector.place + i
  <2>1. SUFFICES ASSUME NEW i \in 0 .. count' - 1 PROVE enc'[i] = sector.place + i
    OBVIOUS
  <2>2. i \in SectorIndex
    BY <1>1, <1>3, BlocksAssumption DEF SectorIndex
  <2>3. CASE i \in count .. count + n - 1
    BY <2>2, <2>3, <1>1
  <2>4. CASE i \notin count .. count + n - 1
    <3>1. i \in 0 .. count - 1
      BY <2>4, <1>1, <1>3
    <3>. QED
      BY <3>1, <2>2, <2>4, <1>1, <1>2
  <2>. QED
    BY <2>3, <2>4
<1>5. enc' = [i \in SectorIndex |-> enc'[i]]
  BY <1>1
<1>6. sector.place + count' <= sector.end
  BY <1>1, <1>3
<1>. QED
  BY <1>2, <1>3, <1>4, <1>5, <1>6

LEMMA FirstTweakStep ==
    ASSUME SectorInv, FirstTweak
    PROVE  SectorInv'
<1>. USE DEF SectorInv
<1>1. /\ reading = "pread" /\ count = SectorBytes /\ reading' = "blocks"
      /\ T' = sector.tweak /\ pos' = 0
      /\ sector' = sector /\ count' = count /\ enc' = enc /\ plain' = plain
  BY DEF FirstTweak
<1>2. sector.tweak \in FirstTweaks /\ sector.tweak \in Tweaks
  BY <1>1, BlocksAssumption DEF Tweaks
<1>3. \E m \in 0 .. Blocks :
         /\ pos' = m * BlockBytes
         /\ reading' = "read" => m = Blocks
         /\ reading' = "blocks" =>
               T' \in Tweaks /\ Exponents(T') = PowerOf(sector'.tweak)[m]
         /\ \A b \in 0 .. m - 1 :
               /\ plain'[b][1] = BlockAt(b)'
               /\ Exponents(plain'[b][2]) = PowerOf(sector'.tweak)[b]
  <2>1. 0 \in 0 .. Blocks /\ 0 * BlockBytes = 0
    BY SectorParts, BlocksAssumption, SMT
  <2>2. Exponents(T') = PowerOf(sector'.tweak)[0]
    BY <1>1, PowerIs
  <2>. QED
    BY <1>1, <1>2, <2>1, <2>2
<1>. QED
  BY <1>1, <1>2, <1>3

LEMMA DecryptBlockStep ==
    ASSUME SectorInv, DecryptBlock
    PROVE  SectorInv'
<1>. USE DEF SectorInv
<1>1. /\ reading = "blocks" /\ pos + BlockBytes <= SectorBytes
      /\ plain' = [plain EXCEPT ![pos \div BlockBytes] =
             <<[i \in 0 .. BlockBytes - 1 |-> enc[pos + i]], T>>]
      /\ T' = Doubled(T) /\ pos' = pos + BlockBytes
      /\ reading' = reading /\ sector' = sector /\ count' = count /\ enc' = enc
  BY DEF DecryptBlock
<1>2. PICK m \in 0 .. Blocks :
        /\ pos = m * BlockBytes
        /\ T \in Tweaks /\ Exponents(T) = PowerOf(sector.tweak)[m]
        /\ \A b \in 0 .. m - 1 :
              /\ plain[b][1] = BlockAt(b)
              /\ Exponents(plain[b][2]) = PowerOf(sector.tweak)[b]
  BY <1>1
<1>3. /\ Blocks \in Nat /\ SectorBytes = Blocks * BlockBytes
      /\ BlockBytes \in Nat \ {0} /\ m \in Nat
  BY SectorParts, BlocksAssumption
<1>4. (m + 1) * BlockBytes = pos + BlockBytes /\ pos \in Nat
  BY <1>2, <1>3, Product, SMT
<1>5. m < Blocks
  <2>1. SUFFICES ASSUME Blocks <= m PROVE FALSE
    BY <1>3
  <2>2. Blocks * BlockBytes <= m * BlockBytes
    BY <2>1, <1>3, ProductOrder
  <2>. QED
    BY <2>2, <1>1, <1>2, <1>3, <1>4, SMTT(30)
<1>6. pos \div BlockBytes = m
  <2>1. 0 \in 0 .. BlockBytes - 1 /\ m \in Int
    BY <1>3
  <2>2. (m * BlockBytes + 0) \div BlockBytes = m
    BY <2>1, <1>3, DivMod
  <2>. QED
    BY <2>2, <1>2, <1>4
<1>7. [i \in 0 .. BlockBytes - 1 |-> enc[pos + i]] = BlockAt(m)
  <2>1. ASSUME NEW i \in 0 .. BlockBytes - 1
        PROVE  enc[pos + i] = sector.place + m * BlockBytes + i
    <3>1. pos + i \in 0 .. count - 1 /\ sector.place \in Nat
      <4>1. count = SectorBytes /\ sector.place \in Nat /\ count \in Nat
        BY <1>1, BlocksAssumption
      <4>2. pos + BlockBytes <= count /\ pos \in Nat /\ BlockBytes \in Nat /\ i \in Nat
            /\ i < BlockBytes
        BY <4>1, <1>1, <1>3, <1>4
      <4>. QED
        BY <4>1, <4>2
    <3>2. enc[pos + i] = sector.place + (pos + i)
      BY <3>1, <1>1
    <3>. QED
      BY <3>1, <3>2, <1>2, <1>3, <1>4, SMTT(30)
  <2>. QED
    BY <2>1 DEF BlockAt
<1>8. m \in 0 .. Blocks - 1 /\ m + 1 \in 0 .. Blocks
  BY <1>3, <1>5
<1>9. /\ plain' = [b \in 0 .. Blocks - 1 |-> plain'[b]]
      /\ plain'[m] = <<BlockAt(m), T>>
      /\ \A b \in 0 .. Blocks - 1 : b # m => plain'[b] = plain[b]
  BY <1>1, <1>6, <1>7, <1>8
<1>10. /\ Doubled(T) \in Tweaks
       /\ Exponents(T') = PowerOf(sector.tweak)[m + 1]
  <2>1. T \in Tweaks /\ Exponents(T) = PowerOf(sector.tweak)[m]
    BY <1>2
  <2>2. Doubled(T) \in Tweaks /\ Exponents(Doubled(T)) = TimesX(Exponents(T))
    BY <2>1, DoubledType, DoubledTimesX
  <2>3. PowerOf(sector.tweak)[m + 1] = TimesX(PowerOf(sector.tweak)[m])
    BY <1>3, PowerIs
  <2>. QED
    BY <2>1, <2>2, <2>3, <1>1
<1>11. \A b : BlockAt(b)' = BlockAt(b)
  BY <1>1 DEF BlockAt
<1>12. ASSUME NEW b \in 0 .. (m + 1) - 1
       PROVE  /\ plain'[b][1] = BlockAt(b)'
              /\ Exponents(plain'[b][2]) = PowerOf(sector'.tweak)[b]
  <2>1. CASE b = m
    BY <2>1, <1>1, <1>2, <1>9, <1>11
  <2>2. CASE b # m
    <3>1. b \in 0 .. m - 1 /\ b \in 0 .. Blocks - 1
      BY <2>2, <1>3, <1>5
    <3>. QED
      BY <2>2, <3>1, <1>1, <1>2, <1>9, <1>11
  <2>. QED
    BY <2>1, <2>2
<1>13. pos' = (m + 1) * BlockBytes /\ T' \in Tweaks
       /\ Exponents(T') = PowerOf(sector'.tweak)[m + 1]
  BY <1>1, <1>4, <1>10
<1>14. \E h \in 0 .. Blocks :
         /\ pos' = h * BlockBytes
         /\ reading' = "read" => h = Blocks
         /\ reading' = "blocks" =>
               T' \in Tweaks /\ Exponents(T') = PowerOf(sector'.tweak)[h]
         /\ \A b \in 0 .. h - 1 :
               /\ plain'[b][1] = BlockAt(b)'
               /\ Exponents(plain'[b][2]) = PowerOf(sector'.tweak)[b]
  BY <1>1, <1>8, <1>12, <1>13
<1>. QED
  BY <1>1, <1>9, <1>14

LEMMA DecryptEndStep ==
    ASSUME SectorInv, DecryptEnd
    PROVE  SectorInv'
<1>. USE DEF SectorInv
<1>1. /\ reading = "blocks" /\ pos + BlockBytes > SectorBytes /\ reading' = "read"
      /\ sector' = sector /\ count' = count /\ enc' = enc /\ pos' = pos
      /\ plain' = plain
  BY DEF DecryptEnd
<1>2. PICK m \in 0 .. Blocks :
        /\ pos = m * BlockBytes
        /\ \A b \in 0 .. m - 1 :
              /\ plain[b][1] = BlockAt(b)
              /\ Exponents(plain[b][2]) = PowerOf(sector.tweak)[b]
  BY <1>1
<1>3. /\ Blocks \in Nat /\ SectorBytes = Blocks * BlockBytes
      /\ BlockBytes \in Nat \ {0} /\ m \in Nat
  BY SectorParts, BlocksAssumption
<1>4. m = Blocks
  <2>1. SUFFICES ASSUME m + 1 <= Blocks PROVE FALSE
    BY <1>3
  <2>2. (m + 1) * BlockBytes <= Blocks * BlockBytes
    <3>1. m + 1 \in Nat
      BY <1>3
    <3>. QED
      BY <2>1, <3>1, <1>3, ProductOrder
  <2>3. (m + 1) * BlockBytes = pos + BlockBytes /\ pos \in Nat
    BY <1>2, <1>3, SMT
  <2>. QED
    BY <2>2, <2>3, <1>1, <1>3
<1>5. \A b : BlockAt(b)' = BlockAt(b)
  BY <1>1 DEF BlockAt
<1>. QED
  BY <1>1, <1>2, <1>4, <1>5

LEMMA SectorStep == SectorInv /\ [SectorNext]_sectorVars => SectorInv'
<1>. SUFFICES ASSUME SectorInv, [SectorNext]_sectorVars PROVE SectorInv'
  OBVIOUS
<1>1. CASE UNCHANGED sectorVars
  <2>1. /\ reading' = reading /\ sector' = sector /\ count' = count /\ enc' = enc
        /\ T' = T /\ pos' = pos /\ plain' = plain
    BY <1>1 DEF sectorVars
  <2>2. \A b : BlockAt(b)' = BlockAt(b)
    BY <2>1 DEF BlockAt
  <2>. QED
    BY <2>1, <2>2 DEF SectorInv
<1>2. CASE SectorCall
  BY <1>2, BlocksAssumption DEF SectorInv, SectorCall
<1>3. CASE PreadFails
  BY <1>3 DEF SectorInv, PreadFails
<1>. QED
  BY <1>1, <1>2, <1>3, PreadStep, FirstTweakStep, DecryptBlockStep, DecryptEndStep
     DEF SectorNext

(* A sector that is read is the plaintext of the bytes at its place in the file,
   each block with the tweak times its power of x, for every size of sector, block
   and byte: aes256_xts_decrypt doubles its tweak in place without losing a carry,
   and read_full_at puts what pread64 brings together without a gap. *)
THEOREM SectorsDecrypted == SectorSpec => []SectorDecrypted
<1>1. ASSUME SectorInv PROVE SectorDecrypted
  <2>. USE <1>1 DEF SectorInv
  <2>1. DOMAIN plain = 0 .. Blocks - 1
    OBVIOUS
  <2>2. ASSUME reading = "read", NEW b \in DOMAIN plain
        PROVE  /\ plain[b][1] = BlockAt(b)
               /\ Exponents(plain[b][2]) = PowerOf(sector.tweak)[b]
    BY <2>1, <2>2
  <2>3. ASSUME reading = "read", Exponents(sector.tweak) # {},
               NEW b \in DOMAIN plain, NEW c \in DOMAIN plain, plain[b][2] = plain[c][2]
        PROVE  b = c
    <3>1. PowerOf(sector.tweak)[b] = PowerOf(sector.tweak)[c]
      BY <2>2, <2>3
    <3>2. sector.tweak \in FirstTweaks
      BY <2>3
    <3>. QED
      BY <3>1, <3>2, <2>1, <2>3, PolynomialAssumption DEF Blocks
  <2>4. reading \in {"blocks", "read"} => sector.place + SectorBytes <= sector.end
    BY BlocksAssumption
  <2>5. reading = "failed" => \A b \in DOMAIN plain : plain[b] = OldBlock
    BY <2>1
  <2>. QED
    BY <2>2, <2>3, <2>4, <2>5 DEF SectorDecrypted, BlockAt
<1>. QED
  BY <1>1, SectorBegins, SectorStep, PTL DEF SectorSpec

-----------------------------------------------------------------------------
(* Names: sequences that are taken apart from their first element on *)

LEMMA GreatestNumber ==
    ASSUME NEW m \in Nat, NEW S, S \subseteq 1 .. m, S # {}
    PROVE  \E x \in S : \A y \in S : y <= x
<1>. DEFINE turned == {m - y : y \in S}
<1>1. turned \subseteq Nat
  OBVIOUS
<1>. HIDE DEF turned
<1>2. PICK z \in S : TRUE
  OBVIOUS
<1>3. turned # {}
  BY <1>2 DEF turned
<1>4. PICK t \in turned : \A u \in turned : t <= u
  BY <1>1, <1>3, LeastNumber
<1>5. PICK x \in S : t = m - x
  BY <1>4 DEF turned
<1>6. ASSUME NEW y \in S PROVE y <= x
  <2>1. m - y \in turned
    BY DEF turned
  <2>2. m - x <= m - y /\ x \in Int /\ y \in Int
    BY <2>1, <1>4, <1>5
  <2>. QED
    BY <2>2
<1>. QED
  BY <1>6

(* What split_path and a decoder do: from each place a piece, and on to a later one. *)
Joined(n, m, piece, jump, f, k) ==
    \A i \in k .. m : f[i] = IF i > n THEN <<>> ELSE piece[i] \o f[jump[i]]

LEMMA JoinExists ==
    ASSUME NEW n \in Nat, NEW m \in Nat, n < m, NEW piece, NEW jump,
           \A i \in 1 .. n : jump[i] \in i + 1 .. m
    PROVE  \E f : /\ f = [i \in 1 .. m |-> f[i]]
                  /\ Joined(n, m, piece, jump, f, 1)
<1>. DEFINE Good(k) == \E f : /\ f = [i \in 1 .. m |-> f[i]]
                              /\ Joined(n, m, piece, jump, f, k)
            B == {k \in 1 .. m : ~Good(k)}
<1>1. SUFFICES ASSUME B # {} PROVE FALSE
  <2>1. 1 \in 1 .. m
    OBVIOUS
  <2>. QED
    BY <2>1
<1>2. PICK x \in B : \A y \in B : y <= x
  <2>1. B \subseteq 1 .. m
    OBVIOUS
  <2>. HIDE DEF B
  <2>. QED
    BY <1>1, <2>1, GreatestNumber
<1>3. CASE x > n
  <2>. DEFINE f == [i \in 1 .. m |-> <<>>]
  <2>1. Joined(n, m, piece, jump, f, x)
    BY <1>2, <1>3 DEF Joined
  <2>2. f = [i \in 1 .. m |-> f[i]]
    OBVIOUS
  <2>. QED
    BY <1>2, <2>1, <2>2
<1>4. CASE ~(x > n)
  <2>1. x \in 1 .. n /\ x + 1 \in 1 .. m /\ x + 1 \notin B
    BY <1>2, <1>4
  <2>2. PICK f : f = [i \in 1 .. m |-> f[i]] /\ Joined(n, m, piece, jump, f, x + 1)
    BY <2>1
  <2>0. PICK e : e = piece[x] \o f[jump[x]]
    OBVIOUS
  <2>. DEFINE g == [i \in 1 .. m |-> IF i = x THEN e ELSE f[i]]
  <2>3. \A i \in x + 1 .. m : g[i] = f[i]
    BY <2>1
  <2>4. ASSUME NEW i \in x .. m
        PROVE  g[i] = IF i > n THEN <<>> ELSE piece[i] \o g[jump[i]]
    <3>1. i <= n => jump[i] \in x + 1 .. m /\ g[jump[i]] = f[jump[i]]
      <4>1. i <= n => jump[i] \in i + 1 .. m
        BY <2>1
      <4>2. i <= n => jump[i] \in x + 1 .. m
        BY <4>1, <2>1
      <4>. QED
        BY <4>2, <2>3
    <3>2. CASE i = x
      <4>1. x \in 1 .. m /\ ~(x > n) /\ g[x] = e
        BY <2>1
      <4>2. g[jump[x]] = f[jump[x]]
        BY <3>1, <3>2, <2>1
      <4>3. e = piece[x] \o g[jump[x]]
        BY <2>0, <4>2, Zenon
      <4>. HIDE DEF g
      <4>. QED
        BY <3>2, <4>1, <4>3
    <3>3. CASE i # x
      <4>1. i \in x + 1 .. m /\ g[i] = f[i]
        BY <3>3, <2>1, <2>3
      <4>2. f[i] = IF i > n THEN <<>> ELSE piece[i] \o f[jump[i]]
        BY <4>1, <2>2 DEF Joined
      <4>. QED
        BY <4>1, <4>2, <3>1
    <3>. QED
      BY <3>2, <3>3
  <2>5. Joined(n, m, piece, jump, g, x)
    <3>. HIDE DEF g
    <3>. QED
      BY <2>4 DEF Joined
  <2>6. g = [i \in 1 .. m |-> g[i]]
    OBVIOUS
  <2>. QED
    BY <1>2, <2>5, <2>6
<1>. QED
  BY <1>3, <1>4

-----------------------------------------------------------------------------
(* Names: the parts of a path *)

LEMMA EndOfIs ==
    ASSUME NEW S, NEW p \in Seq(S), NEW i \in 1 .. Len(p) + 1
    PROVE  /\ EndOf(p, i) \in i .. Len(p) + 1
           /\ EndOf(p, i) <= Len(p) => p[EndOf(p, i)] = Slash
           /\ \A j \in i .. EndOf(p, i) - 1 : p[j] # Slash
<1>. DEFINE L == Len(p)
            E == {e \in i .. L + 1 : e <= L => p[e] = Slash}
<1>1. L \in Nat
  OBVIOUS
<1>2. E \subseteq Nat /\ E # {}
  <2>1. L + 1 \in E
    BY <1>1
  <2>. QED
    BY <2>1, <1>1
<1>3. PICK e \in E : \A d \in E : e <= d
  <2>. HIDE DEF E
  <2>. QED
    BY <1>2, LeastNumber
<1>4. \A j \in i .. e - 1 : p[j] # Slash
  <2>1. SUFFICES ASSUME NEW j \in i .. e - 1, p[j] = Slash PROVE FALSE
    OBVIOUS
  <2>2. j \in E /\ ~(e <= j)
    BY <2>1, <1>1, <1>3
  <2>. QED
    BY <2>2, <1>3
<1>. QED
  BY <1>3, <1>4 DEF EndOf

LEMMA EndOfUnique ==
    ASSUME NEW S, NEW p \in Seq(S), NEW i \in 1 .. Len(p) + 1, NEW e \in i .. Len(p) + 1,
           e <= Len(p) => p[e] = Slash,
           \A j \in i .. e - 1 : p[j] # Slash
    PROVE  EndOf(p, i) = e
<1>1. /\ EndOf(p, i) \in i .. Len(p) + 1
      /\ EndOf(p, i) <= Len(p) => p[EndOf(p, i)] = Slash
      /\ \A j \in i .. EndOf(p, i) - 1 : p[j] # Slash
  BY EndOfIs
<1>. DEFINE d == EndOf(p, i)
<1>2. Len(p) \in Nat /\ d \in Int /\ e \in Int
  BY <1>1
<1>3. ~(d < e)
  <2>1. SUFFICES ASSUME d < e PROVE FALSE
    OBVIOUS
  <2>2. d <= Len(p) /\ d \in i .. e - 1
    BY <2>1, <1>1, <1>2
  <2>. QED
    BY <2>2, <1>1
<1>4. ~(e < d)
  <2>1. SUFFICES ASSUME e < d PROVE FALSE
    OBVIOUS
  <2>2. e <= Len(p) /\ e \in i .. d - 1
    BY <2>1, <1>1, <1>2
  <2>. QED
    BY <2>2, <1>1
<1>. QED
  BY <1>2, <1>3, <1>4

(* From each place of a path the parts to come. *)
Parts(p, f) ==
    \A i \in 1 .. Len(p) + 2 :
        f[i] = IF i > Len(p) THEN <<>> ELSE Part(p, i) \o f[EndOf(p, i) + 1]

LEMMA SplitIs ==
    ASSUME NEW S, NEW p \in Seq(S)
    PROVE  \E f : Parts(p, f) /\ Split(p) = f[1]
<1>. DEFINE n == Len(p)
            Body(f) == [i \in 1 .. Len(p) + 2 |->
                IF i > Len(p) THEN <<>> ELSE Part(p, i) \o f[EndOf(p, i) + 1]]
            piece == [i \in 1 .. n |-> Part(p, i)]
            jump == [i \in 1 .. n |-> EndOf(p, i) + 1]
<1>1. n \in Nat /\ n + 2 \in Nat /\ n < n + 2
  OBVIOUS
<1>2. \A i \in 1 .. n : jump[i] \in i + 1 .. n + 2
  <2>1. ASSUME NEW i \in 1 .. n PROVE jump[i] \in i + 1 .. n + 2
    <3>1. i \in 1 .. Len(p) + 1
      BY <1>1
    <3>2. EndOf(p, i) \in i .. Len(p) + 1
      BY <3>1, EndOfIs
    <3>. QED
      BY <3>2, <1>1
  <2>. QED
    BY <2>1
<1>3. PICK f : f = [i \in 1 .. n + 2 |-> f[i]] /\ Joined(n, n + 2, piece, jump, f, 1)
  <2>. HIDE DEF n, piece, jump
  <2>. QED
    BY <1>1, <1>2, JoinExists
<1>4. ASSUME NEW i \in 1 .. n + 2
      PROVE  f[i] = IF i > n THEN <<>> ELSE Part(p, i) \o f[EndOf(p, i) + 1]
  <2>1. f[i] = IF i > n THEN <<>> ELSE piece[i] \o f[jump[i]]
    <3>. HIDE DEF n, piece, jump
    <3>. QED
      BY <1>3, Zenon DEF Joined
  <2>2. i <= n => piece[i] = Part(p, i) /\ jump[i] = EndOf(p, i) + 1
    BY <1>1
  <2>. QED
    BY <2>1, <2>2, <1>1
<1>5. f = Body(f)
  BY <1>3, <1>4
<1>6. \E g : g = Body(g)
  BY <1>5
<1>. DEFINE h == CHOOSE g : g = Body(g)
<1>7. h = Body(h)
  <2>. HIDE DEF Body
  <2>. QED
    BY <1>6, Zenon
<1>8. Split(p) = h[1]
  BY Zenon DEF Split
<1>. HIDE DEF h
<1>9. Parts(p, h)
  BY <1>7 DEF Parts
<1>. QED
  BY <1>8, <1>9

LEMMA PartTyped ==
    ASSUME NEW S, NEW p \in Seq(S), NEW i \in 1 .. Len(p)
    PROVE  Part(p, i) \in Seq(Seq(S))
<1>1. i \in 1 .. Len(p) + 1
  OBVIOUS
<1>2. EndOf(p, i) \in i .. Len(p) + 1
  BY <1>1, EndOfIs
<1>3. SubSeq(p, i, EndOf(p, i) - 1) \in Seq(S)
  BY <1>2
<1>4. <<>> \in Seq(Seq(S)) /\ <<SubSeq(p, i, EndOf(p, i) - 1)>> \in Seq(Seq(S))
  BY <1>3
<1>. QED
  BY <1>4 DEF Part

LEMMA PartsTyped ==
    ASSUME NEW S, NEW p \in Seq(S), NEW f, Parts(p, f)
    PROVE  \A i \in 1 .. Len(p) + 2 : f[i] \in Seq(Seq(S))
<1>. DEFINE m == Len(p) + 2
            B == {i \in 1 .. m : f[i] \notin Seq(Seq(S))}
<1>1. SUFFICES ASSUME B # {} PROVE FALSE
  OBVIOUS
<1>2. Len(p) \in Nat /\ m \in Nat
  OBVIOUS
<1>3. PICK x \in B : \A y \in B : y <= x
  <2>1. B \subseteq 1 .. m
    OBVIOUS
  <2>. HIDE DEF B, m
  <2>. QED
    BY <1>1, <1>2, <2>1, GreatestNumber
<1>4. f[x] = IF x > Len(p) THEN <<>> ELSE Part(p, x) \o f[EndOf(p, x) + 1]
  BY <1>3 DEF Parts
<1>5. x <= Len(p)
  <2>1. <<>> \in Seq(Seq(S))
    OBVIOUS
  <2>2. x \in Nat /\ f[x] \notin Seq(Seq(S))
    BY <1>3
  <2>3. ~(x > Len(p))
    BY <2>1, <2>2, <1>4, Zenon
  <2>. QED
    BY <2>2, <2>3, <1>2
<1>6. x \in 1 .. Len(p) /\ x \in 1 .. Len(p) + 1
  BY <1>2, <1>3, <1>5
<1>7. EndOf(p, x) \in x .. Len(p) + 1
  BY <1>6, EndOfIs
<1>8. EndOf(p, x) + 1 \in 1 .. m /\ ~(EndOf(p, x) + 1 <= x)
  BY <1>2, <1>6, <1>7
<1>9. f[EndOf(p, x) + 1] \in Seq(Seq(S))
  BY <1>3, <1>8
<1>10. Part(p, x) \in Seq(Seq(S))
  BY <1>6, PartTyped
<1>11. f[x] \in Seq(Seq(S))
  BY <1>2, <1>4, <1>5, <1>6, <1>9, <1>10
<1>. QED
  BY <1>3, <1>11

(* A path and one name more. *)
LEMMA Longer ==
    ASSUME NEW S, NEW p \in Seq(S), NEW n \in Seq(S), Slash \in S, NEW q,
           q = p \o <<Slash>> \o n
    PROVE  /\ q \in Seq(S) /\ Len(q) = Len(p) + 1 + Len(n)
           /\ \A i \in 1 .. Len(p) : q[i] = p[i]
           /\ q[Len(p) + 1] = Slash
           /\ \A j \in 1 .. Len(n) : q[Len(p) + 1 + j] = n[j]
<1>1. p \o <<Slash>> \in Seq(S) /\ Len(p \o <<Slash>>) = Len(p) + 1
  OBVIOUS
<1>2. q \in Seq(S) /\ Len(q) = Len(p) + 1 + Len(n)
  BY <1>1
<1>3. \A i \in 1 .. Len(p) + 1 : q[i] = (p \o <<Slash>>)[i]
  BY <1>1
<1>4. \A i \in 1 .. Len(p) : (p \o <<Slash>>)[i] = p[i]
  OBVIOUS
<1>5. (p \o <<Slash>>)[Len(p) + 1] = Slash
  OBVIOUS
<1>6. ASSUME NEW j \in 1 .. Len(n) PROVE q[Len(p) + 1 + j] = n[j]
  BY <1>1
<1>7. Len(p) \in Nat
  OBVIOUS
<1>. QED
  BY <1>2, <1>3, <1>4, <1>5, <1>6, <1>7

LEMMA EndBefore ==
    ASSUME NEW S, NEW p \in Seq(S), NEW n \in Seq(S), Slash \in S, NEW q,
           q = p \o <<Slash>> \o n, NEW i \in 1 .. Len(p) + 1
    PROVE  /\ EndOf(q, i) = EndOf(p, i)
           /\ Part(q, i) = Part(p, i)
<1>1. /\ q \in Seq(S) /\ Len(q) = Len(p) + 1 + Len(n)
      /\ \A j \in 1 .. Len(p) : q[j] = p[j]
      /\ q[Len(p) + 1] = Slash
  BY Longer
<1>2. /\ EndOf(p, i) \in i .. Len(p) + 1
      /\ EndOf(p, i) <= Len(p) => p[EndOf(p, i)] = Slash
      /\ \A j \in i .. EndOf(p, i) - 1 : p[j] # Slash
  BY EndOfIs
<1>. DEFINE e == EndOf(p, i)
<1>. HIDE DEF e
<1>3. Len(p) \in Nat /\ Len(n) \in Nat /\ e \in i .. Len(p) + 1
  BY <1>2 DEF e
<1>4. i \in 1 .. Len(q) + 1 /\ e \in i .. Len(q) + 1
  BY <1>1, <1>3
<1>5. q[e] = Slash
  <2>1. CASE e = Len(p) + 1
    BY <2>1, <1>1
  <2>2. CASE e # Len(p) + 1
    <3>1. e \in 1 .. Len(p) /\ p[e] = Slash
      BY <2>2, <1>2, <1>3 DEF e
    <3>. QED
      BY <3>1, <1>1
  <2>. QED
    BY <2>1, <2>2
<1>6. \A j \in i .. e - 1 : q[j] # Slash
  <2>1. ASSUME NEW j \in i .. e - 1 PROVE q[j] # Slash
    <3>1. j \in 1 .. Len(p) /\ p[j] # Slash
      BY <1>2, <1>3 DEF e
    <3>. QED
      BY <3>1, <1>1
  <2>. QED
    BY <2>1
<1>7. EndOf(q, i) = e
  BY <1>1, <1>4, <1>5, <1>6, EndOfUnique
<1>8. SubSeq(q, i, e - 1) = SubSeq(p, i, e - 1)
  <2>1. \A j \in i .. e - 1 : q[j] = p[j]
    BY <1>1, <1>3
  <2>. QED
    BY <2>1, <1>1, <1>3, <1>4
<1>. QED
  BY <1>7, <1>8 DEF Part, e

LEMMA LastPart ==
    ASSUME NEW S, NEW p \in Seq(S), NEW n \in Seq(S), Slash \in S, NEW q,
           q = p \o <<Slash>> \o n, n # <<>>, ~Has(n, Slash)
    PROVE  /\ EndOf(q, Len(p) + 2) = Len(q) + 1
           /\ Part(q, Len(p) + 2) = <<n>>
<1>1. /\ q \in Seq(S) /\ Len(q) = Len(p) + 1 + Len(n)
      /\ \A j \in 1 .. Len(n) : q[Len(p) + 1 + j] = n[j]
  BY Longer
<1>2. Len(p) \in Nat /\ Len(n) \in Nat \ {0}
  OBVIOUS
<1>3. \A j \in Len(p) + 2 .. Len(q) : q[j] # Slash
  <2>1. ASSUME NEW j \in Len(p) + 2 .. Len(q) PROVE q[j] # Slash
    <3>1. j - (Len(p) + 1) \in 1 .. Len(n) /\ Len(p) + 1 + (j - (Len(p) + 1)) = j
      BY <1>1, <1>2
    <3>2. q[j] = n[j - (Len(p) + 1)]
      BY <3>1, <1>1
    <3>. QED
      BY <3>1, <3>2 DEF Has
  <2>. QED
    BY <2>1
<1>4. /\ Len(p) + 2 \in 1 .. Len(q) + 1 /\ Len(q) + 1 \in Len(p) + 2 .. Len(q) + 1
      /\ ~(Len(q) + 1 <= Len(q)) /\ (Len(q) + 1) - 1 = Len(q)
  BY <1>1, <1>2
<1>5. EndOf(q, Len(p) + 2) = Len(q) + 1
  BY <1>1, <1>3, <1>4, EndOfUnique, Zenon
<1>6. SubSeq(q, Len(p) + 2, Len(q)) = n
  <2>1. SubSeq(q, Len(p) + 2, Len(q)) \in Seq(S)
    BY <1>1, <1>4
  <2>2. Len(SubSeq(q, Len(p) + 2, Len(q))) = Len(n)
    BY <1>1, <1>2
  <2>3. ASSUME NEW j \in 1 .. Len(n) PROVE SubSeq(q, Len(p) + 2, Len(q))[j] = n[j]
    <3>1. SubSeq(q, Len(p) + 2, Len(q))[j] = q[Len(p) + 2 + j - 1]
      BY <1>1, <1>2
    <3>2. Len(p) + 2 + j - 1 = Len(p) + 1 + j
      BY <1>2
    <3>. QED
      BY <3>1, <3>2, <1>1
  <2>. QED
    BY <2>1, <2>2, <2>3
<1>7. Len(q) + 1 > Len(p) + 2
  BY <1>1, <1>2
<1>. QED
  BY <1>4, <1>5, <1>6, <1>7 DEF Part

(* split_path takes the name off the end of the path that was made with it. *)
LEMMA SplitLonger ==
    ASSUME NEW S, NEW p \in Seq(S), NEW n \in Seq(S), Slash \in S, NEW q,
           q = p \o <<Slash>> \o n, n # <<>>, ~Has(n, Slash)
    PROVE  Split(q) = Append(Split(p), n) /\ Split(p) \in Seq(Seq(S))
<1>1. q \in Seq(S) /\ Len(q) = Len(p) + 1 + Len(n) /\ q[Len(p) + 1] = Slash
  BY Longer
<1>2. Len(p) \in Nat /\ Len(n) \in Nat \ {0}
  OBVIOUS
<1>3. PICK f : Parts(p, f) /\ Split(p) = f[1]
  BY SplitIs
<1>4. PICK g : Parts(q, g) /\ Split(q) = g[1]
  BY <1>1, SplitIs
<1>5. \A i \in 1 .. Len(p) + 2 : f[i] \in Seq(Seq(S))
  BY <1>3, PartsTyped
<1>6. g[Len(p) + 2] = <<n>>
  <2>1. /\ EndOf(q, Len(p) + 2) = Len(q) + 1
        /\ Part(q, Len(p) + 2) = <<n>>
    BY LastPart
  <2>2. /\ Len(p) + 2 \in 1 .. Len(q) + 2 /\ ~(Len(p) + 2 > Len(q))
        /\ Len(q) + 2 \in 1 .. Len(q) + 2 /\ Len(q) + 2 > Len(q)
        /\ (Len(q) + 1) + 1 = Len(q) + 2
    BY <1>1, <1>2
  <2>3. g[Len(q) + 2] = <<>>
    BY <1>4, <2>2 DEF Parts
  <2>4. g[Len(p) + 2] = Part(q, Len(p) + 2) \o g[EndOf(q, Len(p) + 2) + 1]
    BY <1>4, <2>2 DEF Parts
  <2>5. g[Len(p) + 2] = <<n>> \o <<>>
    BY <2>1, <2>2, <2>3, <2>4
  <2>6. <<n>> \o <<>> = <<n>>
    OBVIOUS
  <2>. QED
    BY <2>5, <2>6
<1>. DEFINE B == {i \in 1 .. Len(p) + 2 : g[i] # f[i] \o <<n>>}
<1>7. B = {}
  <2>1. SUFFICES ASSUME B # {} PROVE FALSE
    OBVIOUS
  <2>2. PICK x \in B : \A y \in B : y <= x
    <3>1. B \subseteq 1 .. Len(p) + 2 /\ Len(p) + 2 \in Nat
      BY <1>2
    <3>. HIDE DEF B
    <3>. QED
      BY <2>1, <3>1, GreatestNumber
  <2>3. x \in 1 .. Len(p) + 2 /\ g[x] # f[x] \o <<n>>
    BY <2>2
  <2>4. CASE x = Len(p) + 2
    <3>1. f[x] = <<>>
      <4>1. x > Len(p)
        BY <1>2, <2>4
      <4>. QED
        BY <1>3, <2>3, <4>1, Zenon DEF Parts
    <3>2. <<>> \o <<n>> = <<n>>
      OBVIOUS
    <3>. QED
      BY <1>6, <2>3, <2>4, <3>1, <3>2
  <2>5. CASE x # Len(p) + 2
    <3>1. /\ x \in 1 .. Len(p) + 1 /\ x \in 1 .. Len(q) + 2 /\ ~(x > Len(q))
      BY <1>1, <1>2, <2>3, <2>5
    <3>2. EndOf(q, x) = EndOf(p, x) /\ Part(q, x) = Part(p, x)
      BY <3>1, EndBefore
    <3>3. EndOf(p, x) \in x .. Len(p) + 1
      BY <3>1, EndOfIs
    <3>4. EndOf(p, x) + 1 \in 1 .. Len(p) + 2 /\ ~(EndOf(p, x) + 1 <= x)
      BY <1>2, <3>1, <3>3
    <3>5. g[EndOf(p, x) + 1] = f[EndOf(p, x) + 1] \o <<n>>
      BY <2>2, <3>4
    <3>6. g[x] = Part(p, x) \o g[EndOf(p, x) + 1]
      BY <1>4, <3>1, <3>2 DEF Parts
    <3>7. f[EndOf(p, x) + 1] \in Seq(Seq(S))
      BY <1>5, <3>4, SMTT(30)
    <3>8. CASE x <= Len(p)
      <4>1. x \in 1 .. Len(p) /\ ~(x > Len(p))
        BY <1>2, <2>3, <3>8
      <4>2. f[x] = Part(p, x) \o f[EndOf(p, x) + 1]
        BY <1>3, <2>3, <4>1 DEF Parts
      <4>3. Part(p, x) \in Seq(Seq(S))
        BY <4>1, PartTyped
      <4>4. \A a, b \in Seq(Seq(S)) : a \o (b \o <<n>>) = (a \o b) \o <<n>>
        BY SMTT(30)
      <4>. QED
        BY <2>3, <3>5, <3>6, <3>7, <4>2, <4>3, <4>4
    <3>9. CASE ~(x <= Len(p))
      <4>1. x = Len(p) + 1
        BY <1>2, <3>1, <3>9
      <4>2. EndOf(p, x) = x /\ EndOf(p, x) + 1 = Len(p) + 2
        BY <1>2, <3>3, <4>1
      <4>3. Part(p, x) = <<>>
        BY <1>2, <4>1, <4>2 DEF Part
      <4>4. f[x] = <<>>
        <5>1. x > Len(p)
          BY <1>2, <4>1
        <5>. QED
          BY <1>3, <2>3, <5>1, Zenon DEF Parts
      <4>5. g[x] = <<>> \o <<n>>
        BY <3>6, <4>2, <4>3, <1>6
      <4>. QED
        BY <2>3, <4>4, <4>5
    <3>. QED
      BY <3>8, <3>9
  <2>. QED
    BY <2>4, <2>5
<1>8. 1 \in 1 .. Len(p) + 2
  BY <1>2
<1>9. g[1] = f[1] \o <<n>> /\ f[1] \in Seq(Seq(S))
  BY <1>5, <1>7, <1>8
<1>10. \A a \in Seq(Seq(S)) : a \o <<n>> = Append(a, n)
  OBVIOUS
<1>. QED
  BY <1>3, <1>4, <1>9, <1>10

LEMMA SplitRoot == Split(<<Slash>>) = Split(<<>>)
<1>1. <<Slash>> \in Seq({Slash}) /\ <<>> \in Seq({Slash})
  OBVIOUS
<1>2. PICK f : Parts(<<Slash>>, f) /\ Split(<<Slash>>) = f[1]
  BY <1>1, SplitIs
<1>3. PICK g : Parts(<<>>, g) /\ Split(<<>>) = g[1]
  BY <1>1, SplitIs
<1>4. g[1] = <<>>
  BY <1>3 DEF Parts
<1>5. EndOf(<<Slash>>, 1) = 1
  <2>1. Len(<<Slash>>) = 1 /\ <<Slash>>[1] = Slash
    OBVIOUS
  <2>2. 1 \in 1 .. Len(<<Slash>>) + 1
    BY <2>1
  <2>3. \A j \in 1 .. 1 - 1 : <<Slash>>[j] # Slash
    OBVIOUS
  <2>. QED
    BY <1>1, <2>1, <2>2, <2>3, EndOfUnique
<1>6. Part(<<Slash>>, 1) = <<>>
  BY <1>5 DEF Part
<1>7. f[2] = <<>> /\ f[1] = Part(<<Slash>>, 1) \o f[EndOf(<<Slash>>, 1) + 1]
  <2>1. Len(<<Slash>>) = 1
    OBVIOUS
  <2>2. /\ 1 \in 1 .. Len(<<Slash>>) + 2 /\ 2 \in 1 .. Len(<<Slash>>) + 2
        /\ 2 > Len(<<Slash>>) /\ ~(1 > Len(<<Slash>>))
    BY <2>1
  <2>. QED
    BY <1>2, <2>2 DEF Parts
<1>8. f[1] = <<>> \o <<>>
  BY <1>5, <1>6, <1>7
<1>. QED
  BY <1>2, <1>3, <1>4, <1>8

-----------------------------------------------------------------------------
(* Names: what a decoder of UTF-8 reads *)

LEMMA WidthIs == \A b \in Nat : Width(b) \in 1 .. 4
  BY DEF Width

LEMMA UnitsTyped ==
    ASSUME NEW c \in Int
    PROVE  Units(c) \in Seq(Int)
<1>1. CASE c < 65536
  <2>1. Units(c) = <<c>>
    BY <1>1, SMT DEF Units
  <2>2. <<c>> \in Seq(Int)
    OBVIOUS
  <2>. QED
    BY <2>1, <2>2
<1>2. CASE ~(c < 65536)
  <2>1. PICK a \in Int, b \in Int : a = 55296 + ((c - 65536) \div 1024)
                                 /\ b = 56320 + ((c - 65536) % 1024)
    BY SMT
  <2>2. Units(c) = <<a, b>>
    BY <1>2, <2>1, SMT DEF Units
  <2>3. <<a, b>> \in Seq(Int)
    OBVIOUS
  <2>. QED
    BY <2>2, <2>3
<1>. QED
  BY <1>1, <1>2

(* From each place of a text the units to come. *)
Reading(s, f) ==
    \A i \in 1 .. Len(s) + 4 :
        f[i] = IF i > Len(s) THEN <<>> ELSE UnitsAt(s, i) \o f[i + Width(s[i])]

LEMMA ReadIs ==
    ASSUME NEW s \in Seq(Nat)
    PROVE  \E f : Reading(s, f) /\ Read(s) = f[1]
<1>. DEFINE n == Len(s)
            Body(f) == [i \in 1 .. Len(s) + 4 |->
                IF i > Len(s) THEN <<>> ELSE UnitsAt(s, i) \o f[i + Width(s[i])]]
            piece == [i \in 1 .. n |-> UnitsAt(s, i)]
            jump == [i \in 1 .. n |-> i + Width(s[i])]
<1>1. n \in Nat /\ n + 4 \in Nat /\ n < n + 4
  OBVIOUS
<1>2. \A i \in 1 .. n : jump[i] \in i + 1 .. n + 4
  <2>1. ASSUME NEW i \in 1 .. n PROVE jump[i] \in i + 1 .. n + 4
    <3>1. s[i] \in Nat
      OBVIOUS
    <3>2. Width(s[i]) \in 1 .. 4
      BY <3>1, WidthIs
    <3>3. i + Width(s[i]) \in i + 1 .. n + 4
      BY <3>2, <1>1
    <3>4. jump[i] = i + Width(s[i])
      BY <1>1
    <3>. HIDE DEF jump, n
    <3>. QED
      BY <3>3, <3>4
  <2>. QED
    BY <2>1
<1>3. PICK f : f = [i \in 1 .. n + 4 |-> f[i]] /\ Joined(n, n + 4, piece, jump, f, 1)
  <2>. HIDE DEF n, piece, jump
  <2>. QED
    BY <1>1, <1>2, JoinExists
<1>4. ASSUME NEW i \in 1 .. n + 4
      PROVE  f[i] = IF i > n THEN <<>> ELSE UnitsAt(s, i) \o f[i + Width(s[i])]
  <2>1. f[i] = IF i > n THEN <<>> ELSE piece[i] \o f[jump[i]]
    <3>. HIDE DEF n, piece, jump
    <3>. QED
      BY <1>3, Zenon DEF Joined
  <2>2. i <= n => piece[i] = UnitsAt(s, i) /\ jump[i] = i + Width(s[i])
    BY <1>1
  <2>. QED
    BY <2>1, <2>2, <1>1
<1>5. f = Body(f)
  BY <1>3, <1>4
<1>6. \E g : g = Body(g)
  BY <1>5
<1>. DEFINE h == CHOOSE g : g = Body(g)
<1>7. h = Body(h)
  <2>. HIDE DEF Body
  <2>. QED
    BY <1>6, Zenon
<1>8. Read(s) = h[1]
  BY Zenon DEF Read
<1>. HIDE DEF h
<1>9. Reading(s, h)
  BY <1>7 DEF Reading
<1>. QED
  BY <1>8, <1>9

(* A whole text: the places B at which its characters start lead to its end. *)
Starts(s, B) ==
    /\ B \subseteq 1 .. Len(s) + 1
    /\ 1 \in B /\ Len(s) + 1 \in B
    /\ \A i \in B : i <= Len(s) => i + Width(s[i]) \in B

(* CharAt as a function of the bytes. *)
CharOf(w, a, b, c, d) ==
    IF w = 1 THEN a
    ELSE IF w = 2 THEN (a - 192) * 64 + (b - 128)
    ELSE IF w = 3 THEN (a - 224) * 4096 + (b - 128) * 64 + (c - 128)
    ELSE (a - 240) * 262144 + (b - 128) * 4096 + (c - 128) * 64 + (d - 128)

LEMMA CharAtIs ==
    ASSUME NEW s, NEW i
    PROVE  CharAt(s, i) = CharOf(Width(s[i]), s[i], s[i + 1], s[i + 2], s[i + 3])
  BY SMT DEF CharAt, CharOf

LEMMA CharOfTyped ==
    ASSUME NEW w \in 1 .. 4, NEW a \in Nat, NEW b, NEW c, NEW d,
           w > 1 => b \in Nat, w > 2 => c \in Nat, w > 3 => d \in Nat
    PROVE  CharOf(w, a, b, c, d) \in Int
<1>1. CASE w = 1
  BY <1>1, SMT DEF CharOf
<1>2. CASE w = 2
  BY <1>2, SMT DEF CharOf
<1>3. CASE w = 3
  BY <1>3, SMT DEF CharOf
<1>4. CASE w = 4
  BY <1>4, SMT DEF CharOf
<1>. QED
  BY <1>1, <1>2, <1>3, <1>4

LEMMA CharOfLocal ==
    ASSUME NEW w \in 1 .. 4, NEW a, NEW b, NEW c, NEW d, NEW x, NEW y, NEW z,
           w > 1 => b = x, w > 2 => c = y, w > 3 => d = z
    PROVE  CharOf(w, a, b, c, d) = CharOf(w, a, x, y, z)
<1>1. CASE w = 1
  BY <1>1, SMT DEF CharOf
<1>2. CASE w = 2
  BY <1>2, SMT DEF CharOf
<1>3. CASE w = 3
  BY <1>3, SMT DEF CharOf
<1>4. CASE w = 4
  BY <1>4, SMT DEF CharOf
<1>. QED
  BY <1>1, <1>2, <1>3, <1>4

LEMMA CharTyped ==
    ASSUME NEW s \in Seq(Nat), NEW i \in 1 .. Len(s)
    PROVE  UnitsAt(s, i) \in Seq(Int)
<1>1. s[i] \in Nat
  OBVIOUS
<1>2. PICK w \in 1 .. 4 : w = Width(s[i])
  BY <1>1, WidthIs
<1>3. CASE Formed(s, i)
  <2>1. i + w <= Len(s) + 1
    BY <1>2, <1>3, Zenon DEF Formed
  <2>2. ASSUME NEW k \in 1 .. 3, w > k PROVE s[i + k] \in Nat
    <3>1. i + k \in 1 .. Len(s)
      BY <2>1, <2>2
    <3>. QED
      BY <3>1
  <2>3. /\ w > 1 => s[i + 1] \in Nat
        /\ w > 2 => s[i + 2] \in Nat
        /\ w > 3 => s[i + 3] \in Nat
    BY <2>2
  <2>4. CharAt(s, i) \in Int
    BY <1>1, <1>2, <2>3, CharAtIs, CharOfTyped
  <2>5. Units(CharAt(s, i)) \in Seq(Int)
    BY <2>4, UnitsTyped
  <2>. QED
    BY <1>3, <2>5, Zenon DEF UnitsAt
<1>4. CASE ~Formed(s, i)
  <2>1. <<-1>> \in Seq(Int)
    OBVIOUS
  <2>. QED
    BY <1>4, <2>1, Zenon DEF UnitsAt
<1>. QED
  BY <1>3, <1>4

(* A character depends on its own bytes only. *)
LEMMA CharLocal ==
    ASSUME NEW s \in Seq(Nat), NEW q \in Seq(Nat), NEW i \in 1 .. Len(s),
           NEW j \in 1 .. Len(q), i + Width(s[i]) <= Len(s) + 1,
           j + Width(s[i]) <= Len(q) + 1,
           \A k \in 0 .. Width(s[i]) - 1 : q[j + k] = s[i + k]
    PROVE  UnitsAt(q, j) = UnitsAt(s, i) /\ Width(q[j]) = Width(s[i])
<1>1. s[i] \in Nat
  OBVIOUS
<1>2. PICK w \in 1 .. 4 : w = Width(s[i])
  BY <1>1, WidthIs
<1>3. \A k \in 0 .. 3 : w > k => q[j + k] = s[i + k]
  <2>1. \A k \in 0 .. w - 1 : q[j + k] = s[i + k]
    BY <1>2, Zenon
  <2>2. \A k \in 0 .. 3 : w > k => k \in 0 .. w - 1
    OBVIOUS
  <2>. QED
    BY <2>1, <2>2, Zenon
<1>4. /\ w > 1 => q[j + 1] = s[i + 1]
      /\ w > 2 => q[j + 2] = s[i + 2]
      /\ w > 3 => q[j + 3] = s[i + 3]
  BY <1>3
<1>5. q[j] = s[i]
  <2>1. q[j + 0] = s[i + 0]
    BY <1>3
  <2>2. j + 0 = j /\ i + 0 = i
    OBVIOUS
  <2>. QED
    BY <2>1, <2>2
<1>6. CharAt(q, j) = CharOf(w, s[i], q[j + 1], q[j + 2], q[j + 3])
  BY <1>2, <1>5, CharAtIs
<1>7. CharAt(s, i) = CharOf(w, s[i], s[i + 1], s[i + 2], s[i + 3])
  BY <1>2, CharAtIs
<1>8. CharAt(q, j) = CharAt(s, i)
  <2>1. PICK a, b, c, d, x, y, z :
            /\ a = s[i]
            /\ b = q[j + 1] /\ c = q[j + 2] /\ d = q[j + 3]
            /\ x = s[i + 1] /\ y = s[i + 2] /\ z = s[i + 3]
    OBVIOUS
  <2>2. (w > 1 => b = x) /\ (w > 2 => c = y) /\ (w > 3 => d = z)
    BY <1>4, <2>1, Zenon
  <2>3. CharOf(w, a, b, c, d) = CharOf(w, a, x, y, z)
    BY <2>2, CharOfLocal
  <2>. QED
    BY <1>6, <1>7, <2>1, <2>3, Zenon
<1>9. Width(q[j]) = Width(s[i])
  BY <1>5, Zenon
<1>10. Formed(q, j) <=> Formed(s, i)
  <2>1. \A k \in 1 .. Width(s[i]) - 1 : q[j + k] = s[i + k]
    <3>1. \A k \in 1 .. w - 1 : k \in 0 .. w - 1
      OBVIOUS
    <3>. QED
      BY <1>2, <3>1, Zenon
  <2>. QED
    BY <1>8, <1>9, <2>1, Zenon DEF Formed
<1>. QED
  BY <1>8, <1>9, <1>10, Zenon DEF UnitsAt

LEMMA NextStart ==
    ASSUME NEW s \in Seq(Nat), NEW B, Starts(s, B), NEW i \in B, i <= Len(s)
    PROVE  /\ i \in 1 .. Len(s) /\ i + Width(s[i]) \in B
           /\ \E w \in 1 .. 4 : w = Width(s[i]) /\ i + w <= Len(s) + 1
<1>1. i + Width(s[i]) \in B /\ B \subseteq 1 .. Len(s) + 1
  BY Zenon DEF Starts
<1>2. i \in 1 .. Len(s) + 1
  BY <1>1, Zenon
<1>3. i \in 1 .. Len(s) /\ Len(s) \in Nat
  BY <1>2
<1>4. s[i] \in Nat
  BY <1>3
<1>5. PICK w \in 1 .. 4 : w = Width(s[i])
  BY <1>4, WidthIs
<1>6. i + w \in 1 .. Len(s) + 1
  BY <1>1, <1>5, Zenon
<1>7. i + w <= Len(s) + 1
  BY <1>3, <1>5, <1>6
<1>. QED
  BY <1>1, <1>3, <1>5, <1>7, Zenon

LEMMA ReadTyped ==
    ASSUME NEW s \in Seq(Nat), NEW f, Reading(s, f)
    PROVE  \A i \in 1 .. Len(s) + 4 : f[i] \in Seq(Int)
<1>. DEFINE m == Len(s) + 4
            C == {i \in 1 .. m : f[i] \notin Seq(Int)}
<1>1. SUFFICES ASSUME C # {} PROVE FALSE
  OBVIOUS
<1>2. Len(s) \in Nat /\ m \in Nat
  OBVIOUS
<1>3. PICK x \in C : \A y \in C : y <= x
  <2>1. C \subseteq 1 .. m
    OBVIOUS
  <2>. HIDE DEF C, m
  <2>. QED
    BY <1>1, <1>2, <2>1, GreatestNumber
<1>4. x \in 1 .. Len(s) + 4 /\ f[x] \notin Seq(Int)
  BY <1>3
<1>5. f[x] = IF x > Len(s) THEN <<>> ELSE UnitsAt(s, x) \o f[x + Width(s[x])]
  BY <1>4, Zenon DEF Reading
<1>6. ~(x > Len(s))
  <2>1. <<>> \in Seq(Int)
    OBVIOUS
  <2>. QED
    BY <2>1, <1>4, <1>5, Zenon
<1>7. x \in 1 .. Len(s)
  BY <1>2, <1>4, <1>6
<1>8. s[x] \in Nat
  BY <1>7
<1>9. PICK w \in 1 .. 4 : w = Width(s[x])
  BY <1>8, WidthIs
<1>10. x + w \in 1 .. m /\ ~(x + w <= x)
  BY <1>7, <1>9
<1>11. f[x + w] \in Seq(Int)
  BY <1>3, <1>10
<1>12. UnitsAt(s, x) \in Seq(Int)
  BY <1>7, CharTyped
<1>13. f[x] = UnitsAt(s, x) \o f[x + w]
  BY <1>5, <1>6, <1>9, Zenon
<1>. QED
  BY <1>4, <1>11, <1>12, <1>13

LEMMA HasJoined ==
    ASSUME NEW S, NEW a \in Seq(S), NEW b \in Seq(S), NEW x
    PROVE  Has(a \o b, x) <=> Has(a, x) \/ Has(b, x)
<1>. DEFINE q == a \o b
<1>1. /\ DOMAIN a = 1 .. Len(a) /\ DOMAIN b = 1 .. Len(b) /\ DOMAIN q = 1 .. Len(a) + Len(b)
      /\ Len(a) \in Nat /\ Len(b) \in Nat
      /\ \A i \in 1 .. Len(a) : q[i] = a[i]
      /\ \A i \in 1 .. Len(b) : q[Len(a) + i] = b[i]
  OBVIOUS
<1>. HIDE DEF q
<1>2. ASSUME NEW i \in DOMAIN q, q[i] = x PROVE Has(a, x) \/ Has(b, x)
  <2>1. CASE i <= Len(a)
    <3>1. i \in 1 .. Len(a)
      BY <1>1, <2>1
    <3>. QED
      BY <1>1, <1>2, <3>1 DEF Has
  <2>2. CASE ~(i <= Len(a))
    <3>1. PICK k \in 1 .. Len(b) : i = Len(a) + k
      <4>1. i - Len(a) \in 1 .. Len(b) /\ i = Len(a) + (i - Len(a))
        BY <1>1, <2>2
      <4>. QED
        BY <4>1
    <3>. QED
      BY <1>1, <1>2, <3>1 DEF Has
  <2>. QED
    BY <2>1, <2>2
<1>3. ASSUME NEW i \in DOMAIN a, a[i] = x PROVE Has(q, x)
  <2>1. i \in DOMAIN q
    BY <1>1
  <2>. QED
    BY <1>1, <1>3, <2>1 DEF Has
<1>4. ASSUME NEW i \in DOMAIN b, b[i] = x PROVE Has(q, x)
  <2>1. Len(a) + i \in DOMAIN q
    BY <1>1
  <2>. QED
    BY <1>1, <1>4, <2>1 DEF Has
<1>5. Has(q, x) <=> Has(a, x) \/ Has(b, x)
  BY <1>2, <1>3, <1>4, Zenon DEF Has
<1>. QED
  BY <1>5 DEF q

LEMMA ConcatThree ==
    ASSUME NEW S, NEW a \in Seq(S), NEW b \in Seq(S), NEW c \in Seq(S)
    PROVE  a \o (b \o c) = (a \o b) \o c
  OBVIOUS

LEMMA ConcatUnits ==
    ASSUME NEW a \in Seq(Int), NEW b \in Seq(Int), NEW c \in Seq(Int)
    PROVE  a \o (b \o c) = (a \o b) \o c
  BY ConcatThree, SMTT(30)

LEMMA Further ==
    \A n, x \in Nat, w \in 1 .. 4 : n + x + w = n + (x + w) /\ ~(x + w <= x)
  BY SMT

(* A text behind another: the characters of each. *)
LEMMA ReadJoined ==
    ASSUME NEW s \in Seq(Nat), NEW B, Starts(s, B), NEW e \in Seq(Nat), NEW D, Starts(e, D)
    PROVE  /\ Read(s \o e) = Read(s) \o Read(e)
           /\ \E C : Starts(s \o e, C)
           /\ Read(s) \in Seq(Int) /\ Read(e) \in Seq(Int)
<1>. DEFINE q == s \o e
            n == Len(s)
            m == Len(e)
<1>1. /\ q = s \o e /\ q \in Seq(Nat)
      /\ n = Len(s) /\ n \in Nat /\ m = Len(e) /\ m \in Nat /\ Len(q) = n + m
      /\ \A i \in 1 .. n : q[i] = s[i]
      /\ \A i \in 1 .. m : q[n + i] = e[i]
  OBVIOUS
<1>. HIDE DEF q, n, m
<1>2. /\ B \subseteq 1 .. n + 1 /\ 1 \in B /\ n + 1 \in B
      /\ D \subseteq 1 .. m + 1 /\ 1 \in D /\ m + 1 \in D
  BY <1>1, Zenon DEF Starts
<1>3. ASSUME NEW i \in B, i <= n
      PROVE  \E w \in 1 .. 4 : /\ w = Width(s[i]) /\ w = Width(q[i])
                              /\ i + w \in B /\ i \in 1 .. n
                              /\ UnitsAt(q, i) = UnitsAt(s, i)
                              /\ UnitsAt(s, i) \in Seq(Int)
  <2>1. i <= Len(s)
    BY <1>1, <1>3, Zenon
  <2>2. /\ i \in 1 .. Len(s) /\ i + Width(s[i]) \in B
        /\ \E w \in 1 .. 4 : w = Width(s[i]) /\ i + w <= Len(s) + 1
    BY <2>1, NextStart
  <2>3. PICK w \in 1 .. 4 : w = Width(s[i]) /\ i + w <= Len(s) + 1
    BY <2>2
  <2>4. i + w <= Len(q) + 1 /\ i \in 1 .. Len(q)
    BY <1>1, <2>2, <2>3
  <2>5. i + Width(s[i]) <= Len(s) + 1 /\ i + Width(s[i]) <= Len(q) + 1
    BY <2>3, <2>4, Zenon
  <2>6. \A k \in 0 .. Width(s[i]) - 1 : q[i + k] = s[i + k]
    <3>1. ASSUME NEW k \in 0 .. w - 1 PROVE q[i + k] = s[i + k]
      <4>0. n \in Nat /\ i \in 1 .. n /\ i + w <= n + 1
        BY <1>1, <2>2, <2>3
      <4>1. i + k \in 1 .. n
        BY <4>0
      <4>. QED
        BY <1>1, <4>1
    <3>. QED
      BY <2>3, <3>1, Zenon
  <2>7. UnitsAt(q, i) = UnitsAt(s, i) /\ Width(q[i]) = Width(s[i])
    BY <1>1, <2>2, <2>4, <2>5, <2>6, CharLocal, Zenon
  <2>8. UnitsAt(s, i) \in Seq(Int)
    BY <2>2, CharTyped
  <2>9. i + w \in B /\ i \in 1 .. n
    BY <1>1, <2>2, <2>3, Zenon
  <2>. QED
    BY <2>3, <2>7, <2>8, <2>9, Zenon
<1>4. ASSUME NEW i \in D, i <= m
      PROVE  \E w \in 1 .. 4 : /\ w = Width(e[i]) /\ w = Width(q[n + i])
                              /\ i + w \in D /\ i \in 1 .. m
                              /\ UnitsAt(q, n + i) = UnitsAt(e, i)
  <2>1. i <= Len(e)
    BY <1>1, <1>4, Zenon
  <2>2. /\ i \in 1 .. Len(e) /\ i + Width(e[i]) \in D
        /\ \E w \in 1 .. 4 : w = Width(e[i]) /\ i + w <= Len(e) + 1
    BY <2>1, NextStart
  <2>3. PICK w \in 1 .. 4 : w = Width(e[i]) /\ i + w <= Len(e) + 1
    BY <2>2
  <2>4. n + i + w <= Len(q) + 1 /\ n + i \in 1 .. Len(q)
    BY <1>1, <2>2, <2>3
  <2>5. i + Width(e[i]) <= Len(e) + 1 /\ n + i + Width(e[i]) <= Len(q) + 1
    BY <2>3, <2>4, Zenon
  <2>6. \A k \in 0 .. Width(e[i]) - 1 : q[n + i + k] = e[i + k]
    <3>1. ASSUME NEW k \in 0 .. w - 1 PROVE q[n + i + k] = e[i + k]
      <4>1. i + k \in 1 .. m /\ n + i + k = n + (i + k)
        BY <1>1, <2>2, <2>3
      <4>2. q[n + (i + k)] = e[i + k]
        BY <1>1, <4>1, Zenon
      <4>. QED
        BY <4>1, <4>2, Zenon
    <3>. QED
      BY <2>3, <3>1, Zenon
  <2>7. UnitsAt(q, n + i) = UnitsAt(e, i) /\ Width(q[n + i]) = Width(e[i])
    BY <1>1, <2>2, <2>4, <2>5, <2>6, CharLocal, Zenon
  <2>8. i + w \in D /\ i \in 1 .. m
    BY <1>1, <2>2, <2>3, Zenon
  <2>. QED
    BY <2>3, <2>7, <2>8, Zenon
<1>5. \E C : Starts(q, C)
  <2>. DEFINE C == B \cup {n + i : i \in D}
  <2>1. \A i \in D : n + i \in C
    OBVIOUS
  <2>2. C \subseteq 1 .. Len(q) + 1
    <3>1. \A i \in B : i \in 1 .. Len(q) + 1
      <4>1. \A i \in 1 .. n + 1 : i \in 1 .. n + m + 1
        BY <1>1
      <4>. QED
        BY <1>1, <1>2, <4>1, Zenon
    <3>2. \A i \in D : n + i \in 1 .. Len(q) + 1
      <4>1. \A i \in 1 .. m + 1 : n + i \in 1 .. n + m + 1
        BY <1>1
      <4>. QED
        BY <1>1, <1>2, <4>1, Zenon
    <3>. QED
      BY <3>1, <3>2
  <2>3. 1 \in C /\ Len(q) + 1 \in C
    <3>1. n + (m + 1) = Len(q) + 1
      BY <1>1
    <3>2. n + (m + 1) \in C
      BY <1>2, <2>1
    <3>. QED
      BY <1>2, <3>1, <3>2
  <2>4. ASSUME NEW j \in C, j <= Len(q) PROVE j + Width(q[j]) \in C
    <3>1. CASE j \in B /\ j <= n
      <4>1. PICK w \in 1 .. 4 : w = Width(q[j]) /\ j + w \in B
        BY <1>3, <3>1
      <4>. QED
        BY <4>1
    <3>2. CASE ~(j \in B /\ j <= n)
      <4>1. PICK i \in D : j = n + i
        <5>1. CASE j \in B
          <6>1. j \in 1 .. n + 1 /\ ~(j <= n)
            BY <1>2, <3>2, <5>1, Zenon
          <6>2. j = n + 1
            BY <1>1, <6>1
          <6>. QED
            BY <1>2, <6>2
        <5>2. CASE j \notin B
          BY <5>2
        <5>. QED
          BY <5>1, <5>2
      <4>2. i <= m
        <5>1. i \in 1 .. m + 1
          BY <1>2
        <5>. QED
          BY <1>1, <2>4, <4>1, <5>1
      <4>3. PICK w \in 1 .. 4 : w = Width(q[n + i]) /\ i + w \in D /\ i \in 1 .. m
        BY <1>4, <4>2
      <4>4. n + i + w = n + (i + w)
        <5>1. n \in Nat /\ i \in Nat
          BY <1>1, <4>3
        <5>. QED
          BY <5>1
      <4>5. j + Width(q[j]) = n + (i + w)
        BY <4>1, <4>3, <4>4, Zenon
      <4>. QED
        BY <2>1, <4>3, <4>5, Zenon
    <3>. QED
      BY <3>1, <3>2
  <2>5. Starts(q, C)
    <3>. HIDE DEF C
    <3>. QED
      BY <2>2, <2>3, <2>4, Zenon DEF Starts
  <2>. QED
    BY <2>5, Zenon
<1>6. PICK f : Reading(s, f) /\ Read(s) = f[1]
  BY ReadIs
<1>7. PICK h : Reading(e, h) /\ Read(e) = h[1]
  BY ReadIs
<1>8. PICK g : Reading(q, g) /\ Read(q) = g[1]
  BY <1>1, ReadIs
<1>9. /\ \A i \in 1 .. n + 4 : f[i] \in Seq(Int)
      /\ \A i \in 1 .. m + 4 : h[i] \in Seq(Int)
  BY <1>1, <1>6, <1>7, ReadTyped, Zenon
<1>10. f[1] \in Seq(Int) /\ h[1] \in Seq(Int)
  <2>1. 1 \in 1 .. n + 4 /\ 1 \in 1 .. m + 4
    BY <1>1
  <2>. QED
    BY <1>9, <2>1, Zenon
<1>. DEFINE late == {i \in D : g[n + i] # h[i]}
<1>11. late = {}
  <2>1. SUFFICES ASSUME late # {} PROVE FALSE
    OBVIOUS
  <2>2. PICK x \in late : \A y \in late : y <= x
    <3>1. late \subseteq 1 .. m + 1
      BY <1>2
    <3>2. m + 1 \in Nat
      <4>1. m \in Nat
        BY <1>1
      <4>. QED
        BY <4>1
    <3>. HIDE DEF late
    <3>. QED
      BY <2>1, <3>1, <3>2, GreatestNumber
  <2>3. x \in D /\ x \in 1 .. m + 1 /\ g[n + x] # h[x]
    BY <1>2, <2>2
  <2>4. CASE x = m + 1
    <3>1. /\ n + x \in 1 .. Len(q) + 4 /\ n + x > Len(q)
          /\ x \in 1 .. Len(e) + 4 /\ x > Len(e)
      BY <1>1, <2>4
    <3>2. g[n + x] = <<>> /\ h[x] = <<>>
      BY <1>7, <1>8, <3>1, Zenon DEF Reading
    <3>. QED
      BY <2>3, <3>2
  <2>5. CASE x # m + 1
    <3>1. /\ x <= m /\ n + x \in 1 .. Len(q) + 4 /\ ~(n + x > Len(q))
          /\ x \in 1 .. Len(e) + 4 /\ ~(x > Len(e))
      BY <1>1, <2>3, <2>5
    <3>2. PICK w \in 1 .. 4 : /\ w = Width(e[x]) /\ w = Width(q[n + x])
                               /\ x + w \in D /\ x \in 1 .. m
                               /\ UnitsAt(q, n + x) = UnitsAt(e, x)
      BY <1>4, <2>3, <3>1, Zenon
    <3>3. h[x] = UnitsAt(e, x) \o h[x + w]
      BY <1>7, <3>1, <3>2, Zenon DEF Reading
    <3>4. g[n + x] = UnitsAt(e, x) \o g[n + x + w]
      BY <1>8, <3>1, <3>2, Zenon DEF Reading
    <3>5. n + x + w = n + (x + w) /\ ~(x + w <= x)
      <4>1. n \in Nat /\ x \in Nat
        BY <1>1, <3>2
      <4>. QED
        BY <4>1, Further, Zenon
    <3>6. g[n + (x + w)] = h[x + w]
      <4>1. x + w \notin late
        BY <2>2, <3>5, Zenon
      <4>. QED
        BY <3>2, <4>1, Zenon
    <3>. QED
      BY <2>3, <3>3, <3>4, <3>5, <3>6, Zenon
  <2>. QED
    BY <2>4, <2>5
<1>12. g[n + 1] = h[1]
  BY <1>2, <1>11
<1>. DEFINE bad == {i \in B : g[i] # f[i] \o h[1]}
<1>13. bad = {}
  <2>1. SUFFICES ASSUME bad # {} PROVE FALSE
    OBVIOUS
  <2>2. PICK x \in bad : \A y \in bad : y <= x
    <3>1. bad \subseteq 1 .. n + 1
      BY <1>2
    <3>2. n + 1 \in Nat
      <4>1. n \in Nat
        BY <1>1
      <4>. QED
        BY <4>1
    <3>. HIDE DEF bad
    <3>. QED
      BY <2>1, <3>1, <3>2, GreatestNumber
  <2>3. x \in B /\ x \in 1 .. n + 1 /\ g[x] # f[x] \o h[1]
    BY <1>2, <2>2
  <2>4. CASE x = n + 1
    <3>1. x \in 1 .. Len(s) + 4 /\ x > Len(s)
      BY <1>1, <2>4
    <3>2. f[x] = <<>>
      BY <1>6, <3>1, Zenon DEF Reading
    <3>3. \A a \in Seq(Int) : <<>> \o a = a
      OBVIOUS
    <3>. QED
      BY <1>10, <1>12, <2>3, <2>4, <3>2, <3>3
  <2>5. CASE x # n + 1
    <3>1. /\ x <= n /\ x \in 1 .. Len(s) + 4 /\ ~(x > Len(s)) /\ x \in 1 .. Len(q) + 4
          /\ ~(x > Len(q))
      BY <1>1, <2>3, <2>5
    <3>2. PICK w \in 1 .. 4 : /\ w = Width(s[x]) /\ w = Width(q[x])
                               /\ x + w \in B /\ x \in 1 .. n
                               /\ UnitsAt(q, x) = UnitsAt(s, x)
                               /\ UnitsAt(s, x) \in Seq(Int)
      BY <1>3, <2>3, <3>1, Zenon
    <3>3. f[x] = UnitsAt(s, x) \o f[x + w]
      BY <1>6, <3>1, <3>2, Zenon DEF Reading
    <3>4. g[x] = UnitsAt(s, x) \o g[x + w]
      BY <1>8, <3>1, <3>2, Zenon DEF Reading
    <3>5. ~(x + w <= x) /\ x + w \in 1 .. n + 4
      BY <1>1, <3>2
    <3>6. g[x + w] = f[x + w] \o h[1]
      BY <2>2, <3>2, <3>5
    <3>7. f[x + w] \in Seq(Int)
      BY <1>9, <3>5, Zenon
    <3>8. UnitsAt(s, x) \o (f[x + w] \o h[1]) = (UnitsAt(s, x) \o f[x + w]) \o h[1]
      <4>1. PICK a, b, c : a = UnitsAt(s, x) /\ b = f[x + w] /\ c = h[1]
        OBVIOUS
      <4>2. a \in Seq(Int) /\ b \in Seq(Int) /\ c \in Seq(Int)
        BY <1>10, <3>2, <3>7, <4>1, Zenon
      <4>3. a \o (b \o c) = (a \o b) \o c
        BY <4>2, ConcatUnits, Zenon
      <4>. QED
        BY <4>1, <4>3, Zenon
    <3>9. g[x] = f[x] \o h[1]
      BY <3>3, <3>4, <3>6, <3>8, Zenon
    <3>. QED
      BY <2>3, <3>9
  <2>. QED
    BY <2>4, <2>5
<1>14. g[1] = f[1] \o h[1]
  BY <1>2, <1>13
<1>. QED
  BY <1>1, <1>5, <1>6, <1>7, <1>8, <1>10, <1>14, Zenon

(* One character. *)
LEMMA ReadOne ==
    ASSUME NEW e \in Seq(Nat), e # <<>>, Width(e[1]) = Len(e)
    PROVE  Read(e) = UnitsAt(e, 1) /\ Starts(e, {1, Len(e) + 1})
<1>1. Len(e) \in Nat \ {0} /\ e[1] \in Nat
  OBVIOUS
<1>2. PICK m \in 1 .. 4 : m = Len(e)
  <2>1. Width(e[1]) \in 1 .. 4
    BY <1>1, WidthIs
  <2>. QED
    BY <2>1, Zenon
<1>3. PICK f : Reading(e, f) /\ Read(e) = f[1]
  BY ReadIs
<1>4. /\ 1 \in 1 .. Len(e) + 4 /\ ~(1 > Len(e))
      /\ 1 + Len(e) \in 1 .. Len(e) + 4 /\ 1 + Len(e) > Len(e)
      /\ 1 \in 1 .. Len(e) /\ 1 + Len(e) = Len(e) + 1
  BY <1>2
<1>5. f[1] = UnitsAt(e, 1) \o f[1 + Len(e)]
  BY <1>3, <1>4, Zenon DEF Reading
<1>6. f[1 + Len(e)] = <<>>
  BY <1>3, <1>4, Zenon DEF Reading
<1>7. UnitsAt(e, 1) \in Seq(Int)
  BY <1>4, CharTyped
<1>8. \A a \in Seq(Int) : a \o <<>> = a
  OBVIOUS
<1>9. Read(e) = UnitsAt(e, 1)
  BY <1>3, <1>5, <1>6, <1>7, <1>8, Zenon
<1>10. Starts(e, {1, Len(e) + 1})
  <2>1. PICK C : C = {1, Len(e) + 1}
    OBVIOUS
  <2>2. C \subseteq 1 .. Len(e) + 1 /\ 1 \in C /\ Len(e) + 1 \in C
    BY <1>1, <2>1
  <2>3. ASSUME NEW i \in C, i <= Len(e) PROVE i + Width(e[i]) \in C
    <3>1. i = 1
      BY <1>1, <2>1, <2>3
    <3>. QED
      BY <1>4, <2>2, <3>1, Zenon
  <2>4. Starts(e, C)
    BY <2>2, <2>3, Zenon DEF Starts
  <2>. QED
    BY <2>1, <2>4, Zenon
<1>. QED
  BY <1>9, <1>10

(* Text is made of whole characters, and text behind text is text. *)
LEMMA TextStarts ==
    ASSUME NEW s \in Seq(Nat), Text(s)
    PROVE  \E B : Starts(s, B)
<1>1. PICK f : Reading(s, f) /\ Read(s) = f[1]
  BY ReadIs
<1>2. \A i \in 1 .. Len(s) + 4 : f[i] \in Seq(Int)
  BY <1>1, ReadTyped
<1>. DEFINE B == {i \in 1 .. Len(s) + 1 : ~Has(f[i], -1)}
<1>3. Len(s) \in Nat
  OBVIOUS
<1>4. B \subseteq 1 .. Len(s) + 1 /\ 1 \in B
  BY <1>1, <1>3 DEF Text
<1>5. Len(s) + 1 \in B
  <2>1. Len(s) + 1 \in 1 .. Len(s) + 4 /\ Len(s) + 1 > Len(s) /\ Len(s) + 1 \in 1 .. Len(s) + 1
    BY <1>3
  <2>2. f[Len(s) + 1] = <<>>
    BY <1>1, <2>1, Zenon DEF Reading
  <2>3. ~Has(<<>>, -1)
    BY DEF Has
  <2>. QED
    BY <2>1, <2>2, <2>3
<1>6. ASSUME NEW i \in B, i <= Len(s) PROVE i + Width(s[i]) \in B
  <2>1. i \in 1 .. Len(s) /\ i \in 1 .. Len(s) + 4 /\ ~(i > Len(s)) /\ ~Has(f[i], -1)
    BY <1>3, <1>6
  <2>2. s[i] \in Nat
    BY <2>1
  <2>3. PICK w \in 1 .. 4 : w = Width(s[i])
    BY <2>2, WidthIs
  <2>4. f[i] = UnitsAt(s, i) \o f[i + w]
    BY <1>1, <2>1, <2>3, Zenon DEF Reading
  <2>5. i + w \in 1 .. Len(s) + 4
    BY <2>1, <2>3
  <2>6. PICK a \in Seq(Int), b \in Seq(Int) : a = UnitsAt(s, i) /\ b = f[i + w]
    BY <1>2, <2>1, <2>5, CharTyped, Zenon
  <2>7. ~Has(a, -1) /\ ~Has(b, -1)
    <3>1. \A x : Has(a \o b, x) <=> Has(a, x) \/ Has(b, x)
      BY HasJoined, Zenon
    <3>2. ~Has(a \o b, -1)
      BY <2>1, <2>4, <2>6
    <3>. QED
      BY <3>1, <3>2
  <2>8. Formed(s, i)
    <3>1. Has(<<-1>>, -1)
      BY DEF Has
    <3>. QED
      BY <2>6, <2>7, <3>1, Zenon DEF UnitsAt
  <2>9. i + w <= Len(s) + 1
    BY <2>3, <2>8, Zenon DEF Formed
  <2>10. i + w \in 1 .. Len(s) + 1
    BY <2>5, <2>9
  <2>. QED
    BY <2>3, <2>6, <2>7, <2>10
<1>7. Starts(s, B)
  <2>. HIDE DEF B
  <2>. QED
    BY <1>4, <1>5, <1>6, Zenon DEF Starts
<1>. QED
  BY <1>7, Zenon

LEMMA TextJoined ==
    ASSUME NEW a \in Seq(Nat), NEW b \in Seq(Nat), Text(a), Text(b)
    PROVE  Text(a \o b)
<1>1. PICK A : Starts(a, A)
  BY TextStarts
<1>2. PICK B : Starts(b, B)
  BY TextStarts
<1>3. Read(a \o b) = Read(a) \o Read(b) /\ Read(a) \in Seq(Int) /\ Read(b) \in Seq(Int)
  BY <1>1, <1>2, ReadJoined, Zenon
<1>4. ~Has(Read(a \o b), -1)
  <2>1. \A x : Has(Read(a) \o Read(b), x) <=> Has(Read(a), x) \/ Has(Read(b), x)
    BY <1>3, HasJoined, Zenon
  <2>2. ~Has(Read(a), -1) /\ ~Has(Read(b), -1)
    BY Zenon DEF Text
  <2>. QED
    BY <1>3, <2>1, <2>2
<1>5. ~Has(a \o b, 0)
  BY HasJoined, Zenon DEF Text
<1>. QED
  BY <1>4, <1>5, Zenon DEF Text

LEMMA ReadNothing == Read(<<>>) = <<>> /\ Starts(<<>>, {1})
<1>1. <<>> \in Seq(Nat) /\ Len(<<>>) = 0
  OBVIOUS
<1>2. PICK f : Reading(<<>>, f) /\ Read(<<>>) = f[1]
  BY <1>1, ReadIs
<1>3. 1 \in 1 .. Len(<<>>) + 4 /\ 1 > Len(<<>>)
  BY <1>1
<1>4. f[1] = <<>>
  BY <1>2, <1>3, Zenon DEF Reading
<1>5. Starts(<<>>, {1})
  BY <1>1 DEF Starts
<1>. QED
  BY <1>2, <1>4, <1>5

-----------------------------------------------------------------------------
(* Names: what encode_codepoint writes is read again *)

PointLimit == 1114112

(* A number and its digits of six bits. *)
Sixty(c, p, x, y, z) ==
    /\ p \in Nat /\ x \in Nat /\ y \in Nat /\ z \in Nat
    /\ p < 5 /\ x < 64 /\ y < 64 /\ z < 64
    /\ c = p * 262144 + x * 4096 + y * 64 + z
    /\ c \div 262144 = p
    /\ c \div 4096 = p * 64 + x
    /\ c \div 64 = p * 4096 + x * 64 + y
    /\ Tail6(c, 4096) = 128 + x
    /\ Tail6(c, 64) = 128 + y
    /\ Tail6(c, 1) = 128 + z

LEMMA SixBits ==
    ASSUME NEW c \in Nat, c < PointLimit
    PROVE  \E p, x, y, z : Sixty(c, p, x, y, z)
<1>1. PICK u \in Nat, z \in Nat : z < 64 /\ c = u * 64 + z /\ c \div 64 = u /\ c % 64 = z
  BY SMT
<1>2. PICK v \in Nat, y \in Nat : y < 64 /\ u = v * 64 + y /\ u % 64 = y
  <2>1. /\ u \div 64 \in Nat /\ u % 64 \in Nat /\ u % 64 < 64
        /\ u = (u \div 64) * 64 + (u % 64)
    BY SMT
  <2>. QED
    BY <2>1, SMT
<1>3. PICK p \in Nat, x \in Nat : x < 64 /\ v = p * 64 + x /\ v % 64 = x
  <2>1. /\ v \div 64 \in Nat /\ v % 64 \in Nat /\ v % 64 < 64
        /\ v = (v \div 64) * 64 + (v % 64)
    BY SMT
  <2>. QED
    BY <2>1, SMT
<1>4. c = p * 262144 + x * 4096 + y * 64 + z
  BY <1>1, <1>2, <1>3, SMT
<1>5. p < 5
  <2>1. p * 262144 <= c /\ c < 5 * 262144 /\ c < p * 262144 + 262144
    BY <1>1, <1>2, <1>3, <1>4, SMT DEF PointLimit
  <2>. QED
    BY <2>1, SMT
<1>6. c \div 262144 = p /\ c \div 4096 = v /\ c \div 1 = c
  <2>1. /\ 0 <= x * 4096 + y * 64 + z /\ x * 4096 + y * 64 + z < 262144
        /\ 0 <= y * 64 + z /\ y * 64 + z < 4096
    BY <1>1, <1>2, <1>3, SMT
  <2>2. c = p * 262144 + (x * 4096 + y * 64 + z) /\ c = v * 4096 + (y * 64 + z)
    BY <1>1, <1>2, <1>3, SMT
  <2>. QED
    BY <2>1, <2>2, SMT
<1>7. /\ Tail6(c, 4096) = 128 + x
      /\ Tail6(c, 64) = 128 + y
      /\ Tail6(c, 1) = 128 + z
  <2>1. /\ Tail6(c, 4096) = 128 + ((c \div 4096) % 64)
        /\ Tail6(c, 64) = 128 + ((c \div 64) % 64)
        /\ Tail6(c, 1) = 128 + ((c \div 1) % 64)
    BY SMT DEF Tail6
  <2>. QED
    BY <1>1, <1>2, <1>3, <1>6, <2>1, SMT
<1>8. v = p * 64 + x
  BY <1>3, SMT
<1>9. u = p * 4096 + x * 64 + y
  BY <1>2, <1>8, SMT
<1>10. Sixty(c, p, x, y, z)
  BY <1>1, <1>2, <1>3, <1>4, <1>5, <1>6, <1>7, <1>8, <1>9, SMT DEF Sixty
<1>. QED
  BY <1>10, Zenon

LEMMA SmallTuples ==
    ASSUME NEW S, NEW a \in S, NEW b \in S, NEW c \in S, NEW d \in S
    PROVE  /\ <<a>> \in Seq(S) /\ Len(<<a>>) = 1 /\ <<a>>[1] = a
           /\ <<a, b>> \in Seq(S) /\ Len(<<a, b>>) = 2
           /\ <<a, b>>[1] = a /\ <<a, b>>[2] = b
           /\ <<a, b, c>> \in Seq(S) /\ Len(<<a, b, c>>) = 3
           /\ <<a, b, c>>[1] = a /\ <<a, b, c>>[2] = b /\ <<a, b, c>>[3] = c
           /\ <<a, b, c, d>> \in Seq(S) /\ Len(<<a, b, c, d>>) = 4
           /\ <<a, b, c, d>>[1] = a /\ <<a, b, c, d>>[2] = b
           /\ <<a, b, c, d>>[3] = c /\ <<a, b, c, d>>[4] = d
  OBVIOUS

(* The bytes e of a character c. *)
Writes(e, c, w) ==
    /\ w \in 1 .. 4 /\ e \in Seq(Nat) /\ Len(e) = w /\ Width(e[1]) = w /\ e[1] # 0
    /\ \A k \in 1 .. w - 1 : e[1 + k] \in 128 .. 191
    /\ CharOf(w, e[1], e[2], e[3], e[4]) = c
    /\ c >= Smallest(w)

LEMMA WritesOne ==
    ASSUME NEW c \in Nat, c # 0, c <= 127
    PROVE  Writes(Encoded(c), c, 1)
<1>1. Encoded(c) = <<c>>
  BY SMT DEF Encoded
<1>2. Width(c) = 1 /\ Smallest(1) = 0 /\ c >= 0 /\ c \in Nat
  BY SMT DEF Width, Smallest
<1>3. CharOf(1, c, <<c>>[2], <<c>>[3], <<c>>[4]) = c
  BY SMT DEF CharOf
<1>4. <<c>> \in Seq(Nat) /\ Len(<<c>>) = 1 /\ <<c>>[1] = c
  BY <1>2, SmallTuples
<1>5. \A k \in 1 .. 1 - 1 : <<c>>[1 + k] \in 128 .. 191
  OBVIOUS
<1>. QED
  BY <1>1, <1>2, <1>3, <1>4, <1>5, SMT DEF Writes

LEMMA WritesTwo ==
    ASSUME NEW c \in Nat, 127 < c, c <= 2047,
           NEW p, NEW x, NEW y, NEW z, Sixty(c, p, x, y, z)
    PROVE  Writes(Encoded(c), c, 2)
<1>1. PICK u \in Nat, t \in Nat : /\ u < 32 /\ t < 64 /\ c = u * 64 + t
                                  /\ c \div 64 = u /\ Tail6(c, 1) = 128 + t
  BY SMT DEF Sixty
<1>2. PICK a \in Nat, b \in Nat : a = 192 + u /\ b = 128 + t
  OBVIOUS
<1>3. Encoded(c) = <<a, b>>
  BY <1>1, <1>2, SMT DEF Encoded
<1>4. Width(a) = 2 /\ Smallest(2) = 128 /\ c >= 128 /\ a \in Nat /\ b \in Nat
  BY <1>1, <1>2, SMT DEF Width, Smallest
<1>5. \A k, l : CharOf(2, a, b, k, l) = c
  BY <1>1, <1>2, SMT DEF CharOf
<1>6. <<a, b>> \in Seq(Nat) /\ Len(<<a, b>>) = 2 /\ <<a, b>>[1] = a /\ <<a, b>>[2] = b
  BY <1>4, SmallTuples
<1>7. a # 0 /\ b \in 128 .. 191
  BY <1>1, <1>2
<1>8. ASSUME NEW k \in 1 .. 2 - 1 PROVE <<a, b>>[1 + k] \in 128 .. 191
  <2>1. 1 + k = 2
    OBVIOUS
  <2>2. <<a, b>>[1 + k] = b
    BY <2>1, <1>6
  <2>. QED
    BY <2>2, <1>7
<1>. QED
  BY <1>3, <1>4, <1>5, <1>6, <1>7, <1>8, SMT DEF Writes

LEMMA WritesThree ==
    ASSUME NEW c \in Nat, 2047 < c, ~(c > 65535),
           NEW p, NEW x, NEW y, NEW z, Sixty(c, p, x, y, z)
    PROVE  Writes(Encoded(c), c, 3)
<1>1. PICK u \in Nat, t \in Nat, v \in Nat :
          /\ u < 16 /\ t < 64 /\ v < 64 /\ c = u * 4096 + t * 64 + v
          /\ c \div 4096 = u /\ Tail6(c, 64) = 128 + t /\ Tail6(c, 1) = 128 + v
  BY SMT DEF Sixty
<1>2. PICK a \in Nat, b \in Nat, d \in Nat : a = 224 + u /\ b = 128 + t /\ d = 128 + v
  BY SMT
<1>3. Encoded(c) = <<a, b, d>>
  BY <1>1, <1>2, SMT DEF Encoded
<1>4. /\ Width(a) = 3 /\ Smallest(3) = 2048 /\ c >= 2048
      /\ a \in Nat /\ b \in Nat /\ d \in Nat
  BY <1>1, <1>2, SMT DEF Width, Smallest
<1>5. \A l : CharOf(3, a, b, d, l) = c
  BY <1>1, <1>2, SMT DEF CharOf
<1>6. /\ <<a, b, d>> \in Seq(Nat) /\ Len(<<a, b, d>>) = 3
      /\ <<a, b, d>>[1] = a /\ <<a, b, d>>[2] = b /\ <<a, b, d>>[3] = d
  BY <1>4, SmallTuples, SMT
<1>7. a # 0 /\ b \in 128 .. 191 /\ d \in 128 .. 191
  BY <1>1, <1>2
<1>8. \A k \in 1 .. 3 - 1 : <<a, b, d>>[1 + k] \in 128 .. 191
  <2>1. ASSUME NEW k \in 1 .. 3 - 1 PROVE <<a, b, d>>[1 + k] \in 128 .. 191
    <3>1. CASE 1 + k = 2
      BY <1>6, <1>7, <3>1
    <3>2. CASE 1 + k = 3
      BY <1>6, <1>7, <3>2
    <3>3. 1 + k = 2 \/ 1 + k = 3
      OBVIOUS
    <3>. QED
      BY <3>1, <3>2, <3>3
  <2>. QED
    BY <2>1
<1>. QED
  BY <1>3, <1>4, <1>5, <1>6, <1>7, <1>8, SMT DEF Writes

LEMMA WritesFour ==
    ASSUME NEW c \in Nat, c > 65535,
           NEW p, NEW x, NEW y, NEW z, Sixty(c, p, x, y, z)
    PROVE  Writes(Encoded(c), c, 4)
<1>1. /\ p \in Nat /\ x \in Nat /\ y \in Nat /\ z \in Nat
      /\ p < 5 /\ x < 64 /\ y < 64 /\ z < 64
      /\ c = p * 262144 + x * 4096 + y * 64 + z
      /\ c \div 262144 = p
      /\ Tail6(c, 4096) = 128 + x /\ Tail6(c, 64) = 128 + y /\ Tail6(c, 1) = 128 + z
  BY SMT DEF Sixty
<1>2. PICK a \in Nat, b \in Nat, d \in Nat, e \in Nat :
          a = 240 + p /\ b = 128 + x /\ d = 128 + y /\ e = 128 + z
  BY <1>1, SMT
<1>3. Encoded(c) = <<a, b, d, e>>
  BY <1>1, <1>2, SMT DEF Encoded
<1>4. /\ Width(a) = 4 /\ Smallest(4) = 65536 /\ c >= 65536
      /\ a \in Nat /\ b \in Nat /\ d \in Nat /\ e \in Nat
  BY <1>1, <1>2, SMT DEF Width, Smallest
<1>5. CharOf(4, a, b, d, e) = c
  BY <1>1, <1>2, SMT DEF CharOf
<1>6. /\ <<a, b, d, e>> \in Seq(Nat) /\ Len(<<a, b, d, e>>) = 4
      /\ <<a, b, d, e>>[1] = a /\ <<a, b, d, e>>[2] = b
      /\ <<a, b, d, e>>[3] = d /\ <<a, b, d, e>>[4] = e
  BY <1>4, SmallTuples, SMT
<1>7. a # 0 /\ b \in 128 .. 191 /\ d \in 128 .. 191 /\ e \in 128 .. 191
  BY <1>1, <1>2
<1>8. \A k \in 1 .. 4 - 1 : <<a, b, d, e>>[1 + k] \in 128 .. 191
  <2>1. ASSUME NEW k \in 1 .. 4 - 1 PROVE <<a, b, d, e>>[1 + k] \in 128 .. 191
    <3>1. CASE 1 + k = 2
      BY <1>6, <1>7, <3>1
    <3>2. CASE 1 + k = 3
      BY <1>6, <1>7, <3>2
    <3>3. CASE 1 + k = 4
      BY <1>6, <1>7, <3>3
    <3>4. 1 + k = 2 \/ 1 + k = 3 \/ 1 + k = 4
      OBVIOUS
    <3>. QED
      BY <3>1, <3>2, <3>3, <3>4
  <2>. QED
    BY <2>1
<1>. QED
  BY <1>3, <1>4, <1>5, <1>6, <1>7, <1>8, SMT DEF Writes

LEMMA EncodedRead ==
    ASSUME NEW c \in Nat, c # 0, c < PointLimit, ~HighSurrogate(c), ~LowSurrogate(c)
    PROVE  /\ Encoded(c) \in Seq(Nat) /\ Encoded(c) # <<>> /\ ~Has(Encoded(c), 0)
           /\ Width(Encoded(c)[1]) = Len(Encoded(c))
           /\ UnitsAt(Encoded(c), 1) = Units(c)
<1>1. PICK p, x, y, z : Sixty(c, p, x, y, z)
  BY SixBits, Zenon
<1>2. PICK w : Writes(Encoded(c), c, w)
  <2>1. c <= 127 => Writes(Encoded(c), c, 1)
    BY WritesOne, SMT
  <2>2. 127 < c /\ c <= 2047 => Writes(Encoded(c), c, 2)
    BY <1>1, WritesTwo, SMT
  <2>3. 2047 < c /\ ~(c > 65535) => Writes(Encoded(c), c, 3)
    BY <1>1, WritesThree, SMT
  <2>4. c > 65535 => Writes(Encoded(c), c, 4)
    BY <1>1, WritesFour, SMT
  <2>. QED
    BY <2>1, <2>2, <2>3, <2>4, SMT
<1>. DEFINE e == Encoded(c)
<1>3. /\ w \in 1 .. 4 /\ e \in Seq(Nat) /\ Len(e) = w /\ Width(e[1]) = w
      /\ CharOf(w, e[1], e[2], e[3], e[4]) = c /\ c >= Smallest(w)
      /\ e[1] # 0 /\ \A k \in 1 .. w - 1 : e[1 + k] \in 128 .. 191
  BY <1>2, Zenon DEF Writes
<1>. HIDE DEF e
<1>4. e # <<>>
  <2>1. Len(<<>>) = 0 /\ w # 0
    BY <1>3
  <2>. QED
    BY <1>3, <2>1, Zenon
<1>5. CharAt(e, 1) = c
  <2>1. 1 + 1 = 2 /\ 1 + 2 = 3 /\ 1 + 3 = 4
    OBVIOUS
  <2>. QED
    BY <1>3, <2>1, CharAtIs, Zenon
<1>6. Formed(e, 1)
  <2>1. 1 + w <= w + 1 /\ c <= LastPoint
    BY <1>3, SMT DEF PointLimit, LastPoint
  <2>2. Smallest(w) <= c
    <3>1. \A k \in 1 .. 4 : Smallest(k) \in Nat
      BY DEF Smallest
    <3>. QED
      BY <1>3, <3>1
  <2>. QED
    BY <1>3, <1>5, <2>1, <2>2, Zenon DEF Formed
<1>7. UnitsAt(e, 1) = Units(c)
  BY <1>5, <1>6, Zenon DEF UnitsAt
<1>8. ~Has(e, 0)
  <2>1. SUFFICES ASSUME NEW i \in DOMAIN e, e[i] = 0 PROVE FALSE
    BY DEF Has
  <2>2. i \in 1 .. w
    BY <1>3
  <2>3. i # 1
    BY <1>3, <2>1
  <2>4. i - 1 \in 1 .. w - 1 /\ 1 + (i - 1) = i
    <3>1. w \in 1 .. 4
      BY <1>3
    <3>. QED
      BY <2>2, <2>3, <3>1
  <2>5. e[1 + (i - 1)] \in 128 .. 191
    BY <1>3, <2>4, Zenon
  <2>6. 0 \notin 128 .. 191
    OBVIOUS
  <2>. QED
    BY <2>1, <2>4, <2>5, <2>6
<1>. QED
  BY <1>3, <1>4, <1>7, <1>8, Zenon DEF e

(* The units of the character that one unit or a pair makes. *)
Point(c) ==
    c \in Nat /\ c # 0 /\ c < PointLimit /\ ~HighSurrogate(c) /\ ~LowSurrogate(c)

LEMMA PointUnits ==
    /\ \A u \in Nat : u \in LongUnits /\ ~HighSurrogate(u) /\ ~LowSurrogate(u) =>
           /\ Point(CodePoint(0, u))
           /\ Units(CodePoint(0, u)) = <<u>>
    /\ \A h, u : HighSurrogate(h) /\ LowSurrogate(u) =>
           /\ Point(CodePoint(h, u))
           /\ Units(CodePoint(h, u)) = <<h, u>>
<1>1. ASSUME NEW u \in Nat, u \in LongUnits, ~HighSurrogate(u), ~LowSurrogate(u)
      PROVE  /\ Point(CodePoint(0, u))
             /\ Units(CodePoint(0, u)) = <<u>>
  <2>1. CodePoint(0, u) = u
    BY SMT DEF CodePoint
  <2>2. u # 0 /\ u < PointLimit
    BY <1>1, SMT DEF LongUnits, PointLimit
  <2>3. Units(u) = <<u>>
    <3>1. u < 65536
      BY <1>1, SMT DEF LongUnits
    <3>. QED
      BY <3>1, SMT DEF Units
  <2>. QED
    BY <1>1, <2>1, <2>2, <2>3, Zenon DEF Point
<1>2. ASSUME NEW h, NEW u, HighSurrogate(h), LowSurrogate(u)
      PROVE  /\ Point(CodePoint(h, u))
             /\ Units(CodePoint(h, u)) = <<h, u>>
  <2>1. PICK a \in Nat, b \in Nat :
            a < 1024 /\ b < 1024 /\ h = 55296 + a /\ u = 56320 + b
    <3>1. h \in Nat /\ 55296 <= h /\ h <= 56319
      BY <1>2, SMT DEF HighSurrogate
    <3>2. u \in Nat /\ 56320 <= u /\ u <= 57343
      BY <1>2, SMT DEF LowSurrogate
    <3>3. PICK a \in Nat : a < 1024 /\ h = 55296 + a
      BY <3>1, SMT
    <3>4. PICK b \in Nat : b < 1024 /\ u = 56320 + b
      BY <3>2, SMT
    <3>. QED
      BY <3>3, <3>4, SMT
  <2>2. PICK c \in Nat : c = 65536 + a * 1024 + b
    BY SMT
  <2>3. CodePoint(h, u) = c
    BY <2>1, <2>2, SMT DEF CodePoint
  <2>4. (c - 65536) \div 1024 = a /\ (c - 65536) % 1024 = b /\ c >= 65536
    BY <2>1, <2>2, SMT
  <2>5. Units(c) = <<55296 + a, 56320 + b>>
    BY <2>4, SMT DEF Units
  <2>6. Point(c)
    BY <2>1, <2>2, SMT DEF PointLimit, Point, HighSurrogate, LowSurrogate
  <2>7. Units(c) = <<h, u>>
    BY <2>1, <2>5
  <2>. QED
    BY <2>3, <2>6, <2>7, Zenon
<1>. QED
  BY <1>1, <1>2, SMT

-----------------------------------------------------------------------------
(* Names: the path of an entry *)

LEMMA NumbersOf ==
    ASSUME NEW S, \A x \in S : x \in Nat, NEW s \in Seq(S)
    PROVE  s \in Seq(Nat) /\ \A i \in 1 .. Len(s) : s[i] \in S
<1>1. Len(s) \in Nat /\ \A i \in 1 .. Len(s) : s[i] \in S
  OBVIOUS
<1>2. \A i \in 1 .. Len(s) : s[i] \in Nat
  BY <1>1
<1>3. s = [i \in 1 .. Len(s) |-> s[i]]
  OBVIOUS
<1>. QED
  BY <1>1, <1>2, <1>3

(* What a path of an entry starts with. *)
BaseOf(p) == IF p = <<Slash>> THEN <<>> ELSE p

LEMMA NothingIsText == Text(<<>>)
<1>1. ~Has(<<>>, 0) /\ ~Has(<<>>, -1)
  BY DEF Has
<1>. QED
  BY <1>1, ReadNothing, Zenon DEF Text

LEMMA BaseFacts ==
    ASSUME NEW p \in Parents, Plain(p)
    PROVE  /\ BaseOf(p) \in Seq(Nat) /\ Text(BaseOf(p))
           /\ BaseOf(p) # <<>> => BaseOf(p)[1] = Slash /\ BaseOf(p)[Len(BaseOf(p))] # Slash
           /\ ~HasEmpty(BaseOf(p)) /\ ~HasDots(BaseOf(p))
           /\ Split(p) = Split(BaseOf(p))
           /\ p = IF BaseOf(p) = <<>> THEN <<Slash>> ELSE BaseOf(p)
<1>1. CASE p = <<Slash>>
  <2>1. BaseOf(p) = <<>>
    BY <1>1, Zenon DEF BaseOf
  <2>2. <<>> \in Seq(Nat) /\ Len(<<>>) = 0
    OBVIOUS
  <2>3. Split(<<>>) = <<>>
    <3>1. PICK f : Parts(<<>>, f) /\ Split(<<>>) = f[1]
      BY <2>2, SplitIs
    <3>2. 1 \in 1 .. Len(<<>>) + 2 /\ 1 > Len(<<>>)
      BY <2>2
    <3>. QED
      BY <3>1, <3>2, Zenon DEF Parts
  <2>4. ~HasEmpty(<<>>)
    BY <2>2 DEF HasEmpty
  <2>5. ~HasDots(<<>>)
    BY <2>3 DEF HasDots
  <2>6. Split(<<Slash>>) = Split(<<>>)
    BY SplitRoot
  <2>. QED
    BY <1>1, <2>1, <2>2, <2>4, <2>5, <2>6, NothingIsText, Zenon
<1>2. CASE p # <<Slash>>
  <2>1. /\ p \in Seq(1 .. 255) /\ p # <<>> /\ p[1] = Slash /\ p[Len(p)] # Slash
        /\ ~HasEmpty(p) /\ ~HasDots(p) /\ Text(p)
    BY <1>2, ParentsAssumption, Zenon DEF Plain
  <2>2. p \in Seq(Nat)
    <3>1. \A x \in 1 .. 255 : x \in Nat
      OBVIOUS
    <3>. QED
      BY <2>1, <3>1, NumbersOf, Zenon
  <2>3. BaseOf(p) = p
    BY <1>2, Zenon DEF BaseOf
  <2>. QED
    BY <2>1, <2>2, <2>3, Zenon
<1>. QED
  BY <1>1, <1>2

LEMMA PathIs ==
    ASSUME NEW p \in Parents, NEW n \in Seq(Nat)
    PROVE  PathOf(p, n) = BaseOf(p) \o <<Slash>> \o n
<1>1. CASE p = <<Slash>>
  <2>1. <<>> \o <<Slash>> = <<Slash>>
    BY DEF Slash
  <2>2. PathOf(p, n) = <<Slash>> \o n /\ BaseOf(p) = <<>>
    BY <1>1 DEF PathOf, BaseOf
  <2>. QED
    BY <2>1, <2>2
<1>2. CASE p # <<Slash>>
  BY <1>2 DEF PathOf, BaseOf
<1>. QED
  BY <1>1, <1>2

(* The path of an entry whose name has no slash. *)
LEMMA PathFacts ==
    ASSUME NEW p \in Parents, Plain(p),
           NEW n \in Seq(Nat), n # <<>>, ~IsDots(n), ~Has(n, Slash)
    PROVE  /\ PathOf(p, n) # <<>> /\ PathOf(p, n)[1] = Slash
           /\ PathOf(p, n)[Len(PathOf(p, n))] # Slash
           /\ ~HasEmpty(PathOf(p, n)) /\ ~HasDots(PathOf(p, n))
           /\ Split(PathOf(p, n)) = Append(Split(p), n)
           /\ ParentOf(PathOf(p, n)) = p
<1>1. PICK b : b = BaseOf(p)
  OBVIOUS
<1>2. /\ b \in Seq(Nat)
      /\ b # <<>> => b[1] = Slash /\ b[Len(b)] # Slash
      /\ ~HasEmpty(b) /\ ~HasDots(b)
      /\ Split(p) = Split(b)
      /\ p = IF b = <<>> THEN <<Slash>> ELSE b
  BY <1>1, BaseFacts, Zenon
<1>3. PICK q : q = PathOf(p, n)
  OBVIOUS
<1>4. q = b \o <<Slash>> \o n
  BY <1>1, <1>3, PathIs, Zenon
<1>5. PICK L \in Nat, M \in Nat : L = Len(b) /\ M = Len(n)
  BY <1>2
<1>6. Slash \in Nat
  BY DEF Slash
<1>7. /\ q \in Seq(Nat) /\ Len(q) = Len(b) + 1 + Len(n)
      /\ \A i \in 1 .. Len(b) : q[i] = b[i]
      /\ q[Len(b) + 1] = Slash
      /\ \A j \in 1 .. Len(n) : q[Len(b) + 1 + j] = n[j]
  BY <1>2, <1>4, <1>6, Longer, SMTT(30)
<1>8. /\ q \in Seq(Nat) /\ Len(q) = L + 1 + M
      /\ \A i \in 1 .. L : q[i] = b[i]
      /\ q[L + 1] = Slash
      /\ \A j \in 1 .. M : q[L + 1 + j] = n[j]
  BY <1>5, <1>7
<1>9. M # 0 /\ \A j \in 1 .. M : n[j] # Slash
  <2>1. DOMAIN n = 1 .. Len(n)
    OBVIOUS
  <2>2. \A j \in 1 .. M : n[j] # Slash
    BY <1>5, <2>1, Zenon DEF Has
  <2>3. M # 0
    BY <1>5
  <2>. QED
    BY <2>2, <2>3
<1>10. \A i \in L + 2 .. L + 1 + M : q[i] # Slash
  <2>1. ASSUME NEW i \in L + 2 .. L + 1 + M PROVE q[i] # Slash
    <3>1. i - (L + 1) \in 1 .. M /\ L + 1 + (i - (L + 1)) = i
      OBVIOUS
    <3>2. PICK j \in 1 .. M : L + 1 + j = i
      BY <3>1
    <3>3. q[L + 1 + j] = n[j]
      BY <1>8
    <3>. QED
      BY <1>9, <3>2, <3>3
  <2>. QED
    BY <2>1
<1>11. L = 0 <=> b = <<>>
  BY <1>2, <1>5
<1>12. q # <<>> /\ q[Len(q)] # Slash
  <2>1. Len(q) \in L + 2 .. L + 1 + M
    BY <1>8, <1>9
  <2>2. q # <<>>
    <3>1. Len(<<>>) = 0 /\ Len(q) # 0
      BY <2>1
    <3>. QED
      BY <3>1
  <2>. QED
    BY <1>10, <2>1, <2>2
<1>13. q[1] = Slash
  <2>1. CASE L = 0
    BY <1>8, <2>1
  <2>2. CASE L # 0
    <3>1. 1 \in 1 .. L
      BY <2>2
    <3>. QED
      BY <1>2, <1>8, <1>11, <2>2, <3>1, Zenon
  <2>. QED
    BY <2>1, <2>2
<1>14. ~HasEmpty(q)
  <2>1. SUFFICES ASSUME NEW i \in 1 .. Len(q) - 1, q[i] = Slash, q[i + 1] = Slash
                 PROVE  FALSE
    BY DEF HasEmpty
  <2>2. i \in 1 .. L + M
    BY <1>8
  <2>3. CASE i < L
    <3>1. i \in 1 .. L /\ i + 1 \in 1 .. L /\ i \in 1 .. Len(b) - 1
      BY <1>5, <2>2, <2>3
    <3>2. b[i] = Slash /\ b[i + 1] = Slash
      BY <1>8, <2>1, <3>1
    <3>. QED
      BY <1>2, <3>1, <3>2, Zenon DEF HasEmpty
  <2>4. CASE i = L
    <3>1. L # 0 /\ i \in 1 .. L
      BY <2>2, <2>4
    <3>2. b[L] # Slash
      BY <1>2, <1>5, <1>11, <3>1, Zenon
    <3>3. q[i] = b[i]
      BY <1>8, <3>1
    <3>. QED
      BY <2>1, <2>4, <3>2, <3>3
  <2>5. CASE i > L
    <3>1. i + 1 \in L + 2 .. L + 1 + M
      BY <2>2, <2>5
    <3>. QED
      BY <1>10, <2>1, <3>1
  <2>. QED
    BY <2>2, <2>3, <2>4, <2>5
<1>15. Split(q) = Append(Split(b), n) /\ Split(b) \in Seq(Seq(Nat))
  BY <1>2, <1>4, <1>6, SplitLonger
<1>16. ~HasDots(q)
  <2>1. PICK r : r = Split(b)
    OBVIOUS
  <2>2. r \in Seq(Seq(Nat)) /\ Split(q) = Append(r, n)
    BY <1>15, <2>1, Zenon
  <2>3. SUFFICES ASSUME NEW i \in DOMAIN Append(r, n), IsDots(Append(r, n)[i]) PROVE FALSE
    BY <2>2, Zenon DEF HasDots
  <2>4. /\ DOMAIN r = 1 .. Len(r) /\ Len(r) \in Nat
        /\ i \in 1 .. Len(r) + 1
        /\ i <= Len(r) => Append(r, n)[i] = r[i]
        /\ i = Len(r) + 1 => Append(r, n)[i] = n
    BY <2>2
  <2>5. CASE i <= Len(r)
    <3>1. i \in DOMAIN r
      BY <2>4, <2>5
    <3>. QED
      BY <1>2, <2>1, <2>3, <2>4, <2>5, <3>1, Zenon DEF HasDots
  <2>6. CASE ~(i <= Len(r))
    <3>1. i = Len(r) + 1
      BY <2>4, <2>6
    <3>. QED
      BY <2>3, <2>4, <3>1, Zenon
  <2>. QED
    BY <2>5, <2>6
<1>17. ParentOf(q) = p
  <2>. DEFINE Last(i) == q[i] = Slash /\ \A j \in i + 1 .. Len(q) : q[j] # Slash
              last == CHOOSE i \in DOMAIN q : Last(i)
  <2>1. DOMAIN q = 1 .. L + 1 + M /\ Len(q) = L + 1 + M
    BY <1>8
  <2>2. L + 1 \in DOMAIN q /\ Last(L + 1)
    <3>1. L + 1 + 1 = L + 2
      OBVIOUS
    <3>. QED
      BY <1>8, <1>10, <2>1, <3>1
  <2>3. last \in DOMAIN q /\ Last(last)
    <3>. HIDE DEF Last
    <3>. QED
      BY <2>2, Zenon
  <2>4. last = L + 1
    <3>1. last \in 1 .. L + 1 + M
      BY <2>1, <2>3, Zenon
    <3>2. PICK k \in 1 .. L + 1 + M : k = last /\ q[k] = Slash
                                     /\ \A j \in k + 1 .. L + 1 + M : q[j] # Slash
      BY <2>1, <2>3, <3>1, Zenon
    <3>3. ~(k < L + 1)
      <4>1. k < L + 1 => L + 1 \in k + 1 .. L + 1 + M
        OBVIOUS
      <4>. QED
        BY <1>8, <3>2, <4>1, Zenon
    <3>4. ~(k > L + 1)
      <4>1. k > L + 1 => k \in L + 2 .. L + 1 + M
        OBVIOUS
      <4>. QED
        BY <1>10, <3>2, <4>1, Zenon
    <3>5. k = L + 1
      BY <3>3, <3>4
    <3>. QED
      BY <3>2, <3>5
  <2>5. ParentOf(q) = IF last = 1 THEN <<Slash>> ELSE SubSeq(q, 1, last - 1)
    BY Zenon DEF ParentOf
  <2>. HIDE DEF last
  <2>6. CASE L = 0
    <3>1. last = 1
      BY <2>4, <2>6
    <3>. QED
      BY <1>2, <1>11, <2>5, <2>6, <3>1, Zenon
  <2>7. CASE L # 0
    <3>1. last # 1 /\ last - 1 = L
      BY <2>4, <2>7
    <3>2. SubSeq(q, 1, L) = b
      <4>1. PICK t : t = SubSeq(q, 1, L)
        OBVIOUS
      <4>2. t \in Seq(Nat) /\ Len(t) = L /\ \A i \in 1 .. L : t[i] = q[i]
        BY <1>8, <4>1
      <4>3. b \in Seq(Nat) /\ Len(b) = L /\ \A i \in 1 .. L : t[i] = b[i]
        BY <1>2, <1>5, <1>8, <4>2
      <4>. QED
        BY <4>1, <4>2, <4>3
    <3>. QED
      BY <1>2, <1>11, <2>5, <2>7, <3>1, <3>2, Zenon
  <2>. QED
    BY <2>6, <2>7
<1>. QED
  BY <1>2, <1>3, <1>12, <1>13, <1>14, <1>15, <1>16, <1>17, Zenon

LEMMA SlashIsText == Text(<<Slash>>)
<1>1. PICK e : e = <<Slash>>
  OBVIOUS
<1>2. e \in Seq(Nat) /\ e # <<>> /\ Len(e) = 1 /\ e[1] = 47 /\ DOMAIN e = {1}
  BY <1>1 DEF Slash
<1>3. Width(e[1]) = 1
  BY <1>2 DEF Width
<1>4. Read(e) = UnitsAt(e, 1)
  BY <1>2, <1>3, ReadOne
<1>5. CharAt(e, 1) = 47 /\ Smallest(1) = 0
  BY <1>2, <1>3, SMT DEF CharAt, Smallest
<1>6. UnitsAt(e, 1) = <<47>> \/ UnitsAt(e, 1) = <<-1>>
  BY <1>5, SMT DEF UnitsAt, Units
<1>7. Formed(e, 1)
  <2>1. 1 + 1 <= 1 + 1 /\ 0 <= 47 /\ 47 <= LastPoint
        /\ ~HighSurrogate(47) /\ ~LowSurrogate(47) /\ \A k \in 1 .. 1 - 1 : FALSE
    BY SMT DEF LastPoint, HighSurrogate, LowSurrogate
  <2>. QED
    BY <1>2, <1>3, <1>5, <2>1, Zenon DEF Formed
<1>8. UnitsAt(e, 1) = <<47>>
  BY <1>5, <1>7, SMT DEF UnitsAt, Units
<1>9. ~Has(<<47>>, -1) /\ ~Has(e, 0)
  BY <1>2 DEF Has
<1>. QED
  BY <1>1, <1>4, <1>8, <1>9, Zenon DEF Text

(* The path of a name that is text. *)
LEMMA PathIsText ==
    ASSUME NEW p \in Parents, Plain(p), NEW n \in Seq(Nat), Text(n)
    PROVE  PathOf(p, n) \in Seq(Nat) /\ Text(PathOf(p, n))
<1>1. BaseOf(p) \in Seq(Nat) /\ Text(BaseOf(p))
  BY BaseFacts, Zenon
<1>2. <<Slash>> \in Seq(Nat)
  BY DEF Slash
<1>3. PICK b \in Seq(Nat) : b = BaseOf(p) /\ Text(b)
  BY <1>1
<1>4. b \o <<Slash>> \in Seq(Nat) /\ (b \o <<Slash>>) \o n \in Seq(Nat)
  BY <1>2
<1>5. Text(b \o <<Slash>>)
  BY <1>2, <1>3, SlashIsText, TextJoined, Zenon
<1>6. Text((b \o <<Slash>>) \o n)
  BY <1>4, <1>5, TextJoined, Zenon
<1>. QED
  BY <1>3, <1>4, <1>6, PathIs, Zenon

-----------------------------------------------------------------------------
(* Names: they come back *)

(* What is before the first b. *)
LEMMA BeforeIs ==
    ASSUME NEW S, NEW s \in Seq(S), NEW b
    PROVE  Before(s, b) \in Seq(S) /\ (~Has(s, b) => Before(s, b) = s)
<1>. DEFINE spots == {i \in DOMAIN s : s[i] = b}
            Ends(i) == \A j \in spots : i <= j
            end == CHOOSE i \in spots \cup {Len(s) + 1} : Ends(i)
<1>1. Len(s) \in Nat /\ DOMAIN s = 1 .. Len(s)
  OBVIOUS
<1>2. spots \subseteq Nat /\ spots \subseteq 1 .. Len(s)
  BY <1>1
<1>3. \E i \in spots \cup {Len(s) + 1} : Ends(i)
  <2>1. CASE spots = {}
    BY <2>1
  <2>2. CASE spots # {}
    <3>1. PICK x \in spots : \A y \in spots : x <= y
      <4>. HIDE DEF spots
      <4>. QED
        BY <1>2, <2>2, LeastNumber
    <3>. HIDE DEF spots
    <3>. QED
      BY <3>1
  <2>. QED
    BY <2>1, <2>2
<1>4. end \in spots \cup {Len(s) + 1}
  <2>. HIDE DEF spots, Ends
  <2>. QED
    BY <1>3, Zenon
<1>5. Before(s, b) = SubSeq(s, 1, end - 1)
  BY Zenon DEF Before
<1>6. ~Has(s, b) => spots = {}
  BY DEF Has
<1>. HIDE DEF end, spots
<1>7. PICK e \in 1 .. Len(s) + 1 : e = end
  BY <1>1, <1>2, <1>4
<1>8. SubSeq(s, 1, e - 1) \in Seq(S)
  BY <1>1
<1>9. ASSUME ~Has(s, b) PROVE SubSeq(s, 1, e - 1) = s
  <2>1. e = Len(s) + 1
    BY <1>4, <1>6, <1>7, <1>9
  <2>2. e - 1 = Len(s)
    BY <1>1, <2>1
  <2>3. SubSeq(s, 1, Len(s)) = s
    OBVIOUS
  <2>. QED
    BY <2>2, <2>3
<1>. QED
  BY <1>5, <1>7, <1>8, <1>9

LEMMA TrimmedTyped ==
    ASSUME NEW s \in Seq(Nat), NEW from \in Nat \ {0}, NEW to \in Nat,
           from <= to + 1, to <= Len(s)
    PROVE  Trimmed(s, from, to) \in Seq(Nat)
<1>1. SubSeq(s, from, to) \in Seq(Nat)
  <2>1. \A i \in from .. to : i \in 1 .. Len(s)
    OBVIOUS
  <2>2. \A i \in from .. to : s[i] \in Nat
    BY <2>1
  <2>. QED
    BY <2>1, <2>2
<1>. QED
  BY <1>1, BeforeIs DEF Trimmed

LEMMA NumbersIn ==
    ASSUME NEW n \in Nat, NEW m \in Nat, NEW s \in [1 .. n -> 0 .. m]
    PROVE  s \in Seq(Nat) /\ Len(s) = n
<1>1. \A i \in 1 .. n : s[i] \in Nat
  OBVIOUS
<1>2. s = [i \in 1 .. n |-> s[i]]
  OBVIOUS
<1>. QED
  BY <1>1, <1>2

LEMMA ShortTyped == \A s \in ShortNames : ShortName(s) \in Seq(Nat)
<1>1. ASSUME NEW s \in ShortNames PROVE ShortName(s) \in Seq(Nat)
  <2>1. PICK a \in Nat, b \in Nat : a = BaseSize /\ b = BaseSize + ExtSize /\ a <= b
    BY NamesAssumption DEF NamesAssumption
  <2>2. s \in [1 .. b -> 0 .. 255]
    <3>1. ShortNames \subseteq {t \in [1 .. BaseSize + ExtSize -> 0 .. 255] :
                                t[1] \notin {0, 229}}
      BY NamesAssumption DEF NamesAssumption
    <3>2. s \in [1 .. BaseSize + ExtSize -> 0 .. 255]
      BY <3>1
    <3>. QED
      BY <2>1, <3>2, Zenon
  <2>4. s \in Seq(Nat) /\ Len(s) = b
    <3>1. PICK m \in Nat : m = 255
      OBVIOUS
    <3>2. s \in [1 .. b -> 0 .. m]
      BY <2>2, <3>1, Zenon
    <3>. QED
      BY <3>2, NumbersIn
  <2>5. Trimmed(s, 1, a) \in Seq(Nat)
    <3>1. 1 \in Nat \ {0} /\ 1 <= a + 1 /\ a <= Len(s)
      BY <2>1, <2>4
    <3>. QED
      BY <2>4, <3>1, TrimmedTyped
  <2>6. Trimmed(s, a + 1, b) \in Seq(Nat)
    <3>1. a + 1 \in Nat \ {0} /\ a + 1 <= b + 1 /\ b <= Len(s)
      BY <2>1, <2>4
    <3>. QED
      BY <2>4, <3>1, TrimmedTyped
  <2>7. PICK x \in Seq(Nat), y \in Seq(Nat) : x = Trimmed(s, 1, a) /\ y = Trimmed(s, a + 1, b)
    BY <2>5, <2>6
  <2>8. ShortName(s) = IF y = <<>> THEN x ELSE x \o <<Dot>> \o y
    BY <2>1, <2>7, Zenon DEF ShortName
  <2>9. x \o <<Dot>> \o y \in Seq(Nat)
    <3>1. Dot \in Nat
      BY DEF Dot
    <3>2. <<Dot>> \in Seq(Nat)
      BY <3>1
    <3>3. x \o <<Dot>> \in Seq(Nat)
      BY <3>2
    <3>. QED
      BY <3>3
  <2>. QED
    BY <2>8, <2>9, Zenon
<1>. QED
  BY <1>1

LEMMA NameUnits ==
    ASSUME NEW u \in LongNames
    PROVE  u \in Seq(Nat) /\ \A i \in 1 .. Len(u) : u[i] \in LongUnits
<1>1. u \in Seq(LongUnits)
  BY NamesAssumption, Zenon DEF NamesAssumption
<1>2. \A x \in LongUnits : x \in Nat
  BY DEF LongUnits
<1>. QED
  BY <1>1, <1>2, NumbersOf, Zenon

(* A text read so far is the first k units, and none of them is alone. *)
ReadTo(r, u, k) ==
    /\ r \in Seq(Int) /\ Len(r) = k
    /\ \A i \in 1 .. k : r[i] = u[i]
PairedTo(u, k) ==
    \A i \in 1 .. k :
        /\ HighSurrogate(u[i]) => i < k /\ LowSurrogate(u[i + 1])
        /\ LowSurrogate(u[i]) => i > 1 /\ HighSurrogate(u[i - 1])

Surrogates == \A x : HighSurrogate(x) => ~LowSurrogate(x)

LEMMA NotBoth == Surrogates
<1>1. \A x : HighSurrogate(x) => x \in Nat /\ x < 56320
  BY SMT DEF HighSurrogate
<1>2. \A x : LowSurrogate(x) => x \in Nat /\ 56320 <= x
  BY SMT DEF LowSurrogate
<1>. QED
  BY <1>1, <1>2, SMT DEF Surrogates

LEMMA OneMore ==
    ASSUME NEW r, NEW u \in Seq(Nat), NEW k \in Nat, ReadTo(r, u, k), PairedTo(u, k),
           k + 1 <= Len(u), ~HighSurrogate(u[k + 1]), ~LowSurrogate(u[k + 1])
    PROVE  ReadTo(r \o <<u[k + 1]>>, u, k + 1) /\ PairedTo(u, k + 1)
<1>1. r \in Seq(Int) /\ Len(r) = k /\ \A i \in 1 .. k : r[i] = u[i]
  BY Zenon DEF ReadTo
<1>2. PICK x \in Int : x = u[k + 1]
  <2>1. k + 1 \in 1 .. Len(u)
    OBVIOUS
  <2>. QED
    BY <2>1
<1>3. PICK q : q = r \o <<x>>
  OBVIOUS
<1>4. /\ q \in Seq(Int) /\ Len(q) = k + 1 /\ q[k + 1] = x
      /\ \A i \in 1 .. k : q[i] = u[i]
  <2>1. PICK e : e = <<x>>
    OBVIOUS
  <2>2. e \in Seq(Int) /\ Len(e) = 1 /\ e[1] = x
    BY <2>1
  <2>3. q = r \o e
    BY <1>3, <2>1, Zenon
  <2>4. /\ q \in Seq(Int) /\ Len(q) = Len(r) + Len(e)
        /\ \A i \in 1 .. Len(r) : q[i] = r[i]
        /\ \A i \in 1 .. Len(e) : q[Len(r) + i] = e[i]
    <3>1. /\ r \o e \in Seq(Int) /\ Len(r \o e) = Len(r) + Len(e)
          /\ \A i \in 1 .. Len(r) : (r \o e)[i] = r[i]
          /\ \A i \in 1 .. Len(e) : (r \o e)[Len(r) + i] = e[i]
      <4>1. r \in Seq(Int) /\ e \in Seq(Int)
        BY <1>1, <2>2, Zenon
      <4>. QED
        BY <4>1
    <3>. QED
      BY <2>3, <3>1, Zenon
  <2>5. 1 \in 1 .. Len(e)
    BY <2>2
  <2>. QED
    BY <1>1, <2>2, <2>4, <2>5
<1>5. \A i \in 1 .. k + 1 : i \in 1 .. k \/ i = k + 1
  OBVIOUS
<1>6. ReadTo(q, u, k + 1)
  BY <1>2, <1>4, <1>5, Zenon DEF ReadTo
<1>7. \A i \in 1 .. k : i < k => i < k + 1
  OBVIOUS
<1>8. PairedTo(u, k + 1)
  BY <1>5, <1>7, Zenon DEF PairedTo
<1>. QED
  BY <1>2, <1>3, <1>6, <1>8, Zenon

LEMMA TwoMore ==
    ASSUME NEW r, NEW u \in Seq(Nat), NEW k \in Nat, ReadTo(r, u, k), PairedTo(u, k),
           k + 2 <= Len(u), HighSurrogate(u[k + 1]), LowSurrogate(u[k + 2])
    PROVE  ReadTo(r \o <<u[k + 1], u[k + 2]>>, u, k + 2) /\ PairedTo(u, k + 2)
<1>1. r \in Seq(Int) /\ Len(r) = k /\ \A i \in 1 .. k : r[i] = u[i]
  BY Zenon DEF ReadTo
<1>2. PICK x \in Int, y \in Int : x = u[k + 1] /\ y = u[k + 2]
  <2>1. k + 1 \in 1 .. Len(u) /\ k + 2 \in 1 .. Len(u)
    OBVIOUS
  <2>. QED
    BY <2>1
<1>3. PICK q : q = r \o <<x, y>>
  OBVIOUS
<1>4. /\ q \in Seq(Int) /\ Len(q) = k + 2 /\ q[k + 1] = x /\ q[k + 2] = y
      /\ \A i \in 1 .. k : q[i] = u[i]
  <2>1. PICK e : e = <<x, y>>
    OBVIOUS
  <2>2. e \in Seq(Int) /\ Len(e) = 2 /\ e[1] = x /\ e[2] = y
    BY <2>1
  <2>3. q = r \o e
    BY <1>3, <2>1, Zenon
  <2>4. /\ q \in Seq(Int) /\ Len(q) = Len(r) + Len(e)
        /\ \A i \in 1 .. Len(r) : q[i] = r[i]
        /\ \A i \in 1 .. Len(e) : q[Len(r) + i] = e[i]
    <3>1. /\ r \o e \in Seq(Int) /\ Len(r \o e) = Len(r) + Len(e)
          /\ \A i \in 1 .. Len(r) : (r \o e)[i] = r[i]
          /\ \A i \in 1 .. Len(e) : (r \o e)[Len(r) + i] = e[i]
      <4>1. r \in Seq(Int) /\ e \in Seq(Int)
        BY <1>1, <2>2, Zenon
      <4>. QED
        BY <4>1
    <3>. QED
      BY <2>3, <3>1, Zenon
  <2>5. 1 \in 1 .. Len(e) /\ 2 \in 1 .. Len(e)
    BY <2>2
  <2>. QED
    BY <1>1, <2>2, <2>4, <2>5
<1>5. \A i \in 1 .. k + 2 : i \in 1 .. k \/ i = k + 1 \/ i = k + 2
  OBVIOUS
<1>6. ReadTo(q, u, k + 2)
  BY <1>2, <1>4, <1>5, Zenon DEF ReadTo
<1>7. \A i \in 1 .. k : i < k => i < k + 2
  OBVIOUS
<1>8. /\ k + 1 < k + 2 /\ k + 2 > 1 /\ k + 1 + 1 = k + 2 /\ k + 2 - 1 = k + 1
  OBVIOUS
<1>9. ~LowSurrogate(u[k + 1]) /\ ~HighSurrogate(u[k + 2])
  BY NotBoth, Zenon DEF Surrogates
<1>10. PairedTo(u, k + 2)
  <2>1. ASSUME NEW i \in 1 .. k + 2
        PROVE  /\ HighSurrogate(u[i]) => i < k + 2 /\ LowSurrogate(u[i + 1])
               /\ LowSurrogate(u[i]) => i > 1 /\ HighSurrogate(u[i - 1])
    <3>1. CASE i \in 1 .. k
      BY <1>7, <3>1, Zenon DEF PairedTo
    <3>2. CASE i = k + 1
      BY <1>8, <1>9, <3>2
    <3>3. CASE i = k + 2
      BY <1>8, <1>9, <3>3
    <3>. QED
      BY <1>5, <3>1, <3>2, <3>3, Zenon
  <2>. QED
    BY <2>1, Zenon DEF PairedTo
<1>. QED
  BY <1>2, <1>3, <1>6, <1>10, Zenon

SourcePart == naming # "none" => source.units \in LongNames /\ source.parent \in Parents

(* The number of units that the text stands for. *)
Converted == IF high = 0 THEN index - 1 ELSE index - 2

TextPart ==
    naming \in {"decode", "text"} =>
        /\ index \in 1 .. Len(source.units) + 1
        /\ high # 0 => /\ index > 1 /\ high = source.units[index - 1]
                       /\ HighSurrogate(high)
        /\ utf8 \in Seq(Nat) /\ ~Has(utf8, 0) /\ \E B : Starts(utf8, B)
        /\ ReadTo(Read(utf8), source.units, Converted)
        /\ PairedTo(source.units, Converted)
        /\ naming = "text" => high = 0 /\ index = Len(source.units) + 1

EntryPart ==
    /\ naming \in {"named", "listed"} =>
          /\ name \in Seq(Nat)
          /\ source.format = "exfat" => Text(name) /\ ~Has(name, Slash)
    /\ naming = "listed" => /\ name # <<>> /\ ~IsDots(name)
                            /\ entry.name \in NewString(name)
                            /\ entry.path \in NewString(PathOf(source.parent, name))

AnswerPart ==
    /\ naming # "listed" => answer.by = "none"
    /\ answer.by = "native" =>
          /\ answer.granted = SafePath(entry.path)
          /\ answer.granted => answer.parts = Split(entry.path)
    /\ answer.by = "provider" =>
          /\ answer.granted = GoodDocumentId(entry.path) /\ entry.path # <<Slash>>
          /\ answer.granted => answer.parts = Split(ParentOf(entry.path))

StartPart == naming = "none" => index = 1 /\ high = 0 /\ utf8 = <<>>

NamePlaces == {"none", "decode", "text", "refused", "named", "skipped", "listed", "lost"}

NamesInv ==
    /\ naming \in NamePlaces
    /\ StartPart /\ SourcePart /\ TextPart /\ EntryPart /\ AnswerPart

LEMMA NamesBegin == NamesInit => NamesInv
<1>1. SUFFICES ASSUME NamesInit PROVE NamesInv
  OBVIOUS
<1>2. naming = "none" /\ index = 1 /\ high = 0 /\ utf8 = <<>> /\ answer.by = "none"
  BY <1>1, Zenon DEF NamesInit, NoAnswer
<1>3. "none" \notin {"decode", "text", "named", "listed"} /\ "none" # "native" /\ "none" # "provider"
  OBVIOUS
<1>. QED
  BY <1>2, <1>3 DEF NamesInv, NamePlaces, StartPart, SourcePart, TextPart, EntryPart, AnswerPart

(* Nothing but the text has changed. *)
LEMMA KeepEntry ==
    ASSUME NamesInv, naming = "decode", naming' \notin {"none", "named", "listed"},
           source' = source, answer' = answer
    PROVE  StartPart' /\ SourcePart' /\ EntryPart' /\ AnswerPart'
<1>1. naming # "none" /\ naming # "listed"
  OBVIOUS
<1>2. source.units \in LongNames /\ source.parent \in Parents /\ answer.by = "none"
  BY <1>1, Zenon DEF NamesInv, SourcePart, AnswerPart
<1>3. StartPart' /\ EntryPart'
  BY DEF StartPart, EntryPart
<1>4. SourcePart'
  BY <1>2, Zenon DEF SourcePart
<1>5. "none" # "native" /\ "none" # "provider" /\ answer'.by = "none"
  BY <1>2
<1>6. AnswerPart'
  BY <1>5, Zenon DEF AnswerPart
<1>. QED
  BY <1>3, <1>4, <1>6

LEMMA NameCallStep == NamesInv /\ NameCall => NamesInv'
<1>1. SUFFICES ASSUME NamesInv, NameCall PROVE NamesInv'
  OBVIOUS
<1>2. /\ naming = "none" /\ naming' = "decode"
      /\ index' = 1 /\ high' = 0 /\ utf8' = <<>> /\ answer' = answer
  BY <1>1, Zenon DEF NameCall, NamesInv, StartPart
<1>3. source'.units \in LongNames /\ source'.parent \in Parents
  <2>1. source' \in [format : {"fat32", "exfat"}, parent : Parents, units : LongNames]
    BY <1>1, Zenon DEF NameCall
  <2>. QED
    BY <2>1
<1>4. answer'.by = "none"
  <2>1. naming # "listed"
    BY <1>2
  <2>. QED
    BY <1>1, <1>2, <2>1, Zenon DEF NamesInv, AnswerPart
<1>5. source'.units \in Seq(Nat) /\ Len(source'.units) \in Nat
  <2>1. source'.units \in Seq(Nat)
    BY <1>3, NameUnits, Zenon
  <2>. QED
    BY <2>1
<1>6. TextPart'
  <2>1. Read(<<>>) = <<>> /\ \E B : Starts(<<>>, B)
    BY ReadNothing, Zenon
  <2>2. <<>> \in Seq(Nat) /\ <<>> \in Seq(Int) /\ Len(<<>>) = 0
    OBVIOUS
  <2>3. Converted' = 0
    BY <1>2 DEF Converted
  <2>4. \A i \in 1 .. 0 : FALSE
    OBVIOUS
  <2>5. ReadTo(<<>>, source'.units, 0) /\ PairedTo(source'.units, 0)
    BY <2>2, <2>4, Zenon DEF ReadTo, PairedTo
  <2>6. 1 \in 1 .. Len(source'.units) + 1
    BY <1>5
  <2>7. naming' # "text"
    BY <1>2
  <2>8. ~Has(<<>>, 0)
    BY DEF Has
  <2>. QED
    BY <1>2, <2>1, <2>2, <2>3, <2>5, <2>6, <2>7, <2>8, Zenon DEF TextPart
<1>7. naming' \notin {"none", "named", "listed", "text"} /\ naming' = "decode"
  BY <1>2
<1>8. StartPart' /\ SourcePart' /\ EntryPart'
  BY <1>3, <1>7 DEF StartPart, SourcePart, EntryPart
<1>9. AnswerPart'
  <2>1. "none" # "native" /\ "none" # "provider"
    OBVIOUS
  <2>. QED
    BY <1>4, <2>1, Zenon DEF AnswerPart
<1>. QED
  BY <1>2, <1>6, <1>8, <1>9 DEF NamesInv, NamePlaces

(* While there are units, the next one is the first that has not been converted,
   or the second if the first is kept. *)
LEMMA AtUnit ==
    ASSUME NamesInv, MoreUnits
    PROVE  /\ naming = "decode" /\ source.units \in LongNames /\ source.units \in Seq(Nat)
           /\ Len(source.units) \in Nat
           /\ index \in 1 .. Len(source.units) /\ index \in Nat
           /\ Unit \in LongUnits /\ Unit \in Nat /\ Unit = source.units[index]
           /\ utf8 \in Seq(Nat) /\ ~Has(utf8, 0) /\ \E B : Starts(utf8, B)
           /\ ReadTo(Read(utf8), source.units, Converted)
           /\ PairedTo(source.units, Converted)
           /\ high # 0 => /\ index > 1 /\ high = source.units[index - 1]
                          /\ HighSurrogate(high)
           /\ Converted \in Nat
<1>1. naming = "decode" /\ index <= Len(source.units)
  BY Zenon DEF MoreUnits
<1>2. naming # "none" /\ naming \in {"decode", "text"}
  BY <1>1
<1>3. source.units \in LongNames
  BY <1>2, Zenon DEF NamesInv, SourcePart
<1>4. /\ source.units \in Seq(Nat)
      /\ \A i \in 1 .. Len(source.units) : source.units[i] \in LongUnits
  BY <1>3, NameUnits, Zenon
<1>5. /\ index \in 1 .. Len(source.units) + 1
      /\ high # 0 => /\ index > 1 /\ high = source.units[index - 1]
                     /\ HighSurrogate(high)
      /\ utf8 \in Seq(Nat) /\ ~Has(utf8, 0) /\ \E B : Starts(utf8, B)
      /\ ReadTo(Read(utf8), source.units, Converted)
      /\ PairedTo(source.units, Converted)
  BY <1>2, Zenon DEF NamesInv, TextPart
<1>6. PICK n \in Nat : n = Len(source.units)
  BY <1>4
<1>7. index \in 1 .. n
  <2>1. index \in 1 .. n + 1 /\ index <= n
    BY <1>1, <1>5, <1>6, Zenon
  <2>. QED
    BY <2>1
<1>8. source.units[index] \in Nat /\ source.units[index] \in LongUnits
  BY <1>4, <1>6, <1>7
<1>9. index \in Nat
  BY <1>7
<1>10. Converted \in Nat
  <2>1. high = 0 => index - 1 \in Nat
    BY <1>7
  <2>2. high # 0 => index - 2 \in Nat
    <3>1. high # 0 => index > 1
      BY <1>5, Zenon
    <3>. QED
      BY <1>7, <3>1
  <2>. QED
    BY <2>1, <2>2, Zenon DEF Converted
<1>. QED
  BY <1>1, <1>3, <1>4, <1>5, <1>6, <1>7, <1>8, <1>9, <1>10, Zenon DEF Unit

LEMMA DecodeHighStep == NamesInv /\ DecodeHigh => NamesInv'
<1>1. SUFFICES ASSUME NamesInv, DecodeHigh PROVE NamesInv'
  OBVIOUS
<1>2. /\ MoreUnits /\ high = 0 /\ HighSurrogate(Unit)
      /\ high' = Unit /\ index' = index + 1 /\ naming' = naming
      /\ source' = source /\ utf8' = utf8 /\ answer' = answer
  BY <1>1, Zenon DEF DecodeHigh
<1>3. /\ naming = "decode" /\ source.units \in LongNames /\ source.units \in Seq(Nat)
      /\ Len(source.units) \in Nat
      /\ index \in 1 .. Len(source.units) /\ index \in Nat
      /\ Unit \in Nat /\ Unit = source.units[index]
      /\ utf8 \in Seq(Nat) /\ ~Has(utf8, 0)
      /\ ReadTo(Read(utf8), source.units, Converted)
      /\ PairedTo(source.units, Converted)
  BY <1>1, <1>2, AtUnit, Zenon
<1>4. naming' \notin {"none", "named", "listed", "text"} /\ naming \in {"decode", "text"}
  BY <1>2, <1>3
<1>5. StartPart' /\ SourcePart' /\ EntryPart' /\ AnswerPart'
  <2>1. naming' \notin {"none", "named", "listed"}
    BY <1>4
  <2>. QED
    BY <1>1, <1>2, <1>3, <2>1, KeepEntry, Zenon
<1>6. Unit # 0
  <2>1. \A u : HighSurrogate(u) => u # 0
    BY SMT DEF HighSurrogate
  <2>. QED
    BY <1>2, <2>1, Zenon
<1>7. Converted' = Converted
  <2>1. Converted = index - 1
    BY <1>2, Zenon DEF Converted
  <2>2. high' # 0
    BY <1>2, <1>6, Zenon
  <2>3. Converted' = index' - 2
    BY <2>2, Zenon DEF Converted
  <2>4. index' - 2 = index - 1
    BY <1>2, <1>3
  <2>. QED
    BY <2>1, <2>3, <2>4, Zenon
<1>8. /\ index + 1 \in 1 .. Len(source.units) + 1 /\ index + 1 > 1 /\ index + 1 - 1 = index
  BY <1>3
<1>9. \E B : Starts(utf8, B)
  BY <1>1, <1>4, Zenon DEF NamesInv, TextPart
<1>10. naming' # "text"
  BY <1>4
<1>11. TextPart'
  <2>1. index' \in 1 .. Len(source'.units) + 1
    BY <1>2, <1>8, Zenon
  <2>2. index' > 1 /\ high' = source'.units[index' - 1] /\ HighSurrogate(high')
    <3>1. index' > 1 /\ index' - 1 = index
      <4>1. index' = index + 1 /\ index \in 1 .. Len(source.units) /\ index \in Nat
        BY <1>2, <1>3, Zenon
      <4>2. index >= 1
        BY <1>3
      <4>. QED
        BY <4>1, <4>2
    <3>2. high' = source'.units[index] /\ HighSurrogate(high')
      BY <1>2, <1>3, Zenon
    <3>. QED
      BY <3>1, <3>2, Zenon
  <2>3. utf8' \in Seq(Nat) /\ ~Has(utf8', 0) /\ \E B : Starts(utf8', B)
    BY <1>2, <1>3, <1>9, Zenon
  <2>4. ReadTo(Read(utf8'), source'.units, Converted') /\ PairedTo(source'.units, Converted')
    BY <1>2, <1>3, <1>7, Zenon
  <2>. QED
    BY <1>10, <2>1, <2>2, <2>3, <2>4, Zenon DEF TextPart
<1>12. naming' = "decode"
  BY <1>2, <1>3, Zenon
<1>. QED
  BY <1>5, <1>11, <1>12 DEF NamesInv, NamePlaces

LEMMA DecodeCharacterStep == NamesInv /\ DecodeCharacter => NamesInv'
<1>1. SUFFICES ASSUME NamesInv, DecodeCharacter PROVE NamesInv'
  OBVIOUS
<1>. DEFINE c == CodePoint(high, Unit)
            e == Encoded(c)
<1>2. /\ MoreUnits
      /\ IF high = 0 THEN ~HighSurrogate(Unit) /\ ~LowSurrogate(Unit) ELSE LowSurrogate(Unit)
      /\ naming' \in {"decode", "refused"}
      /\ naming' = "decode" => utf8' = utf8 \o e
      /\ high' = 0 /\ index' = index + 1
      /\ source' = source /\ answer' = answer
  <2>. DEFINE fits == Len(utf8) + Len(e) <= MaxNameBytes
  <2>1. /\ naming' = IF fits THEN "decode" ELSE "refused"
        /\ utf8' = IF fits THEN utf8 \o e ELSE <<>>
    BY <1>1, Zenon DEF DecodeCharacter
  <2>2. "decode" # "refused"
    OBVIOUS
  <2>3. naming' \in {"decode", "refused"} /\ (naming' = "decode" => utf8' = utf8 \o e)
    <3>. HIDE DEF fits, e
    <3>. QED
      BY <2>1, <2>2, Zenon
  <2>. QED
    BY <1>1, <2>3, Zenon DEF DecodeCharacter
<1>. HIDE DEF e, c
<1>3. /\ naming = "decode" /\ source.units \in LongNames /\ source.units \in Seq(Nat)
      /\ Len(source.units) \in Nat
      /\ index \in 1 .. Len(source.units) /\ index \in Nat
      /\ Unit \in LongUnits /\ Unit \in Nat /\ Unit = source.units[index]
      /\ utf8 \in Seq(Nat) /\ ~Has(utf8, 0)
      /\ ReadTo(Read(utf8), source.units, Converted)
      /\ PairedTo(source.units, Converted)
      /\ high # 0 => /\ index > 1 /\ high = source.units[index - 1]
                     /\ HighSurrogate(high)
      /\ Converted \in Nat
  BY <1>1, <1>2, AtUnit, Zenon
<1>4. naming' \notin {"none", "named", "listed", "text"} /\ naming \in {"decode", "text"}
  BY <1>2, <1>3
<1>5. StartPart' /\ SourcePart' /\ EntryPart' /\ AnswerPart'
  <2>1. naming' \notin {"none", "named", "listed"}
    BY <1>4
  <2>. QED
    BY <1>1, <1>2, <1>3, <2>1, KeepEntry, Zenon
<1>6. PICK B : Starts(utf8, B)
  BY <1>1, <1>4, Zenon DEF NamesInv, TextPart
<1>7. Point(c) /\ Units(c) = IF high = 0 THEN <<Unit>> ELSE <<high, Unit>>
  BY <1>2, <1>3, PointUnits, Zenon DEF c
<1>8. /\ e \in Seq(Nat) /\ e # <<>> /\ ~Has(e, 0) /\ Width(e[1]) = Len(e)
      /\ UnitsAt(e, 1) = Units(c)
  BY <1>7, EncodedRead, Zenon DEF e, Point
<1>9. /\ Read(utf8 \o e) = Read(utf8) \o UnitsAt(e, 1)
      /\ \E C : Starts(utf8 \o e, C)
  <2>1. Read(e) = UnitsAt(e, 1) /\ Starts(e, {1, Len(e) + 1})
    BY <1>8, ReadOne, Zenon
  <2>. QED
    BY <1>3, <1>6, <1>8, <2>1, ReadJoined, Zenon
<1>10. utf8 \o e \in Seq(Nat) /\ ~Has(utf8 \o e, 0)
  <2>1. utf8 \in Seq(Nat) /\ e \in Seq(Nat)
    BY <1>3, <1>8, Zenon
  <2>2. ~Has(utf8 \o e, 0)
    BY <1>3, <1>8, <2>1, HasJoined, Zenon
  <2>. QED
    BY <2>1, <2>2
<1>11. Converted' = index
  <2>1. Converted' = index' - 1
    BY <1>2, Zenon DEF Converted
  <2>2. index' - 1 = index
    BY <1>2, <1>3
  <2>. QED
    BY <2>1, <2>2, Zenon
<1>12. ReadTo(Read(utf8 \o e), source.units, index) /\ PairedTo(source.units, index)
  <2>. DEFINE r == Read(utf8)
              u == source.units
  <2>1. CASE high = 0
    <3>1. PICK k \in Nat : k = Converted /\ k + 1 = index /\ k + 1 <= Len(u)
      <4>1. Converted = index - 1
        BY <2>1, Zenon DEF Converted
      <4>. QED
        BY <1>3, <4>1
    <3>2. ~HighSurrogate(u[k + 1]) /\ ~LowSurrogate(u[k + 1])
      BY <1>2, <1>3, <2>1, <3>1, Zenon
    <3>3. ReadTo(r, u, k) /\ PairedTo(u, k) /\ u \in Seq(Nat) /\ k + 1 <= Len(u)
      BY <1>3, <3>1, Zenon
    <3>4. ReadTo(r \o <<u[k + 1]>>, u, k + 1) /\ PairedTo(u, k + 1)
      <4>. HIDE DEF r, u
      <4>. QED
        BY <3>2, <3>3, OneMore, Zenon
    <3>5. Read(utf8 \o e) = r \o <<u[k + 1]>>
      <4>1. UnitsAt(e, 1) = <<Unit>> /\ Unit = u[k + 1]
        BY <1>3, <1>7, <1>8, <2>1, <3>1, Zenon
      <4>. QED
        BY <1>9, <4>1, Zenon
    <3>. QED
      BY <3>1, <3>4, <3>5, Zenon
  <2>2. CASE high # 0
    <3>1. PICK k \in Nat : /\ k = Converted /\ k + 2 = index /\ k + 1 = index - 1
                           /\ k + 2 <= Len(u)
      <4>1. Converted = index - 2
        BY <2>2, Zenon DEF Converted
      <4>. QED
        BY <1>3, <4>1
    <3>2. HighSurrogate(u[k + 1]) /\ LowSurrogate(u[k + 2])
      BY <1>2, <1>3, <2>2, <3>1, Zenon
    <3>3. ReadTo(r, u, k) /\ PairedTo(u, k) /\ u \in Seq(Nat) /\ k + 2 <= Len(u)
      BY <1>3, <3>1, Zenon
    <3>4. ReadTo(r \o <<u[k + 1], u[k + 2]>>, u, k + 2) /\ PairedTo(u, k + 2)
      <4>. HIDE DEF r, u
      <4>. QED
        BY <3>2, <3>3, TwoMore, Zenon
    <3>5. Read(utf8 \o e) = r \o <<u[k + 1], u[k + 2]>>
      <4>1. UnitsAt(e, 1) = <<high, Unit>> /\ Unit = u[k + 2] /\ high = u[k + 1]
        BY <1>3, <1>7, <1>8, <2>2, <3>1, Zenon
      <4>. QED
        BY <1>9, <4>1, Zenon
    <3>. QED
      BY <3>1, <3>4, <3>5, Zenon
  <2>. QED
    BY <2>1, <2>2, Zenon
<1>13. index + 1 \in 1 .. Len(source.units) + 1
  BY <1>3
<1>14. TextPart'
  <2>1. CASE naming' = "decode"
    <3>1. utf8' = utf8 \o e /\ naming' # "text"
      BY <1>2, <1>4, <2>1
    <3>. QED
      BY <1>2, <1>9, <1>10, <1>11, <1>12, <1>13, <3>1, Zenon DEF TextPart
  <2>2. CASE naming' # "decode"
    <3>1. naming' \notin {"decode", "text"}
      BY <1>4, <2>2
    <3>. QED
      BY <3>1, Zenon DEF TextPart
  <2>. QED
    BY <2>1, <2>2, Zenon
<1>15. naming' \in NamePlaces
  BY <1>2 DEF NamePlaces
<1>. QED
  BY <1>5, <1>14, <1>15, Zenon DEF NamesInv

LEMMA DecodeLoneStep == NamesInv /\ DecodeLone => NamesInv'
<1>1. SUFFICES ASSUME NamesInv, DecodeLone PROVE NamesInv'
  OBVIOUS
<1>2. naming = "decode" /\ naming' = "refused" /\ source' = source /\ answer' = answer
  BY <1>1, Zenon DEF DecodeLone, MoreUnits
<1>3. naming' \notin {"none", "named", "listed"} /\ naming' \notin {"decode", "text"}
  BY <1>2
<1>4. StartPart' /\ SourcePart' /\ EntryPart' /\ AnswerPart'
  BY <1>1, <1>2, <1>3, KeepEntry, Zenon
<1>5. TextPart'
  BY <1>3, Zenon DEF TextPart
<1>. QED
  BY <1>2, <1>4, <1>5 DEF NamesInv, NamePlaces

LEMMA DecodeEndStep == NamesInv /\ DecodeEnd => NamesInv'
<1>1. SUFFICES ASSUME NamesInv, DecodeEnd PROVE NamesInv'
  OBVIOUS
<1>2. /\ naming = "decode" /\ index = Len(source.units) + 1
      /\ naming' = IF high = 0 /\ utf8 # <<>> THEN "text" ELSE "refused"
      /\ utf8' = IF high = 0 THEN utf8 ELSE <<>>
      /\ source' = source /\ answer' = answer /\ high' = high /\ index' = index
  BY <1>1, Zenon DEF DecodeEnd
<1>3. naming' \notin {"none", "named", "listed", "decode"} /\ naming \in {"decode", "text"}
  BY <1>2
<1>4. StartPart' /\ SourcePart' /\ EntryPart' /\ AnswerPart'
  <2>1. naming' \notin {"none", "named", "listed"}
    BY <1>3
  <2>. QED
    BY <1>1, <1>2, <2>1, KeepEntry, Zenon
<1>5. TextPart'
  <2>1. CASE naming' = "text"
    <3>1. high = 0 /\ utf8' = utf8
      BY <1>2, <2>1
    <3>2. /\ index \in 1 .. Len(source.units) + 1
          /\ utf8 \in Seq(Nat) /\ ~Has(utf8, 0) /\ \E B : Starts(utf8, B)
          /\ ReadTo(Read(utf8), source.units, Converted)
          /\ PairedTo(source.units, Converted)
      BY <1>1, <1>3, Zenon DEF NamesInv, TextPart
    <3>3. Converted' = Converted
      BY <1>2, Zenon DEF Converted
    <3>. QED
      BY <1>2, <3>1, <3>2, <3>3, Zenon DEF TextPart
  <2>2. CASE naming' # "text"
    <3>1. naming' \notin {"decode", "text"}
      BY <1>3, <2>2
    <3>. QED
      BY <3>1, Zenon DEF TextPart
  <2>. QED
    BY <2>1, <2>2, Zenon
<1>6. naming' \in {"text", "refused"}
  BY <1>2
<1>. QED
  BY <1>4, <1>5, <1>6 DEF NamesInv, NamePlaces

(* The text of a long name is text for NewStringUTF too. *)
LEMMA LongIsText ==
    ASSUME NamesInv, naming = "text"
    PROVE  Read(utf8) = source.units /\ Text(utf8) /\ utf8 \in Seq(Nat)
<1>1. naming # "none" /\ naming \in {"decode", "text"}
  OBVIOUS
<1>2. /\ source.units \in LongNames
      /\ utf8 \in Seq(Nat) /\ ~Has(utf8, 0)
      /\ ReadTo(Read(utf8), source.units, Converted)
      /\ high = 0 /\ index = Len(source.units) + 1
  BY <1>1, Zenon DEF NamesInv, SourcePart, TextPart
<1>3. PICK u : u = source.units
  OBVIOUS
<1>4. u \in Seq(Nat) /\ Len(u) \in Nat /\ DOMAIN u = 1 .. Len(u)
      /\ \A i \in 1 .. Len(u) : u[i] \in LongUnits
  <2>1. u \in Seq(Nat) /\ \A i \in 1 .. Len(u) : u[i] \in LongUnits
    BY <1>2, <1>3, NameUnits, Zenon
  <2>. QED
    BY <2>1
<1>5. Converted = Len(u)
  <2>1. Converted = index - 1
    BY <1>2, Zenon DEF Converted
  <2>2. index = Len(u) + 1
    BY <1>2, <1>3, Zenon
  <2>. QED
    BY <1>4, <2>1, <2>2
<1>6. Read(utf8) = u
  <2>1. PICK r : r = Read(utf8)
    OBVIOUS
  <2>2. r \in Seq(Int) /\ Len(r) = Len(u) /\ \A i \in 1 .. Len(u) : r[i] = u[i]
    BY <1>2, <1>3, <1>5, <2>1, Zenon DEF ReadTo
  <2>3. r = u
    BY <1>4, <2>2
  <2>. QED
    BY <2>1, <2>3, Zenon
<1>7. ~Has(u, -1)
  <2>1. -1 \notin LongUnits
    BY DEF LongUnits
  <2>. QED
    BY <1>4, <2>1, Zenon DEF Has
<1>. QED
  BY <1>2, <1>3, <1>6, <1>7, Zenon DEF Text

(* A step behind the conversion that gives no answer and hands out no path. *)
LEMMA LaterStep ==
    ASSUME NamesInv, naming \in {"text", "refused", "named"},
           naming' \in {"named", "skipped", "lost"},
           naming' = "named" =>
               /\ name' \in Seq(Nat)
               /\ source.format = "exfat" => Text(name') /\ ~Has(name', Slash),
           source' = source, answer' = answer
    PROVE  NamesInv'
<1>1. naming # "none" /\ naming # "listed"
  OBVIOUS
<1>2. source.units \in LongNames /\ source.parent \in Parents /\ answer.by = "none"
  BY <1>1, Zenon DEF NamesInv, SourcePart, AnswerPart
<1>3. naming' # "none" /\ naming' # "listed" /\ naming' \notin {"decode", "text"}
  OBVIOUS
<1>4. StartPart' /\ TextPart' /\ SourcePart'
  BY <1>2, <1>3, Zenon DEF StartPart, TextPart, SourcePart
<1>5. EntryPart'
  <2>1. naming' \in {"named", "listed"} => naming' = "named"
    OBVIOUS
  <2>. QED
    BY <1>3, <2>1, Zenon DEF EntryPart
<1>6. AnswerPart'
  <2>1. "none" # "native" /\ "none" # "provider"
    OBVIOUS
  <2>. QED
    BY <1>2, <2>1, Zenon DEF AnswerPart
<1>7. naming' \in NamePlaces
  BY DEF NamePlaces
<1>. QED
  BY <1>4, <1>5, <1>6, <1>7, Zenon DEF NamesInv

LEMMA LongNameStep == NamesInv /\ LongName => NamesInv'
<1>1. SUFFICES ASSUME NamesInv, LongName PROVE NamesInv'
  OBVIOUS
<1>2. /\ naming = "text" /\ source' = source /\ answer' = answer
      /\ \/ naming' = "skipped"
         \/ /\ naming' = "named" /\ name' = utf8
            /\ source.format = "exfat" => ~Has(utf8, Slash)
  BY <1>1, Zenon DEF LongName
<1>3. utf8 \in Seq(Nat) /\ Text(utf8)
  BY <1>1, <1>2, LongIsText, Zenon
<1>4. naming \in {"text", "refused", "named"} /\ naming' \in {"named", "skipped", "lost"}
      /\ "skipped" # "named"
  BY <1>2
<1>5. naming' = "named" =>
          /\ name' \in Seq(Nat)
          /\ source.format = "exfat" => Text(name') /\ ~Has(name', Slash)
  BY <1>2, <1>3, <1>4, Zenon
<1>. QED
  BY <1>1, <1>2, <1>4, <1>5, LaterStep, Zenon

LEMMA NoTextStep == NamesInv /\ NoText => NamesInv'
<1>1. SUFFICES ASSUME NamesInv, NoText PROVE NamesInv'
  OBVIOUS
<1>2. /\ naming = "refused" /\ source' = source /\ answer' = answer
      /\ \/ naming' = "skipped"
         \/ /\ naming' = "named" /\ source.format # "exfat"
            /\ name' \in {ShortName(s) : s \in ShortNames}
  BY <1>1, Zenon DEF NoText
<1>3. naming \in {"text", "refused", "named"} /\ naming' \in {"named", "skipped", "lost"}
      /\ "skipped" # "named"
  BY <1>2
<1>4. naming' = "named" =>
          /\ name' \in Seq(Nat)
          /\ source.format = "exfat" => Text(name') /\ ~Has(name', Slash)
  BY <1>2, <1>3, ShortTyped, Zenon
<1>. QED
  BY <1>1, <1>2, <1>3, <1>4, LaterStep, Zenon

LEMMA NoStringsStep == NamesInv /\ NoStrings => NamesInv'
<1>1. SUFFICES ASSUME NamesInv, NoStrings PROVE NamesInv'
  OBVIOUS
<1>2. naming = "named" /\ naming' = "lost" /\ source' = source /\ answer' = answer
  BY <1>1, Zenon DEF NoStrings
<1>3. naming \in {"text", "refused", "named"} /\ naming' \in {"named", "skipped", "lost"}
      /\ naming' # "named"
  BY <1>2
<1>. QED
  BY <1>1, <1>2, <1>3, LaterStep, Zenon

LEMMA ListEntryStep == NamesInv /\ ListEntry => NamesInv'
<1>1. SUFFICES ASSUME NamesInv, ListEntry PROVE NamesInv'
  OBVIOUS
<1>2. naming = "named" /\ source' = source /\ answer' = answer /\ name' = name
  BY <1>1, Zenon DEF ListEntry, Passed
<1>3. CASE name = <<>> \/ IsDots(name)
  <2>1. naming' = "skipped"
    BY <1>1, <1>3, Zenon DEF ListEntry, Passed
  <2>2. naming \in {"text", "refused", "named"} /\ naming' \in {"named", "skipped", "lost"}
        /\ naming' # "named"
    BY <1>2, <2>1
  <2>. QED
    BY <1>1, <1>2, <2>2, LaterStep, Zenon
<1>4. CASE ~(name = <<>> \/ IsDots(name))
  <2>1. /\ naming' = "listed"
        /\ entry' \in [name : NewString(name), path : NewString(PathOf(source.parent, name))]
    BY <1>1, <1>4, Zenon DEF ListEntry, Passed
  <2>2. entry'.name \in NewString(name) /\ entry'.path \in NewString(PathOf(source.parent, name))
    BY <2>1
  <2>3. naming # "none" /\ naming # "listed" /\ naming \in {"named", "listed"}
    BY <1>2
  <2>4. /\ source.units \in LongNames /\ source.parent \in Parents /\ answer.by = "none"
        /\ name \in Seq(Nat)
        /\ source.format = "exfat" => Text(name) /\ ~Has(name, Slash)
    BY <1>1, <2>3, Zenon DEF NamesInv, SourcePart, AnswerPart, EntryPart
  <2>5. naming' # "none" /\ naming' \notin {"decode", "text"}
    BY <2>1
  <2>6. StartPart' /\ TextPart' /\ SourcePart'
    BY <1>2, <2>4, <2>5, Zenon DEF StartPart, TextPart, SourcePart
  <2>7. NewString(name)' = NewString(name)
        /\ NewString(PathOf(source.parent, name))' = NewString(PathOf(source.parent, name))
        /\ Text(name)' = Text(name) /\ Has(name, Slash)' = Has(name, Slash)
        /\ IsDots(name)' = IsDots(name)
    BY <1>2, Zenon
  <2>8. EntryPart'
    BY <1>2, <1>4, <2>2, <2>4, <2>7, Zenon DEF EntryPart
  <2>9. AnswerPart'
    <3>1. "none" # "native" /\ "none" # "provider"
      OBVIOUS
    <3>. QED
      BY <1>2, <2>1, <2>4, <3>1, Zenon DEF AnswerPart
  <2>10. naming' \in NamePlaces
    BY <2>1 DEF NamePlaces
  <2>. QED
    BY <2>6, <2>8, <2>9, <2>10, Zenon DEF NamesInv
<1>. QED
  BY <1>3, <1>4

LEMMA AskStep == NamesInv /\ (AskNative \/ AskProvider) => NamesInv'
<1>1. SUFFICES ASSUME NamesInv, AskNative \/ AskProvider PROVE NamesInv'
  OBVIOUS
<1>2. /\ naming = "listed" /\ naming' = naming /\ source' = source
      /\ name' = name /\ entry' = entry
      /\ \/ answer' = [by |-> "native", granted |-> SafePath(entry.path),
                       parts |-> IF SafePath(entry.path) THEN Split(entry.path) ELSE <<>>]
         \/ /\ entry.path # <<Slash>>
            /\ answer' = [by |-> "provider", granted |-> GoodDocumentId(entry.path),
                          parts |-> IF GoodDocumentId(entry.path)
                                    THEN Split(ParentOf(entry.path)) ELSE <<>>]
  BY <1>1, Zenon DEF AskNative, AskProvider
<1>3. naming' = "listed" /\ naming # "none" /\ naming \in {"named", "listed"}
      /\ naming' # "none" /\ naming' \notin {"decode", "text"}
  BY <1>2
<1>4. /\ source.units \in LongNames /\ source.parent \in Parents /\ EntryPart
  BY <1>1, <1>3, Zenon DEF NamesInv, SourcePart
<1>5. StartPart' /\ TextPart' /\ SourcePart'
  BY <1>2, <1>3, <1>4, Zenon DEF StartPart, TextPart, SourcePart
<1>6. EntryPart'
  BY <1>2, <1>4, Zenon DEF EntryPart
<1>7. AnswerPart'
  <2>1. /\ SafePath(entry.path)' = SafePath(entry.path)
        /\ GoodDocumentId(entry.path)' = GoodDocumentId(entry.path)
    BY <1>2, Zenon
  <2>2. \/ /\ answer'.by = "native"
           /\ answer'.granted = SafePath(entry.path)
           /\ answer'.parts = IF SafePath(entry.path) THEN Split(entry.path) ELSE <<>>
        \/ /\ answer'.by = "provider" /\ entry.path # <<Slash>>
           /\ answer'.granted = GoodDocumentId(entry.path)
           /\ answer'.parts = IF GoodDocumentId(entry.path)
                              THEN Split(ParentOf(entry.path)) ELSE <<>>
    BY <1>2
  <2>3. "native" # "provider"
    OBVIOUS
  <2>. QED
    BY <1>2, <1>3, <2>1, <2>2, <2>3, Zenon DEF AnswerPart
<1>8. naming' \in NamePlaces
  BY <1>3 DEF NamePlaces
<1>. QED
  BY <1>5, <1>6, <1>7, <1>8, Zenon DEF NamesInv

LEMMA NamesStay == NamesInv /\ UNCHANGED namesVars => NamesInv'
  BY Zenon DEF namesVars, NamesInv, StartPart, SourcePart, TextPart, Converted, EntryPart,
     AnswerPart

LEMMA NamesHold == NamesSpec => []NamesInv
<1>1. NamesInv /\ [NamesNext]_namesVars => NamesInv'
  BY NameCallStep, DecodeHighStep, DecodeCharacterStep, DecodeLoneStep, DecodeEndStep,
     LongNameStep, NoTextStep, NoStringsStep, ListEntryStep, AskStep, NamesStay, Zenon DEF NamesNext
<1>. QED
  BY <1>1, NamesBegin, PTL DEF NamesSpec

LEMMA TextReturns ==
    ASSUME NamesInv, naming = "text"
    PROVE  Read(utf8) = source.units /\ Paired(source.units)
<1>1. naming # "none" /\ naming \in {"decode", "text"}
  OBVIOUS
<1>2. /\ source.units \in LongNames
      /\ PairedTo(source.units, Converted)
      /\ high = 0 /\ index = Len(source.units) + 1
  BY <1>1, Zenon DEF NamesInv, SourcePart, TextPart
<1>3. PICK u : u = source.units
  OBVIOUS
<1>4. u \in Seq(Nat) /\ Len(u) \in Nat /\ DOMAIN u = 1 .. Len(u)
  <2>1. u \in Seq(Nat)
    BY <1>2, <1>3, NameUnits, Zenon
  <2>. QED
    BY <2>1
<1>5. Converted = Len(u)
  <2>1. Converted = index - 1
    BY <1>2, Zenon DEF Converted
  <2>2. index = Len(u) + 1
    BY <1>2, <1>3, Zenon
  <2>. QED
    BY <1>4, <2>1, <2>2
<1>6. PairedTo(u, Len(u))
  BY <1>2, <1>3, <1>5, Zenon
<1>7. Paired(u)
  BY <1>4, <1>6, Zenon DEF Paired, PairedTo
<1>. QED
  BY <1>3, <1>7, LongIsText, Zenon

LEMMA EntryReturns ==
    ASSUME NamesInv, naming = "listed", Plain(source.parent),
           source.format # "exfat" => Text(name) /\ ~Has(name, Slash)
    PROVE  /\ entry.name = name
           /\ answer.by = "native" =>
                /\ answer.granted <=> Len(entry.path) <= MaxPath
                /\ answer.granted => answer.parts = Append(Split(source.parent), name)
           /\ answer.by = "provider" =>
                /\ answer.granted <=> JavaLength(entry.path) <= MaxPath
                /\ answer.granted => answer.parts = Split(source.parent)
<1>1. naming # "none" /\ naming \in {"named", "listed"}
  OBVIOUS
<1>2. /\ source.parent \in Parents /\ name \in Seq(Nat) /\ name # <<>> /\ ~IsDots(name)
      /\ source.format = "exfat" => Text(name) /\ ~Has(name, Slash)
      /\ entry.name \in NewString(name)
      /\ entry.path \in NewString(PathOf(source.parent, name))
      /\ answer.by = "native" =>
            /\ answer.granted = SafePath(entry.path)
            /\ answer.granted => answer.parts = Split(entry.path)
      /\ answer.by = "provider" =>
            /\ answer.granted = GoodDocumentId(entry.path) /\ entry.path # <<Slash>>
            /\ answer.granted => answer.parts = Split(ParentOf(entry.path))
  BY <1>1, Zenon DEF NamesInv, SourcePart, EntryPart, AnswerPart
<1>3. Text(name) /\ ~Has(name, Slash)
  BY <1>2, Zenon
<1>4. \A t \in Seq(Nat) : Text(t) => NewString(t) = {t}
  <2>1. ASSUME NEW t \in Seq(Nat), Text(t) PROVE NewString(t) = {t}
    <3>1. Before(t, 0) = t
      BY <2>1, BeforeIs, Zenon DEF Text
    <3>. QED
      BY <2>1, <3>1, Zenon DEF NewString
  <2>. QED
    BY <2>1
<1>5. entry.name = name
  <2>1. NewString(name) = {name}
    BY <1>2, <1>3, <1>4, Zenon
  <2>. QED
    BY <1>2, <2>1
<1>6. PICK q : q = PathOf(source.parent, name) /\ q \in Seq(Nat) /\ Text(q)
  BY <1>2, <1>3, PathIsText, Zenon
<1>7. entry.path = q
  <2>1. NewString(q) = {q}
    BY <1>4, <1>6, Zenon
  <2>. QED
    BY <1>2, <1>6, <2>1
<1>8. /\ q # <<>> /\ q[1] = Slash /\ q[Len(q)] # Slash
      /\ ~HasEmpty(q) /\ ~HasDots(q)
      /\ Split(q) = Append(Split(source.parent), name)
      /\ ParentOf(q) = source.parent
  BY <1>2, <1>3, <1>6, PathFacts, Zenon
<1>9. SafePath(q) <=> Len(q) <= MaxPath
  BY <1>8, Zenon DEF SafePath
<1>10. q # <<Slash>> => (GoodDocumentId(q) <=> JavaLength(q) <= MaxPath)
  BY <1>8, Zenon DEF GoodDocumentId
<1>. QED
  BY <1>2, <1>5, <1>7, <1>8, <1>9, <1>10, Zenon

(* utf16_to_utf8_strict loses nothing: whatever the units of a long name, the
   text it gives is read again as the same units, and a name with a surrogate
   that has no partner gives none. In a directory whose own path is text, a name
   of exFAT reaches the app as it is, and so does a name of FAT32 that is text and
   has no slash; and the path handed out with it is taken, unless it is too long,
   by safe_absolute_path and by normalizeDocumentId, and leads to the directory
   that was listed, and there to that name. For names, directories and limits of
   any length, for every byte an 8.3 name can hold, and whatever strings the
   runtime makes of bytes that are no text. *)
THEOREM NamesReturn == NamesSpec => []NamesComeBack
<1>1. NamesInv => NamesComeBack
  BY TextReturns, EntryReturns, Zenon DEF NamesComeBack
<1>. QED
  BY <1>1, NamesHold, PTL
==============================================================================

---------------------------- MODULE ExFatMetadata ----------------------------
(***************************************************************************)
(* The allocation bitmap of an exFAT volume: how                           *)
(* exfat_validate_root_metadata finds and checks it before anything else   *)
(* of the volume is used, and how exfat_cluster_is_allocated asks it for   *)
(* every cluster of a file later on.                                       *)
(*                                                                         *)
(* The clusters hold directories (of records) or bytes (sets of the bits   *)
(* that are 1). Sectors are left out: a cluster is read byte by byte. What *)
(* the checksum of the up-case table sees is in RotatingChecksum.          *)
(***************************************************************************)
EXTENDS Integers

CONSTANTS Count,          \* clusterCount
          Root,           \* rootCluster
          ClusterBytes,
          Records,        \* of a directory in one cluster
          UpcaseLimit,    \* 2 MiB
          Chains,         \* contents of the FAT
          Directories,    \* contents of the clusters, read as directories
          Heaps           \* contents of the clusters, read as bytes

Clusters == 2 .. Count + 1

ASSUME CountAssumption == Count \in Nat \ {0} /\ Root \in Clusters
ASSUME BytesAssumption == ClusterBytes \in Nat \ {0} /\ Records \in Nat
ASSUME RecordsAssumption ==
    \A d \in Directories, c \in Clusters, i \in 0 .. Records - 1 :
        d[c][i].cluster \in Nat /\ d[c][i].length \in Nat

VARIABLES walk,      \* none, enter, read, next, verify, accepted, refused
          disk,      \* the volume, and whether its up-case table is to be checked
          at, slot,  \* the record that is next: its cluster and its place
          visited,
          metadata,  \* ExFatRootMetadata
          asked      \* the last question to the bitmap

metadataVars == <<walk, disk, at, slot, visited, metadata, asked>>

NoMetadata == [bitmap |-> 0, length |-> 0, upcase |-> 0, upcaseLength |-> 0]
NoQuestion == [cluster |-> 0, read |-> FALSE, answer |-> FALSE]

MetadataInit ==
    /\ walk = "none"
    /\ disk = [fat |-> <<>>, directory |-> <<>>, heap |-> <<>>, full |-> FALSE,
               upcaseSound |-> FALSE]
    /\ at = Root /\ slot = 0 /\ visited = {}
    /\ metadata = NoMetadata /\ asked = NoQuestion

-----------------------------------------------------------------------------
(* The walk over the root directory *)

MetadataCall ==
    /\ walk = "none"
    /\ walk' = "enter"
    /\ disk' \in [fat : Chains, directory : Directories, heap : Heaps,
                  full : BOOLEAN, upcaseSound : BOOLEAN]
    /\ UNCHANGED <<at, slot, visited, metadata, asked>>

(* A cluster that is none ends the walk, one that was seen refuses the volume. *)
EnterRootCluster ==
    /\ walk = "enter"
    /\ walk' = IF at \notin Clusters THEN "verify"
               ELSE IF at \in visited THEN "refused" ELSE "read"
    /\ visited' = visited \cup ({at} \cap Clusters)
    /\ slot' = 0
    /\ UNCHANGED <<disk, at, metadata, asked>>

ReadRecord ==
    /\ walk = "read" /\ slot < Records
    /\ LET record == disk.directory[at][slot] IN
       /\ walk' = IF record.type = "end" THEN "verify" ELSE "read"
       /\ metadata' =
             CASE record.type = "bitmap" -> [metadata EXCEPT
                      !.bitmap = record.cluster, !.length = record.length]
               [] record.type = "upcase" -> [metadata EXCEPT
                      !.upcase = record.cluster, !.upcaseLength = record.length]
               [] OTHER -> metadata
    /\ slot' = slot + 1
    /\ UNCHANGED <<disk, at, visited, asked>>

(* vc_read_sector fails. *)
RecordsUnread ==
    /\ walk = "read" /\ slot < Records
    /\ walk' = "refused"
    /\ UNCHANGED <<disk, at, slot, visited, metadata, asked>>

NextRootCluster ==
    /\ walk = "read" /\ slot = Records
    /\ at' = disk.fat[at]
    /\ walk' = "enter"
    /\ UNCHANGED <<disk, slot, visited, metadata, asked>>

(* A FAT that cannot be read is taken for the end of the chain. *)
FatUnread ==
    /\ walk = "read" /\ slot = Records
    /\ walk' = "verify"
    /\ UNCHANGED <<disk, at, slot, visited, metadata, asked>>

-----------------------------------------------------------------------------
(* The bitmap *)

(* exfat_read_contiguous_byte: the bitmap lies in neighbouring clusters. *)
Readable(first, offset) ==
    LET index == offset \div ClusterBytes
    IN  index < Count /\ first + index <= Count + 1
ByteAt(first, offset) ==
    disk.heap[first + offset \div ClusterBytes][offset % ClusterBytes]
BitIsSet(first, bit) ==
    /\ Readable(first, bit \div 8)
    /\ bit % 8 \in ByteAt(first, bit \div 8)

(* The bytes of a bitmap without the one that is only in part used. *)
WholeBytes(n) == n \div 8

(* The bytes of a bitmap of n clusters. *)
MinimumLength(n) == (n + 7) \div 8

(* The ranges, then the bit of the root cluster, then the up-case table. *)
Verified ==
    /\ metadata.bitmap \in Clusters /\ metadata.upcase \in Clusters
    /\ metadata.length >= MinimumLength(Count)
    /\ metadata.upcaseLength \in 1 .. UpcaseLimit
    /\ BitIsSet(metadata.bitmap, Root - 2)
    /\ disk.full =>
          /\ metadata.upcaseLength <= (Count + 2 - metadata.upcase) * ClusterBytes
          /\ disk.upcaseSound

Verify ==
    /\ walk = "verify"
    /\ walk' = IF Verified THEN "accepted" ELSE "refused"
    /\ UNCHANGED <<disk, at, slot, visited, metadata, asked>>

(* The byte of the root or of the up-case table cannot be read. *)
VerifyUnread ==
    /\ walk = "verify"
    /\ walk' = "refused"
    /\ UNCHANGED <<disk, at, slot, visited, metadata, asked>>

(* exfat_cluster_is_allocated, of any uint32_t. *)
AskBitmap(c) ==
    /\ walk = "accepted"
    /\ asked' = [cluster |-> c, read |-> TRUE,
                 answer |-> /\ c \in Clusters
                            /\ (c - 2) \div 8 < metadata.length
                            /\ BitIsSet(metadata.bitmap, c - 2)]
    /\ UNCHANGED <<walk, disk, at, slot, visited, metadata>>

(* Its byte cannot be read. *)
AskUnread(c) ==
    /\ walk = "accepted"
    /\ asked' = [cluster |-> c, read |-> FALSE, answer |-> FALSE]
    /\ UNCHANGED <<walk, disk, at, slot, visited, metadata>>

MetadataNext ==
    \/ MetadataCall \/ EnterRootCluster \/ ReadRecord \/ RecordsUnread
    \/ NextRootCluster \/ FatUnread \/ Verify \/ VerifyUnread
    \/ \E c \in 0 .. Count + 2 : AskBitmap(c) \/ AskUnread(c)

MetadataSpec == MetadataInit /\ [][MetadataNext]_metadataVars

-----------------------------------------------------------------------------
(* Properties *)

(* Bit k of the clusters from cluster 2 on, as one row of bits. *)
HeapBit(k) ==
    k % 8 \in disk.heap[2 + k \div (8 * ClusterBytes)][(k \div 8) % ClusterBytes]

(* Where the bit of cluster c is in that row. *)
Place(c) == 8 * ClusterBytes * (metadata.bitmap - 2) + c - 2

(* In an accepted volume every cluster has a bit of its own within the declared
   length of the bitmap, the last one too; the answer for a cluster is that bit,
   "free" where the bitmap would run out of the heap; and the root directory,
   from which every path starts, is allocated. *)
BitmapServes ==
    walk = "accepted" =>
        /\ metadata.length * 8 >= Count
        /\ asked.read =>
              (asked.answer <=> /\ asked.cluster \in Clusters
                                /\ Place(asked.cluster) < 8 * ClusterBytes * Count
                                /\ HeapBit(Place(asked.cluster)))
        /\ asked.cluster = Root /\ asked.read => asked.answer
=============================================================================

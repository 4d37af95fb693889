------------------------------ MODULE FileReads ------------------------------
(***************************************************************************)
(* Reading a file to its end: the loop of a document or viewer stream, and *)
(* below it fat32_read_file_data and exfat_read_file_data of               *)
(* veracrypt_jni.cpp, which follow the cluster chain and copy sectors.     *)
(*                                                                         *)
(* The volume is whatever the decrypted sectors say: any FAT, any first    *)
(* cluster, any size, any allocation bitmap. Every sector read may fail.   *)
(* A byte of data is named by its place on the volume.                     *)
(***************************************************************************)
EXTENDS Integers, Sequences, FiniteSets

CONSTANTS ClusterCount, SectorsPerCluster, SectorSize, \* geometry
          ChunkSize,                                   \* of the stream
          Kinds, Sizes                                 \* of files

ASSUME GeometryAssumption ==
    /\ ClusterCount \in Nat \ {0} /\ SectorsPerCluster \in Nat \ {0}
    /\ SectorSize \in Nat \ {0} /\ ChunkSize \in Nat \ {0}
ASSUME FilesAssumption ==
    Kinds \subseteq {"fat32", "exfat", "noFatChain"} /\ Sizes \subseteq Nat

Clusters == 2 .. ClusterCount + 1
BadCluster == ClusterCount + 2   \* a value that names no cluster
EndOfChain == ClusterCount + 3
clusterBytes == SectorsPerCluster * SectorSize

VARIABLES kind, fat, first, size, allocated,  \* the file on the volume
          pc, wanted,                         \* the call of nativeReadFile
          cluster, visited, skip, within,     \* its place in the chain
          secIdx, offInSec, left, buf,        \* its place in the cluster
          failed,                             \* history: a sector read failed
          out, end                            \* what the stream delivered

volume == <<kind, fat, first, size, allocated>>
chain == <<cluster, visited, skip, within>>
copy == <<secIdx, offInSec, left, buf>>
vars == <<volume, pc, wanted, chain, copy, failed, out, end>>

offset == Len(out)
Least(a, b) == IF a <= b THEN a ELSE b

TypeOK ==
    /\ kind \in Kinds /\ fat \in [Clusters -> 0 .. EndOfChain]
    /\ first \in 0 .. EndOfChain /\ size \in Sizes /\ allocated \subseteq Clusters
    /\ pc \in {"loop", "lookup", "begin", "skip", "cluster", "sector", "return",
               "null", "done"}
    /\ wanted \in 0 .. ChunkSize
    /\ cluster \in 0 .. EndOfChain + 1 /\ visited \subseteq Nat
    /\ skip \in 0 .. ClusterCount
    /\ within \in 0 .. clusterBytes - 1
    /\ secIdx \in 0 .. SectorsPerCluster /\ offInSec \in 0 .. SectorSize - 1
    /\ left \in 0 .. ChunkSize /\ buf \in Seq(Nat) /\ out \in Seq(Nat)
    /\ failed \in BOOLEAN /\ end \in {"open", "clean", "error"}

(* exfat_stream_extent_is_plausible: the listing leaves out an exFAT file for
   which it fails. *)
Plausible(k, c, n) ==
    /\ IF n = 0 THEN c \in Clusters \cup {0} ELSE c \in Clusters
    /\ n <= ClusterCount * clusterBytes
    /\ k = "noFatChain" /\ n > 0 =>
          c - 2 + (n + clusterBytes - 1) \div clusterBytes <= ClusterCount

Init ==
    /\ kind \in Kinds
    /\ fat \in [Clusters -> IF kind = "noFatChain" THEN {0} ELSE 0 .. EndOfChain]
    /\ first \in 0 .. EndOfChain
    /\ size \in Sizes
    /\ kind # "fat32" => Plausible(kind, first, size)
    /\ allocated \in IF kind = "fat32" THEN {Clusters} ELSE SUBSET Clusters
    /\ pc = "loop" /\ wanted = 0
    /\ cluster = 0 /\ visited = {} /\ skip = 0 /\ within = 0
    /\ secIdx = 0 /\ offInSec = 0 /\ left = 0 /\ buf = <<>>
    /\ failed = FALSE /\ out = <<>> /\ end = "open"

-----------------------------------------------------------------------------
(* The volume *)

(* fat32_cluster_to_sector, exfat_cluster_to_sector, counted from cluster 2. *)
FirstSector(c) == (c - 2) * SectorsPerCluster

(* The entry of a cluster: an end of chain if the FAT32 decoder rejects it, as
   it stands on exFAT, and not consulted by a file without a FAT chain. *)
NextCluster(c) ==
    IF kind = "noFatChain" THEN c + 1
    ELSE IF c \notin Clusters THEN EndOfChain
    ELSE IF kind = "fat32" /\ fat[c] \notin Clusters THEN EndOfChain
    ELSE fat[c]

(* A sector of the FAT that cannot be read ends the chain too. *)
Advance ==
    \/ cluster' = NextCluster(cluster) /\ UNCHANGED failed
    \/ /\ kind # "noFatChain" /\ cluster \in Clusters
       /\ cluster' = EndOfChain /\ failed' = TRUE

-----------------------------------------------------------------------------
(* The stream *)

(* Loop head: how much to ask for, or the end of the file. *)
Loop ==
    /\ pc = "loop"
    /\ wanted' = IF offset < size THEN Least(ChunkSize, size - offset) ELSE 0
    /\ pc' = IF offset < size THEN "lookup" ELSE "done"
    /\ end' = IF offset < size THEN end ELSE "clean"
    /\ UNCHANGED <<volume, chain, copy, failed, out>>

(* Only the size ends the file. *)
DeliverUntilSize ==
    /\ pc = "return"
    /\ out' = out \o buf
    /\ pc' = "loop"
    /\ UNCHANGED <<volume, wanted, chain, copy, failed, end>>

(* The bytes of a successful read; an empty or a short one ends the file. *)
Deliver ==
    /\ pc = "return"
    /\ out' = out \o buf
    /\ pc' = IF Len(buf) < wanted THEN "done" ELSE "loop"
    /\ end' = IF Len(buf) < wanted THEN "clean" ELSE end
    /\ UNCHANGED <<volume, wanted, chain, copy, failed>>

(* session.read returned null. *)
Break ==
    /\ pc = "null"
    /\ pc' = "done"
    /\ end' = "error"
    /\ UNCHANGED <<volume, wanted, chain, copy, failed, out>>

-----------------------------------------------------------------------------
(* nativeReadFile *)

(* Boot sector, metadata and directory are read anew, or cannot be. *)
Lookup ==
    /\ pc = "lookup"
    /\ \/ pc' = "begin" /\ UNCHANGED failed
       \/ pc' = "null" /\ failed' = TRUE
    /\ UNCHANGED <<volume, wanted, chain, copy, out, end>>

(* An index that is already too far at the last cluster. *)
TooFarByOne(n) == n >= ClusterCount - 1

TooFar(n) == n >= ClusterCount

Begin ==
    /\ pc = "begin"
    /\ buf' = <<>>
    /\ pc' = IF first < 2 THEN "return"
             ELSE IF TooFar(offset \div clusterBytes) THEN "null" ELSE "skip"
    /\ left' = wanted
    /\ cluster' = first /\ visited' = {}
    /\ skip' = IF pc' = "skip" THEN offset \div clusterBytes ELSE 0
    /\ within' = offset % clusterBytes
    /\ UNCHANGED <<volume, wanted, secIdx, offInSec, failed, out, end>>

Revisited == kind # "noFatChain" /\ cluster \in visited
Visit == visited' = visited \cup (IF kind = "noFatChain" THEN {} ELSE {cluster})

(* Up to the cluster of offset: a chain that runs into itself is an error, one
   that ends on the way reads nothing. *)
Skip ==
    /\ pc = "skip" /\ skip > 0
    /\ Visit
    /\ IF Revisited THEN UNCHANGED <<cluster, failed>> ELSE Advance
    /\ pc' = IF Revisited THEN "null"
             ELSE IF cluster' >= EndOfChain THEN "return" ELSE "skip"
    /\ skip' = skip - 1
    /\ UNCHANGED <<volume, wanted, within, copy, out, end>>

Skipped ==
    /\ pc = "skip" /\ skip = 0
    /\ pc' = "cluster"
    /\ UNCHANGED <<volume, wanted, chain, copy, failed, out, end>>

InChain == cluster >= 2 /\ cluster < EndOfChain

(* A cluster to read from: in range, new, and allocated on exFAT. *)
Usable == cluster \in Clusters /\ ~Revisited /\ cluster \in allocated

EnterCluster ==
    /\ pc = "cluster" /\ left > 0 /\ InChain /\ Usable
    /\ Visit
    /\ secIdx' = within \div SectorSize
    /\ offInSec' = within % SectorSize
    /\ pc' = "sector"
    /\ UNCHANGED <<volume, wanted, cluster, skip, within, left, buf, failed, out, end>>

(* The bitmap cannot be read. *)
BitmapFails ==
    /\ pc = "cluster" /\ left > 0 /\ InChain /\ kind # "fat32"
    /\ pc' = "null"
    /\ failed' = TRUE
    /\ UNCHANGED <<volume, wanted, chain, copy, out, end>>

(* The end of both loops: all there, or a chain too short or not to be used. *)
Finish ==
    /\ pc = "cluster" /\ (left = 0 \/ ~InChain \/ ~Usable)
    /\ pc' = IF left = 0 THEN "return" ELSE "null"
    /\ UNCHANGED <<volume, wanted, chain, copy, failed, out, end>>

(* The bytes from the start of the sector. *)
CopiedFromStart(n) == [i \in 1 .. n |->
    (FirstSector(cluster) + secIdx) * SectorSize + i - 1]

(* memcpy of n bytes at offInSec. *)
Copied(n) == [i \in 1 .. n |->
    (FirstSector(cluster) + secIdx) * SectorSize + offInSec + i - 1]

copyLen == Least(SectorSize - offInSec, left)

ReadSector ==
    /\ pc = "sector" /\ left > 0 /\ secIdx < SectorsPerCluster
    /\ buf' = buf \o Copied(copyLen)
    /\ left' = left - copyLen
    /\ offInSec' = 0
    /\ secIdx' = secIdx + 1
    /\ UNCHANGED <<volume, pc, wanted, chain, failed, out, end>>

(* The sector cannot be read: what was read so far, or an error. *)
SectorFails ==
    /\ pc = "sector" /\ left > 0 /\ secIdx < SectorsPerCluster
    /\ pc' = IF buf # <<>> THEN "return" ELSE "null"
    /\ failed' = TRUE
    /\ UNCHANGED <<volume, wanted, chain, copy, out, end>>

LeaveCluster ==
    /\ pc = "sector" /\ (left = 0 \/ secIdx = SectorsPerCluster)
    /\ within' = 0
    /\ IF left > 0 THEN Advance ELSE UNCHANGED <<cluster, failed>>
    /\ pc' = "cluster"
    /\ UNCHANGED <<volume, wanted, visited, skip, copy, out, end>>

-----------------------------------------------------------------------------
Next ==
    \/ Loop \/ Lookup \/ Begin \/ Skip \/ Skipped \/ EnterCluster
    \/ BitmapFails \/ Finish \/ ReadSector \/ SectorFails \/ LeaveCluster
    \/ Deliver \/ Break

SafeSpec == Init /\ [][Next]_vars
Spec == SafeSpec /\ WF_vars(Next)

-----------------------------------------------------------------------------
(* What the file is *)

(* The n-th cluster of the file. *)
ChainOf[n \in Nat] == IF n = 0 THEN first ELSE NextCluster(ChainOf[n - 1])

(* The place of its n-th byte, counted from 0; -1 where the chain is over. *)
ByteOf(n) ==
    LET c == ChainOf[n \div clusterBytes] IN
    IF c \in Clusters THEN FirstSector(c) * SectorSize + (n % clusterBytes) ELSE -1

clusterNeed == (size + clusterBytes - 1) \div clusterBytes

(* A file as it should be: as long a chain as its size needs, without a
   repetition and marked as allocated. *)
Sound ==
    /\ clusterNeed <= ClusterCount
    /\ \A n \in 0 .. clusterNeed - 1 : ChainOf[n] \in allocated
    /\ \A m, n \in 0 .. clusterNeed - 1 : ChainOf[m] = ChainOf[n] => m = n

-----------------------------------------------------------------------------
(* Properties *)

(* The bytes handed out are those of the file, in order and without a gap,
   however the reads fall on sectors and clusters, and never more than asked
   for. None comes twice, although each call walks the chain from its start: a
   chain that runs into itself is never followed round, and on exFAT none is from
   a cluster that the bitmap says is free. *)
PrefixOfFile ==
    /\ Len(out) <= size
    /\ \A i \in DOMAIN out : out[i] = ByteOf(i - 1)
    /\ \A i, j \in DOMAIN out : out[i] = out[j] => i = j
    /\ \A i \in DOMAIN out : (out[i] \div clusterBytes) + 2 \in allocated
    /\ pc \in {"cluster", "sector", "return"} =>
          /\ Len(buf) + left = wanted
          /\ \A i \in DOMAIN buf : buf[i] = ByteOf(offset + i - 1)

(* A sound file on a volume that can be read arrives whole. *)
SoundFilesArrive ==
    Sound /\ ~failed => end # "error" /\ (end = "clean" => offset = size)

(* The stream comes to an end, also on a chain without one. *)
StreamEnds == <>(pc = "done")

(* As the comment at the end of fat32_read_file_data says it: callers never
   mistake truncation for a clean end of file. *)
CleanMeansWhole == end = "clean" => offset = size
=============================================================================

--------------------------- MODULE MCVolumeFormat ---------------------------
(***************************************************************************)
(* Small instances of the modules about one volume: its key, its sectors,  *)
(* its boot sector, its checksums, its bitmap, the records of a directory  *)
(* and the names of its entries. They share no state, so a behaviour picks *)
(* one of them and leaves the others at their start.                       *)
(*                                                                         *)
(* Bytes that are hashed are tuples: data <<i>>, words of the length field *)
(* <<word, k>>, masked bytes <<mask, byte>>, digests <<"digest", m, i>>.   *)
(***************************************************************************)
EXTENDS VolumeGeometry, MessageDigest, KeyDerivation, RotatingChecksum, ExFatMetadata,
        DirectoryRecords, EntryNames, SectorReads

VARIABLE part
allVars == <<part, geometryVars, digestVars, deriveVars, checksumVars, metadataVars,
             vars, namesVars, sectorVars>>

VolumeInit ==
    /\ part \in {"geometry", "digest", "key", "checksum", "metadata", "records",
                "names", "sector"}
    /\ GeometryInit /\ DigestInit /\ DeriveInit /\ ChecksumInit /\ MetadataInit
    /\ Init /\ NamesInit /\ SectorInit
    /\ part # "records" => format = "fat32"
    /\ part # "geometry" =>
          header = (CHOOSE h \in Headers : TRUE) /\ boot.perCluster = 1

(* A step of one part; the others stay as they are. *)
GeometryStep == Open \/ MountFat32 \/ MountExFat \/ ReadFat \/ ReadCluster \/ ReadBitmap
DigestStep == HashInit \/ UpdateCall \/ UpdateTurn \/ HashFinal
KeyStep == DeriveCall \/ HmacKey \/ HmacInner \/ HmacOuter \/ Fold
ChecksumStep == SumStart \/ SumByte
MetadataStep ==
    \/ MetadataCall \/ EnterRootCluster \/ ReadRecord \/ RecordsUnread
    \/ NextRootCluster \/ FatUnread \/ Verify \/ VerifyUnread
    \/ \E c \in 0 .. Count + 2 : AskBitmap(c) \/ AskUnread(c)
RecordStep ==
    /\ Len(records) < MaxRecords[format]
    /\ \/ \E r \in Fat32Records :
             FatOther(r) \/ FatFirstPiece(r) \/ FatNextPiece(r) \/ FatEntry(r)
       \/ \E r \in ExFatRecords : ExFatFree(r) \/ ExFatPrimary(r) \/ ExFatSecondary(r)
NameStep ==
    \/ NameCall \/ DecodeHigh \/ DecodeCharacter \/ DecodeLone \/ DecodeEnd
    \/ LongName \/ NoText \/ ListEntry \/ NoStrings \/ AskNative \/ AskProvider
SectorStep ==
    SectorCall \/ Pread \/ PreadFails \/ FirstTweak \/ DecryptBlock \/ DecryptEnd

VolumeNext ==
    /\ \/ part = "geometry" /\ GeometryStep
       \/ part # "geometry" /\ UNCHANGED geometryVars
    /\ \/ part = "digest" /\ DigestStep
       \/ part # "digest" /\ UNCHANGED digestVars
    /\ \/ part = "key" /\ KeyStep
       \/ part # "key" /\ UNCHANGED deriveVars
    /\ \/ part = "checksum" /\ ChecksumStep
       \/ part # "checksum" /\ UNCHANGED checksumVars
    /\ \/ part = "metadata" /\ MetadataStep
       \/ part # "metadata" /\ UNCHANGED metadataVars
    /\ \/ part = "records" /\ RecordStep
       \/ part # "records" /\ UNCHANGED vars
    /\ \/ part = "names" /\ NameStep
       \/ part # "names" /\ UNCHANGED namesVars
    /\ \/ part = "sector" /\ SectorStep
       \/ part # "sector" /\ UNCHANGED sectorVars
    /\ UNCHANGED part

VolumeSpec == VolumeInit /\ [][VolumeNext]_allVars

(* Messages of up to two blocks and a byte. *)
MCBytes == {<<i>> : i \in 1 .. 9}
MCMessages == {[i \in 1 .. n |-> <<i>>] : n \in 0 .. 9}

(* Passwords shorter than, as long as and longer than a block. *)
MCPasswords == {[i \in 1 .. n |-> <<i>>] : n \in 1 .. 5}
MCSalts == {<< <<101>>, <<102>> >>}
MCCounter == << <<0>>, <<1>> >>
MCNoByte == <<0>>

(* Areas of a few bytes, with flags or a checksum in them that are left out. *)
MCSize == [a \in Areas |-> CASE a = "lfn" -> 4 [] a = "set" -> 6
                             [] a = "boot" -> 7 [] OTHER -> 5]
MCUnsummed == [a \in Areas |-> CASE a = "set" -> {2, 3} [] a = "boot" -> {2, 3, 5}
                                 [] OTHER -> {}]
MCHalf == [a \in Areas |-> CASE a = "lfn" -> 2 [] a = "set" -> 4 [] OTHER -> 8]

(* Nine clusters need two bytes of a bitmap, which may begin in the last cluster
   or behind it; the root goes on in cluster 3, in itself or nowhere. *)
Record(t, c, n) == [type |-> t, cluster |-> c, length |-> n]
MCRecords == {Record("end", 0, 0), Record("other", 0, 0), Record("upcase", 3, 1),
              Record("upcase", 10, 2)}
             \cup {Record("bitmap", c, n) : c \in {4, 10, 11}, n \in {1, 2}}
MCDirectories ==
    {[c \in Clusters |-> IF c = 2 THEN d ELSE IF c = 3 THEN e ELSE [i \in {0} |->
          Record("end", 0, 0)]] : d, e \in [{0} -> MCRecords]}
MCChains == [{2, 3} -> {0, 2, 3}]
MCHeaps == {[c \in Clusters |-> [o \in {0} |->
                IF c = 4 THEN x ELSE IF c = 5 THEN y ELSE IF c = 10 THEN {0, 1} ELSE {}]]
            : x \in {{}, {0}, {0, 7}}, y \in {{}, {0}}}

(* A name of two pieces, its entry and one more record fit on FAT32; a set of two
   secondaries and two more records on exFAT. *)
MCMaxRecords == [f \in Formats |-> IF f = "fat32" THEN 4 ELSE 5]

(* ".", "/", "\", "A", and both sides of every bound of UTF-16 and UTF-8; names
   of three units from one of each kind. *)
MCUnits == {46, 47, 92, 65, 127, 128, 2047, 2048, 55295, 55296, 56319, 56320,
            57343, 57344, 65534}
MCLongNames == UNION {[1 .. n -> MCUnits] : n \in 0 .. 2}
               \cup [1 .. 3 -> {46, 65, 2047, 55296, 57343, 65534}]

(* Two bytes and one of " ", ".", "A", the two bytes of a letter in UTF-8 and, not
   in front, NUL; strings that may be made of what is no text. *)
MCShortNames == {s \in [1 .. 3 -> {0, 32, 46, 65, 169, 195}] : s[1] # 0}
MCGarbled == {<<>>, <<47, 63>>}

(* All 64 first tweaks of three bytes of two bits, with x^6 + x + 1. *)
MCFirstTweaks == [0 .. 2 -> SUBSET {0, 1}]

(* "/", "/a", and a path that is no text. *)
MCParents == {<<47>>, <<47, 97>>, <<47, 195>>}
=============================================================================

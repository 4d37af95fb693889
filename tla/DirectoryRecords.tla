--------------------------- MODULE DirectoryRecords ---------------------------
(***************************************************************************)
(* From the 32-byte records of a directory to its entries: the inner loops *)
(* of fat32_list_cluster, which puts long names together from the pieces   *)
(* in front of an entry, and of exfat_list_cluster, which collects the     *)
(* sets of a file. Both keep their state across sectors and clusters.      *)
(*                                                                         *)
(* A record is what parse_fat_lfn_entry and parse_exfat_file_entry_set     *)
(* tell of it; a piece of a name is named by its place in the directory.   *)
(* A directory may end behind any record: the end marker changes nothing.  *)
(* The limit on the number of entries is in Directories.                   *)
(***************************************************************************)
EXTENDS Integers, Sequences

CONSTANTS Formats, Sums,
          MaxSeq,        \* pieces of a long name: 20
          MaxSecondary,  \* secondary records of an exFAT set: 18
          MaxRecords     \* bound: records of a directory

ASSUME BoundsAssumption ==
    MaxSeq \in Nat \ {0} /\ MaxSecondary \in Nat /\ MaxRecords \in [Formats -> Nat]
ASSUME FormatsAssumption == Formats \subseteq {"fat32", "exfat"}

(* A piece with its checksum; an 8.3 entry with the checksum of its name, what
   the pieces before it would make (a name, "." or "..", or no text), and whether
   its own name is ".", ".." or empty; a deleted record, a piece that is not
   well-formed, a volume label. *)
Pieces == [kind : {"piece"}, seq : 1 .. MaxSeq, isLast : BOOLEAN, sum : Sums]
Shorts == [kind : {"short"}, sum : Sums, long : {"name", "dots", "none"},
           dots : BOOLEAN]
Others == [kind : {"deleted", "broken", "volume"}]
Fat32Records == Pieces \cup Shorts \cup Others

(* A primary record with the number of its secondaries, and whether checksum,
   name and extent of its set are good; a stream extension with the number of
   name records it asks for; a name; another record in use; one that is not. *)
Primaries == [kind : {"file"}, count : 0 .. MaxSecondary + 1, good : BOOLEAN]
Streams == [kind : {"stream"}, names : 1 .. MaxSecondary]
ExFatRecords == Primaries \cup Streams \cup [kind : {"name", "other", "free"}]

VARIABLES format, records,                     \* the directory, as far as read
          haveLFN, maxSeq, expected, checksum, parts,  \* a FAT32 name under way
          pending, need,                       \* places of an exFAT set, its size
          results

lfn == <<haveLFN, maxSeq, expected, checksum, parts>>
set == <<pending, need>>
vars == <<format, records, lfn, set, results>>

TypeOK ==
    /\ format \in Formats
    /\ records \in Seq(IF format = "fat32" THEN Fat32Records ELSE ExFatRecords)
    /\ haveLFN \in BOOLEAN /\ maxSeq \in 0 .. MaxSeq /\ expected \in 0 .. MaxSeq
    /\ checksum \in Sums \cup {0} /\ parts \in [1 .. MaxSeq -> Nat]
    /\ pending \in Seq(Nat) /\ need \in 0 .. MaxSecondary + 1
    /\ results \in Seq([at : Nat, name : Seq(Nat)])

Init ==
    /\ format \in Formats
    /\ records = <<>>
    /\ haveLFN = FALSE /\ maxSeq = 0 /\ expected = 0 /\ checksum = 0
    /\ parts = [i \in 1 .. MaxSeq |-> 0]
    /\ pending = <<>> /\ need = 0
    /\ results = <<>>

(* The place of the record that is being read. *)
place == Len(records) + 1

Take(r) ==
    /\ Len(records) < MaxRecords[format]
    /\ records' = Append(records, r)
    /\ UNCHANGED format

-----------------------------------------------------------------------------
(* FAT32 *)

Forget ==
    /\ haveLFN' = FALSE /\ maxSeq' = 0 /\ expected' = 0
    /\ UNCHANGED <<checksum, parts>>

FatOther(r) ==
    /\ format = "fat32" /\ r \in Others
    /\ Take(r)
    /\ Forget
    /\ UNCHANGED <<set, results>>

(* The piece with the last characters comes first and starts a new name. *)
FatFirstPiece(r) ==
    /\ format = "fat32" /\ r \in Pieces /\ r.isLast
    /\ Take(r)
    /\ haveLFN' = TRUE /\ maxSeq' = r.seq /\ expected' = r.seq - 1
    /\ checksum' = r.sum
    /\ parts' = [i \in 1 .. MaxSeq |-> IF i = r.seq THEN place ELSE 0]
    /\ UNCHANGED <<set, results>>

(* A piece with the checksum of the name is as good as the expected one. *)
FitsUnordered(r) == haveLFN /\ r.sum = checksum

(* The piece that the name under way waits for. *)
Fits(r) == haveLFN /\ r.seq = expected /\ r.sum = checksum

FatNextPiece(r) ==
    /\ format = "fat32" /\ r \in Pieces /\ ~r.isLast
    /\ Take(r)
    /\ haveLFN' = Fits(r)
    /\ IF Fits(r)
       THEN expected' = expected - 1 /\ parts' = [parts EXCEPT ![r.seq] = place]
       ELSE UNCHANGED <<expected, parts>>
    /\ UNCHANGED <<maxSeq, checksum, set, results>>

(* There is a long name, or the 8.3 name has to do. *)
HasLong(r) ==
    /\ haveLFN /\ maxSeq > 0 /\ expected = 0 /\ r.sum = checksum
    /\ r.long # "none"

NameOf(r) == IF HasLong(r) THEN [i \in 1 .. maxSeq |-> parts[i]] ELSE <<>>

IsListed(r) == IF HasLong(r) THEN r.long = "name" ELSE ~r.dots

FatEntry(r) ==
    /\ format = "fat32" /\ r \in Shorts
    /\ Take(r)
    /\ results' = IF IsListed(r)
                  THEN Append(results, [at |-> place, name |-> NameOf(r)])
                  ELSE results
    /\ Forget
    /\ UNCHANGED set

-----------------------------------------------------------------------------
(* exFAT *)

ExFatFree(r) ==
    /\ format = "exfat" /\ r.kind = "free"
    /\ Take(r)
    /\ pending' = <<>> /\ need' = 0
    /\ UNCHANGED <<lfn, results>>

(* A primary record starts a set, or none if its count is out of range. *)
ExFatPrimary(r) ==
    /\ format = "exfat" /\ r \in Primaries
    /\ Take(r)
    /\ IF r.count \in 2 .. MaxSecondary
       THEN pending' = <<place>> /\ need' = r.count + 1
       ELSE pending' = <<>> /\ need' = 0
    /\ UNCHANGED <<lfn, results>>

(* A set that is taken on the word of its first two records. *)
ParsesHead(s) ==
    /\ s[1].good
    /\ s[2].kind = "stream"

(* parse_exfat_file_entry_set and exfat_stream_extent_is_plausible, of a whole
   set of records. *)
Parses(s) ==
    /\ s[1].good
    /\ s[2].kind = "stream" /\ s[2].names + 1 = s[1].count
    /\ \A i \in 3 .. Len(s) : s[i].kind = "name"

(* Any other record in use belongs to the set under way, if there is one; the
   last one completes it. *)
ExFatSecondary(r) ==
    /\ format = "exfat" /\ r \in ExFatRecords \ Primaries /\ r.kind # "free"
    /\ Take(r)
    /\ IF pending = <<>> THEN UNCHANGED <<set, results>>
       ELSE IF Len(pending) + 1 < need
       THEN pending' = Append(pending, place) /\ UNCHANGED <<need, results>>
       ELSE LET s == [i \in 1 .. need |-> IF i = need THEN r ELSE records[pending[i]]] IN
            /\ results' = IF Parses(s)
                          THEN Append(results, [at |-> pending[1], name |-> <<>>])
                          ELSE results
            /\ pending' = <<>> /\ need' = 0
    /\ UNCHANGED lfn

-----------------------------------------------------------------------------
Next ==
    \/ \E r \in Fat32Records :
          FatOther(r) \/ FatFirstPiece(r) \/ FatNextPiece(r) \/ FatEntry(r)
    \/ \E r \in ExFatRecords : ExFatFree(r) \/ ExFatPrimary(r) \/ ExFatSecondary(r)

Spec == Init /\ [][Next]_vars

-----------------------------------------------------------------------------
(* Properties *)

(* The n records before place p are the pieces n, ..., 1 of one name, with the
   checksum of the entry at p. *)
WholeName(p, n) ==
    /\ n < p
    /\ \A i \in 1 .. n :
          /\ records[p - i].kind = "piece"
          /\ records[p - i].seq = i /\ records[p - i].isLast = (i = n)
          /\ records[p - i].sum = records[p].sum

LongAt(p) ==
    /\ \E n \in 1 .. MaxSeq : WholeName(p, n)
    /\ records[p].long # "none"

(* Each 8.3 entry is listed, once and in order, unless its name is "." or "..".
   It has a long name, made of the pieces right before it and of nothing else,
   exactly if they are complete, in order, of its own checksum, and readable as
   text. *)
LongNamesBelong ==
    format = "fat32" =>
        /\ \A p \in DOMAIN records :
              records[p].kind = "short" =>
                  (\E e \in DOMAIN results : results[e].at = p) <=>
                      IF LongAt(p) THEN records[p].long = "name" ELSE ~records[p].dots
        /\ \A e \in DOMAIN results :
              /\ results[e].at \in DOMAIN records
              /\ records[results[e].at].kind = "short"
              /\ \A d \in 1 .. e - 1 : results[d].at < results[e].at
              /\ results[e].name # <<>> <=> LongAt(results[e].at)
              /\ \A i \in DOMAIN results[e].name :
                    results[e].name[i] = results[e].at - i
              /\ results[e].name # <<>> =>
                    WholeName(results[e].at, Len(results[e].name))

(* A set: a primary record, and as many secondaries as it counts right behind
   it, a stream extension and the names that this asks for. *)
WholeSet(p) ==
    /\ records[p].kind = "file" /\ records[p].good
    /\ records[p].count \in 2 .. MaxSecondary
    /\ p + records[p].count <= Len(records)
    /\ records[p + 1].kind = "stream"
    /\ records[p + 1].names + 1 = records[p].count
    /\ \A i \in 2 .. records[p].count : records[p + i].kind = "name"

(* The files of an exFAT directory are its whole sets, each once and in order,
   whatever stands between them. *)
SetsAreWhole ==
    format = "exfat" =>
        /\ \A p \in DOMAIN records :
              WholeSet(p) => \E e \in DOMAIN results : results[e].at = p
        /\ \A e \in DOMAIN results :
              /\ results[e].at \in DOMAIN records /\ WholeSet(results[e].at)
              /\ \A d \in 1 .. e - 1 : results[d].at < results[e].at
=============================================================================

----------------------------- MODULE Directories -----------------------------
(***************************************************************************)
(* Listing a directory and finding a file by its path: nativeListDir,      *)
(* fat32_find_dir, exfat_find_dir, fat32_find_file, exfat_find_file, and   *)
(* the walk along the clusters of a directory below them.                  *)
(*                                                                         *)
(* A client lists the directory at path and then opens one of the files it *)
(* has been shown. The volume is whatever the decrypted sectors say, and   *)
(* every sector read may fail. What a cluster holds is given as entries:   *)
(* DirectoryRecords shows how they are made from directory records.        *)
(***************************************************************************)
EXTENDS Integers, Sequences, SequencesExt

CONSTANTS ClusterCount, MaxEntries,  \* MAX_DIRECTORY_ENTRIES
          Kinds,                     \* file systems
          Chains,                    \* values of the FAT
          Contents,                  \* per file system and cluster: what it
                                     \* may hold, as entries and an end marker
          Bitmaps,                   \* allocation bitmaps
          Paths                      \* requested by the client

ASSUME NumbersAssumption == ClusterCount \in Nat \ {0} /\ MaxEntries \in Nat
ASSUME KindsAssumption == Kinds \subseteq {"fat32", "exfat"}
ASSUME VolumesAssumption ==
    /\ Chains \subseteq Nat
    /\ \A p \in Paths : p \in Seq(ToSet(p))
    /\ \A k \in Kinds : \A c \in 2 .. ClusterCount + 1 : \A held \in Contents[k][c] :
          /\ held.last \in BOOLEAN
          /\ held.entries \in Seq(ToSet(held.entries))
          /\ \A e \in ToSet(held.entries) :
                /\ e.first \in Nat /\ e.len \in Nat
                /\ e.dir \in BOOLEAN /\ e.flat \in BOOLEAN
                /\ e.flat => k = "exfat"

Clusters == 2 .. ClusterCount + 1
BadCluster == ClusterCount + 2   \* names no cluster
EndOfChain == ClusterCount + 3
None == <<>>                     \* of what is there or not: None or <<it>>
Root == [first |-> 2, flat |-> FALSE, len |-> 0]

VARIABLES kind, fat, content, allocated, path,   \* the volume, the request
          pc, goal, todo,                        \* the call
          dir, cluster, steps, visited, results, valid,  \* its walk
          listing, target, found,                \* what the client has
          failed                                 \* history: a read failed

volume == <<kind, fat, content, allocated, path>>
walk == <<dir, cluster, steps, visited, results, valid>>
client == <<listing, target, found>>
vars == <<volume, pc, goal, todo, walk, client, failed>>

Init ==
    /\ kind \in Kinds
    /\ fat \in [Clusters -> Chains]
    /\ content \in {f \in [Clusters -> UNION {Contents[kind][c] : c \in Clusters}] :
                      \A c \in Clusters : f[c] \in Contents[kind][c]}
    /\ allocated \in IF kind = "fat32" THEN {Clusters} ELSE Bitmaps
    /\ path \in Paths
    /\ pc = "start" /\ goal = "list" /\ todo = <<>>
    /\ dir = Root /\ cluster = 0 /\ steps = 0 /\ visited = {}
    /\ results = <<>> /\ valid = TRUE
    /\ listing = None /\ target = None /\ found = None
    /\ failed = FALSE

TypeOK ==
    /\ pc \in {"start", "walk", "sectors", "next", "listed", "client", "done"}
    /\ goal \in {"list", "find"}
    /\ dir.first \in Nat /\ dir.len \in Nat
    /\ dir.flat \in BOOLEAN /\ (dir.flat => kind = "exfat")
    /\ cluster \in Nat /\ visited \subseteq Clusters
    /\ steps \in 0 .. ClusterCount + 1 /\ (kind = "fat32" => steps = 0)
    /\ Len(results) <= MaxEntries
    /\ valid \in BOOLEAN /\ failed \in BOOLEAN

-----------------------------------------------------------------------------
(* The walk along a directory *)

Ends(c) == c < 2 \/ c >= EndOfChain

NextCluster(d, c) ==
    IF d.flat THEN c + 1
    ELSE IF c \notin Clusters THEN EndOfChain
    ELSE IF kind = "fat32" /\ fat[c] \notin Clusters THEN EndOfChain
    ELSE fat[c]

(* The first lines of fat32_list_cluster and exfat_list_cluster. *)
OpenDir(d) ==
    /\ dir' = d /\ cluster' = d.first
    /\ steps' = 0 /\ visited' = {} /\ results' = <<>>
    /\ valid' = (kind = "fat32" \/ d.first >= 2)
    /\ pc' = IF valid' THEN "walk" ELSE "listed"

Refuse ==
    /\ valid' = FALSE /\ results' = <<>>
    /\ pc' = "listed"

(* A cluster to scan: in range, new, and marked as allocated on exFAT. *)
Usable ==
    /\ cluster \in Clusters
    /\ dir.flat \/ cluster \notin visited
    /\ kind = "exfat" => cluster \in allocated

(* A data length that is looked at one cluster too late. *)
OverTooLate ==
    \/ Ends(cluster)
    \/ kind = "exfat" /\ steps > ClusterCount
    \/ kind = "exfat" /\ dir.flat /\ dir.len # 0 /\ steps > dir.len

(* The while condition, with the bound on the steps and on the data length. *)
Over ==
    \/ Ends(cluster)
    \/ kind = "exfat" /\ steps > ClusterCount
    \/ kind = "exfat" /\ dir.flat /\ dir.len # 0 /\ steps >= dir.len

Count == steps' = IF kind = "exfat" /\ ~Ends(cluster) THEN steps + 1 ELSE steps

(* The end of the walk: one that took too many steps is refused on exFAT. *)
EndWalk ==
    /\ pc = "walk" /\ Over
    /\ Count
    /\ IF steps' > ClusterCount THEN Refuse
       ELSE pc' = "listed" /\ UNCHANGED <<valid, results>>
    /\ UNCHANGED <<volume, goal, todo, dir, cluster, visited, client, failed>>

EnterCluster ==
    /\ pc = "walk" /\ ~Over
    /\ Count
    /\ IF Usable
       THEN /\ visited' = visited \cup {cluster}
            /\ pc' = "sectors"
            /\ UNCHANGED <<valid, results>>
       ELSE Refuse /\ UNCHANGED visited
    /\ UNCHANGED <<volume, goal, todo, dir, cluster, client, failed>>

(* An entry with its place, which tells entries of the same name apart. *)
Placed(c) == [i \in DOMAIN content[c].entries |->
    [entry |-> content[c].entries[i], at |-> <<c, i>>]]

(* The entries of the cluster, up to the end marker if it holds one. *)
Scan ==
    /\ pc = "sectors"
    /\ IF Len(results) + Len(content[cluster].entries) > MaxEntries
       THEN Refuse
       ELSE /\ results' = results \o Placed(cluster)
            /\ pc' = IF content[cluster].last THEN "listed" ELSE "next"
            /\ UNCHANGED valid
    /\ UNCHANGED <<volume, goal, todo, dir, cluster, steps, visited, client, failed>>

(* A sector of the directory, or of the bitmap, cannot be read. *)
ScanFails ==
    /\ pc = "sectors"
    /\ Refuse
    /\ failed' = TRUE
    /\ UNCHANGED <<volume, goal, todo, dir, cluster, steps, visited, client>>

Follow ==
    /\ pc = "next"
    /\ cluster' = NextCluster(dir, cluster)
    /\ pc' = "walk"
    /\ UNCHANGED <<volume, goal, todo, dir, steps, visited, results, valid,
                   client, failed>>

(* A sector of the FAT that cannot be read looks like the end of the chain. *)
FollowFails ==
    /\ pc = "next" /\ ~dir.flat
    /\ cluster' = EndOfChain
    /\ pc' = "walk"
    /\ failed' = TRUE
    /\ UNCHANGED <<volume, goal, todo, dir, steps, visited, results, valid, client>>

-----------------------------------------------------------------------------
(* The calls *)

(* exfat_validate_root_metadata goes along the chain of the root first, and is
   content with one that leads out of the volume. *)
RootWalk[n \in Nat] ==
    IF n = 0 THEN 2
    ELSE IF RootWalk[n - 1] \in Clusters
         THEN IF content[RootWalk[n - 1]].last THEN EndOfChain
              ELSE fat[RootWalk[n - 1]]
         ELSE EndOfChain
MetadataValid == RootWalk[ClusterCount] \notin Clusters /\ 2 \in allocated

Prepared == kind = "fat32" \/ MetadataValid

(* nativeListDir, nativeReadFile: boot sector and metadata are read, and the
   walk starts at the root. *)
Start(g, p) ==
    /\ goal' = g
    /\ IF Prepared
       THEN todo' = p /\ OpenDir(Root)
       ELSE pc' = "done" /\ UNCHANGED <<todo, walk>>

StartFails(g) ==
    /\ goal' = g
    /\ pc' = "done"
    /\ failed' = TRUE
    /\ UNCHANGED <<todo, walk>>

List ==
    /\ pc = "start"
    /\ \/ Start("list", path) /\ UNCHANGED failed
       \/ StartFails("list")
    /\ UNCHANGED <<volume, client>>

(* The client opens one of the files it has been shown. *)
Find ==
    /\ pc = "client"
    /\ \E i \in DOMAIN listing[1] :
          /\ ~listing[1][i].entry.dir
          /\ target' = <<listing[1][i].entry.name>>
    /\ \/ Start("find", path \o target') /\ UNCHANGED failed
       \/ StartFails("find")
    /\ UNCHANGED <<volume, listing, found>>

(* None, or the first of s that is among those. *)
First(s, those) ==
    LET I == {i \in DOMAIN s : s[i] \in those} IN
    IF I = {} THEN None ELSE <<s[CHOOSE i \in I : \A j \in I : i <= j]>>

Named(s, name) == {r \in ToSet(s) : r.entry.name = name}

(* fat32_find_dir and exfat_find_dir take the first directory of that name. *)
SubDir(s, name) == First(s, {r \in Named(s, name) : r.entry.dir})

(* A loop that goes on after it has found the name. *)
SubEntryLast(s, name) == First(Reverse(s), Named(s, name))

(* fat32_find_file and exfat_find_file take the first entry of that name. *)
SubEntry(s, name) == First(s, Named(s, name))

Place(r) == [first |-> r.entry.first, flat |-> r.entry.flat, len |-> r.entry.len]

Stop == pc' = "done" /\ UNCHANGED <<todo, walk>>
Descend(r) == OpenDir(Place(r)) /\ todo' = Tail(todo)

DescendToList ==
    /\ pc = "listed" /\ goal = "list" /\ todo # <<>>
    /\ LET m == SubDir(results, Head(todo)) IN
       IF m = None THEN Stop
       ELSE IF m[1].entry.first < 2 THEN Stop ELSE Descend(m[1])
    /\ UNCHANGED <<volume, goal, client, failed>>

Listed ==
    /\ pc = "listed" /\ goal = "list" /\ todo = <<>>
    /\ listing' = IF valid THEN <<results>> ELSE None
    /\ pc' = IF valid THEN "client" ELSE "done"
    /\ UNCHANGED <<volume, goal, todo, walk, target, found, failed>>

(* No memory for the array, or for the strings and the object of an entry: the
   entries that have been built are dropped. *)
BuildFails ==
    /\ pc = "listed" /\ goal = "list" /\ todo = <<>> /\ valid
    /\ pc' = "done"
    /\ failed' = TRUE
    /\ UNCHANGED <<volume, goal, todo, walk, client>>

(* Before the last component of the path ... *)
DescendToFind ==
    /\ pc = "listed" /\ goal = "find" /\ Len(todo) > 1
    /\ LET m == SubEntry(results, Head(todo)) IN
       IF m = None THEN Stop
       ELSE IF ~m[1].entry.dir THEN Stop ELSE Descend(m[1])
    /\ UNCHANGED <<volume, goal, client, failed>>

(* ... and at it. *)
Found ==
    /\ pc = "listed" /\ goal = "find" /\ Len(todo) = 1
    /\ LET m == SubEntry(results, Head(todo)) IN
       found' = IF m = None THEN None ELSE IF m[1].entry.dir THEN None ELSE m
    /\ pc' = "done"
    /\ UNCHANGED <<volume, goal, todo, walk, listing, target, failed>>

Next ==
    \/ List \/ Find \/ EndWalk \/ EnterCluster \/ Scan \/ ScanFails \/ Follow
    \/ FollowFails \/ DescendToList \/ Listed \/ BuildFails \/ DescendToFind
    \/ Found

Spec == Init /\ [][Next]_vars

-----------------------------------------------------------------------------
(* What a directory is *)

(* After n of its clusters: the one to come, and the entries so far. *)
Walked(d) ==
    LET after[n \in Nat] ==
            IF n = 0 THEN [cluster |-> d.first, entries |-> <<>>]
            ELSE [cluster |-> NextCluster(d, after[n - 1].cluster),
                  entries |-> after[n - 1].entries \o Placed(after[n - 1].cluster)]
    IN  after

(* The n-th cluster from 0. *)
At(d, n) == Walked(d)[n].cluster

(* Its first n clusters are good ones, and it ends behind them and no earlier. *)
HasLength(d, n) ==
    /\ \A i \in 0 .. n - 1 : At(d, i) \in Clusters
    /\ kind = "exfat" => \A i \in 0 .. n - 1 : At(d, i) \in allocated
    /\ \A i, j \in 0 .. n - 1 : At(d, i) = At(d, j) => i = j
    /\ \A i \in 1 .. n - 1 : ~content[At(d, i - 1)].last /\ ~(d.flat /\ d.len = i)
    /\ \/ n > 0 /\ content[At(d, n - 1)].last
       \/ Ends(At(d, n))
       \/ d.flat /\ n > 0 /\ d.len = n /\ n < ClusterCount

(* None, or its entries. *)
EntriesOf(d) ==
    LET lengths == {n \in 0 .. ClusterCount : HasLength(d, n)}
        all == Walked(d)[CHOOSE n \in lengths : TRUE].entries
    IN  IF lengths = {} \/ Len(all) > MaxEntries THEN None ELSE <<all>>

(* None, or the directory at the first n components of path, with the first of
   several directories of the same name. *)
DirAt[n \in Nat] ==
    IF n = 0 THEN <<Root>>
    ELSE IF DirAt[n - 1] = None THEN None
    ELSE LET s == EntriesOf(DirAt[n - 1][1])
             m == SubDir(s[1], path[n])
         IN  IF s = None THEN None
             ELSE IF m = None THEN None
             ELSE IF m[1].entry.first < 2 THEN None ELSE <<Place(m[1])>>

Directory ==
    IF ~Prepared \/ DirAt[Len(path)] = None THEN None
    ELSE EntriesOf(DirAt[Len(path)][1])

(* No two entries have the same name in the directories along path. *)
Unambiguous ==
    \A n \in 0 .. Len(path) :
        LET s == EntriesOf(DirAt[n][1]) IN
        \A i, j \in DOMAIN s[1] : s[1][i].entry.name = s[1][j].entry.name => i = j

-----------------------------------------------------------------------------
(* Properties *)

(* On a volume that can be read a listing is all of the directory, up to its end
   marker, the end of its chain or its data length, and a directory whose chain
   is broken is not listed at all. Even where a walk is cut short no entry is
   listed twice. *)
ListingIsWhole ==
    /\ ~failed /\ (listing # None \/ pc = "done") => listing = Directory
    /\ listing # None =>
          \A i, j \in DOMAIN listing[1] :
              listing[1][i].at = listing[1][j].at => i = j

(* "Array of [VolumeEntry] items, or null on error" (NativeBridge.kt:69): a client
   that lists a sound directory, of which a sector cannot be read, gets no listing,
   unless nothing is missing from it. *)
ErrorIsNull ==
    goal = "list" /\ failed /\ Directory # None => listing \in {None, Directory}

(* The lookup of a listed name, which goes through the directories by rules of
   its own, finds the first entry of that name in the listing or nothing; where
   names are unique and the volume can be read it finds it. *)
OpensWhatWasListed ==
    /\ found # None => found = SubEntry(listing[1], target[1])
    /\ pc = "done" /\ goal = "find" /\ ~failed /\ Unambiguous => found # None
=============================================================================

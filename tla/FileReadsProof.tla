--------------------------- MODULE FileReadsProof ---------------------------
(***************************************************************************)
(* Proofs about FileReads for every geometry, chunk size, size of file and *)
(* content of the FAT and of the bitmap: what is delivered is a prefix of  *)
(* the file without a byte that comes twice, and a sound file arrives      *)
(* whole unless a sector cannot be read.                                   *)
(***************************************************************************)
EXTENDS FileReads, WellFoundedInduction, TLAPS

-----------------------------------------------------------------------------
(* The inductive invariant *)

Asking == {"lookup", "begin", "skip", "cluster", "sector", "return", "null"}
Copying == {"cluster", "sector", "return"}

(* The number of the next byte, in the file. *)
position == offset + Len(buf)

(* The n-th byte is in a cluster that may be read and was not met before. *)
Owned(n) ==
    LET c == n \div clusterBytes IN
    /\ ChainOf[c] \in Clusters /\ ChainOf[c] \in allocated
    /\ \A b \in 0 .. c - 1 : ChainOf[b] # ChainOf[c]

Delivered ==
    /\ Len(out) <= size
    /\ \A i \in 1 .. Len(out) : out[i] = ByteOf(i - 1) /\ Owned(i - 1)

Asked ==
    /\ end # "open" => pc = "done"
    /\ pc \in Asking => offset < size /\ wanted = Least(ChunkSize, size - offset)

Filled == pc \in Copying =>
    /\ Len(buf) + left = wanted
    /\ \A i \in 1 .. Len(buf) :
          buf[i] = ByteOf(offset + i - 1) /\ Owned(offset + i - 1)

(* The clusters before the k-th are those of the list of visited ones, which only
   a file with a chain keeps. *)
Walked(k) == kind # "noFatChain" => visited = {ChainOf[b] : b \in 0 .. k - 1}

Skipping == pc = "skip" =>
    LET k == (offset \div clusterBytes) - skip IN
    /\ k \in Nat /\ cluster = ChainOf[k] /\ cluster <= EndOfChain /\ Walked(k)
    /\ within = offset % clusterBytes
    /\ buf = <<>> /\ left = wanted

(* The place of the next byte, until all are there. *)
AtCluster == pc = "cluster" /\ left > 0 =>
    LET k == position \div clusterBytes IN
    /\ cluster = ChainOf[k] \/ (failed /\ cluster = EndOfChain)
    /\ Walked(k)
    /\ within = position % clusterBytes

InCluster(k) ==
    /\ position = k * clusterBytes + secIdx * SectorSize + offInSec
    /\ cluster = ChainOf[k] /\ cluster \in Clusters /\ cluster \in allocated
    /\ \A b \in 0 .. k - 1 : ChainOf[b] # ChainOf[k]
    /\ Walked(k + 1)

AtSector == pc = "sector" /\ left > 0 =>
    /\ secIdx = SectorsPerCluster => offInSec = 0
    /\ \E k \in 0 .. position : InCluster(k)

(* As long as nothing fails, a sound file has no reason to break off. *)
Arriving == Sound /\ ~failed =>
    /\ pc # "null" /\ end # "error"
    /\ pc = "return" => left = 0
    /\ end = "clean" => offset = size

IInv == /\ TypeOK /\ Asked /\ Delivered /\ Filled
        /\ Skipping /\ AtCluster /\ AtSector /\ Arriving

USE GeometryAssumption, FilesAssumption DEF offset, position

-----------------------------------------------------------------------------
(* Arithmetic *)

LEMMA Product ==
    ASSUME NEW a \in Nat, NEW b \in Nat
    PROVE  a * b \in Nat /\ (a + 1) * b = a * b + b
  BY SMT

LEMMA ProductOrder ==
    ASSUME NEW a \in Nat, NEW b \in Nat, NEW d \in Nat, a <= b
    PROVE  a * d <= b * d
  BY SMT

LEMMA DivMod ==
    ASSUME NEW q \in Int, NEW d \in Nat \ {0}, NEW r \in 0 .. d - 1
    PROVE  (q * d + r) \div d = q /\ (q * d + r) % d = r
  BY SMT

LEMMA DivModOf ==
    ASSUME NEW n \in Nat, NEW d \in Nat \ {0}
    PROVE  /\ n \div d \in Nat /\ n % d \in 0 .. d - 1
           /\ n = (n \div d) * d + (n % d)
<1>1. n \div d \in Nat /\ n % d \in 0 .. d - 1 /\ n % d = n - d * (n \div d)
  BY SMT
<1>. DEFINE q == n \div d
            r == n % d
<1>2. q \in Nat /\ r \in Int /\ r = n - d * q
  BY <1>1
<1>. HIDE DEF q, r
<1>3. d * q = q * d /\ q * d \in Nat
  BY <1>2, SMT
<1>4. n = q * d + r
  BY <1>2, <1>3
<1>5. n = (n \div d) * d + (n % d)
  BY <1>4, Zenon DEF q, r
<1>6. n \div d \in Nat /\ n % d \in 0 .. d - 1
  BY <1>1, Zenon
<1>. QED
  BY <1>5, <1>6, Zenon

LEMMA ClusterBytes == clusterBytes \in Nat \ {0}
  BY SMT DEF clusterBytes

(* The place of a byte in the file, in clusters, gives its cluster and the rest. *)
LEMMA PlaceInFile ==
    ASSUME NEW k \in Nat, NEW r \in 0 .. clusterBytes - 1
    PROVE  /\ (k * clusterBytes + r) \div clusterBytes = k
           /\ (k * clusterBytes + r) % clusterBytes = r
  BY ClusterBytes, DivMod

(* The cluster of an earlier byte is not a later one. *)
LEMMA DivOrder ==
    ASSUME NEW m \in Nat, NEW n \in Nat, NEW d \in Nat \ {0}, m <= n
    PROVE  m \div d <= n \div d
<1>. DEFINE p == m \div d
            q == n \div d
<1>1. /\ p \in Nat /\ m % d \in 0 .. d - 1 /\ m = p * d + (m % d)
      /\ q \in Nat /\ n % d \in 0 .. d - 1 /\ n = q * d + (n % d)
  BY DivModOf, Zenon
<1>. HIDE DEF p, q
<1>2. SUFFICES ASSUME q < p PROVE FALSE
  BY <1>1 DEF p, q
<1>3. (q + 1) * d <= p * d
  BY <1>1, <1>2, ProductOrder
<1>4. (q + 1) * d = q * d + d /\ q * d \in Nat /\ p * d \in Nat
  BY <1>1, Product
<1>. QED
  BY <1>1, <1>3, <1>4

(* The sector of a place in the cluster, and the place in that sector. *)
LEMMA SectorOfPlace ==
    ASSUME NEW r \in 0 .. clusterBytes - 1
    PROVE  /\ r \div SectorSize \in 0 .. SectorsPerCluster - 1
           /\ r % SectorSize \in 0 .. SectorSize - 1
           /\ r = (r \div SectorSize) * SectorSize + (r % SectorSize)
<1>. DEFINE q == r \div SectorSize
            m == r % SectorSize
<1>0. r \in Nat /\ SectorSize \in Nat \ {0}
  BY ClusterBytes
<1>1. q \in Nat /\ m \in 0 .. SectorSize - 1 /\ r = q * SectorSize + m
  BY <1>0, DivModOf, Zenon
<1>. HIDE DEF q, m
<1>2. q < SectorsPerCluster
  <2>1. SUFFICES ASSUME SectorsPerCluster <= q PROVE FALSE
    BY <1>1
  <2>2. SectorsPerCluster * SectorSize <= q * SectorSize
    BY <1>1, <2>1, ProductOrder
  <2>3. q * SectorSize \in Nat
    BY <1>1, Product
  <2>. QED
    BY <1>1, <2>2, <2>3, ClusterBytes DEF clusterBytes
<1>3. q \in 0 .. SectorsPerCluster - 1
  BY <1>1, <1>2
<1>. QED
  BY <1>1, <1>3 DEF q, m

(* A place in a sector of the cluster is one in the cluster. *)
LEMMA PlaceInCluster ==
    ASSUME NEW s \in 0 .. SectorsPerCluster - 1, NEW o \in 0 .. SectorSize - 1
    PROVE  s * SectorSize + o \in 0 .. clusterBytes - 1
<1>1. (s + 1) * SectorSize <= SectorsPerCluster * SectorSize
  BY ProductOrder
<1>2. s * SectorSize \in Nat /\ (s + 1) * SectorSize = s * SectorSize + SectorSize
  BY Product
<1>. QED
  BY <1>1, <1>2, ClusterBytes DEF clusterBytes

(* On the volume: a cluster and its sectors. *)
LEMMA PlaceOnVolume ==
    ASSUME NEW c \in Clusters
    PROVE  /\ FirstSector(c) * SectorSize = (c - 2) * clusterBytes
           /\ FirstSector(c) \in Nat /\ FirstSector(c) * SectorSize \in Nat
           /\ \A s \in Nat :
                 (FirstSector(c) + s) * SectorSize
                    = FirstSector(c) * SectorSize + s * SectorSize
<1>1. c - 2 \in Nat
  BY DEF Clusters
<1>2. ASSUME NEW a \in Nat, NEW b \in Nat, NEW d \in Nat
      PROVE  (a * b) * d = a * (b * d) /\ (a + b) * d = a * d + b * d /\ a * b \in Nat
  BY SMT
<1>. QED
  BY <1>1, <1>2 DEF FirstSector, clusterBytes

-----------------------------------------------------------------------------
(* The chain of a file *)

LEMMA LeastNumber ==
    ASSUME NEW S, S \subseteq Nat, S # {}
    PROVE  \E x \in S : \A y \in S : x <= y
<1>1. PICK x \in S : \A y \in S : ~(<<y, x>> \in OpToRel(<, Nat))
  BY NatLessThanWellFounded, WFMin
<1>2. ASSUME NEW y \in S PROVE x <= y
  <2>1. SUFFICES ASSUME y < x PROVE FALSE
    OBVIOUS
  <2>2. <<y, x>> \in Nat \X Nat /\ <<y, x>>[1] < <<y, x>>[2]
    BY <2>1
  <2>3. <<y, x>> \in {ss \in Nat \X Nat : ss[1] < ss[2]}
    BY <2>2, Zenon
  <2>. QED
    BY <2>3, <1>1, Zenon DEF OpToRel
<1>. QED
  BY <1>2

(* The first n + 1 values of the sequence that starts with v and goes on by S. *)
Start(v, S, n) ==
    {f \in [0 .. n -> Nat] : f[0] = v /\ \A i \in 0 .. n - 1 : f[i + 1] = S[f[i]]}

LEMMA StartExists ==
    ASSUME NEW v \in Nat, NEW S \in [Nat -> Nat], NEW n \in Nat
    PROVE  \E f : f \in Start(v, S, n)
<1>. DEFINE B == {i \in Nat : ~ \E f : f \in Start(v, S, i)}
<1>1. SUFFICES ASSUME B # {} PROVE FALSE
  OBVIOUS
<1>2. PICK m \in B : \A y \in B : m <= y
  BY <1>1, LeastNumber
<1>3. CASE m = 0
  <2>1. [i \in 0 .. 0 |-> v] \in Start(v, S, 0)
    BY DEF Start
  <2>. QED
    BY <2>1, <1>3
<1>4. CASE m # 0
  <2>1. m - 1 \in Nat /\ m - 1 \notin B
    BY <1>2, <1>4
  <2>2. PICK f : f \in Start(v, S, m - 1)
    BY <2>1
  <2>3. /\ f \in [0 .. m - 1 -> Nat] /\ f[0] = v
        /\ \A i \in 0 .. (m - 1) - 1 : f[i + 1] = S[f[i]]
    BY <2>2, Zenon DEF Start
  <2>. DEFINE g == [i \in 0 .. m |-> IF i = m THEN S[f[m - 1]] ELSE f[i]]
  <2>4. g \in [0 .. m -> Nat] /\ g[0] = v
    BY <2>1, <2>3, <1>2, <1>4
  <2>5. ASSUME NEW i \in 0 .. m - 1 PROVE g[i + 1] = S[g[i]]
    <3>1. g[i] = f[i]
      BY <2>1
    <3>2. CASE i = m - 1
      BY <3>1, <3>2, <2>1
    <3>3. CASE i # m - 1
      <4>1. i \in 0 .. (m - 1) - 1 /\ i + 1 \in 0 .. m /\ i + 1 # m
        BY <3>3, <2>1
      <4>2. f[i + 1] = S[f[i]]
        BY <4>1, <2>3
      <4>. QED
        BY <4>1, <4>2, <3>1
    <3>. QED
      BY <3>2, <3>3
  <2>6. g \in Start(v, S, m)
    BY <2>4, <2>5 DEF Start
  <2>. QED
    BY <2>6
<1>. QED
  BY <1>3, <1>4

LEMMA StartsAgree ==
    ASSUME NEW v \in Nat, NEW S \in [Nat -> Nat], NEW n \in Nat,
           NEW f \in Start(v, S, n), NEW g \in Start(v, S, n + 1)
    PROVE  f[n] = g[n]
<1>. DEFINE B == {i \in 0 .. n : f[i] # g[i]}
<1>1. SUFFICES ASSUME B # {} PROVE FALSE
  OBVIOUS
<1>2. PICK m \in B : \A y \in B : m <= y
  <2>1. B \subseteq Nat
    OBVIOUS
  <2>. HIDE DEF B
  <2>. QED
    BY <1>1, <2>1, LeastNumber
<1>3. /\ f[0] = v /\ g[0] = v
      /\ \A i \in 0 .. n - 1 : f[i + 1] = S[f[i]]
      /\ \A i \in 0 .. n : g[i + 1] = S[g[i]]
  BY DEF Start
<1>4. m # 0
  BY <1>2, <1>3
<1>5. m - 1 \in 0 .. n - 1 /\ m - 1 \notin B
  BY <1>2, <1>4
<1>6. f[m - 1] = g[m - 1] /\ (m - 1) + 1 = m
  BY <1>5
<1>7. f[m] = S[f[m - 1]] /\ g[m] = S[g[m - 1]]
  BY <1>3, <1>5, <1>6
<1>. QED
  BY <1>2, <1>6, <1>7

LEMMA SequenceExists ==
    ASSUME NEW v \in Nat, NEW S \in [Nat -> Nat]
    PROVE  \E f \in [Nat -> Nat] : f[0] = v /\ \A n \in Nat : f[n + 1] = S[f[n]]
<1>. DEFINE G(n) == CHOOSE f : f \in Start(v, S, n)
            F == [n \in Nat |-> G(n)[n]]
<1>1. ASSUME NEW n \in Nat PROVE G(n) \in Start(v, S, n)
  BY StartExists
<1>2. ASSUME NEW n \in Nat
      PROVE  /\ G(n) \in [0 .. n -> Nat] /\ G(n)[0] = v
             /\ \A i \in 0 .. n - 1 : G(n)[i + 1] = S[G(n)[i]]
  BY <1>1 DEF Start
<1>3. ASSUME NEW n \in Nat PROVE G(n)[n] = G(n + 1)[n]
  BY <1>1, StartsAgree
<1>. HIDE DEF G
<1>4. F \in [Nat -> Nat] /\ F[0] = v
  BY <1>2
<1>5. ASSUME NEW n \in Nat PROVE F[n + 1] = S[F[n]]
  <2>1. G(n + 1)[n + 1] = S[G(n + 1)[n]]
    BY <1>2
  <2>2. F[n + 1] = G(n + 1)[n + 1] /\ F[n] = G(n)[n]
    OBVIOUS
  <2>. HIDE DEF F
  <2>. QED
    BY <2>1, <2>2, <1>3
<1>. QED
  BY <1>4, <1>5

LEMMA NextClusterType ==
    ASSUME TypeOK, NEW c \in Nat
    PROVE  NextCluster(c) \in Nat
  BY DEF TypeOK, NextCluster, EndOfChain, Clusters

(* ChainOf is the sequence of clusters that NextCluster gives from the first. *)
LEMMA ChainFacts ==
    ASSUME TypeOK
    PROVE  /\ ChainOf \in [Nat -> Nat] /\ ChainOf[0] = first
           /\ \A n \in Nat : ChainOf[n + 1] = NextCluster(ChainOf[n])
<1>. DEFINE S == [c \in Nat |-> NextCluster(c)]
            Body(f) == [n \in Nat |-> IF n = 0 THEN first ELSE NextCluster(f[n - 1])]
<1>1. S \in [Nat -> Nat] /\ first \in Nat
  <2>1. \A c \in Nat : NextCluster(c) \in Nat
    BY NextClusterType
  <2>2. first \in Nat
    BY DEF TypeOK, EndOfChain
  <2>. QED
    BY <2>1, <2>2
<1>2. PICK f \in [Nat -> Nat] : f[0] = first /\ \A n \in Nat : f[n + 1] = S[f[n]]
  <2>. HIDE DEF S
  <2>. QED
    BY <1>1, SequenceExists
<1>3. ASSUME NEW n \in Nat PROVE f[n] = Body(f)[n]
  <2>1. CASE n = 0
    BY <2>1, <1>2
  <2>2. CASE n # 0
    <3>1. n - 1 \in Nat /\ (n - 1) + 1 = n
      BY <2>2
    <3>2. f[n] = S[f[n - 1]]
      BY <1>2, <3>1
    <3>3. S[f[n - 1]] = NextCluster(f[n - 1])
      BY <1>2, <3>1
    <3>. QED
      BY <3>2, <3>3, <2>2
  <2>. QED
    BY <2>1, <2>2
<1>4. f = Body(f)
  BY <1>3
<1>5. ChainOf = Body(ChainOf)
  BY <1>4, Zenon DEF ChainOf
<1>. HIDE DEF Body
<1>6. \A n \in Nat : ChainOf[n] = IF n = 0 THEN first ELSE NextCluster(ChainOf[n - 1])
  BY <1>5 DEF Body
<1>7. DOMAIN ChainOf = Nat /\ ChainOf = [n \in Nat |-> ChainOf[n]]
  BY <1>5 DEF Body
<1>8. ASSUME NEW n \in Nat PROVE ChainOf[n + 1] = NextCluster(ChainOf[n])
  <2>1. n + 1 \in Nat /\ n + 1 # 0 /\ (n + 1) - 1 = n
    OBVIOUS
  <2>. QED
    BY <1>6, <2>1
<1>9. \A n \in Nat : ChainOf[n] \in Nat
  <2>. DEFINE B == {n \in Nat : ChainOf[n] \notin Nat}
  <2>1. SUFFICES ASSUME B # {} PROVE FALSE
    OBVIOUS
  <2>2. B \subseteq Nat
    OBVIOUS
  <2>3. PICK m \in B : \A y \in B : m <= y
    <3>. HIDE DEF B
    <3>. QED
      BY <2>1, <2>2, LeastNumber
  <2>4. m \in Nat /\ m # 0
    BY <2>3, <1>6, <1>1
  <2>5. m - 1 \in Nat /\ m - 1 \notin B
    BY <2>3, <2>4
  <2>6. ChainOf[m - 1] \in Nat
    BY <2>5
  <2>7. ChainOf[m] = NextCluster(ChainOf[m - 1])
    BY <1>6, <2>4
  <2>. QED
    BY <2>3, <2>6, <2>7, NextClusterType
<1>. QED
  BY <1>1, <1>6, <1>7, <1>8, <1>9

(* The file is the same after a step that leaves the volume alone. *)
LEMMA SameFile ==
    ASSUME UNCHANGED volume
    PROVE  /\ ChainOf' = ChainOf /\ (Sound' <=> Sound)
           /\ \A n : ByteOf(n)' = ByteOf(n) /\ (Owned(n)' <=> Owned(n))
<1>1. /\ kind' = kind /\ fat' = fat /\ first' = first
      /\ size' = size /\ allocated' = allocated
  BY DEF volume
<1>2. ChainOf' = ChainOf
  BY <1>1, Zenon DEF ChainOf, NextCluster
<1>3. Sound' <=> Sound
  BY <1>1, <1>2 DEF Sound, clusterNeed
<1>4. \A n : ByteOf(n)' = ByteOf(n)
  BY <1>2 DEF ByteOf
<1>5. \A n : Owned(n)' <=> Owned(n)
  BY <1>1, <1>2 DEF Owned
<1>. QED
  BY <1>2, <1>3, <1>4, <1>5

LEMMA DeliveredStays ==
    ASSUME Delivered, UNCHANGED <<volume, out>>
    PROVE  Delivered'
<1>1. size' = size /\ out' = out
  BY DEF volume
<1>2. \A n : ByteOf(n)' = ByteOf(n) /\ (Owned(n)' <=> Owned(n))
  BY SameFile
<1>3. \A i \in 1 .. Len(out) : out'[i] = ByteOf(i - 1)' /\ Owned(i - 1)'
  BY <1>1, <1>2 DEF Delivered
<1>. QED
  BY <1>1, <1>3 DEF Delivered

LEMMA FilledStays ==
    ASSUME pc \in Copying, Filled, UNCHANGED <<volume, out, buf, left, wanted>>
    PROVE  Filled'
<1>1. out' = out /\ buf' = buf /\ left' = left /\ wanted' = wanted
  OBVIOUS
<1>2. \A n : ByteOf(n)' = ByteOf(n) /\ (Owned(n)' <=> Owned(n))
  BY SameFile
<1>3. \A i \in 1 .. Len(buf) : buf'[i] = ByteOf(offset + i - 1)' /\ Owned(offset + i - 1)'
  <2>1. PICK o : o = Len(out)
    OBVIOUS
  <2>2. \A i \in 1 .. Len(buf) : buf[i] = ByteOf(o + i - 1) /\ Owned(o + i - 1)
    BY <2>1 DEF Filled
  <2>3. \A i \in 1 .. Len(buf) : buf[i] = ByteOf(o + i - 1)' /\ Owned(o + i - 1)'
    BY <2>2, <1>2
  <2>4. Len(out') = o
    BY <2>1, <1>1
  <2>. QED
    BY <2>3, <2>4, <1>1
<1>. QED
  BY <1>1, <1>3 DEF Filled

LEMMA WalkedStays ==
    ASSUME UNCHANGED <<volume, visited>>, NEW k, Walked(k)
    PROVE  Walked(k)'
<1>1. ChainOf' = ChainOf /\ kind' = kind
  BY SameFile DEF volume
<1>. QED
  BY <1>1 DEF Walked

(* The n-th cluster of a file without a FAT chain. *)
LEMMA Contiguous ==
    ASSUME TypeOK, kind = "noFatChain", NEW n \in Nat
    PROVE  ChainOf[n] = first + n
<1>. DEFINE B == {i \in Nat : ChainOf[i] # first + i}
<1>1. SUFFICES ASSUME B # {} PROVE FALSE
  OBVIOUS
<1>2. B \subseteq Nat
  OBVIOUS
<1>3. PICK m \in B : \A y \in B : m <= y
  <2>. HIDE DEF B
  <2>. QED
    BY <1>1, <1>2, LeastNumber
<1>4. first \in Nat
  BY DEF TypeOK, EndOfChain
<1>5. m \in Nat /\ m # 0
  BY <1>3, <1>4, ChainFacts
<1>6. m - 1 \in Nat /\ m - 1 \notin B /\ (m - 1) + 1 = m
  BY <1>3, <1>5
<1>7. ChainOf[m - 1] = first + (m - 1)
  BY <1>6
<1>8. ChainOf[m] = NextCluster(ChainOf[m - 1])
  BY <1>6, ChainFacts
<1>. QED
  BY <1>3, <1>4, <1>5, <1>7, <1>8 DEF NextCluster

(* A cluster that is not on the list of visited ones was not met before. *)
LEMMA NotMet ==
    ASSUME TypeOK, NEW k \in Nat, Walked(k), cluster = ChainOf[k], ~Revisited
    PROVE  \A b \in 0 .. k - 1 : ChainOf[b] # ChainOf[k]
<1>1. CASE kind = "noFatChain"
  <2>1. \A b \in Nat : ChainOf[b] = first + b
    BY <1>1, Contiguous
  <2>2. first \in Nat
    BY DEF TypeOK, EndOfChain
  <2>. QED
    BY <2>1, <2>2
<1>2. CASE kind # "noFatChain"
  BY <1>2 DEF Walked, Revisited
<1>. QED
  BY <1>1, <1>2

LEMMA WalkedOn ==
    ASSUME UNCHANGED volume, NEW k \in Nat, Walked(k), cluster = ChainOf[k], Visit
    PROVE  Walked(k + 1)'
<1>1. ChainOf' = ChainOf /\ kind' = kind
  BY SameFile DEF volume
<1>2. SUFFICES ASSUME kind # "noFatChain"
               PROVE  visited' = {ChainOf[b] : b \in 0 .. (k + 1) - 1}
  BY <1>1 DEF Walked
<1>3. visited = {ChainOf[b] : b \in 0 .. k - 1} /\ visited' = visited \cup {ChainOf[k]}
  BY <1>2 DEF Walked, Visit
<1>4. \A b : b \in 0 .. (k + 1) - 1 <=> b \in 0 .. k - 1 \/ b = k
  OBVIOUS
<1>. QED
  BY <1>3, <1>4

(* What Sound says of the cluster of a byte of the file. *)
LEMMA SoundByte ==
    ASSUME TypeOK, Sound, NEW n \in Nat, n < size
    PROVE  /\ n \div clusterBytes \in Nat /\ n \div clusterBytes < ClusterCount
           /\ \A b \in 0 .. n \div clusterBytes :
                 ChainOf[b] \in allocated /\ ChainOf[b] \in Clusters
           /\ \A a, b \in 0 .. n \div clusterBytes : ChainOf[a] = ChainOf[b] => a = b
<1>. DEFINE q == n \div clusterBytes
            m == n % clusterBytes
            top == size + clusterBytes - 1
            p == top \div clusterBytes
            s == top % clusterBytes
<1>1. size \in Nat /\ top \in Nat
  BY ClusterBytes DEF TypeOK
<1>2. /\ q \in Nat /\ m \in 0 .. clusterBytes - 1 /\ n = q * clusterBytes + m
      /\ p \in Nat /\ s \in 0 .. clusterBytes - 1 /\ top = p * clusterBytes + s
  <2>. HIDE DEF top
  <2>. QED
    BY <1>1, ClusterBytes, DivModOf
<1>3. p = clusterNeed
  BY DEF clusterNeed
<1>. HIDE DEF q, m, p, s
<1>4. q < p
  <2>1. SUFFICES ASSUME p <= q PROVE FALSE
    BY <1>2
  <2>2. p * clusterBytes <= q * clusterBytes
    BY <1>2, <2>1, ClusterBytes, ProductOrder
  <2>3. p * clusterBytes \in Nat /\ q * clusterBytes \in Nat
    BY <1>2, ClusterBytes, Product
  <2>. QED
    BY <1>1, <1>2, <2>2, <2>3, ClusterBytes
<1>5. q < ClusterCount
  BY <1>2, <1>3, <1>4 DEF Sound
<1>6. \A b \in 0 .. q : b \in 0 .. clusterNeed - 1
  BY <1>2, <1>3, <1>4
<1>7. allocated \subseteq Clusters
  BY DEF TypeOK
<1>8. /\ \A b \in 0 .. q : ChainOf[b] \in allocated /\ ChainOf[b] \in Clusters
      /\ \A a, b \in 0 .. q : ChainOf[a] = ChainOf[b] => a = b
  BY <1>6, <1>7 DEF Sound
<1>. QED
  BY <1>2, <1>5, <1>8 DEF q

(* The bytes of a sector of the k-th cluster of the file. *)
LEMMA BytesOfSector ==
    ASSUME TypeOK, NEW k \in Nat, InCluster(k), secIdx < SectorsPerCluster,
           NEW j \in 0 .. SectorSize - 1 - offInSec
    PROVE  /\ ByteOf(position + j)
                 = (FirstSector(cluster) + secIdx) * SectorSize + offInSec + j
           /\ ByteOf(position + j) \in Nat
           /\ Owned(position + j)
<1>. DEFINE r == secIdx * SectorSize + (offInSec + j)
<1>1. secIdx \in 0 .. SectorsPerCluster - 1 /\ offInSec + j \in 0 .. SectorSize - 1
      /\ offInSec \in Nat /\ secIdx \in Nat
  BY DEF TypeOK
<1>2. r \in 0 .. clusterBytes - 1
  BY <1>1, PlaceInCluster
<1>3. secIdx * SectorSize \in Nat /\ k * clusterBytes \in Nat
  BY <1>1, Product, ClusterBytes
<1>4. position + j = k * clusterBytes + r
  BY <1>1, <1>3 DEF InCluster
<1>. HIDE DEF r
<1>5. (position + j) \div clusterBytes = k /\ (position + j) % clusterBytes = r
  BY <1>2, <1>4, PlaceInFile
<1>6. cluster = ChainOf[k] /\ cluster \in Clusters /\ cluster \in allocated
      /\ \A b \in 0 .. k - 1 : ChainOf[b] # ChainOf[k]
  BY DEF InCluster
<1>7. ByteOf(position + j) = FirstSector(cluster) * SectorSize + r
  BY <1>5, <1>6 DEF ByteOf
<1>8. Owned(position + j)
  BY <1>5, <1>6 DEF Owned
<1>9. /\ FirstSector(cluster) * SectorSize \in Nat
      /\ (FirstSector(cluster) + secIdx) * SectorSize
            = FirstSector(cluster) * SectorSize + secIdx * SectorSize
  BY <1>1, <1>6, PlaceOnVolume
<1>10. FirstSector(cluster) * SectorSize + r
           = (FirstSector(cluster) + secIdx) * SectorSize + offInSec + j
  BY <1>1, <1>3, <1>9 DEF r
<1>11. FirstSector(cluster) * SectorSize + r \in Nat
  BY <1>2, <1>9
<1>. QED
  BY <1>7, <1>8, <1>10, <1>11

-----------------------------------------------------------------------------
(* The steps *)

LEMMA Lengths ==
    ASSUME TypeOK
    PROVE  /\ Len(out) \in Nat /\ Len(buf) \in Nat /\ position \in Nat
           /\ size \in Nat /\ wanted \in Nat /\ left \in Nat
  BY DEF TypeOK

LEMMA InitSteps == Init => IInv
<1>. SUFFICES ASSUME Init PROVE IInv
  OBVIOUS
<1>. USE DEF Init
<1>1. TypeOK
  <2>1. fat \in [Clusters -> 0 .. EndOfChain]
    <3>1. {0} \subseteq 0 .. EndOfChain
      BY DEF EndOfChain
    <3>. QED
      BY <3>1
  <2>2. allocated \subseteq Clusters
    OBVIOUS
  <2>3. 0 \in 0 .. clusterBytes - 1 /\ 0 \in 0 .. EndOfChain + 1
    BY ClusterBytes DEF EndOfChain
  <2>4. buf \in Seq(Nat) /\ out \in Seq(Nat)
    OBVIOUS
  <2>5. /\ kind \in Kinds /\ first \in 0 .. EndOfChain /\ size \in Sizes /\ pc = "loop"
        /\ wanted = 0 /\ cluster = 0 /\ visited = {} /\ skip = 0 /\ within = 0
        /\ secIdx = 0 /\ offInSec = 0 /\ left = 0 /\ failed = FALSE /\ end = "open"
    OBVIOUS
  <2>6. 0 \in 0 .. ChunkSize /\ 0 \in 0 .. ClusterCount
        /\ 0 \in 0 .. SectorsPerCluster /\ 0 \in 0 .. SectorSize - 1
    OBVIOUS
  <2>. HIDE DEF Init
  <2>7. /\ wanted \in 0 .. ChunkSize /\ left \in 0 .. ChunkSize
        /\ skip \in 0 .. ClusterCount /\ secIdx \in 0 .. SectorsPerCluster
        /\ offInSec \in 0 .. SectorSize - 1 /\ within \in 0 .. clusterBytes - 1
        /\ cluster \in 0 .. EndOfChain + 1 /\ visited \subseteq Nat
    BY <2>3, <2>5, <2>6, Zenon
  <2>8. failed \in BOOLEAN
    BY <2>5
  <2>. QED
    BY <2>1, <2>2, <2>4, <2>5, <2>7, <2>8, Zenon DEF TypeOK
<1>2. Asked /\ Filled /\ Skipping /\ AtCluster /\ AtSector
  BY DEF Asked, Filled, Skipping, AtCluster, AtSector, Asking, Copying
<1>3. Delivered
  BY <1>1, Lengths DEF Delivered
<1>4. Arriving
  BY DEF Arriving
<1>. QED
  BY <1>1, <1>2, <1>3, <1>4 DEF IInv

LEMMA StepLoop ==
    ASSUME IInv, Loop
    PROVE  IInv'
<1>. USE DEF IInv, Loop, chain, copy
<1>1. TypeOK'
  BY DEF TypeOK, volume, Least
<1>2. Asked'
  <2>1. Len(out') = Len(out) /\ size' = size
    BY DEF volume
  <2>. QED
    BY <2>1 DEF Asked, Asking
<1>3. Delivered'
  BY DeliveredStays
<1>4. Filled' /\ Skipping' /\ AtCluster' /\ AtSector'
  BY DEF Filled, Skipping, AtCluster, AtSector, Copying
<1>5. Arriving'
  <2>1. Sound' <=> Sound
    BY SameFile
  <2>2. Len(out') = Len(out) /\ size' = size
    BY DEF volume
  <2>3. Len(out) \in Nat /\ size \in Nat /\ Len(out) <= size
    BY Lengths DEF Delivered
  <2>. QED
    BY <2>1, <2>2, <2>3 DEF Arriving, Asked
<1>. QED
  BY <1>1, <1>2, <1>3, <1>4, <1>5

LEMMA StepLookup ==
    ASSUME IInv, Lookup
    PROVE  IInv'
<1>. USE DEF IInv, Lookup, chain, copy
<1>1. TypeOK'
  BY DEF TypeOK, volume
<1>2. Asked'
  BY DEF Asked, Asking, volume
<1>3. Delivered'
  BY DeliveredStays
<1>4. Filled' /\ Skipping' /\ AtCluster' /\ AtSector'
  BY DEF Filled, Skipping, AtCluster, AtSector, Copying
<1>5. Arriving'
  <2>1. Sound' <=> Sound
    BY SameFile
  <2>. QED
    BY <2>1 DEF Arriving, Asked, volume
<1>. QED
  BY <1>1, <1>2, <1>3, <1>4, <1>5

LEMMA StepBegin ==
    ASSUME IInv, Begin
    PROVE  IInv'
<1>. DEFINE q == offset \div clusterBytes
<1>. USE DEF IInv
<1>1. /\ pc = "begin" /\ buf' = <<>> /\ left' = wanted /\ cluster' = first
      /\ visited' = {} /\ within' = offset % clusterBytes
      /\ pc' = IF first < 2 THEN "return" ELSE IF TooFar(q) THEN "null" ELSE "skip"
      /\ skip' = IF pc' = "skip" THEN q ELSE 0
      /\ UNCHANGED <<volume, wanted, secIdx, offInSec, failed, out, end>>
  BY DEF Begin
<1>2. Len(out) \in Nat /\ size \in Nat /\ wanted \in Nat /\ first \in 0 .. EndOfChain
  BY Lengths DEF TypeOK
<1>3. q \in Nat /\ offset % clusterBytes \in 0 .. clusterBytes - 1
  BY <1>2, ClusterBytes, DivModOf
<1>4. offset < size /\ wanted = Least(ChunkSize, size - offset)
  BY <1>1 DEF Asked, Asking
<1>. HIDE DEF q
<1>5. TypeOK'
  BY <1>1, <1>2, <1>3 DEF TypeOK, volume, TooFar, EndOfChain
<1>6. Asked'
  BY <1>1 DEF Asked, Asking, volume
<1>7. Delivered'
  BY <1>1, DeliveredStays
<1>8. Filled'
  BY <1>1, <1>2 DEF Filled
<1>9. Skipping'
  <2>1. SUFFICES ASSUME pc' = "skip" PROVE Skipping'
    BY DEF Skipping
  <2>2. skip' = q /\ Len(out') = Len(out) /\ q = Len(out') \div clusterBytes
    BY <2>1, <1>1 DEF q
  <2>3. ChainOf' = ChainOf /\ ChainOf[0] = first
    BY <1>1, SameFile, ChainFacts
  <2>4. Walked(0)'
    BY <1>1 DEF Walked
  <2>5. (Len(out') \div clusterBytes) - skip' = 0
    BY <2>2, <1>3
  <2>. QED
    BY <2>1, <2>2, <2>3, <2>4, <2>5, <1>1, <1>2 DEF Skipping
<1>10. AtCluster' /\ AtSector'
  BY <1>1 DEF AtCluster, AtSector
<1>11. Arriving'
  <2>1. (Sound' <=> Sound) /\ failed' = failed /\ end' = end
        /\ size' = size /\ out' = out
    BY <1>1, SameFile DEF volume
  <2>2. SUFFICES ASSUME Sound, ~failed PROVE pc' = "skip"
    BY <2>1, <2>2 DEF Arriving
  <2>3. /\ q < ClusterCount
        /\ \A b \in 0 .. q : ChainOf[b] \in Clusters
    BY <2>2, <1>2, <1>4, SoundByte DEF q
  <2>4. ChainOf[0] \in Clusters
    BY <2>3, <1>3
  <2>5. first \in Clusters
    BY <2>4, ChainFacts
  <2>. QED
    BY <2>3, <2>5, <1>1, <1>2, <1>3 DEF Clusters, TooFar
<1>. QED
  BY <1>5, <1>6, <1>7, <1>8, <1>9, <1>10, <1>11

LEMMA Advanced ==
    ASSUME TypeOK, NEW k \in Nat, cluster = ChainOf[k], Advance
    PROVE  /\ (cluster' = ChainOf[k + 1] /\ failed' = failed)
              \/ (cluster' = EndOfChain /\ failed' = TRUE)
           /\ cluster' \in Nat
<1>1. ChainOf[k + 1] = NextCluster(cluster) /\ ChainOf[k + 1] \in Nat
  BY ChainFacts
<1>2. EndOfChain \in Nat
  BY DEF EndOfChain
<1>. QED
  BY <1>1, <1>2 DEF Advance

LEMMA AdvancedType ==
    ASSUME TypeOK, Advance, cluster <= EndOfChain
    PROVE  cluster' \in 0 .. EndOfChain + 1 /\ failed' \in BOOLEAN
<1>1. cluster \in Nat /\ EndOfChain \in Nat /\ cluster + 1 <= EndOfChain + 1
  BY DEF TypeOK, EndOfChain
<1>2. cluster \in Clusters => fat[cluster] \in 0 .. EndOfChain
  BY DEF TypeOK
<1>3. NextCluster(cluster) \in 0 .. EndOfChain + 1
  BY <1>1, <1>2 DEF NextCluster
<1>4. EndOfChain \in 0 .. EndOfChain + 1
  BY <1>1
<1>. QED
  BY <1>3, <1>4 DEF Advance, TypeOK

LEMMA StepSkip ==
    ASSUME IInv, Skip
    PROVE  IInv'
<1>. DEFINE q == offset \div clusterBytes
<1>. USE DEF IInv
<1>1. /\ pc = "skip" /\ skip > 0 /\ Visit /\ skip' = skip - 1
      /\ IF Revisited THEN UNCHANGED <<cluster, failed>> ELSE Advance
      /\ pc' = IF Revisited THEN "null"
               ELSE IF cluster' >= EndOfChain THEN "return" ELSE "skip"
      /\ UNCHANGED <<volume, wanted, within, copy, out, end>>
  BY DEF Skip
<1>2. Len(out) \in Nat /\ size \in Nat /\ wanted \in Nat /\ skip \in Nat
  BY Lengths DEF TypeOK
<1>3. q \in Nat
  BY <1>2, ClusterBytes, DivModOf
<1>4. PICK k \in Nat :
      /\ k = q - skip /\ cluster = ChainOf[k] /\ cluster <= EndOfChain /\ Walked(k)
      /\ within = offset % clusterBytes /\ buf = <<>> /\ left = wanted
  BY <1>1 DEF Skipping
<1>5. offset < size /\ wanted = Least(ChunkSize, size - offset)
  BY <1>1 DEF Asked, Asking
<1>6. k + 1 <= q /\ k + 1 = q - skip' /\ q = Len(out') \div clusterBytes
  BY <1>1, <1>2, <1>3, <1>4
<1>. HIDE DEF q
<1>7. TypeOK'
  <2>1. visited' \in SUBSET Nat
    BY <1>1 DEF Visit, TypeOK
  <2>2. cluster' \in 0 .. EndOfChain + 1 /\ failed' \in BOOLEAN
    BY <1>1, <1>4, AdvancedType DEF TypeOK
  <2>. QED
    BY <2>1, <2>2, <1>1 DEF TypeOK, volume, copy
<1>8. Asked'
  BY <1>1 DEF Asked, Asking, volume
<1>9. Delivered'
  BY <1>1, DeliveredStays
<1>10. Filled'
  BY <1>1, <1>2, <1>4 DEF Filled, copy
<1>11. Skipping'
  <2>1. SUFFICES ASSUME pc' = "skip" PROVE Skipping'
    BY DEF Skipping
  <2>2. ~Revisited /\ Advance /\ cluster' < EndOfChain
    <3>1. ~Revisited /\ Advance /\ ~(cluster' >= EndOfChain)
      BY <2>1, <1>1
    <3>. QED
      BY <3>1, <1>4, AdvancedType DEF EndOfChain
  <2>3. cluster' = ChainOf[k + 1] /\ cluster' \in Nat /\ EndOfChain \in Nat
    <3>1. EndOfChain \in Nat
      BY DEF EndOfChain
    <3>2. TypeOK /\ cluster = ChainOf[k] /\ Advance
      BY <2>2, <1>4
    <3>3. cluster' \in Nat /\ (cluster' = ChainOf[k + 1] \/ cluster' = EndOfChain)
      BY <3>2, Advanced
    <3>. QED
      BY <3>1, <3>3, <2>2
  <2>4. ChainOf' = ChainOf
    BY <1>1, SameFile
  <2>5. Walked(k + 1)'
    BY <1>1, <1>4, WalkedOn
  <2>6. /\ k + 1 = (Len(out') \div clusterBytes) - skip' /\ k + 1 \in Nat
        /\ cluster' = ChainOf'[k + 1] /\ cluster' <= EndOfChain
    BY <1>4, <1>6, <2>2, <2>3, <2>4
  <2>7. /\ within' = Len(out') % clusterBytes
        /\ buf' = <<>> /\ left' = wanted'
    BY <1>1, <1>4 DEF copy
  <2>. QED
    BY <2>5, <2>6, <2>7 DEF Skipping
<1>12. AtCluster' /\ AtSector'
  BY <1>1 DEF AtCluster, AtSector
<1>13. Arriving'
  <2>1. (Sound' <=> Sound) /\ end' = end /\ size' = size /\ out' = out
    BY <1>1, SameFile DEF volume
  <2>2. SUFFICES ASSUME Sound, ~failed' PROVE pc' = "skip"
    <3>1. failed' = failed \/ failed' = TRUE
      BY <1>1 DEF Advance
    <3>. QED
      BY <2>1, <2>2, <3>1 DEF Arriving
  <2>3. /\ \A b \in 0 .. q : ChainOf[b] \in Clusters
        /\ \A a, b \in 0 .. q : ChainOf[a] = ChainOf[b] => a = b
    BY <2>2, <1>2, <1>5, SoundByte DEF q
  <2>4. k \in 0 .. q /\ k + 1 \in 0 .. q /\ \A b \in 0 .. k - 1 : b \in 0 .. q
    BY <1>3, <1>4, <1>6
  <2>5. ~Revisited
    BY <2>3, <2>4, <1>4 DEF Revisited, Walked
  <2>6. cluster' = ChainOf[k + 1]
    BY <2>2, <2>5, <1>1, <1>4, Advanced
  <2>7. cluster' \in Clusters
    BY <2>3, <2>4, <2>6
  <2>. QED
    BY <2>5, <2>7, <1>1 DEF Clusters, EndOfChain
<1>. QED
  BY <1>7, <1>8, <1>9, <1>10, <1>11, <1>12, <1>13

LEMMA StepSkipped ==
    ASSUME IInv, Skipped
    PROVE  IInv'
<1>. USE DEF IInv
<1>1. /\ pc = "skip" /\ skip = 0 /\ pc' = "cluster"
      /\ UNCHANGED <<volume, wanted, chain, copy, failed, out, end>>
  BY DEF Skipped
<1>2. Len(out) \in Nat /\ size \in Nat /\ wanted \in Nat
  BY Lengths
<1>3. TypeOK'
  BY <1>1 DEF TypeOK, volume, chain, copy
<1>4. Asked'
  BY <1>1 DEF Asked, Asking, volume
<1>5. Delivered'
  BY <1>1, DeliveredStays
<1>6. Filled'
  BY <1>1, <1>2 DEF Filled, copy, Skipping
<1>7. Skipping' /\ AtSector'
  BY <1>1 DEF Skipping, AtSector
<1>8. AtCluster'
  <2>1. (offset \div clusterBytes) - 0 = offset \div clusterBytes
    BY <1>2, ClusterBytes, DivModOf
  <2>2. PICK k : k = offset \div clusterBytes
    OBVIOUS
  <2>3. /\ cluster = ChainOf[k] /\ Walked(k)
        /\ within = offset % clusterBytes /\ buf = <<>>
    BY <1>1, <2>1, <2>2 DEF Skipping
  <2>4. Walked(k)' /\ ChainOf' = ChainOf
    BY <2>3, <1>1, WalkedStays, SameFile DEF chain
  <2>5. Len(out') + Len(buf') = Len(out)
    BY <2>3, <1>1, <1>2 DEF copy
  <2>6. cluster' = cluster /\ within' = within
    BY <1>1 DEF chain
  <2>7. k = (Len(out') + Len(buf')) \div clusterBytes
        /\ within' = (Len(out') + Len(buf')) % clusterBytes
    BY <2>2, <2>3, <2>5, <2>6
  <2>8. cluster' = ChainOf'[k]
    BY <2>3, <2>4, <2>6
  <2>. QED
    BY <2>4, <2>7, <2>8 DEF AtCluster
<1>9. Arriving'
  BY <1>1, SameFile DEF Arriving, volume
<1>. QED
  BY <1>3, <1>4, <1>5, <1>6, <1>7, <1>8, <1>9

LEMMA StepEnterCluster ==
    ASSUME IInv, EnterCluster
    PROVE  IInv'
<1>. USE DEF IInv
<1>1. /\ pc = "cluster" /\ left > 0 /\ InChain /\ Usable /\ Visit
      /\ secIdx' = within \div SectorSize /\ offInSec' = within % SectorSize
      /\ pc' = "sector"
      /\ UNCHANGED <<volume, wanted, cluster, skip, within, left, buf, failed, out, end>>
  BY DEF EnterCluster
<1>2. Len(out) \in Nat /\ Len(buf) \in Nat
  BY Lengths
<1>3. PICK k \in Nat :
      /\ k = position \div clusterBytes
      /\ cluster = ChainOf[k] \/ (failed /\ cluster = EndOfChain)
      /\ Walked(k)
      /\ within = position % clusterBytes
  <2>1. position \div clusterBytes \in Nat
    <3>1. position \in Nat
      BY <1>2
    <3>. HIDE DEF position
    <3>. QED
      BY <3>1, ClusterBytes, DivModOf
  <2>. QED
    BY <2>1, <1>1 DEF AtCluster
<1>4. cluster = ChainOf[k] /\ cluster \in Clusters /\ cluster \in allocated /\ ~Revisited
  BY <1>1, <1>3 DEF Usable, InChain, EndOfChain
<1>5. /\ secIdx' \in 0 .. SectorsPerCluster - 1 /\ offInSec' \in 0 .. SectorSize - 1
      /\ position = k * clusterBytes + within
      /\ within = secIdx' * SectorSize + offInSec'
  <2>1. position \in Nat
    BY <1>2
  <2>2. within \in 0 .. clusterBytes - 1 /\ position = k * clusterBytes + within
    <3>. HIDE DEF position
    <3>. QED
      BY <2>1, <1>3, ClusterBytes, DivModOf
  <2>. QED
    BY <2>2, <1>1, SectorOfPlace
<1>6. TypeOK'
  <2>1. visited' \in SUBSET Nat
    BY <1>1 DEF Visit, TypeOK
  <2>2. secIdx' \in 0 .. SectorsPerCluster
    BY <1>5
  <2>. QED
    BY <2>1, <2>2, <1>5, <1>1 DEF TypeOK, volume
<1>7. Asked'
  BY <1>1 DEF Asked, Asking, volume
<1>8. Delivered'
  BY <1>1, DeliveredStays
<1>9. Filled'
  BY <1>1, FilledStays DEF Copying
<1>10. Skipping' /\ AtCluster'
  BY <1>1 DEF Skipping, AtCluster
<1>11. AtSector'
  <2>1. Walked(k + 1)'
    BY <1>1, <1>3, <1>4, WalkedOn
  <2>2. ChainOf' = ChainOf /\ allocated' = allocated
    BY <1>1, SameFile DEF volume
  <2>3. \A b \in 0 .. k - 1 : ChainOf[b] # ChainOf[k]
    BY <1>3, <1>4, NotMet
  <2>4. k * clusterBytes \in Nat /\ secIdx' * SectorSize \in Nat /\ offInSec' \in Nat
    <3>1. secIdx' \in Nat /\ offInSec' \in Nat
      BY <1>5
    <3>. QED
      BY <3>1, ClusterBytes, Product
  <2>5. Len(out') + Len(buf') = k * clusterBytes + secIdx' * SectorSize + offInSec'
    BY <1>1, <1>2, <1>5, <2>4
  <2>6. InCluster(k)'
    BY <2>1, <2>2, <2>3, <2>5, <1>1, <1>4 DEF InCluster
  <2>7. k <= k * clusterBytes
    BY ClusterBytes, SMT
  <2>8. k \in 0 .. Len(out') + Len(buf')
    BY <2>4, <2>5, <2>7
  <2>9. secIdx' # SectorsPerCluster
    BY <1>5
  <2>. QED
    BY <2>6, <2>8, <2>9 DEF AtSector
<1>12. Arriving'
  BY <1>1, SameFile DEF Arriving, volume
<1>. QED
  BY <1>6, <1>7, <1>8, <1>9, <1>10, <1>11, <1>12

LEMMA StepBitmapFails ==
    ASSUME IInv, BitmapFails
    PROVE  IInv'
<1>. USE DEF IInv, BitmapFails
<1>1. TypeOK'
  BY DEF TypeOK, volume, chain, copy
<1>2. Asked'
  BY DEF Asked, Asking, volume
<1>3. Delivered'
  BY DeliveredStays
<1>4. Filled' /\ Skipping' /\ AtCluster' /\ AtSector'
  BY DEF Filled, Skipping, AtCluster, AtSector, Copying
<1>5. Arriving'
  BY DEF Arriving
<1>. QED
  BY <1>1, <1>2, <1>3, <1>4, <1>5

LEMMA StepFinish ==
    ASSUME IInv, Finish
    PROVE  IInv'
<1>. USE DEF IInv
<1>1. /\ pc = "cluster" /\ (left = 0 \/ ~InChain \/ ~Usable)
      /\ pc' = IF left = 0 THEN "return" ELSE "null"
      /\ UNCHANGED <<volume, wanted, chain, copy, failed, out, end>>
  BY DEF Finish
<1>2. /\ Len(out) \in Nat /\ Len(buf) \in Nat /\ size \in Nat /\ left \in Nat
  BY Lengths
<1>3. TypeOK'
  BY <1>1 DEF TypeOK, volume, chain, copy
<1>4. Asked'
  BY <1>1 DEF Asked, Asking, volume
<1>5. Delivered'
  BY <1>1, DeliveredStays
<1>6. Filled'
  BY <1>1, FilledStays DEF Copying, copy
<1>7. Skipping' /\ AtCluster' /\ AtSector'
  BY <1>1 DEF Skipping, AtCluster, AtSector
<1>8. Arriving'
  <2>1. (Sound' <=> Sound) /\ end' = end /\ size' = size /\ out' = out
        /\ left' = left /\ failed' = failed
    BY <1>1, SameFile DEF volume, copy
  <2>2. SUFFICES ASSUME Sound, ~failed, left > 0 PROVE FALSE
    BY <2>1, <2>2, <1>1, <1>2 DEF Arriving
  <2>3. position \in Nat /\ position < size
    BY <2>2, <1>1, <1>2 DEF Asked, Asking, Filled, Copying, Least
  <2>4. PICK k \in Nat :
        /\ k = position \div clusterBytes
        /\ cluster = ChainOf[k] /\ Walked(k)
    <3>1. position \div clusterBytes \in Nat
      <4>. HIDE DEF position
      <4>. QED
        BY <2>3, ClusterBytes, DivModOf
    <3>. QED
      BY <3>1, <2>2, <1>1 DEF AtCluster
  <2>5. /\ \A b \in 0 .. k : ChainOf[b] \in allocated /\ ChainOf[b] \in Clusters
        /\ \A a, b \in 0 .. k : ChainOf[a] = ChainOf[b] => a = b
    <3>. HIDE DEF position
    <3>. QED
      BY <2>2, <2>3, <2>4, SoundByte
  <2>6. k \in 0 .. k /\ \A b \in 0 .. k - 1 : b \in 0 .. k /\ b # k
    BY <2>4
  <2>7. ~Revisited
    BY <2>4, <2>5, <2>6 DEF Revisited, Walked
  <2>8. cluster \in Clusters /\ cluster \in allocated
    BY <2>4, <2>5, <2>6
  <2>. QED
    BY <1>1, <2>2, <2>7, <2>8 DEF InChain, Usable, Clusters, EndOfChain
<1>. QED
  BY <1>3, <1>4, <1>5, <1>6, <1>7, <1>8

LEMMA CopyLength ==
    ASSUME TypeOK, left > 0
    PROVE  /\ copyLen \in Nat \ {0} /\ copyLen <= left /\ copyLen <= SectorSize - offInSec
           /\ (copyLen = left \/ copyLen = SectorSize - offInSec)
  BY DEF TypeOK, copyLen, Least

LEMMA BytesAdded ==
    ASSUME NEW a \in Seq(Nat), NEW n \in Nat, NEW b \in [1 .. n -> Nat]
    PROVE  /\ a \o b \in Seq(Nat) /\ Len(a \o b) = Len(a) + n
           /\ \A i \in 1 .. Len(a) : (a \o b)[i] = a[i]
           /\ \A i \in 1 .. n : (a \o b)[Len(a) + i] = b[i]
<1>1. b \in Seq(Nat) /\ Len(b) = n
  OBVIOUS
<1>2. a \o b \in Seq(Nat) /\ Len(a \o b) = Len(a) + Len(b) /\ Len(a) \in Nat
  BY <1>1
<1>3. \A i \in 1 .. Len(a) : (a \o b)[i] = a[i]
  BY <1>1
<1>4. ASSUME NEW i \in 1 .. n PROVE (a \o b)[Len(a) + i] = b[i]
  <2>1. /\ Len(a) + i \in 1 .. Len(a) + Len(b)
        /\ ~ (Len(a) + i <= Len(a)) /\ (Len(a) + i) - Len(a) = i
    BY <1>1, <1>2
  <2>. QED
    BY <2>1, <1>1
<1>. QED
  BY <1>1, <1>2, <1>3, <1>4

LEMMA StepReadSector ==
    ASSUME IInv, ReadSector
    PROVE  IInv'
<1>. USE DEF IInv
<1>1. /\ pc = "sector" /\ left > 0 /\ secIdx < SectorsPerCluster
      /\ buf' = buf \o Copied(copyLen) /\ left' = left - copyLen
      /\ offInSec' = 0 /\ secIdx' = secIdx + 1
      /\ UNCHANGED <<volume, pc, wanted, chain, failed, out, end>>
  BY DEF ReadSector
<1>2. /\ Len(out) \in Nat /\ Len(buf) \in Nat /\ left \in Nat /\ wanted \in Nat
      /\ offInSec \in 0 .. SectorSize - 1 /\ secIdx \in 0 .. SectorsPerCluster
      /\ buf \in Seq(Nat)
  BY Lengths DEF TypeOK
<1>3. PICK k \in Nat : InCluster(k)
  BY <1>1, <1>2 DEF AtSector
<1>4. PICK n : n = copyLen
  OBVIOUS
<1>5. /\ n \in Nat \ {0} /\ n <= left /\ n <= SectorSize - offInSec
      /\ (n = left \/ n = SectorSize - offInSec)
  BY <1>1, <1>4, CopyLength
<1>6. PICK p : p = position
  OBVIOUS
<1>7. p \in Nat
  BY <1>2, <1>6
<1>8. ASSUME NEW i \in 1 .. n
      PROVE  /\ Copied(n)[i] = ByteOf(p + i - 1) /\ Copied(n)[i] \in Nat
             /\ Owned(p + i - 1)
  <2>1. i - 1 \in 0 .. SectorSize - 1 - offInSec
    BY <1>2, <1>5
  <2>2. PICK j : j = i - 1
    OBVIOUS
  <2>3. /\ ByteOf(p + j) = (FirstSector(cluster) + secIdx) * SectorSize + offInSec + j
        /\ ByteOf(p + j) \in Nat /\ Owned(p + j)
    <3>1. j \in 0 .. SectorSize - 1 - offInSec
      BY <2>1, <2>2
    <3>. HIDE DEF position
    <3>. QED
      BY <3>1, <1>1, <1>3, <1>6, BytesOfSector
  <2>4. p + i - 1 = p + j /\ i \in Nat
    BY <2>2, <1>7
  <2>5. (FirstSector(cluster) + secIdx) * SectorSize \in Nat
    <3>1. cluster \in Clusters
      BY <1>3 DEF InCluster
    <3>2. FirstSector(cluster) \in Nat
      BY <3>1, PlaceOnVolume
    <3>3. FirstSector(cluster) + secIdx \in Nat
      BY <3>2, <1>2
    <3>. QED
      BY <3>3, Product
  <2>6. Copied(n)[i] = (FirstSector(cluster) + secIdx) * SectorSize + offInSec + j
    BY <2>2, <2>4, <2>5, <1>2 DEF Copied
  <2>. QED
    BY <2>3, <2>4, <2>6
<1>9. Copied(n) \in [1 .. n -> Nat]
  <2>1. DOMAIN Copied(n) = 1 .. n /\ Copied(n) = [i \in 1 .. n |-> Copied(n)[i]]
    BY DEF Copied
  <2>. QED
    BY <2>1, <1>8
<1>10. /\ buf' \in Seq(Nat) /\ Len(buf') = Len(buf) + n
       /\ \A i \in 1 .. Len(buf) : buf'[i] = buf[i]
       /\ \A i \in 1 .. n : buf'[Len(buf) + i] = Copied(n)[i]
  <2>1. n \in Nat /\ buf \in Seq(Nat) /\ buf' = buf \o Copied(n)
    BY <1>1, <1>2, <1>4, <1>5
  <2>. QED
    BY <2>1, <1>9, BytesAdded
<1>11. TypeOK'
  <2>1. left' \in 0 .. ChunkSize /\ secIdx' \in 0 .. SectorsPerCluster
        /\ offInSec' \in 0 .. SectorSize - 1
    BY <1>1, <1>2, <1>4, <1>5 DEF TypeOK
  <2>. QED
    BY <2>1, <1>1, <1>10 DEF TypeOK, volume, chain
<1>12. Asked'
  BY <1>1 DEF Asked, Asking, volume
<1>13. Delivered'
  BY <1>1, DeliveredStays
<1>14. Filled'
  <2>1. /\ Len(buf) + left = wanted
        /\ \A i \in 1 .. Len(buf) :
              buf[i] = ByteOf(Len(out) + i - 1) /\ Owned(Len(out) + i - 1)
    BY <1>1 DEF Filled, Copying
  <2>2. Len(buf') + left' = wanted'
    <3>1. left' = left - n /\ wanted' = wanted /\ Len(buf') = Len(buf) + n /\ n \in Nat
      BY <1>1, <1>4, <1>5, <1>10
    <3>. QED
      BY <3>1, <2>1, <1>2
  <2>3. PICK o \in Nat : o = Len(out)
    BY <1>2
  <2>4. PICK h \in Nat : h = Len(buf)
    BY <1>2
  <2>5. ASSUME NEW i \in 1 .. h + n
        PROVE  buf'[i] = ByteOf(o + i - 1) /\ Owned(o + i - 1)
    <3>1. CASE i <= h
      <4>1. i \in 1 .. h
        BY <3>1
      <4>2. buf'[i] = buf[i]
        BY <4>1, <2>4, <1>10
      <4>. QED
        BY <4>1, <4>2, <2>1, <2>3, <2>4
    <3>2. CASE h < i
      <4>1. i - h \in 1 .. n /\ h + (i - h) = i /\ p + (i - h) - 1 = o + i - 1
        BY <3>2, <1>5, <1>6, <2>3, <2>4
      <4>2. buf'[i] = Copied(n)[i - h]
        BY <4>1, <2>4, <1>10
      <4>3. Copied(n)[i - h] = ByteOf(p + (i - h) - 1) /\ Owned(p + (i - h) - 1)
        BY <4>1, <1>8
      <4>. QED
        BY <4>1, <4>2, <4>3
    <3>. QED
      BY <3>1, <3>2
  <2>6. \A i \in 1 .. h + n : buf'[i] = ByteOf(o + i - 1)' /\ Owned(o + i - 1)'
    BY <2>5, <1>1, SameFile
  <2>7. Len(out') = o /\ Len(buf') = h + n
    BY <2>3, <2>4, <1>1, <1>10
  <2>8. \A i \in 1 .. Len(buf') :
           buf'[i] = ByteOf(offset + i - 1)' /\ Owned(offset + i - 1)'
    BY <2>6, <2>7
  <2>. QED
    BY <2>2, <2>8 DEF Filled
<1>15. Skipping' /\ AtCluster'
  BY <1>1 DEF Skipping, AtCluster
<1>16. AtSector'
  <2>1. SUFFICES ASSUME left' > 0 PROVE AtSector'
    BY DEF AtSector
  <2>2. n = SectorSize - offInSec
    BY <2>1, <1>1, <1>2, <1>4, <1>5
  <2>3. position = k * clusterBytes + secIdx * SectorSize + offInSec
    BY <1>3 DEF InCluster
  <2>4. /\ (secIdx + 1) * SectorSize = secIdx * SectorSize + SectorSize
        /\ secIdx * SectorSize \in Nat /\ k * clusterBytes \in Nat
    BY <1>2, ClusterBytes, Product
  <2>5. Len(out') + Len(buf') = k * clusterBytes + secIdx' * SectorSize + offInSec'
    <3>1. /\ Len(out') = Len(out) /\ Len(buf') = Len(buf) + n /\ n \in Nat
          /\ secIdx' = secIdx + 1 /\ offInSec' = 0 /\ offInSec \in Nat
      BY <1>1, <1>2, <1>5, <1>10
    <3>2. (secIdx + 1) * SectorSize = secIdx' * SectorSize
      BY <3>1
    <3>3. Len(out) + Len(buf) = k * clusterBytes + secIdx * SectorSize + offInSec
      BY <2>3
    <3>4. Len(out) + (Len(buf) + n) = k * clusterBytes + (secIdx + 1) * SectorSize + 0
      <4>1. PICK a \in Nat : a = k * clusterBytes
        BY <2>4
      <4>2. PICK b \in Nat : b = secIdx * SectorSize
        BY <2>4
      <4>. QED
        <5>1. PICK l \in Nat, m \in Nat : l = Len(out) /\ m = Len(buf)
          BY <1>2
        <5>2. PICK w \in Nat : w = offInSec
          BY <1>2
        <5>3. l + m = a + b + w /\ n = SectorSize - w /\ (secIdx + 1) * SectorSize = b + SectorSize
          BY <4>1, <4>2, <5>1, <5>2, <3>3, <2>2, <2>4
        <5>4. l + (m + n) = a + (b + SectorSize) + 0
          BY <5>3
        <5>. QED
          BY <4>1, <5>1, <5>3, <5>4
    <3>. QED
      BY <3>1, <3>2, <3>4
  <2>6. ChainOf' = ChainOf /\ allocated' = allocated /\ cluster' = cluster
    BY <1>1, SameFile DEF volume, chain
  <2>7. Walked(k + 1)'
    <3>1. Walked(k + 1) /\ UNCHANGED <<volume, visited>>
      BY <1>1, <1>3 DEF InCluster, chain
    <3>. QED
      BY <3>1, WalkedStays
  <2>8. InCluster(k)'
    BY <1>3, <2>5, <2>6, <2>7 DEF InCluster
  <2>9. k <= k * clusterBytes
    BY ClusterBytes, SMT
  <2>10. k \in 0 .. Len(out') + Len(buf')
    BY <1>1, <1>2, <2>4, <2>5, <2>9
  <2>. QED
    BY <2>8, <2>10, <1>1 DEF AtSector
<1>17. Arriving'
  BY <1>1, SameFile DEF Arriving, volume
<1>. QED
  BY <1>11, <1>12, <1>13, <1>14, <1>15, <1>16, <1>17

LEMMA StepSectorFails ==
    ASSUME IInv, SectorFails
    PROVE  IInv'
<1>. USE DEF IInv, SectorFails
<1>1. TypeOK'
  BY DEF TypeOK, volume, chain, copy
<1>2. Asked'
  BY DEF Asked, Asking, volume
<1>3. Delivered'
  BY DeliveredStays
<1>4. Filled'
  BY FilledStays DEF Copying, copy
<1>5. Skipping' /\ AtCluster' /\ AtSector'
  BY DEF Skipping, AtCluster, AtSector
<1>6. Arriving'
  BY DEF Arriving
<1>. QED
  BY <1>1, <1>2, <1>3, <1>4, <1>5, <1>6

LEMMA StepLeaveCluster ==
    ASSUME IInv, LeaveCluster
    PROVE  IInv'
<1>. USE DEF IInv
<1>1. /\ pc = "sector" /\ (left = 0 \/ secIdx = SectorsPerCluster)
      /\ within' = 0 /\ pc' = "cluster"
      /\ IF left > 0 THEN Advance ELSE UNCHANGED <<cluster, failed>>
      /\ UNCHANGED <<volume, wanted, visited, skip, copy, out, end>>
  BY DEF LeaveCluster
<1>2. /\ Len(out) \in Nat /\ Len(buf) \in Nat /\ left \in Nat
  BY Lengths
<1>3. left > 0 => cluster \in Clusters
  BY <1>1 DEF AtSector, InCluster
<1>4. TypeOK'
  <2>1. cluster' \in 0 .. EndOfChain + 1 /\ failed' \in BOOLEAN
    <3>1. CASE left > 0
      <4>1. cluster <= EndOfChain
        BY <3>1, <1>3 DEF Clusters, EndOfChain
      <4>. QED
        BY <3>1, <4>1, <1>1, AdvancedType
    <3>2. CASE left = 0
      BY <3>2, <1>1 DEF TypeOK
    <3>. QED
      BY <3>1, <3>2, <1>2
  <2>. QED
    BY <2>1, <1>1, ClusterBytes DEF TypeOK, volume, copy
<1>5. Asked'
  BY <1>1 DEF Asked, Asking, volume
<1>6. Delivered'
  BY <1>1, DeliveredStays
<1>7. Filled'
  BY <1>1, FilledStays DEF Copying, copy
<1>8. Skipping' /\ AtSector'
  BY <1>1 DEF Skipping, AtSector
<1>9. AtCluster'
  <2>1. SUFFICES ASSUME left > 0 PROVE AtCluster'
    BY <1>1, <1>2 DEF AtCluster, copy
  <2>2. secIdx = SectorsPerCluster /\ offInSec = 0 /\ Advance
    BY <2>1, <1>1 DEF AtSector
  <2>3. PICK k \in Nat : InCluster(k)
    BY <2>1, <1>1, <1>2 DEF AtSector
  <2>4. /\ position = k * clusterBytes + secIdx * SectorSize + offInSec
        /\ cluster = ChainOf[k] /\ Walked(k + 1)
    BY <2>3 DEF InCluster
  <2>5. /\ (k + 1) * clusterBytes = k * clusterBytes + clusterBytes
        /\ k * clusterBytes \in Nat /\ secIdx * SectorSize = clusterBytes
    BY <2>2, ClusterBytes, Product DEF clusterBytes
  <2>6. PICK p \in Nat : p = position
    BY <1>2
  <2>7. p = (k + 1) * clusterBytes + 0
    BY <2>2, <2>4, <2>5, <2>6, ClusterBytes
  <2>8. p \div clusterBytes = k + 1 /\ p % clusterBytes = 0
    <3>1. k + 1 \in Nat /\ 0 \in 0 .. clusterBytes - 1
      BY ClusterBytes
    <3>. QED
      BY <2>7, <3>1, PlaceInFile
  <2>9. cluster' = ChainOf[k + 1] \/ (failed' /\ cluster' = EndOfChain)
    <3>1. TypeOK /\ cluster = ChainOf[k] /\ Advance
      BY <2>2, <2>4
    <3>. QED
      BY <3>1, Advanced
  <2>10. ChainOf' = ChainOf
    BY <1>1, SameFile
  <2>11. Walked(k + 1)'
    BY <2>4, <1>1, WalkedStays
  <2>12. Len(out') + Len(buf') = p
    BY <1>1, <2>6 DEF copy
  <2>. QED
    BY <2>8, <2>9, <2>10, <2>11, <2>12, <1>1 DEF AtCluster
<1>10. Arriving'
  <2>1. (Sound' <=> Sound) /\ end' = end /\ size' = size /\ out' = out
    BY <1>1, SameFile DEF volume
  <2>2. failed' = failed \/ failed' = TRUE
    BY <1>1 DEF Advance
  <2>. QED
    BY <2>1, <2>2, <1>1 DEF Arriving
<1>. QED
  BY <1>4, <1>5, <1>6, <1>7, <1>8, <1>9, <1>10

LEMMA StepDeliver ==
    ASSUME IInv, Deliver
    PROVE  IInv'
<1>. USE DEF IInv
<1>1. /\ pc = "return" /\ out' = out \o buf
      /\ pc' = IF Len(buf) < wanted THEN "done" ELSE "loop"
      /\ end' = IF Len(buf) < wanted THEN "clean" ELSE end
      /\ UNCHANGED <<volume, wanted, chain, copy, failed>>
  BY DEF Deliver
<1>2. /\ Len(out) \in Nat /\ Len(buf) \in Nat /\ left \in Nat /\ size \in Nat
      /\ wanted \in Nat /\ out \in Seq(Nat) /\ buf \in Seq(Nat)
  BY Lengths DEF TypeOK
<1>3. TypeOK'
  <2>1. out' \in Seq(Nat)
    BY <1>1, <1>2
  <2>. QED
    BY <2>1, <1>1 DEF TypeOK, volume, chain, copy
<1>4. Asked'
  BY <1>1 DEF Asked, Asking
<1>5. Delivered'
  <2>1. PICK o \in Nat : o = Len(out)
    BY <1>2
  <2>2. PICK h \in Nat : h = Len(buf)
    BY <1>2
  <2>3. /\ Len(out') = o + h
        /\ \A i \in 1 .. o : out'[i] = out[i]
        /\ \A i \in 1 .. h : out'[o + i] = buf[i]
    BY <1>1, <1>2, <2>1, <2>2
  <2>4. ASSUME NEW i \in 1 .. o + h
        PROVE  out'[i] = ByteOf(i - 1) /\ Owned(i - 1)
    <3>1. CASE i <= o
      <4>1. i \in 1 .. o
        BY <3>1
      <4>. QED
        BY <4>1, <2>1, <2>3 DEF Delivered
    <3>2. CASE o < i
      <4>1. i - o \in 1 .. h /\ o + (i - o) = i /\ o + (i - o) - 1 = i - 1
        BY <3>2
      <4>2. out'[i] = buf[i - o]
        BY <4>1, <2>3
      <4>3. buf[i - o] = ByteOf(o + (i - o) - 1) /\ Owned(o + (i - o) - 1)
        BY <4>1, <2>1, <2>2, <1>1 DEF Filled, Copying
      <4>. QED
        BY <4>1, <4>2, <4>3
    <3>. QED
      BY <3>1, <3>2
  <2>5. \A i \in 1 .. o + h : out'[i] = ByteOf(i - 1)' /\ Owned(i - 1)'
    BY <2>4, <1>1, SameFile
  <2>6. o + h <= size /\ size' = size
    BY <1>1, <1>2, <2>1, <2>2 DEF Asked, Asking, Filled, Copying, Least, volume
  <2>. QED
    BY <2>3, <2>5, <2>6 DEF Delivered
<1>6. Filled' /\ Skipping' /\ AtCluster' /\ AtSector'
  BY <1>1 DEF Filled, Skipping, AtCluster, AtSector, Copying
<1>7. Arriving'
  <2>1. (Sound' <=> Sound) /\ failed' = failed
    BY <1>1, SameFile
  <2>2. SUFFICES ASSUME Sound, ~failed PROVE pc' = "loop" /\ end' = "open"
    BY <2>1, <2>2 DEF Arriving
  <2>3. left = 0 /\ Len(buf) + left = wanted
    BY <2>2, <1>1 DEF Arriving, Filled, Copying
  <2>4. ~(Len(buf) < wanted)
    BY <2>3, <1>2
  <2>. QED
    BY <2>4, <1>1 DEF Asked, TypeOK
<1>. QED
  BY <1>3, <1>4, <1>5, <1>6, <1>7

LEMMA StepBreak ==
    ASSUME IInv, Break
    PROVE  IInv'
<1>. USE DEF IInv, Break
<1>1. TypeOK'
  BY DEF TypeOK, volume, chain, copy
<1>2. Asked'
  BY DEF Asked, Asking
<1>3. Delivered'
  BY DeliveredStays
<1>4. Filled' /\ Skipping' /\ AtCluster' /\ AtSector'
  BY DEF Filled, Skipping, AtCluster, AtSector, Copying
<1>5. Arriving'
  <2>1. Sound' <=> Sound
    BY SameFile
  <2>. QED
    BY <2>1 DEF Arriving
<1>. QED
  BY <1>1, <1>2, <1>3, <1>4, <1>5

LEMMA StepStutters ==
    ASSUME IInv, UNCHANGED vars
    PROVE  IInv'
<1>. USE DEF IInv, vars, chain, copy
<1>1. TypeOK'
  BY DEF TypeOK, volume
<1>2. Asked'
  BY DEF Asked, Asking, volume
<1>3. Delivered'
  BY DeliveredStays
<1>4. Filled'
  <2>1. CASE pc \in Copying
    BY <2>1, FilledStays
  <2>2. CASE pc \notin Copying
    BY <2>2 DEF Filled
  <2>. QED
    BY <2>1, <2>2
<1>5. ChainOf' = ChainOf /\ (Sound' <=> Sound)
  BY SameFile
<1>6. \A k : Walked(k) => Walked(k)'
  BY WalkedStays
<1>7. Skipping' /\ AtCluster'
  BY <1>5, <1>6 DEF Skipping, AtCluster
<1>8. AtSector'
  BY <1>5, <1>6 DEF AtSector, InCluster, volume
<1>9. Arriving'
  BY <1>5 DEF Arriving, volume
<1>. QED
  BY <1>1, <1>2, <1>3, <1>4, <1>7, <1>8, <1>9

LEMMA NextSteps == IInv /\ [Next]_vars => IInv'
<1>. SUFFICES ASSUME IInv, [Next]_vars PROVE IInv'
  OBVIOUS
<1>1. CASE UNCHANGED vars
  BY <1>1, StepStutters
<1>2. CASE Next
  BY <1>2, StepLoop, StepLookup, StepBegin, StepSkip, StepSkipped, StepEnterCluster,
     StepBitmapFails, StepFinish, StepReadSector, StepSectorFails, StepLeaveCluster,
     StepDeliver, StepBreak DEF Next
<1>. QED
  BY <1>1, <1>2

LEMMA Invariant == SafeSpec => []IInv
  BY InitSteps, NextSteps, PTL DEF SafeSpec

-----------------------------------------------------------------------------
(* The theorems *)

(* Every call of nativeReadFile stays in the types of its variables: the index of
   a sector in its cluster, the room left in the chunk, the cluster number also
   where the chain of a file without a FAT chain runs past the volume. *)
THEOREM TypeCorrect == SafeSpec => []TypeOK
<1>1. IInv => TypeOK
  BY DEF IInv
<1>. QED
  BY <1>1, Invariant, PTL

LEMMA BytesApart ==
    ASSUME IInv, NEW i \in 1 .. Len(out)
    PROVE  LET q == (i - 1) \div clusterBytes
               r == (i - 1) % clusterBytes IN
           /\ q \in Nat /\ r \in 0 .. clusterBytes - 1 /\ i - 1 = q * clusterBytes + r
           /\ out[i] = (ChainOf[q] - 2) * clusterBytes + r
           /\ ChainOf[q] \in Clusters /\ ChainOf[q] \in allocated
           /\ out[i] \div clusterBytes = ChainOf[q] - 2
           /\ out[i] % clusterBytes = r
           /\ \A b \in 0 .. q - 1 : ChainOf[b] # ChainOf[q]
<1>. DEFINE q == (i - 1) \div clusterBytes
            r == (i - 1) % clusterBytes
<1>1. i - 1 \in Nat
  OBVIOUS
<1>2. q \in Nat /\ r \in 0 .. clusterBytes - 1 /\ i - 1 = q * clusterBytes + r
  BY <1>1, ClusterBytes, DivModOf
<1>3. out[i] = ByteOf(i - 1) /\ Owned(i - 1)
  BY DEF IInv, Delivered
<1>4. /\ ChainOf[q] \in Clusters /\ ChainOf[q] \in allocated
      /\ \A b \in 0 .. q - 1 : ChainOf[b] # ChainOf[q]
  BY <1>3 DEF Owned
<1>5. out[i] = FirstSector(ChainOf[q]) * SectorSize + r
  BY <1>3, <1>4 DEF ByteOf
<1>. HIDE DEF q, r
<1>6. out[i] = (ChainOf[q] - 2) * clusterBytes + r /\ ChainOf[q] - 2 \in Nat
  <2>1. PICK c \in Clusters : c = ChainOf[q]
    BY <1>4
  <2>2. FirstSector(c) * SectorSize = (c - 2) * clusterBytes
    BY PlaceOnVolume
  <2>3. c - 2 \in Nat
    BY DEF Clusters
  <2>. QED
    BY <2>1, <2>2, <2>3, <1>5
<1>7. out[i] \div clusterBytes = ChainOf[q] - 2 /\ out[i] % clusterBytes = r
  BY <1>2, <1>6, PlaceInFile
<1>. QED
  BY <1>2, <1>4, <1>6, <1>7 DEF q, r

(* What a stream hands out is the start of the file, byte by byte in the order of
   the file and each byte once, whatever the FAT and the bitmap hold, for every
   size of sector, cluster and chunk: fat32_read_file_data and
   exfat_read_file_data never follow a chain round, though each call walks it
   anew, and exFAT never hands out a byte of a free cluster. *)
THEOREM BytesInOrder == SafeSpec => []PrefixOfFile
<1>1. ASSUME IInv PROVE PrefixOfFile
  <2>. USE <1>1
  <2>1. out \in Seq(Nat) /\ DOMAIN out = 1 .. Len(out)
    BY DEF IInv, TypeOK
  <2>2. /\ Len(out) <= size
        /\ \A i \in DOMAIN out : out[i] = ByteOf(i - 1)
    BY <2>1 DEF IInv, Delivered
  <2>3. ASSUME NEW i \in DOMAIN out, NEW j \in DOMAIN out, out[i] = out[j]
        PROVE  i = j
    <3>1. PICK q \in Nat : q = (i - 1) \div clusterBytes
      BY <2>1, BytesApart
    <3>2. PICK s \in Nat : s = (j - 1) \div clusterBytes
      BY <2>1, BytesApart
    <3>3. /\ i - 1 = q * clusterBytes + ((i - 1) % clusterBytes)
          /\ out[i] \div clusterBytes = ChainOf[q] - 2 /\ ChainOf[q] \in Clusters
          /\ out[i] % clusterBytes = (i - 1) % clusterBytes
          /\ \A b \in 0 .. q - 1 : ChainOf[b] # ChainOf[q]
      BY <2>1, <3>1, BytesApart
    <3>4. /\ j - 1 = s * clusterBytes + ((j - 1) % clusterBytes)
          /\ out[j] \div clusterBytes = ChainOf[s] - 2 /\ ChainOf[s] \in Clusters
          /\ out[j] % clusterBytes = (j - 1) % clusterBytes
          /\ \A b \in 0 .. s - 1 : ChainOf[b] # ChainOf[s]
      BY <2>1, <3>2, BytesApart
    <3>5. ChainOf[q] = ChainOf[s]
      BY <2>3, <3>3, <3>4 DEF Clusters
    <3>6. q = s
      BY <3>1, <3>2, <3>3, <3>4, <3>5
    <3>7. i - 1 = j - 1
      BY <2>3, <3>3, <3>4, <3>6
    <3>. QED
      BY <3>7, <2>1
  <2>4. ASSUME NEW i \in DOMAIN out
        PROVE  (out[i] \div clusterBytes) + 2 \in allocated
    <3>1. PICK c \in Clusters : c \in allocated /\ out[i] \div clusterBytes = c - 2
      BY <2>1, BytesApart
    <3>. QED
      BY <3>1 DEF Clusters
  <2>5. pc \in {"cluster", "sector", "return"} =>
          /\ Len(buf) + left = wanted
          /\ \A i \in DOMAIN buf : buf[i] = ByteOf(offset + i - 1)
    <3>1. DOMAIN buf = 1 .. Len(buf)
      BY DEF IInv, TypeOK
    <3>. QED
      BY <3>1 DEF IInv, Filled, Copying
  <2>. QED
    BY <2>2, <2>3, <2>4, <2>5 DEF PrefixOfFile
<1>. QED
  BY <1>1, Invariant, PTL

(* A file whose chain is as long as its size asks for, without a repetition and
   allocated, arrives whole and without an error unless a sector cannot be read:
   no check of the walk (TooFar, Revisited, Usable, the end of the chain) strikes a
   sound file, whatever its size and wherever the chunks fall. *)
THEOREM SoundArrive == SafeSpec => []SoundFilesArrive
<1>1. IInv => SoundFilesArrive
  BY DEF IInv, Arriving, SoundFilesArrive
<1>. QED
  BY <1>1, Invariant, PTL
=============================================================================

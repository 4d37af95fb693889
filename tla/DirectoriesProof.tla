------------------------- MODULE DirectoriesProof -------------------------
(***************************************************************************)
(* Proofs about Directories: a listing is the directory, whatever the FAT, *)
(* the bitmap and the records of its clusters say, and a name that was     *)
(* listed leads back to the entry that was listed first under it.          *)
(***************************************************************************)
EXTENDS Directories, FiniteSetTheorems, WellFoundedInduction, TLAPS

LEMMA LeastNumber ==
    ASSUME NEW S, S \subseteq Nat, S # {}
    PROVE  \E x \in S : \A y \in S : x <= y
<1>1. PICK x \in S : \A y \in S : ~(<<y, x>> \in OpToRel(<, Nat))
  BY NatLessThanWellFounded, WFMin
<1>2. ASSUME NEW y \in S PROVE x <= y
  <2>1. SUFFICES ASSUME y < x PROVE FALSE
    OBVIOUS
  <2>2. <<y, x>> \in Nat \X Nat /\ <<y, x>>[1] < <<y, x>>[2]
    BY <2>1
  <2>3. <<y, x>> \in {ss \in Nat \X Nat : ss[1] < ss[2]}
    BY <2>2, Zenon
  <2>. QED
    BY <2>3, <1>1, Zenon DEF OpToRel
<1>. QED
  BY <1>2

-----------------------------------------------------------------------------
(* The walk of a directory exists *)

AtFirst(d) == [cluster |-> d.first, entries |-> <<>>]
Onward(d, w) == [cluster |-> NextCluster(d, w.cluster),
                 entries |-> w.entries \o Placed(w.cluster)]

(* Its first n steps. *)
WalkStart(d, f, n) ==
    f[0] = AtFirst(d) /\ \A i \in 0 .. n - 1 : f[i + 1] = Onward(d, f[i])

LEMMA WalkStarts ==
    ASSUME NEW d, NEW n \in Nat
    PROVE  \E f : WalkStart(d, f, n)
<1>. DEFINE B == {i \in Nat : ~ \E f : WalkStart(d, f, i)}
<1>1. SUFFICES ASSUME B # {} PROVE FALSE
  OBVIOUS
<1>2. B \subseteq Nat
  OBVIOUS
<1>3. PICK m \in B : \A y \in B : m <= y
  <2>. HIDE DEF B
  <2>. QED
    BY <1>1, <1>2, LeastNumber
<1>4. CASE m = 0
  <2>1. WalkStart(d, [i \in 0 .. 0 |-> AtFirst(d)], 0)
    BY DEF WalkStart
  <2>. QED
    BY <2>1, <1>3, <1>4
<1>5. CASE m # 0
  <2>1. m \in Nat /\ m - 1 \in Nat /\ m - 1 \notin B
    BY <1>3, <1>5
  <2>2. PICK f : WalkStart(d, f, m - 1)
    BY <2>1
  <2>3. f[0] = AtFirst(d) /\ \A i \in 0 .. (m - 1) - 1 : f[i + 1] = Onward(d, f[i])
    BY <2>2, Zenon DEF WalkStart
  <2>. DEFINE g == [i \in 0 .. m |-> IF i = m THEN Onward(d, f[m - 1]) ELSE f[i]]
  <2>4. g[0] = AtFirst(d)
    BY <2>1, <2>3, <1>5
  <2>5. ASSUME NEW i \in 0 .. m - 1 PROVE g[i + 1] = Onward(d, g[i])
    <3>1. g[i] = f[i]
      BY <2>1
    <3>2. CASE i = m - 1
      <4>1. i + 1 = m /\ i + 1 \in 0 .. m
        BY <3>2, <2>1
      <4>. QED
        BY <4>1, <3>1, <3>2
    <3>3. CASE i # m - 1
      <4>1. i \in 0 .. (m - 1) - 1 /\ i + 1 \in 0 .. m /\ i + 1 # m
        BY <3>3, <2>1
      <4>2. f[i + 1] = Onward(d, f[i])
        BY <4>1, <2>3
      <4>. QED
        BY <4>1, <4>2, <3>1
    <3>. QED
      BY <3>2, <3>3
  <2>6. WalkStart(d, g, m)
    <3>. HIDE DEF g
    <3>. QED
      BY <2>4, <2>5 DEF WalkStart
  <2>. QED
    BY <2>6, <1>3
<1>. QED
  BY <1>4, <1>5

LEMMA WalkStartsAgree ==
    ASSUME NEW d, NEW n \in Nat, NEW f, WalkStart(d, f, n),
           NEW g, WalkStart(d, g, n + 1)
    PROVE  f[n] = g[n]
<1>. DEFINE B == {i \in 0 .. n : f[i] # g[i]}
<1>1. SUFFICES ASSUME B # {} PROVE FALSE
  OBVIOUS
<1>2. B \subseteq Nat
  OBVIOUS
<1>3. PICK m \in B : \A y \in B : m <= y
  <2>. HIDE DEF B
  <2>. QED
    BY <1>1, <1>2, LeastNumber
<1>4. /\ f[0] = g[0]
      /\ \A i \in 0 .. n - 1 : f[i + 1] = Onward(d, f[i])
      /\ \A i \in 0 .. n : g[i + 1] = Onward(d, g[i])
  <2>1. f[0] = AtFirst(d) /\ \A i \in 0 .. n - 1 : f[i + 1] = Onward(d, f[i])
    BY Zenon DEF WalkStart
  <2>2. g[0] = AtFirst(d) /\ \A i \in 0 .. (n + 1) - 1 : g[i + 1] = Onward(d, g[i])
    BY Zenon DEF WalkStart
  <2>3. (n + 1) - 1 = n
    OBVIOUS
  <2>. QED
    BY <2>1, <2>2, <2>3, Zenon
<1>5. m # 0
  BY <1>3, <1>4
<1>6. m - 1 \in 0 .. n - 1 /\ m - 1 \notin B /\ (m - 1) + 1 = m
  BY <1>3, <1>5
<1>7. f[m - 1] = g[m - 1]
  BY <1>6
<1>8. f[m] = Onward(d, f[m - 1]) /\ g[m] = Onward(d, g[m - 1])
  BY <1>4, <1>6
<1>. QED
  BY <1>3, <1>7, <1>8

LEMMA WalkedIs ==
    ASSUME NEW d
    PROVE  /\ Walked(d)[0] = AtFirst(d)
           /\ \A n \in Nat : Walked(d)[n + 1] = Onward(d, Walked(d)[n])
<1>. DEFINE G(n) == CHOOSE f : WalkStart(d, f, n)
            F == [n \in Nat |-> G(n)[n]]
            Body(f) == [n \in Nat |->
                IF n = 0 THEN [cluster |-> d.first, entries |-> <<>>]
                ELSE [cluster |-> NextCluster(d, f[n - 1].cluster),
                      entries |-> f[n - 1].entries \o Placed(f[n - 1].cluster)]]
<1>1. ASSUME NEW n \in Nat PROVE WalkStart(d, G(n), n)
  BY WalkStarts
<1>. HIDE DEF G
<1>2. ASSUME NEW n \in Nat PROVE F[n] = Body(F)[n]
  <2>1. CASE n = 0
    BY <2>1, <1>1 DEF WalkStart, AtFirst
  <2>2. CASE n # 0
    <3>1. n - 1 \in Nat /\ (n - 1) + 1 = n
      BY <2>2
    <3>2. WalkStart(d, G(n - 1), n - 1) /\ WalkStart(d, G(n), (n - 1) + 1)
      BY <3>1, <1>1
    <3>3. G(n - 1)[n - 1] = G(n)[n - 1]
      BY <3>1, <3>2, WalkStartsAgree
    <3>4. G(n)[(n - 1) + 1] = Onward(d, G(n)[n - 1])
      <4>1. n - 1 \in 0 .. n - 1
        BY <3>1
      <4>. QED
        BY <4>1, <1>1 DEF WalkStart
    <3>5. F[n - 1] = G(n)[n - 1] /\ F[n] = G(n)[n]
      BY <3>1, <3>3
    <3>. QED
      BY <2>2, <3>1, <3>4, <3>5 DEF Onward
  <2>. QED
    BY <2>1, <2>2
<1>3. F = Body(F)
  BY <1>2
<1>4. Walked(d) = Body(Walked(d))
  BY <1>3, Zenon DEF Walked
<1>. HIDE DEF Body
<1>5. \A n \in Nat :
        Walked(d)[n] = IF n = 0 THEN AtFirst(d) ELSE Onward(d, Walked(d)[n - 1])
  BY <1>4 DEF Body, AtFirst, Onward
<1>6. ASSUME NEW n \in Nat PROVE Walked(d)[n + 1] = Onward(d, Walked(d)[n])
  <2>1. n + 1 \in Nat /\ n + 1 # 0 /\ (n + 1) - 1 = n
    OBVIOUS
  <2>. QED
    BY <1>5, <2>1
<1>. QED
  BY <1>5, <1>6

-----------------------------------------------------------------------------
(* The directories along the path exist *)

(* The directory below x at the n-th component of the path. *)
Below(x, n) ==
    IF x = None THEN None
    ELSE LET s == EntriesOf(x[1])
             m == SubDir(s[1], path[n])
         IN  IF s = None THEN None
             ELSE IF m = None THEN None
             ELSE IF m[1].entry.first < 2 THEN None ELSE <<Place(m[1])>>

PathStart(f, n) == f[0] = <<Root>> /\ \A i \in 0 .. n - 1 : f[i + 1] = Below(f[i], i + 1)

LEMMA PathStarts ==
    ASSUME NEW n \in Nat
    PROVE  \E f : PathStart(f, n)
<1>. DEFINE B == {i \in Nat : ~ \E f : PathStart(f, i)}
<1>1. SUFFICES ASSUME B # {} PROVE FALSE
  OBVIOUS
<1>2. B \subseteq Nat
  OBVIOUS
<1>3. PICK m \in B : \A y \in B : m <= y
  <2>. HIDE DEF B
  <2>. QED
    BY <1>1, <1>2, LeastNumber
<1>4. CASE m = 0
  <2>1. PathStart([i \in 0 .. 0 |-> <<Root>>], 0)
    BY DEF PathStart
  <2>. QED
    BY <2>1, <1>3, <1>4
<1>5. CASE m # 0
  <2>1. m \in Nat /\ m - 1 \in Nat /\ m - 1 \notin B
    BY <1>3, <1>5
  <2>2. PICK f : PathStart(f, m - 1)
    BY <2>1
  <2>3. f[0] = <<Root>> /\ \A i \in 0 .. (m - 1) - 1 : f[i + 1] = Below(f[i], i + 1)
    BY <2>2, Zenon DEF PathStart
  <2>. DEFINE g == [i \in 0 .. m |-> IF i = m THEN Below(f[m - 1], m) ELSE f[i]]
  <2>4. g[0] = <<Root>>
    BY <2>1, <2>3, <1>5
  <2>5. ASSUME NEW i \in 0 .. m - 1 PROVE g[i + 1] = Below(g[i], i + 1)
    <3>1. g[i] = f[i]
      BY <2>1
    <3>2. CASE i = m - 1
      <4>1. i + 1 = m /\ i + 1 \in 0 .. m
        BY <3>2, <2>1
      <4>. QED
        BY <4>1, <3>1, <3>2
    <3>3. CASE i # m - 1
      <4>1. i \in 0 .. (m - 1) - 1 /\ i + 1 \in 0 .. m /\ i + 1 # m
        BY <3>3, <2>1
      <4>2. f[i + 1] = Below(f[i], i + 1)
        BY <4>1, <2>3
      <4>. QED
        BY <4>1, <4>2, <3>1
    <3>. QED
      BY <3>2, <3>3
  <2>6. PathStart(g, m)
    <3>. HIDE DEF g
    <3>. QED
      BY <2>4, <2>5 DEF PathStart
  <2>. QED
    BY <2>6, <1>3
<1>. QED
  BY <1>4, <1>5

LEMMA PathStartsAgree ==
    ASSUME NEW n \in Nat, NEW f, PathStart(f, n), NEW g, PathStart(g, n + 1)
    PROVE  f[n] = g[n]
<1>. DEFINE B == {i \in 0 .. n : f[i] # g[i]}
<1>1. SUFFICES ASSUME B # {} PROVE FALSE
  OBVIOUS
<1>2. B \subseteq Nat
  OBVIOUS
<1>3. PICK m \in B : \A y \in B : m <= y
  <2>. HIDE DEF B
  <2>. QED
    BY <1>1, <1>2, LeastNumber
<1>4. /\ f[0] = g[0]
      /\ \A i \in 0 .. n - 1 : f[i + 1] = Below(f[i], i + 1)
      /\ \A i \in 0 .. n : g[i + 1] = Below(g[i], i + 1)
  <2>1. f[0] = <<Root>> /\ \A i \in 0 .. n - 1 : f[i + 1] = Below(f[i], i + 1)
    BY Zenon DEF PathStart
  <2>2. g[0] = <<Root>> /\ \A i \in 0 .. (n + 1) - 1 : g[i + 1] = Below(g[i], i + 1)
    BY Zenon DEF PathStart
  <2>3. (n + 1) - 1 = n
    OBVIOUS
  <2>. QED
    BY <2>1, <2>2, <2>3, Zenon
<1>5. m # 0
  BY <1>3, <1>4
<1>6. m - 1 \in 0 .. n - 1 /\ m - 1 \notin B /\ (m - 1) + 1 = m
  BY <1>3, <1>5
<1>7. f[m - 1] = g[m - 1]
  BY <1>6
<1>8. f[m] = Below(f[m - 1], m) /\ g[m] = Below(g[m - 1], m)
  BY <1>4, <1>6
<1>. QED
  BY <1>3, <1>7, <1>8

LEMMA DirAtIs ==
    /\ DirAt[0] = <<Root>>
    /\ \A n \in Nat : DirAt[n + 1] = Below(DirAt[n], n + 1)
<1>. DEFINE G(n) == CHOOSE f : PathStart(f, n)
            F == [n \in Nat |-> G(n)[n]]
            Body(f) == [n \in Nat |->
                IF n = 0 THEN <<Root>>
                ELSE IF f[n - 1] = None THEN None
                ELSE LET s == EntriesOf(f[n - 1][1])
                         m == SubDir(s[1], path[n])
                     IN  IF s = None THEN None
                         ELSE IF m = None THEN None
                         ELSE IF m[1].entry.first < 2 THEN None ELSE <<Place(m[1])>>]
            Short(f) == [n \in Nat |-> IF n = 0 THEN <<Root>> ELSE Below(f[n - 1], n)]
<1>1. ASSUME NEW n \in Nat PROVE PathStart(G(n), n)
  BY PathStarts
<1>. HIDE DEF G
<1>2. ASSUME NEW n \in Nat PROVE F[n] = Short(F)[n]
  <2>1. CASE n = 0
    BY <2>1, <1>1 DEF PathStart
  <2>2. CASE n # 0
    <3>1. n - 1 \in Nat /\ (n - 1) + 1 = n
      BY <2>2
    <3>2. PathStart(G(n - 1), n - 1) /\ PathStart(G(n), (n - 1) + 1)
      BY <3>1, <1>1
    <3>3. G(n - 1)[n - 1] = G(n)[n - 1]
      BY <3>1, <3>2, PathStartsAgree
    <3>4. G(n)[(n - 1) + 1] = Below(G(n)[n - 1], n)
      <4>1. n - 1 \in 0 .. n - 1
        BY <3>1
      <4>. QED
        BY <4>1, <3>1, <1>1 DEF PathStart
    <3>5. F[n - 1] = G(n)[n - 1] /\ F[n] = G(n)[n]
      BY <3>1, <3>3
    <3>. QED
      BY <2>2, <3>1, <3>4, <3>5
  <2>. QED
    BY <2>1, <2>2
<1>3. F = Short(F)
  BY <1>2
<1>4. \A f : Body(f) = Short(f)
  BY Zenon DEF Below
<1>. HIDE DEF Short, F
<1>5. F = Body(F)
  BY <1>3, <1>4
<1>6. DirAt = Body(DirAt)
  BY <1>5, Zenon DEF DirAt
<1>. HIDE DEF Body
<1>7. DirAt = Short(DirAt)
  BY <1>4, <1>6
<1>8. \A n \in Nat : DirAt[n] = IF n = 0 THEN <<Root>> ELSE Below(DirAt[n - 1], n)
  BY <1>7 DEF Short
<1>9. ASSUME NEW n \in Nat PROVE DirAt[n + 1] = Below(DirAt[n], n + 1)
  <2>1. n + 1 \in Nat /\ n + 1 # 0 /\ (n + 1) - 1 = n
    OBVIOUS
  <2>. QED
    BY <1>8, <2>1
<1>. QED
  BY <1>8, <1>9

(* The volume stays as it is, and so does what is said of it. *)
LEMMA WalkedEach ==
    \A d : /\ Walked(d)[0] = AtFirst(d)
           /\ \A n \in Nat : Walked(d)[n + 1] = Onward(d, Walked(d)[n])
  BY WalkedIs

LEMMA WalkedNext ==
    (\A d : /\ Walked(d)[0] = AtFirst(d)
            /\ \A n \in Nat : Walked(d)[n + 1] = Onward(d, Walked(d)[n]))'
  BY WalkedEach, PTL

LEMMA WalkStays ==
    ASSUME UNCHANGED volume, NEW d
    PROVE  \A n \in Nat : (Walked(d)[n])' = Walked(d)[n]
<1>. DEFINE f == Walked(d)
<1>1. PICK g : g = Walked(d)'
  OBVIOUS
<1>2. \A c : NextCluster(d, c)' = NextCluster(d, c) /\ Placed(c)' = Placed(c)
  BY Zenon DEF NextCluster, Placed, volume
<1>3. \A w : Onward(d, w)' = Onward(d, w)
  BY <1>2, Zenon DEF Onward
<1>4. f[0] = AtFirst(d) /\ \A n \in Nat : f[n + 1] = Onward(d, f[n])
  BY WalkedIs
<1>5. g[0] = AtFirst(d) /\ \A n \in Nat : g[n + 1] = Onward(d, g[n])
  <2>1. g[0] = AtFirst(d)
    BY <1>1, WalkedNext, Zenon DEF AtFirst
  <2>2. ASSUME NEW n \in Nat PROVE g[n + 1] = Onward(d, g[n])
    <3>1. g[n + 1] = Onward(d, g[n])'
      BY <1>1, WalkedNext, Zenon
    <3>. QED
      BY <3>1, <1>3, Zenon
  <2>. QED
    BY <2>1, <2>2
<1>. HIDE DEF f
<1>6. \A n \in Nat : g[n] = f[n]
  <2>. DEFINE B == {i \in Nat : g[i] # f[i]}
  <2>1. SUFFICES ASSUME B # {} PROVE FALSE
    OBVIOUS
  <2>2. B \subseteq Nat
    OBVIOUS
  <2>3. PICK m \in B : \A y \in B : m <= y
    <3>. HIDE DEF B
    <3>. QED
      BY <2>1, <2>2, LeastNumber
  <2>4. m # 0
    BY <2>3, <1>4, <1>5
  <2>5. m - 1 \in Nat /\ m - 1 \notin B /\ (m - 1) + 1 = m
    BY <2>3, <2>4
  <2>6. g[m - 1] = f[m - 1]
    BY <2>5
  <2>7. g[m] = Onward(d, g[m - 1]) /\ f[m] = Onward(d, f[m - 1])
    BY <1>4, <1>5, <2>5
  <2>. QED
    BY <2>3, <2>6, <2>7
<1>. QED
  BY <1>1, <1>6 DEF f

LEMMA VolumeStays ==
    ASSUME UNCHANGED volume
    PROVE  /\ \A d : \A n \in Nat : (Walked(d)[n])' = Walked(d)[n]
           /\ \A d : EntriesOf(d)' = EntriesOf(d)
           /\ DirAt' = DirAt /\ Directory' = Directory
           /\ Unambiguous' = Unambiguous /\ Prepared' = Prepared
<1>1. /\ kind' = kind /\ fat' = fat /\ content' = content
      /\ allocated' = allocated /\ path' = path
  BY DEF volume
<1>2. \A d : \A n \in Nat : (Walked(d)[n])' = Walked(d)[n]
  BY WalkStays
<1>3. \A d : \A n \in Nat : At(d, n)' = At(d, n)
  BY <1>2 DEF At
<1>4. ASSUME NEW d, NEW n \in Nat PROVE HasLength(d, n)' <=> HasLength(d, n)
  <2>1. \A i \in 0 .. n - 1 : At(d, i)' = At(d, i)
    BY <1>3
  <2>2. \A i \in 1 .. n - 1 : At(d, i - 1)' = At(d, i - 1)
    BY <1>3
  <2>3. n > 0 => At(d, n - 1)' = At(d, n - 1)
    BY <1>3
  <2>4. At(d, n)' = At(d, n)
    BY <1>3
  <2>. QED
    BY <1>1, <2>1, <2>2, <2>3, <2>4 DEF HasLength
<1>5. ASSUME NEW d PROVE EntriesOf(d)' = EntriesOf(d)
  <2>. DEFINE lengths == {n \in 0 .. ClusterCount : HasLength(d, n)}
              entries(n) == Walked(d)[n].entries
              n == CHOOSE n \in lengths : TRUE
  <2>1. lengths' = lengths
    BY <1>4, NumbersAssumption
  <2>2. CASE lengths = {}
    BY <2>1, <2>2 DEF EntriesOf
  <2>3. CASE lengths # {}
    <3>1. n \in lengths /\ n \in Nat
      BY <2>3
    <3>2. n' = n
      BY <2>1
    <3>3. (Walked(d)[n].entries)' = Walked(d)[n].entries
      BY <3>1, <3>2, <1>2
    <3>. QED
      BY <2>1, <2>3, <3>3 DEF EntriesOf
  <2>. QED
    BY <2>2, <2>3
<1>6. DirAt' = DirAt
  BY <1>1, <1>5, ZenonT(60) DEF DirAt
<1>7. Prepared' = Prepared
  BY <1>1, Zenon DEF Prepared, MetadataValid, RootWalk
<1>8. Directory' = Directory
  BY <1>1, <1>5, <1>6, <1>7, Zenon DEF Directory
<1>9. Unambiguous' = Unambiguous
  BY <1>1, <1>5, <1>6, Zenon DEF Unambiguous
<1>. QED
  BY <1>2, <1>5, <1>6, <1>7, <1>8, <1>9

-----------------------------------------------------------------------------
(* Sequences of entries *)

Begins(s, t) == Len(s) <= Len(t) /\ \A i \in DOMAIN s : s[i] = t[i]

(* The first place that is among those. *)
LEMMA FirstIs ==
    ASSUME NEW M, NEW s \in Seq(M), NEW those
    PROVE  /\ First(s, those) = None <=> \A i \in DOMAIN s : s[i] \notin those
           /\ First(s, those) # None =>
                 \E i \in DOMAIN s :
                    /\ s[i] \in those /\ First(s, those) = <<s[i]>>
                    /\ \A j \in DOMAIN s : s[j] \in those => i <= j
           /\ \A i \in DOMAIN s :
                 s[i] \in those /\ (\A j \in DOMAIN s : s[j] \in those => i <= j)
                    => First(s, those) = <<s[i]>>
<1>. DEFINE I == {i \in DOMAIN s : s[i] \in those}
            least(i) == i \in I /\ \A j \in I : i <= j
            i0 == CHOOSE i \in I : \A j \in I : i <= j
<1>1. I \subseteq Nat
  OBVIOUS
<1>2. First(s, those) = IF I = {} THEN None ELSE <<s[i0]>>
  BY DEF First
<1>3. \A x : <<x>> # None
  BY DEF None
<1>4. I # {} => least(i0)
  <2>1. I # {} => \E i \in I : \A j \in I : i <= j
    <3>. HIDE DEF I
    <3>. QED
      BY <1>1, LeastNumber
  <2>. HIDE DEF I
  <2>. QED
    BY <2>1
<1>5. ASSUME NEW i \in I, \A j \in I : i <= j PROVE i = i0
  <2>1. i0 \in I /\ \A j \in I : i0 <= j
    BY <1>4
  <2>. HIDE DEF I, i0
  <2>2. i \in Nat /\ i0 \in Nat /\ i <= i0 /\ i0 <= i
    BY <1>1, <1>5, <2>1
  <2>. QED
    BY <2>2
<1>6. \A i : i \in I <=> i \in DOMAIN s /\ s[i] \in those
  OBVIOUS
<1>. HIDE DEF I, i0
<1>7. First(s, those) = None <=> I = {}
  BY <1>2, <1>3
<1>8. First(s, those) # None => least(i0) /\ First(s, those) = <<s[i0]>>
  BY <1>2, <1>4, <1>7
<1>9. ASSUME NEW i \in DOMAIN s, s[i] \in those,
             \A j \in DOMAIN s : s[j] \in those => i <= j
      PROVE  First(s, those) = <<s[i]>>
  <2>1. least(i)
    BY <1>6, <1>9
  <2>. QED
    BY <2>1, <1>2, <1>5
<1>. QED
  BY <1>6, <1>7, <1>8, <1>9

(* The first entry of a name, and the first directory of a name. *)
LEMMA SubEntryIs ==
    ASSUME NEW M, NEW s \in Seq(M), NEW n
    PROVE  /\ SubEntry(s, n) = None <=> \A i \in DOMAIN s : s[i].entry.name # n
           /\ SubEntry(s, n) # None =>
                 \E i \in DOMAIN s :
                    /\ s[i].entry.name = n /\ SubEntry(s, n) = <<s[i]>>
                    /\ \A j \in DOMAIN s : s[j].entry.name = n => i <= j
           /\ \A i \in DOMAIN s :
                 s[i].entry.name = n /\ (\A j \in DOMAIN s : s[j].entry.name = n => i <= j)
                    => SubEntry(s, n) = <<s[i]>>
<1>1. \A i \in DOMAIN s : s[i] \in Named(s, n) <=> s[i].entry.name = n
  BY DEF Named, ToSet
<1>. DEFINE those == Named(s, n)
<1>2. SubEntry(s, n) = First(s, those)
  BY DEF SubEntry
<1>. HIDE DEF those
<1>3. \A i \in DOMAIN s : s[i] \in those <=> s[i].entry.name = n
  BY <1>1 DEF those
<1>. QED
  BY <1>2, <1>3, FirstIs

LEMMA SubDirIs ==
    ASSUME NEW M, NEW s \in Seq(M), NEW n
    PROVE  /\ SubDir(s, n) = None <=>
                 \A i \in DOMAIN s : ~(s[i].entry.name = n /\ s[i].entry.dir)
           /\ SubDir(s, n) # None =>
                 \E i \in DOMAIN s :
                    /\ s[i].entry.name = n /\ s[i].entry.dir /\ SubDir(s, n) = <<s[i]>>
                    /\ \A j \in DOMAIN s :
                          s[j].entry.name = n /\ s[j].entry.dir => i <= j
           /\ \A i \in DOMAIN s :
                 /\ s[i].entry.name = n /\ s[i].entry.dir
                 /\ \A j \in DOMAIN s : s[j].entry.name = n /\ s[j].entry.dir => i <= j
                 => SubDir(s, n) = <<s[i]>>
<1>. DEFINE those == {r \in Named(s, n) : r.entry.dir}
<1>1. \A i \in DOMAIN s : s[i] \in those <=> s[i].entry.name = n /\ s[i].entry.dir
  BY DEF Named, ToSet
<1>2. SubDir(s, n) = First(s, those)
  BY DEF SubDir
<1>. HIDE DEF those
<1>. QED
  BY <1>1, <1>2, FirstIs

(* More entries behind do not change what comes first. *)
LEMMA FirstsStay ==
    ASSUME NEW M, NEW s \in Seq(M), NEW t \in Seq(M), Begins(s, t), NEW n
    PROVE  /\ SubEntry(s, n) # None => SubEntry(t, n) = SubEntry(s, n)
           /\ SubDir(s, n) # None => SubDir(t, n) = SubDir(s, n)
<1>1. /\ DOMAIN s \subseteq DOMAIN t /\ \A i \in DOMAIN s : s[i] = t[i]
      /\ \A i \in DOMAIN s, j \in DOMAIN t : j < i => j \in DOMAIN s
  BY DEF Begins
<1>2. DOMAIN s \subseteq Nat /\ DOMAIN t \subseteq Nat
  OBVIOUS
<1>3. ASSUME SubEntry(s, n) # None PROVE SubEntry(t, n) = SubEntry(s, n)
  <2>1. PICK i \in DOMAIN s :
          /\ s[i].entry.name = n /\ SubEntry(s, n) = <<s[i]>>
          /\ \A j \in DOMAIN s : s[j].entry.name = n => i <= j
    BY <1>3, SubEntryIs
  <2>2. i \in DOMAIN t /\ t[i] = s[i]
    BY <1>1
  <2>3. \A j \in DOMAIN t : t[j].entry.name = n => i <= j
    BY <1>1, <1>2, <2>1
  <2>4. SubEntry(t, n) = <<t[i]>>
    <3>1. t[i].entry.name = n
      BY <2>1, <2>2
    <3>. QED
      BY <3>1, <2>2, <2>3, SubEntryIs
  <2>. QED
    BY <2>1, <2>2, <2>4
<1>4. ASSUME SubDir(s, n) # None PROVE SubDir(t, n) = SubDir(s, n)
  <2>1. PICK i \in DOMAIN s :
          /\ s[i].entry.name = n /\ s[i].entry.dir /\ SubDir(s, n) = <<s[i]>>
          /\ \A j \in DOMAIN s : s[j].entry.name = n /\ s[j].entry.dir => i <= j
    BY <1>4, SubDirIs
  <2>2. i \in DOMAIN t /\ t[i] = s[i]
    BY <1>1
  <2>3. \A j \in DOMAIN t : t[j].entry.name = n /\ t[j].entry.dir => i <= j
    BY <1>1, <1>2, <2>1
  <2>4. SubDir(t, n) = <<t[i]>>
    <3>1. t[i].entry.name = n /\ t[i].entry.dir
      BY <2>1, <2>2
    <3>. QED
      BY <3>1, <2>2, <2>3, SubDirIs
  <2>. QED
    BY <2>1, <2>2, <2>4
<1>. QED
  BY <1>3, <1>4

(* Where the first entry of a name is a directory, both lookups take it. *)
LEMMA DirectoryFirst ==
    ASSUME NEW M, NEW s \in Seq(M), NEW n,
           SubEntry(s, n) # None, SubEntry(s, n)[1].entry.dir
    PROVE  SubDir(s, n) = SubEntry(s, n)
<1>1. PICK i \in DOMAIN s :
        /\ s[i].entry.name = n /\ SubEntry(s, n) = <<s[i]>>
        /\ \A j \in DOMAIN s : s[j].entry.name = n => i <= j
  BY SubEntryIs
<1>2. s[i].entry.dir
  BY <1>1
<1>3. SubDir(s, n) = <<s[i]>>
  BY <1>1, <1>2, SubDirIs
<1>. QED
  BY <1>1, <1>3

-----------------------------------------------------------------------------
(* The walk of a directory *)

(* The volume is of the configuration's making. *)
VolumeOK ==
    /\ kind \in {"fat32", "exfat"}
    /\ fat \in [Clusters -> Nat]
    /\ path \in Seq(ToSet(path))
    /\ \A c \in Clusters :
          /\ content[c].last \in BOOLEAN
          /\ content[c].entries \in Seq(ToSet(content[c].entries))
          /\ \A e \in ToSet(content[c].entries) :
                /\ e.first \in Nat /\ e.len \in Nat
                /\ e.dir \in BOOLEAN /\ e.flat \in BOOLEAN
                /\ e.flat => kind = "exfat"

(* Entries with their places. *)
Marks == UNION {{[entry |-> content[c].entries[i], at |-> <<c, i>>] :
                    i \in DOMAIN content[c].entries} : c \in Clusters}

Got(d, n) == Walked(d)[n].entries

(* The first n clusters of d can be scanned. *)
Good(d, n) ==
    /\ \A i \in 0 .. n - 1 : At(d, i) \in Clusters
    /\ kind = "exfat" => \A i \in 0 .. n - 1 : At(d, i) \in allocated
    /\ \A i, j \in 0 .. n - 1 : At(d, i) = At(d, j) => i = j

LEMMA WalkIs ==
    ASSUME NEW d
    PROVE  /\ At(d, 0) = d.first /\ Got(d, 0) = <<>>
           /\ \A n \in Nat : /\ At(d, n + 1) = NextCluster(d, At(d, n))
                             /\ Got(d, n + 1) = Got(d, n) \o Placed(At(d, n))
<1>1. Walked(d)[0] = AtFirst(d)
  BY WalkedIs
<1>2. ASSUME NEW n \in Nat
      PROVE  /\ At(d, n + 1) = NextCluster(d, At(d, n))
             /\ Got(d, n + 1) = Got(d, n) \o Placed(At(d, n))
  <2>1. Walked(d)[n + 1] = Onward(d, Walked(d)[n])
    BY WalkedIs
  <2>2. PICK a, b : a = NextCluster(d, Walked(d)[n].cluster)
                    /\ b = Walked(d)[n].entries \o Placed(Walked(d)[n].cluster)
    OBVIOUS
  <2>3. Walked(d)[n + 1] = [cluster |-> a, entries |-> b]
    BY <2>1, <2>2, Zenon DEF Onward
  <2>4. Walked(d)[n + 1].cluster = a /\ Walked(d)[n + 1].entries = b
    BY <2>3
  <2>. QED
    BY <2>2, <2>4, Zenon DEF At, Got
<1>3. Walked(d)[0].cluster = d.first /\ Walked(d)[0].entries = <<>>
  BY <1>1 DEF AtFirst
<1>. QED
  BY <1>2, <1>3, Zenon DEF At, Got

LEMMA PlacedIs ==
    ASSUME VolumeOK, NEW c \in Clusters
    PROVE  /\ Placed(c) \in Seq(Marks)
           /\ Len(Placed(c)) = Len(content[c].entries)
           /\ \A i \in DOMAIN Placed(c) : Placed(c)[i].at = <<c, i>>
<1>1. content[c].entries \in Seq(ToSet(content[c].entries))
  BY DEF VolumeOK
<1>2. DOMAIN Placed(c) = 1 .. Len(content[c].entries)
      /\ Len(content[c].entries) \in Nat
  BY <1>1 DEF Placed
<1>3. \A i \in DOMAIN Placed(c) :
         Placed(c)[i] = [entry |-> content[c].entries[i], at |-> <<c, i>>]
  BY DEF Placed
<1>4. DOMAIN Placed(c) = DOMAIN content[c].entries
  BY DEF Placed
<1>5. ASSUME NEW i \in DOMAIN Placed(c) PROVE Placed(c)[i] \in Marks
  <2>1. i \in DOMAIN content[c].entries
    BY <1>4
  <2>2. Placed(c)[i] = [entry |-> content[c].entries[i], at |-> <<c, i>>]
    BY <1>3
  <2>. QED
    BY <2>1, <2>2 DEF Marks
<1>6. Placed(c) = [i \in DOMAIN Placed(c) |-> Placed(c)[i]]
  BY DEF Placed
<1>7. PICK k \in Nat : k = Len(content[c].entries)
  BY <1>2
<1>8. PICK s : s = Placed(c)
  OBVIOUS
<1>9. DOMAIN s = 1 .. k /\ s = [i \in 1 .. k |-> s[i]] /\ \A i \in 1 .. k : s[i] \in Marks
  BY <1>2, <1>5, <1>6, <1>7, <1>8
<1>10. s \in [1 .. k -> Marks]
  BY <1>9, Zenon
<1>11. s \in Seq(Marks) /\ Len(s) = k
  BY <1>9, <1>10
<1>. QED
  BY <1>3, <1>7, <1>8, <1>11

(* What an entry says is of its type. *)
LEMMA MarkIs ==
    ASSUME VolumeOK, NEW r \in Marks
    PROVE  /\ r.entry.first \in Nat /\ r.entry.len \in Nat
           /\ r.entry.dir \in BOOLEAN /\ r.entry.flat \in BOOLEAN
           /\ r.entry.flat => kind = "exfat"
<1>1. PICK c \in Clusters : \E i \in DOMAIN content[c].entries :
        r = [entry |-> content[c].entries[i], at |-> <<c, i>>]
  BY DEF Marks
<1>2. PICK i \in DOMAIN content[c].entries :
        r = [entry |-> content[c].entries[i], at |-> <<c, i>>]
  BY <1>1
<1>3. r.entry \in ToSet(content[c].entries)
  BY <1>2 DEF ToSet
<1>. QED
  BY <1>3 DEF VolumeOK

LEMMA ConcatIs ==
    ASSUME NEW M, NEW s \in Seq(M), NEW t \in Seq(M)
    PROVE  /\ s \o t \in Seq(M) /\ Len(s \o t) = Len(s) + Len(t)
           /\ \A p \in 1 .. Len(s) : (s \o t)[p] = s[p]
           /\ \A p \in Len(s) + 1 .. Len(s) + Len(t) : (s \o t)[p] = t[p - Len(s)]
  OBVIOUS

(* The entries of its first n clusters, none of them twice. *)
Fine(d, n) ==
    /\ Got(d, n) \in Seq(Marks)
    /\ \A p \in DOMAIN Got(d, n) : \E i \in 0 .. n - 1 : Got(d, n)[p].at[1] = At(d, i)
    /\ \A p, q \in DOMAIN Got(d, n) : Got(d, n)[p].at = Got(d, n)[q].at => p = q

LEMMA FineStep ==
    ASSUME VolumeOK, NEW d, NEW n \in Nat, Good(d, n + 1), Fine(d, n)
    PROVE  Fine(d, n + 1)
<1>. DEFINE s == Got(d, n)
            c == At(d, n)
            t == Placed(c)
            u == Got(d, n + 1)
<1>1. u = s \o t
  BY WalkIs
<1>2. c \in Clusters /\ \A i \in 0 .. n - 1 : At(d, i) # c
  BY DEF Good
<1>3. t \in Seq(Marks) /\ \A i \in DOMAIN t : t[i].at = <<c, i>>
  BY <1>2, PlacedIs
<1>4. /\ s \in Seq(Marks)
      /\ \A p \in DOMAIN s : \E i \in 0 .. n - 1 : s[p].at[1] = At(d, i)
      /\ \A p, q \in DOMAIN s : s[p].at = s[q].at => p = q
  BY DEF Fine
<1>. HIDE DEF s, t, u, c
<1>5. u \in Seq(Marks) /\ DOMAIN u = 1 .. Len(s) + Len(t)
      /\ DOMAIN s = 1 .. Len(s) /\ DOMAIN t = 1 .. Len(t)
      /\ Len(s) \in Nat /\ Len(t) \in Nat
  BY <1>1, <1>3, <1>4, ConcatIs
<1>6. ASSUME NEW p \in DOMAIN u, p <= Len(s) PROVE p \in DOMAIN s /\ u[p] = s[p]
  <2>1. p \in 1 .. Len(s) /\ p \in DOMAIN s
    BY <1>5, <1>6
  <2>. QED
    BY <2>1, <1>1, <1>3, <1>4, ConcatIs
<1>7. ASSUME NEW p \in DOMAIN u, p > Len(s)
      PROVE  p - Len(s) \in DOMAIN t /\ u[p].at = <<c, p - Len(s)>>
  <2>1. p - Len(s) \in DOMAIN t /\ u[p] = t[p - Len(s)]
    <3>1. p \in Len(s) + 1 .. Len(s) + Len(t) /\ p - Len(s) \in DOMAIN t
      BY <1>5, <1>7
    <3>. QED
      BY <3>1, <1>1, <1>3, <1>4, ConcatIs
  <2>. QED
    BY <2>1, <1>3
<1>8. ASSUME NEW p \in DOMAIN u PROVE \E i \in 0 .. n : u[p].at[1] = At(d, i)
  <2>1. CASE p <= Len(s)
    BY <2>1, <1>6, <1>4
  <2>2. CASE p > Len(s)
    BY <2>2, <1>7 DEF c
  <2>. QED
    BY <2>1, <2>2, <1>5
<1>9. ASSUME NEW p \in DOMAIN u, NEW q \in DOMAIN u, u[p].at = u[q].at PROVE p = q
  <2>0. p \in Nat /\ q \in Nat
    BY <1>5
  <2>1. CASE p <= Len(s) /\ q <= Len(s)
    BY <2>1, <1>6, <1>9, <1>4
  <2>2. CASE p > Len(s) /\ q > Len(s)
    <3>1. <<c, p - Len(s)>> = <<c, q - Len(s)>>
      BY <2>2, <1>7, <1>9
    <3>2. p - Len(s) = q - Len(s)
      BY <3>1
    <3>. QED
      BY <3>2, <2>0, <1>5
  <2>3. CASE p <= Len(s) /\ q > Len(s)
    <3>1. u[p].at[1] = c
      BY <2>3, <1>7, <1>9
    <3>2. \E i \in 0 .. n - 1 : u[p].at[1] = At(d, i)
      BY <2>3, <1>6, <1>4
    <3>. QED
      BY <3>1, <3>2, <1>2
  <2>4. CASE p > Len(s) /\ q <= Len(s)
    <3>1. u[q].at[1] = c
      BY <2>4, <1>7, <1>9
    <3>2. \E i \in 0 .. n - 1 : u[q].at[1] = At(d, i)
      BY <2>4, <1>6, <1>4
    <3>. QED
      BY <3>1, <3>2, <1>2
  <2>. QED
    BY <2>0, <2>1, <2>2, <2>3, <2>4, <1>5
<1>10. 0 .. (n + 1) - 1 = 0 .. n
  OBVIOUS
<1>. QED
  BY <1>5, <1>8, <1>9, <1>10 DEF Fine, u

LEMMA AllFine ==
    ASSUME VolumeOK, NEW d, NEW n \in Nat, Good(d, n)
    PROVE  Fine(d, n)
<1>. DEFINE B == {i \in 0 .. n : ~Fine(d, i)}
<1>1. SUFFICES ASSUME B # {} PROVE FALSE
  OBVIOUS
<1>2. B \subseteq Nat
  OBVIOUS
<1>3. PICK m \in B : \A y \in B : m <= y
  <2>. HIDE DEF B
  <2>. QED
    BY <1>1, <1>2, LeastNumber
<1>4. m # 0
  <2>1. Fine(d, 0)
    <3>1. Got(d, 0) = <<>>
      BY WalkIs
    <3>2. PICK s : s = Got(d, 0)
      OBVIOUS
    <3>3. s \in Seq(Marks) /\ Len(s) = 0
      <4>1. \A M : <<>> \in Seq(M) /\ Len(<<>>) = 0
        OBVIOUS
      <4>. QED
        BY <3>1, <3>2, <4>1, Zenon
    <3>4. \A i : i \notin DOMAIN s
      BY <3>3
    <3>. QED
      BY <3>2, <3>3, <3>4 DEF Fine
  <2>. QED
    BY <2>1, <1>3
<1>5. m - 1 \in Nat /\ m - 1 \in 0 .. n /\ (m - 1) + 1 = m /\ m \in 0 .. n
      /\ m - 1 \notin B
  BY <1>3, <1>4
<1>6. Good(d, m)
  BY <1>5 DEF Good
<1>7. Fine(d, m - 1)
  BY <1>5
<1>8. Fine(d, m)
  BY <1>5, <1>6, <1>7, FineStep
<1>. QED
  BY <1>3, <1>8

LEMMA GotBegins ==
    ASSUME VolumeOK, NEW d, NEW n \in Nat, Good(d, n), NEW m \in 0 .. n
    PROVE  Begins(Got(d, m), Got(d, n))
<1>. DEFINE B == {i \in m .. n : ~Begins(Got(d, m), Got(d, i))}
<1>1. SUFFICES ASSUME B # {} PROVE FALSE
  OBVIOUS
<1>2. B \subseteq Nat
  OBVIOUS
<1>3. PICK k \in B : \A y \in B : k <= y
  <2>. HIDE DEF B
  <2>. QED
    BY <1>1, <1>2, LeastNumber
<1>4. \A i \in 0 .. n : Got(d, i) \in Seq(Marks)
  <2>1. \A i \in 0 .. n : Good(d, i) /\ i \in Nat
    BY DEF Good
  <2>2. \A i \in 0 .. n : Fine(d, i)
    BY <2>1, AllFine
  <2>. QED
    BY <2>2 DEF Fine
<1>5. k # m
  BY <1>3, <1>4 DEF Begins
<1>6. k - 1 \in m .. n /\ k - 1 \in 0 .. n /\ k \in 0 .. n /\ (k - 1) + 1 = k
      /\ k - 1 \in 0 .. n - 1 /\ k - 1 \in Nat /\ k - 1 \notin B
  BY <1>3, <1>5
<1>7. Begins(Got(d, m), Got(d, k - 1))
  BY <1>6
<1>8. Got(d, k) = Got(d, k - 1) \o Placed(At(d, k - 1))
  BY <1>6, WalkIs
<1>9. Placed(At(d, k - 1)) \in Seq(Marks)
  <2>1. At(d, k - 1) \in Clusters
    BY <1>6 DEF Good
  <2>. QED
    BY <2>1, PlacedIs
<1>10. PICK r : r = Got(d, m)
  OBVIOUS
<1>11. PICK s : s = Got(d, k - 1)
  OBVIOUS
<1>12. PICK t : t = Placed(At(d, k - 1))
  OBVIOUS
<1>13. r \in Seq(Marks) /\ s \in Seq(Marks) /\ t \in Seq(Marks) /\ Begins(r, s)
  BY <1>4, <1>6, <1>7, <1>9, <1>10, <1>11, <1>12
<1>14. Begins(r, s \o t)
  BY <1>13 DEF Begins
<1>. QED
  BY <1>3, <1>8, <1>10, <1>11, <1>12, <1>14

(* Good clusters are not more than there are. *)
LEMMA GoodCount ==
    ASSUME NEW d, NEW n \in Nat, Good(d, n)
    PROVE  n <= ClusterCount
<1>. DEFINE f == [i \in 1 .. n |-> At(d, i - 1)]
<1>1. IsFiniteSet(Clusters) /\ Cardinality(Clusters) = ClusterCount
  BY NumbersAssumption, FS_Interval DEF Clusters
<1>2. IsFiniteSet(1 .. n) /\ Cardinality(1 .. n) = n
  BY FS_Interval
<1>3. f \in Injection(1 .. n, Clusters)
  <2>1. f \in [1 .. n -> Clusters]
    BY DEF Good
  <2>2. ASSUME NEW i \in 1 .. n, NEW j \in 1 .. n, f[i] = f[j] PROVE i = j
    <3>1. i - 1 \in 0 .. n - 1 /\ j - 1 \in 0 .. n - 1
      OBVIOUS
    <3>2. i - 1 = j - 1
      BY <2>2, <3>1 DEF Good
    <3>. QED
      BY <3>2
  <2>. QED
    BY <2>1, <2>2 DEF Injection, IsInjective
<1>. HIDE DEF f
<1>4. n <= Cardinality(Clusters)
  BY <1>1, <1>2, <1>3, FS_Injection
<1>. QED
  BY <1>1, <1>4

-----------------------------------------------------------------------------
(* The entries of a directory *)

LEMMA LengthGood ==
    ASSUME NEW d, NEW n \in Nat, HasLength(d, n)
    PROVE  Good(d, n) /\ n \in 0 .. ClusterCount
<1>1. Good(d, n)
  BY DEF HasLength, Good
<1>. QED
  BY <1>1, GoodCount, NumbersAssumption

LEMMA NoLonger ==
    ASSUME NEW d, NEW n \in Nat, HasLength(d, n), NEW m \in Nat, m < n
    PROVE  ~HasLength(d, m)
<1>1. m \in 0 .. n - 1 /\ (m > 0 => m \in 1 .. n - 1)
  OBVIOUS
<1>2. At(d, m) \in Clusters
  BY <1>1 DEF HasLength
<1>3. ~Ends(At(d, m))
  BY <1>2, NumbersAssumption DEF Ends, Clusters, EndOfChain
<1>4. m > 0 => ~content[At(d, m - 1)].last /\ ~(d.flat /\ d.len = m)
  BY <1>1 DEF HasLength
<1>. QED
  BY <1>3, <1>4 DEF HasLength

LEMMA EntriesAre ==
    ASSUME NEW d, NEW n \in Nat, HasLength(d, n)
    PROVE  EntriesOf(d) = IF Len(Got(d, n)) > MaxEntries THEN None ELSE <<Got(d, n)>>
<1>. DEFINE lengths == {m \in 0 .. ClusterCount : HasLength(d, m)}
<1>1. n \in lengths
  BY LengthGood
<1>2. ASSUME NEW m \in lengths PROVE m = n
  <2>1. m \in Nat /\ HasLength(d, m)
    OBVIOUS
  <2>2. ~(m < n) /\ ~(n < m)
    BY <2>1, NoLonger
  <2>. QED
    BY <2>1, <2>2
<1>3. (CHOOSE m \in lengths : TRUE) = n
  <2>. HIDE DEF lengths
  <2>. QED
    BY <1>1, <1>2
<1>. QED
  BY <1>1, <1>3 DEF EntriesOf, Got

LEMMA NoEntries ==
    ASSUME NEW d,
           \A n \in 0 .. ClusterCount : HasLength(d, n) => Len(Got(d, n)) > MaxEntries
    PROVE  EntriesOf(d) = None
<1>. DEFINE lengths == {m \in 0 .. ClusterCount : HasLength(d, m)}
<1>1. CASE lengths = {}
  BY <1>1 DEF EntriesOf
<1>2. CASE lengths # {}
  <2>1. PICK n \in lengths : TRUE
    BY <1>2
  <2>2. n \in Nat /\ HasLength(d, n) /\ Len(Got(d, n)) > MaxEntries
    BY <2>1
  <2>. QED
    BY <2>2, EntriesAre
<1>. QED
  BY <1>1, <1>2

-----------------------------------------------------------------------------
(* The invariant *)

Places == {Root} \cup {Place(r) : r \in Marks}

(* The walk has scanned the first n clusters of dir, none of them its last. *)
Scanned(n) ==
    /\ n \in 0 .. ClusterCount /\ Good(dir, n)
    /\ valid /\ results = Got(dir, n)
    /\ \A i \in 1 .. n : ~content[At(dir, i - 1)].last
    /\ dir.flat => /\ \A i \in 0 .. n : At(dir, i) = dir.first + i
                   /\ dir.len # 0 => n <= dir.len

(* n clusters have been entered. *)
Entered(n) ==
    /\ visited = {At(dir, i) : i \in 0 .. n - 1}
    /\ steps = IF kind = "exfat" THEN n ELSE 0

Walking ==
    /\ pc = "walk" => \E n \in 0 .. ClusterCount :
          /\ Scanned(n) /\ Entered(n)
          /\ cluster = At(dir, n) \/ (failed /\ cluster = EndOfChain)
    /\ pc = "sectors" => \E n \in 0 .. ClusterCount - 1 :
          /\ Scanned(n) /\ Entered(n + 1) /\ Good(dir, n + 1)
          /\ cluster = At(dir, n)
          /\ dir.flat /\ dir.len # 0 => n < dir.len
    /\ pc = "next" => \E n \in 1 .. ClusterCount :
          /\ Scanned(n) /\ Entered(n)
          /\ cluster = At(dir, n - 1)
    /\ pc = "listed" =>
          /\ \E n \in 0 .. ClusterCount : Good(dir, n) /\ results = Got(dir, n)
          /\ valid \/ results = <<>>
          /\ ~failed => EntriesOf(dir) = IF valid THEN <<results>> ELSE None

(* A walk of d that may have been cut short found e as the first directory of
   that name. *)
Leads(d, name, e) ==
    \E n \in 0 .. ClusterCount :
        LET m == SubDir(Got(d, n), name) IN
        Good(d, n) /\ m # None /\ e = Place(m[1]) /\ e.first >= 2

(* The directories of a listing on its way through the first k names of path. *)
Trail(ds, k) ==
    /\ ds[0] = Root
    /\ \A i \in 0 .. k - 1 : Leads(ds[i], path[i + 1], ds[i + 1])

(* The listing that the client has is of the last of them. *)
ListingOf(d) ==
    \E n \in 0 .. ClusterCount : Good(d, n) /\ listing = <<Got(d, n)>>

(* Both calls are behind the k-th name of the path, in the same directory. *)
Going ==
    pc \in {"walk", "sectors", "next", "listed"} =>
        \E k \in 0 .. Len(path) :
            /\ Len(todo) = Len(path) - k + IF goal = "list" THEN 0 ELSE 1
            /\ \A i \in 1 .. Len(todo) :
                  todo[i] = IF k + i <= Len(path) THEN path[k + i] ELSE target[1]
            /\ IF goal = "list"
               THEN \E ds \in [0 .. k -> Places] : Trail(ds, k) /\ dir = ds[k]
               ELSE \E ds \in [0 .. Len(path) -> Places] :
                       Trail(ds, Len(path)) /\ dir = ds[k] /\ ListingOf(ds[Len(path)])
            /\ ~failed => DirAt[k] = <<dir>> /\ Prepared

Having ==
    /\ pc \in {"start", "client"} => goal = "list"
    /\ goal = "list" => target = None /\ (listing # None => pc = "client")
    /\ pc \in {"start", "walk", "sectors", "next", "listed", "client"} => found = None
    /\ (pc = "client" \/ goal = "find") =>
          /\ listing # None
          /\ \E ds \in [0 .. Len(path) -> Places] :
                Trail(ds, Len(path)) /\ ListingOf(ds[Len(path)])
          /\ ~failed => listing = Directory
    /\ goal = "find" =>
          \E i \in DOMAIN listing[1] :
              ~listing[1][i].entry.dir /\ target = <<listing[1][i].entry.name>>

Ended ==
    pc = "done" =>
        /\ goal = "list" => found = None /\ (~failed => Directory = None)
        /\ found # None => found = SubEntry(listing[1], target[1])
        /\ goal = "find" /\ ~failed /\ Unambiguous => found # None

IInv ==
    /\ TypeOK /\ VolumeOK
    /\ dir \in Places /\ todo \in Seq(ToSet(todo)) /\ results \in Seq(Marks)
    /\ Walking /\ Going /\ Having /\ Ended

-----------------------------------------------------------------------------
(* What does not change with the volume *)

LEMMA WordsStay ==
    ASSUME UNCHANGED volume
    PROVE  /\ \A d : \A n \in Nat : At(d, n)' = At(d, n) /\ Got(d, n)' = Got(d, n)
           /\ \A d : \A n \in Nat : Good(d, n)' <=> Good(d, n)
           /\ Marks' = Marks /\ Places' = Places /\ (VolumeOK' <=> VolumeOK)
           /\ \A c : Placed(c)' = Placed(c)
           /\ \A d, name, e : Leads(d, name, e)' <=> Leads(d, name, e)
           /\ \A ds : \A k \in Nat : Trail(ds, k)' <=> Trail(ds, k)
<1>1. /\ kind' = kind /\ fat' = fat /\ content' = content
      /\ allocated' = allocated /\ path' = path
  BY DEF volume
<1>2. \A d : \A n \in Nat : At(d, n)' = At(d, n) /\ Got(d, n)' = Got(d, n)
  BY VolumeStays DEF At, Got
<1>3. ASSUME NEW d, NEW n \in Nat PROVE Good(d, n)' <=> Good(d, n)
  <2>1. \A i \in 0 .. n - 1 : At(d, i)' = At(d, i)
    BY <1>2
  <2>. QED
    BY <1>1, <2>1 DEF Good
<1>4. Marks' = Marks /\ \A c : Placed(c)' = Placed(c)
  <2>1. Marks' = Marks
    <3>1. \A x : x \in Marks' <=> x \in Marks
      BY <1>1 DEF Marks
    <3>. QED
      BY <3>1
  <2>2. \A c : Placed(c)' = Placed(c)
    BY <1>1, Zenon DEF Placed
  <2>. QED
    BY <2>1, <2>2
<1>5. Places' = Places
  BY <1>4, Zenon DEF Places
<1>6. VolumeOK' <=> VolumeOK
  BY <1>1, Zenon DEF VolumeOK
<1>7. ASSUME NEW d, NEW name, NEW e PROVE Leads(d, name, e)' <=> Leads(d, name, e)
  <2>1. \A n \in 0 .. ClusterCount : (Good(d, n)' <=> Good(d, n)) /\ Got(d, n)' = Got(d, n)
    BY <1>2, <1>3, NumbersAssumption
  <2>. QED
    BY <2>1 DEF Leads
<1>8. ASSUME NEW ds, NEW k \in Nat PROVE Trail(ds, k)' <=> Trail(ds, k)
  BY <1>1, <1>7 DEF Trail
<1>. QED
  BY <1>2, <1>3, <1>4, <1>5, <1>6, <1>7, <1>8

(* A directory of the volume. *)
LEMMA PlaceIs ==
    ASSUME VolumeOK, NEW d \in Places
    PROVE  /\ d.first \in Nat /\ d.len \in Nat /\ d.flat \in BOOLEAN
           /\ d.flat => kind = "exfat"
<1>1. CASE d = Root
  BY <1>1 DEF Root
<1>2. CASE d # Root
  <2>1. PICK r \in Marks : d = Place(r)
    BY <1>2 DEF Places
  <2>2. /\ r.entry.first \in Nat /\ r.entry.len \in Nat
        /\ r.entry.flat \in BOOLEAN /\ (r.entry.flat => kind = "exfat")
    BY MarkIs
  <2>. QED
    BY <2>1, <2>2 DEF Place
<1>. QED
  BY <1>1, <1>2

LEMMA Begun ==
    ASSUME Init
    PROVE  IInv
<1>. USE DEF Init
<1>1. kind \in {"fat32", "exfat"} /\ kind \in Kinds
  BY KindsAssumption
<1>2. fat \in [Clusters -> Nat]
  BY VolumesAssumption
<1>3. path \in Seq(ToSet(path))
  BY VolumesAssumption
<1>4. \A c \in Clusters : content[c] \in Contents[kind][c]
  OBVIOUS
<1>5. VolumeOK
  BY <1>1, <1>2, <1>3, <1>4, VolumesAssumption DEF VolumeOK, Clusters
<1>6. TypeOK
  <2>1. Len(results) = 0
    OBVIOUS
  <2>2. dir.first = 2 /\ dir.len = 0 /\ dir.flat = FALSE
    BY DEF Root
  <2>3. cluster = 0 /\ steps = 0 /\ visited = {} /\ MaxEntries \in Nat /\ ClusterCount \in Nat
        /\ pc = "start" /\ goal = "list" /\ valid = TRUE /\ failed = FALSE
    BY NumbersAssumption
  <2>4. dir.first \in Nat /\ dir.len \in Nat /\ dir.flat \in BOOLEAN /\ (dir.flat => kind = "exfat")
    <3>1. dir.first \in Nat /\ dir.len \in Nat
      BY <2>2
    <3>2. dir.flat \in BOOLEAN /\ ~dir.flat
      BY <2>2, Zenon
    <3>. QED
      BY <3>1, <3>2, Zenon
  <2>5. cluster \in Nat /\ visited \subseteq Clusters /\ steps \in 0 .. ClusterCount + 1
        /\ Len(results) <= MaxEntries
    BY <2>1, <2>3
  <2>. QED
    BY <2>3, <2>4, <2>5, Zenon DEF TypeOK
<1>7. dir \in Places
  BY DEF Places
<1>8. todo \in Seq(ToSet(todo)) /\ results \in Seq(Marks)
  <2>1. \A M : <<>> \in Seq(M)
    OBVIOUS
  <2>. QED
    BY <2>1, Zenon
<1>9. Walking /\ Going /\ Ended
  BY DEF Walking, Going, Ended
<1>10. Having
  BY DEF Having, None
<1>. QED
  BY <1>5, <1>6, <1>7, <1>8, <1>9, <1>10 DEF IInv

(* A step on the way through the path that stays in its directory. *)
LEMMA GoingStays ==
    ASSUME IInv, pc \in {"walk", "sectors", "next", "listed"},
           UNCHANGED <<volume, goal, todo, dir, listing, target>>, failed => failed'
    PROVE  Going'
<1>1. /\ UNCHANGED volume /\ path' = path /\ goal' = goal /\ todo' = todo /\ dir' = dir
      /\ listing' = listing /\ target' = target
  BY DEF volume
<1>2. /\ Marks' = Marks /\ Places' = Places /\ VolumeOK'
      /\ \A ds : \A k \in Nat : Trail(ds, k)' <=> Trail(ds, k)
      /\ \A d : \A n \in Nat : (Good(d, n)' <=> Good(d, n)) /\ Got(d, n)' = Got(d, n)
  BY <1>1, WordsStay DEF IInv
<1>3. DirAt' = DirAt /\ Prepared' = Prepared
  BY <1>1, VolumeStays
<1>4. \A d : ListingOf(d)' <=> ListingOf(d)
  BY <1>1, <1>2, NumbersAssumption DEF ListingOf
<1>5. PICK k \in 0 .. Len(path) :
            /\ Len(todo) = Len(path) - k + IF goal = "list" THEN 0 ELSE 1
            /\ \A i \in 1 .. Len(todo) :
                  todo[i] = IF k + i <= Len(path) THEN path[k + i] ELSE target[1]
            /\ IF goal = "list"
               THEN \E ds \in [0 .. k -> Places] : Trail(ds, k) /\ dir = ds[k]
               ELSE \E ds \in [0 .. Len(path) -> Places] :
                       Trail(ds, Len(path)) /\ dir = ds[k] /\ ListingOf(ds[Len(path)])
            /\ ~failed => DirAt[k] = <<dir>> /\ Prepared
  BY DEF IInv, Going
<1>6. k \in Nat /\ Len(path) \in Nat
  BY DEF IInv, VolumeOK
<1>7. IF goal = "list"
      THEN \E ds \in [0 .. k -> Places] : Trail(ds, k)' /\ dir = ds[k]
      ELSE \E ds \in [0 .. Len(path) -> Places] :
              Trail(ds, Len(path))' /\ dir = ds[k] /\ ListingOf(ds[Len(path)])'
  BY <1>5, <1>6, <1>1, <1>2, <1>4
<1>8. ~failed' => ~failed
  OBVIOUS
<1>. QED
  BY <1>5, <1>7, <1>1, <1>2, <1>3, <1>8 DEF Going

(* A step that leaves the client with what it had. *)
LEMMA HavingStays ==
    ASSUME IInv, UNCHANGED <<volume, goal, listing, target>>, failed => failed',
           found' = found \/ pc' = "done",
           \/ pc' = pc
           \/ /\ pc # "client" /\ pc' \notin {"start", "client"}
              /\ pc' = "done" \/ pc # "done",
           pc \in {"start", "walk", "sectors", "next", "listed", "client", "done"},
           pc' \in {"start", "walk", "sectors", "next", "listed", "client", "done"}
    PROVE  Having'
<1>1. /\ UNCHANGED volume /\ path' = path /\ goal' = goal
      /\ listing' = listing /\ target' = target
  BY DEF volume
<1>2. /\ Marks' = Marks /\ Places' = Places
      /\ \A ds : \A k \in Nat : Trail(ds, k)' <=> Trail(ds, k)
      /\ \A d : \A n \in Nat : (Good(d, n)' <=> Good(d, n)) /\ Got(d, n)' = Got(d, n)
  BY <1>1, WordsStay DEF IInv
<1>3. Directory' = Directory
  BY <1>1, VolumeStays
<1>4. \A d : ListingOf(d)' <=> ListingOf(d)
  BY <1>1, <1>2, NumbersAssumption DEF ListingOf
<1>5. Len(path) \in Nat
  BY DEF IInv, VolumeOK
<1>6. ~failed' => ~failed
  OBVIOUS
<1>. DEFINE P == pc = "client" \/ goal = "find"
<1>7. P' => P
  BY <1>1
<1>8. /\ P =>
            /\ listing # None
            /\ \E ds \in [0 .. Len(path) -> Places] :
                  Trail(ds, Len(path)) /\ ListingOf(ds[Len(path)])
            /\ ~failed => listing = Directory
      /\ goal = "list" => target = None /\ (listing # None => pc = "client")
      /\ goal = "find" =>
            \E i \in DOMAIN listing[1] :
               ~listing[1][i].entry.dir /\ target = <<listing[1][i].entry.name>>
  BY DEF IInv, Having
<1>9. P => \E ds \in [0 .. Len(path) -> Places] :
              Trail(ds, Len(path))' /\ ListingOf(ds[Len(path)])'
  <2>1. SUFFICES ASSUME P
                 PROVE  \E ds \in [0 .. Len(path) -> Places] :
                          Trail(ds, Len(path))' /\ ListingOf(ds[Len(path)])'
    OBVIOUS
  <2>2. PICK ds \in [0 .. Len(path) -> Places] :
          Trail(ds, Len(path)) /\ ListingOf(ds[Len(path)])
    BY <1>8, <2>1
  <2>3. PICK n \in Nat : n = Len(path)
    BY <1>5
  <2>4. Trail(ds, n)' /\ ListingOf(ds[n])'
    BY <2>2, <2>3, <1>2, <1>4
  <2>. QED
    BY <2>2, <2>3, <2>4, <1>1
<1>10. P' =>
        /\ listing' # None
        /\ (\E ds \in [0 .. Len(path) -> Places] :
                Trail(ds, Len(path)) /\ ListingOf(ds[Len(path)]))'
        /\ ~failed' => listing' = Directory'
  BY <1>7, <1>8, <1>9, <1>1, <1>2, <1>3, <1>6
<1>11. goal' = "find" =>
        (\E i \in DOMAIN listing[1] :
            ~listing[1][i].entry.dir /\ target = <<listing[1][i].entry.name>>)'
  BY <1>8, <1>1
<1>12. goal' = "list" => target' = None /\ (listing' # None => pc' = "client")
  BY <1>8, <1>1
<1>13. (pc \in {"start", "client"} => goal = "list")'
       /\ (pc \in {"start", "walk", "sectors", "next", "listed", "client"} => found = None)'
  BY <1>1 DEF IInv, Having
<1>. QED
  BY <1>10, <1>11, <1>12, <1>13 DEF Having

(* What the walk leaves alone: the volume, the call and what the client has. *)
LEMMA WalkKeeps ==
    ASSUME IInv, pc \in {"walk", "sectors", "next"}, pc' \in {"walk", "sectors", "next", "listed"},
           UNCHANGED <<volume, goal, todo, dir, client>>,
           failed => failed',
           results' \in Seq(Marks), TypeOK', Walking'
    PROVE  IInv'
<1>1. /\ UNCHANGED volume /\ todo' = todo /\ dir' = dir
      /\ listing' = listing /\ target' = target
  BY DEF client
<1>2. Marks' = Marks /\ Places' = Places /\ VolumeOK'
  BY <1>1, WordsStay DEF IInv
<1>3. Going'
  BY <1>1, GoingStays
<1>4. Having'
  BY HavingStays DEF client
<1>5. Ended'
  BY DEF Ended
<1>6. dir' \in Places' /\ todo' \in Seq(ToSet(todo')) /\ results' \in Seq(Marks')
  BY <1>1, <1>2 DEF IInv
<1>. QED
  BY <1>2, <1>3, <1>4, <1>5, <1>6 DEF IInv
-----------------------------------------------------------------------------
(* The steps of the walk *)

LEMMA NowListed ==
    ASSUME UNCHANGED <<volume, dir>>, pc' = "listed", NEW n \in 0 .. ClusterCount,
           Good(dir, n), results' = Got(dir, n), valid' \/ results' = <<>>,
           ~failed' => EntriesOf(dir) = IF valid' THEN <<results'>> ELSE None
    PROVE  Walking'
<1>1. UNCHANGED volume /\ dir' = dir
  OBVIOUS
<1>2. n \in Nat
  BY NumbersAssumption
<1>3. Good(dir, n)' /\ Got(dir, n)' = Got(dir, n)
  BY <1>1, <1>2, WordsStay
<1>4. EntriesOf(dir)' = EntriesOf(dir)
  BY <1>1, VolumeStays
<1>5. pc' # "walk" /\ pc' # "sectors" /\ pc' # "next"
  OBVIOUS
<1>6. (\E m \in 0 .. ClusterCount : Good(dir, m) /\ results = Got(dir, m))'
  BY <1>1, <1>3
<1>. QED
  BY <1>4, <1>5, <1>6 DEF Walking

LEMMA NowRefused ==
    ASSUME UNCHANGED <<volume, dir>>, Refuse, ~failed' => EntriesOf(dir) = None
    PROVE  Walking' /\ results' \in Seq(Marks) /\ Len(results') = 0
<1>1. pc' = "listed" /\ valid' = FALSE /\ results' = <<>>
  BY DEF Refuse
<1>2. results' \in Seq(Marks) /\ Len(results') = 0
  <2>1. \A M : <<>> \in Seq(M) /\ Len(<<>>) = 0
    OBVIOUS
  <2>. QED
    BY <1>1, <2>1, Zenon
<1>3. Good(dir, 0) /\ results' = Got(dir, 0) /\ 0 \in 0 .. ClusterCount
  <2>1. Good(dir, 0)
    BY DEF Good
  <2>2. Got(dir, 0) = <<>>
    BY WalkIs
  <2>. QED
    BY <1>1, <2>1, <2>2, NumbersAssumption
<1>. QED
  BY <1>1, <1>2, <1>3, NowListed

(* The walk has not passed the end of the directory. *)
LEMMA NotEnded ==
    ASSUME NEW n, Scanned(n), NEW m \in Nat, m < n
    PROVE  ~HasLength(dir, m)
<1>1. n \in Nat /\ m \in 0 .. n - 1 /\ (m > 0 => m \in 1 .. n)
  BY NumbersAssumption DEF Scanned
<1>2. At(dir, m) \in Clusters
  BY <1>1 DEF Scanned, Good
<1>3. ~Ends(At(dir, m))
  BY <1>2, NumbersAssumption DEF Ends, Clusters, EndOfChain
<1>4. m > 0 => ~content[At(dir, m - 1)].last
  BY <1>1 DEF Scanned
<1>5. ~(dir.flat /\ m > 0 /\ dir.len = m)
  BY <1>1 DEF Scanned
<1>. QED
  BY <1>3, <1>4, <1>5 DEF HasLength

(* Where it ends the directory has that length. *)
LEMMA EndsHere ==
    ASSUME NEW n, Scanned(n),
           \/ Ends(At(dir, n))
           \/ dir.flat /\ dir.len # 0 /\ n >= dir.len /\ n < ClusterCount,
           dir.len \in Nat, results \in Seq(Marks), Len(results) <= MaxEntries
    PROVE  EntriesOf(dir) = <<results>>
<1>1. n \in Nat /\ Good(dir, n) /\ results = Got(dir, n)
  BY NumbersAssumption DEF Scanned
<1>2. \A i \in 1 .. n - 1 : ~content[At(dir, i - 1)].last /\ ~(dir.flat /\ dir.len = i)
  BY <1>1 DEF Scanned
<1>3. \/ Ends(At(dir, n))
      \/ dir.flat /\ n > 0 /\ dir.len = n /\ n < ClusterCount
  BY <1>1 DEF Scanned
<1>4. HasLength(dir, n)
  BY <1>1, <1>2, <1>3 DEF HasLength, Good
<1>5. ~(Len(results) > MaxEntries)
  <2>1. Len(results) \in Nat /\ MaxEntries \in Nat
    BY NumbersAssumption
  <2>. QED
    BY <2>1
<1>. QED
  BY <1>1, <1>4, <1>5, EntriesAre

LEMMA NextType ==
    ASSUME VolumeOK, NEW d \in Places, NEW c \in Nat
    PROVE  NextCluster(d, c) \in Nat /\ (d.flat => NextCluster(d, c) = c + 1)
<1>1. EndOfChain \in Nat
  BY NumbersAssumption DEF EndOfChain
<1>2. c \in Clusters => fat[c] \in Nat
  BY DEF VolumeOK
<1>. QED
  BY <1>1, <1>2 DEF NextCluster


(* What the steps of a walk keep of the types. *)
LEMMA WalkTypes ==
    ASSUME TypeOK, pc' \in {"walk", "sectors", "next", "listed"},
           UNCHANGED <<volume, goal, dir>>,
           cluster' \in Nat, visited' \subseteq Clusters,
           steps' \in 0 .. ClusterCount + 1, kind = "fat32" => steps' = 0,
           Len(results') <= MaxEntries, valid' \in BOOLEAN, failed' \in BOOLEAN
    PROVE  TypeOK'
<1>1. kind' = kind /\ goal' = goal /\ dir' = dir
  BY DEF volume
<1>. QED
  BY <1>1, Zenon DEF TypeOK

LEMMA Enough ==
    ASSUME IInv
    PROVE  /\ TypeOK /\ VolumeOK /\ results \in Seq(Marks)
           /\ ClusterCount \in Nat \ {0} /\ MaxEntries \in Nat /\ Len(results) <= MaxEntries
           /\ kind \in {"fat32", "exfat"} /\ steps \in Nat /\ cluster \in Nat
           /\ dir \in Places /\ dir.len \in Nat /\ dir.first \in Nat
           /\ dir.flat \in BOOLEAN /\ (dir.flat => kind = "exfat")
           /\ valid \in BOOLEAN /\ failed \in BOOLEAN /\ visited \subseteq Clusters
           /\ steps \in 0 .. ClusterCount + 1 /\ (kind = "fat32" => steps = 0)
<1>1. TypeOK /\ VolumeOK /\ results \in Seq(Marks) /\ dir \in Places
  BY DEF IInv
<1>2. /\ valid \in BOOLEAN /\ failed \in BOOLEAN /\ dir.flat \in BOOLEAN
      /\ (dir.flat => kind = "exfat")
  BY <1>1, Zenon DEF TypeOK
<1>. QED
  BY <1>1, <1>2, NumbersAssumption DEF TypeOK, VolumeOK

LEMMA EndsWalk ==
    ASSUME IInv, EndWalk
    PROVE  IInv'
<1>1. PICK n \in 0 .. ClusterCount :
          /\ Scanned(n) /\ Entered(n)
          /\ cluster = At(dir, n) \/ (failed /\ cluster = EndOfChain)
  BY DEF IInv, Walking, EndWalk
<1>2. /\ pc = "walk" /\ Over /\ Count
      /\ UNCHANGED <<volume, goal, todo, dir, cluster, visited, client, failed>>
  BY DEF EndWalk
<1>3. n \in Nat /\ n <= ClusterCount /\ steps = IF kind = "exfat" THEN n ELSE 0
  BY <1>1, NumbersAssumption DEF Entered
<1>4. /\ steps' \in 0 .. ClusterCount + 1 /\ (kind = "fat32" => steps' = 0)
      /\ (kind = "exfat" => steps' = IF Ends(cluster) THEN n ELSE n + 1)
  BY <1>2, <1>3, Enough DEF Count
<1>5. /\ kind \in {"fat32", "exfat"} /\ ClusterCount \in Nat \ {0} /\ TypeOK /\ dir.len \in Nat
      /\ results \in Seq(Marks) /\ Len(results) <= MaxEntries /\ cluster \in Nat
      /\ visited \subseteq Clusters /\ failed \in BOOLEAN /\ MaxEntries \in Nat /\ valid \in BOOLEAN
  BY Enough
<1>6. CASE steps' > ClusterCount
  <2>1. Refuse
    BY <1>6 DEF EndWalk
  <2>2. kind = "exfat" /\ ~Ends(cluster) /\ n = ClusterCount
    BY <1>3, <1>4, <1>5, <1>6
  <2>3. ASSUME ~failed' PROVE EntriesOf(dir) = None
    <3>1. cluster = At(dir, n)
      BY <1>1, <1>2, <2>3
    <3>2. ASSUME NEW m \in 0 .. ClusterCount PROVE ~HasLength(dir, m)
      <4>1. CASE m < n
        BY <4>1, <1>1, NotEnded, <1>5
      <4>2. CASE m = n
        <5>1. n > 0 /\ n \in 1 .. n
          BY <2>2, <1>5
        <5>2. ~content[At(dir, n - 1)].last
          BY <5>1, <1>1 DEF Scanned
        <5>. QED
          BY <4>2, <5>2, <3>1, <2>2 DEF HasLength
      <4>. QED
        BY <4>1, <4>2, <2>2, <1>5
    <3>. QED
      BY <3>2, NoEntries
  <2>4. Walking' /\ results' \in Seq(Marks) /\ Len(results') = 0
    BY <1>2, <2>1, <2>3, NowRefused
  <2>5. pc' = "listed" /\ valid' = FALSE
    BY <2>1 DEF Refuse
  <2>7. Len(results') <= MaxEntries /\ valid' \in BOOLEAN /\ failed' \in BOOLEAN
        /\ cluster' \in Nat /\ visited' \subseteq Clusters
    <3>1. visited' \subseteq Clusters /\ Len(results') <= MaxEntries /\ cluster' \in Nat
      BY <1>2, <1>5, <2>4
    <3>2. valid' \in BOOLEAN /\ failed' \in BOOLEAN
      BY <1>2, <1>5, <2>5, Zenon
    <3>. QED
      BY <3>1, <3>2
  <2>6. TypeOK'
    BY <1>2, <1>4, <1>5, <2>7, <2>5, WalkTypes
  <2>. QED
    BY <1>2, <2>4, <2>5, <2>6, WalkKeeps
<1>7. CASE ~(steps' > ClusterCount)
  <2>1. pc' = "listed" /\ valid' = valid /\ results' = results
    BY <1>7 DEF EndWalk
  <2>2. valid /\ Good(dir, n) /\ results = Got(dir, n)
    BY <1>1 DEF Scanned
  <2>3. ASSUME ~failed' PROVE EntriesOf(dir) = <<results>>
    <3>1. cluster = At(dir, n)
      BY <1>1, <1>2, <2>3
    <3>2. \/ Ends(At(dir, n))
          \/ dir.flat /\ dir.len # 0 /\ n >= dir.len /\ n < ClusterCount
      BY <3>1, <1>2, <1>3, <1>4, <1>5, <1>7 DEF Over
    <3>. QED
      BY <3>2, <1>1, <1>5, EndsHere
  <2>4. Walking'
    <3>1. ~failed' => EntriesOf(dir) = IF valid' THEN <<results'>> ELSE None
      BY <2>1, <2>2, <2>3
    <3>. QED
      BY <1>2, <2>1, <2>2, <3>1, NowListed
  <2>5. TypeOK'
    BY <1>2, <1>4, <1>5, <2>1, WalkTypes
  <2>. QED
    BY <1>2, <1>5, <2>1, <2>4, <2>5, WalkKeeps
<1>. QED
  BY <1>6, <1>7

LEMMA ScannedStays ==
    ASSUME UNCHANGED <<volume, dir, valid, results>>, NEW n \in 0 .. ClusterCount, Scanned(n)
    PROVE  Scanned(n)'
<1>1. UNCHANGED volume /\ dir' = dir /\ valid' = valid /\ results' = results
      /\ content' = content
  BY DEF volume
<1>2. n \in Nat
  BY NumbersAssumption
<1>3. (Good(dir, n)' <=> Good(dir, n)) /\ Got(dir, n)' = Got(dir, n)
      /\ \A i \in Nat : At(dir, i)' = At(dir, i)
  BY <1>1, <1>2, WordsStay
<1>4. \A i \in 1 .. n : At(dir, i - 1)' = At(dir, i - 1)
  BY <1>2, <1>3
<1>. QED
  BY <1>1, <1>2, <1>3, <1>4 DEF Scanned

LEMMA EntersCluster ==
    ASSUME IInv, EnterCluster
    PROVE  IInv'
<1>1. PICK n \in 0 .. ClusterCount :
          /\ Scanned(n) /\ Entered(n)
          /\ cluster = At(dir, n) \/ (failed /\ cluster = EndOfChain)
  BY DEF IInv, Walking, EnterCluster
<1>2. /\ pc = "walk" /\ ~Over /\ Count
      /\ UNCHANGED <<volume, goal, todo, dir, cluster, client, failed>>
  BY DEF EnterCluster
<1>3. /\ n \in Nat /\ n <= ClusterCount
      /\ steps = IF kind = "exfat" THEN n ELSE 0
      /\ visited = {At(dir, i) : i \in 0 .. n - 1}
  BY <1>1, NumbersAssumption DEF Entered
<1>4. ~Ends(cluster)
  BY <1>2 DEF Over
<1>5. cluster = At(dir, n)
  <2>1. Ends(EndOfChain)
    BY NumbersAssumption DEF Ends, EndOfChain
  <2>. QED
    BY <1>1, <1>4, <2>1
<1>6. /\ kind \in {"fat32", "exfat"} /\ ClusterCount \in Nat \ {0} /\ TypeOK /\ dir.len \in Nat
      /\ results \in Seq(Marks) /\ Len(results) <= MaxEntries /\ cluster \in Nat
      /\ visited \subseteq Clusters /\ failed \in BOOLEAN /\ MaxEntries \in Nat /\ valid \in BOOLEAN
      /\ (dir.flat => kind = "exfat") /\ dir.flat \in BOOLEAN
  BY Enough
<1>7. /\ steps' \in 0 .. ClusterCount + 1
      /\ steps' = IF kind = "exfat" THEN n + 1 ELSE 0
  BY <1>2, <1>3, <1>4, <1>6, Enough DEF Count
<1>8. dir.flat /\ dir.len # 0 => n < dir.len
  BY <1>2, <1>3, <1>6 DEF Over
<1>9. CASE Usable
  <2>1. visited' = visited \cup {cluster} /\ pc' = "sectors"
        /\ valid' = valid /\ results' = results
    BY <1>9 DEF EnterCluster
  <2>2. cluster \in Clusters /\ (dir.flat \/ cluster \notin visited)
        /\ (kind = "exfat" => cluster \in allocated)
    BY <1>9 DEF Usable
  <2>3. Good(dir, n + 1)
    <3>1. Good(dir, n)
      BY <1>1 DEF Scanned
    <3>2. ASSUME NEW i \in 0 .. n - 1 PROVE At(dir, i) # At(dir, n)
      <4>1. CASE dir.flat
        <5>1. At(dir, i) = dir.first + i /\ At(dir, n) = dir.first + n
          BY <4>1, <1>1, <1>3 DEF Scanned
        <5>. QED
          BY <5>1, <1>3, Enough
      <4>2. CASE ~dir.flat
        BY <4>2, <2>2, <1>3, <1>5
      <4>. QED
        BY <4>1, <4>2
    <3>3. \A i \in 0 .. (n + 1) - 1 : i \in 0 .. n - 1 \/ i = n
      BY <1>3
    <3>4. \A i \in 0 .. (n + 1) - 1 : At(dir, i) \in Clusters
      BY <3>1, <3>3, <2>2, <1>5 DEF Good
    <3>5. kind = "exfat" => \A i \in 0 .. (n + 1) - 1 : At(dir, i) \in allocated
      BY <3>1, <3>3, <2>2, <1>5 DEF Good
    <3>6. \A i, j \in 0 .. (n + 1) - 1 : At(dir, i) = At(dir, j) => i = j
      BY <3>1, <3>2, <3>3 DEF Good
    <3>. QED
      BY <3>4, <3>5, <3>6 DEF Good
  <2>4. n \in 0 .. ClusterCount - 1
    <3>1. n + 1 \in Nat
      BY <1>3
    <3>. QED
      BY <3>1, <2>3, GoodCount, <1>3, <1>6
  <2>5. visited' = {At(dir, i) : i \in 0 .. (n + 1) - 1}
    <3>1. 0 .. (n + 1) - 1 = (0 .. n - 1) \cup {n}
      BY <1>3
    <3>. QED
      BY <3>1, <2>1, <1>3, <1>5
  <2>6. Walking'
    <3>1. UNCHANGED volume /\ dir' = dir /\ cluster' = cluster /\ kind' = kind
      BY <1>2 DEF volume
    <3>2. Scanned(n)'
      BY <1>1, <2>1, <3>1, ScannedStays
    <3>3. (\A i \in Nat : At(dir, i)' = At(dir, i)) /\ Good(dir, n + 1)'
      BY <1>3, <2>3, <3>1, WordsStay
    <3>4. {At(dir, i)' : i \in 0 .. (n + 1) - 1} = {At(dir, i) : i \in 0 .. (n + 1) - 1}
      <4>1. \A i \in 0 .. (n + 1) - 1 : At(dir, i)' = At(dir, i)
        BY <1>3, <3>3
      <4>. QED
        BY <4>1
    <3>5. Entered(n + 1)'
      BY <2>5, <3>1, <3>4, <1>7, Zenon DEF Entered
    <3>6. (cluster = At(dir, n))' /\ (dir.flat /\ dir.len # 0 => n < dir.len)'
      BY <1>3, <1>5, <1>8, <3>1, <3>3
    <3>7. pc' # "walk" /\ pc' # "next" /\ pc' # "listed"
      BY <2>1
    <3>8. (\E k \in 0 .. ClusterCount - 1 :
             /\ Scanned(k) /\ Entered(k + 1) /\ Good(dir, k + 1)
             /\ cluster = At(dir, k)
             /\ dir.flat /\ dir.len # 0 => k < dir.len)'
      BY <2>4, <3>2, <3>3, <3>5, <3>6
    <3>. QED
      BY <3>7, <3>8 DEF Walking
  <2>7. visited' \subseteq Clusters /\ Len(results') <= MaxEntries
        /\ valid' \in BOOLEAN /\ failed' \in BOOLEAN /\ cluster' \in Nat
    BY <2>1, <2>2, <1>2, <1>6
  <2>8. TypeOK'
    BY <1>2, <1>6, <1>7, <2>1, <2>7, WalkTypes
  <2>. QED
    BY <1>2, <1>6, <2>1, <2>6, <2>8, WalkKeeps
<1>10. CASE ~Usable
  <2>1. Refuse /\ visited' = visited
    BY <1>10 DEF EnterCluster
  <2>2. ASSUME NEW m \in 0 .. ClusterCount PROVE ~HasLength(dir, m)
    <3>1. CASE m < n
      BY <3>1, <1>1, NotEnded, <1>6
    <3>2. CASE m = n
      <4>1. n > 0 => ~content[At(dir, n - 1)].last
        <5>1. n > 0 => n \in 1 .. n
          BY <1>3
        <5>. QED
          BY <5>1, <1>1 DEF Scanned
      <4>2. ~(dir.flat /\ n > 0 /\ dir.len = n)
        BY <1>3, <1>6, <1>8
      <4>. QED
        BY <3>2, <4>1, <4>2, <1>4, <1>5 DEF HasLength
    <3>3. CASE n < m
      <4>1. SUFFICES ASSUME HasLength(dir, m) PROVE FALSE
        OBVIOUS
      <4>2. n \in 0 .. m - 1 /\ \A i \in 0 .. n - 1 : i \in 0 .. m - 1 /\ i # n
        BY <3>3, <1>3
      <4>3. cluster \in Clusters /\ (kind = "exfat" => cluster \in allocated)
        BY <4>1, <4>2, <1>5 DEF HasLength
      <4>4. cluster \notin visited
        <5>1. \A i \in 0 .. n - 1 : At(dir, i) # At(dir, n)
          BY <4>1, <4>2 DEF HasLength
        <5>. QED
          BY <5>1, <1>3, <1>5
      <4>. QED
        BY <4>3, <4>4, <1>10 DEF Usable
    <3>. QED
      BY <3>1, <3>2, <3>3, <1>3
  <2>3. EntriesOf(dir) = None
    BY <2>2, NoEntries
  <2>4. Walking' /\ results' \in Seq(Marks) /\ Len(results') = 0
    BY <1>2, <2>1, <2>3, NowRefused
  <2>5. pc' = "listed" /\ valid' = FALSE
    BY <2>1 DEF Refuse
  <2>6. visited' \subseteq Clusters /\ Len(results') <= MaxEntries
        /\ valid' \in BOOLEAN /\ failed' \in BOOLEAN /\ cluster' \in Nat
    <3>1. visited' \subseteq Clusters /\ Len(results') <= MaxEntries /\ cluster' \in Nat
      BY <2>1, <2>4, <1>2, <1>6
    <3>2. valid' \in BOOLEAN /\ failed' \in BOOLEAN
      BY <2>5, <1>2, <1>6, Zenon
    <3>. QED
      BY <3>1, <3>2
  <2>7. TypeOK'
    BY <1>2, <1>6, <1>7, <2>5, <2>6, WalkTypes
  <2>. QED
    BY <1>2, <2>4, <2>5, <2>7, WalkKeeps
<1>. QED
  BY <1>9, <1>10

LEMMA Scans ==
    ASSUME IInv, Scan
    PROVE  IInv'
<1>1. PICK n \in 0 .. ClusterCount - 1 :
          /\ Scanned(n) /\ Entered(n + 1) /\ Good(dir, n + 1)
          /\ cluster = At(dir, n)
          /\ dir.flat /\ dir.len # 0 => n < dir.len
  BY DEF IInv, Walking, Scan
<1>2. /\ pc = "sectors"
      /\ UNCHANGED <<volume, goal, todo, dir, cluster, steps, visited, client, failed>>
  BY DEF Scan
<1>3. /\ kind \in {"fat32", "exfat"} /\ ClusterCount \in Nat \ {0} /\ TypeOK /\ VolumeOK
      /\ results \in Seq(Marks) /\ Len(results) <= MaxEntries /\ cluster \in Nat
      /\ visited \subseteq Clusters /\ failed \in BOOLEAN /\ MaxEntries \in Nat /\ valid \in BOOLEAN
      /\ dir \in Places /\ steps \in 0 .. ClusterCount + 1 /\ (kind = "fat32" => steps = 0)
      /\ dir.flat \in BOOLEAN /\ dir.len \in Nat
  BY Enough
<1>4. /\ n \in Nat /\ n + 1 \in Nat /\ n + 1 \in 1 .. ClusterCount /\ n \in 0 .. ClusterCount
      /\ n + 1 \in 0 .. ClusterCount
  BY <1>1, <1>3
<1>5. cluster \in Clusters /\ ~Ends(cluster)
  <2>1. cluster \in Clusters
    BY <1>1, <1>4 DEF Good
  <2>. QED
    BY <2>1, NumbersAssumption DEF Ends, Clusters, EndOfChain
<1>6. /\ Placed(cluster) \in Seq(Marks) /\ Len(Placed(cluster)) = Len(content[cluster].entries)
      /\ content[cluster].last \in BOOLEAN
  BY <1>3, <1>5, PlacedIs DEF VolumeOK
<1>7. /\ Got(dir, n + 1) = results \o Placed(cluster)
      /\ Len(Got(dir, n + 1)) = Len(results) + Len(content[cluster].entries)
      /\ Got(dir, n + 1) \in Seq(Marks)
  <2>1. Got(dir, n + 1) = results \o Placed(cluster)
    BY <1>1, <1>4, WalkIs DEF Scanned
  <2>2. PICK s, t : s = results /\ t = Placed(cluster)
    OBVIOUS
  <2>3. s \in Seq(Marks) /\ t \in Seq(Marks)
    BY <2>2, <1>3, <1>6
  <2>4. s \o t \in Seq(Marks) /\ Len(s \o t) = Len(s) + Len(t)
    BY <2>3
  <2>. QED
    BY <2>1, <2>2, <2>4, <1>6
<1>8. CASE Len(results) + Len(content[cluster].entries) > MaxEntries
  <2>1. Refuse
    BY <1>8 DEF Scan
  <2>2. ASSUME NEW m \in 0 .. ClusterCount, HasLength(dir, m)
        PROVE  Len(Got(dir, m)) > MaxEntries
    <3>1. ~(m < n)
      BY <2>2, <1>1, NotEnded, <1>3
    <3>2. m # n
      <4>1. n > 0 => ~content[At(dir, n - 1)].last
        <5>1. n > 0 => n \in 1 .. n
          BY <1>4
        <5>. QED
          BY <5>1, <1>1 DEF Scanned
      <4>2. ~(dir.flat /\ n > 0 /\ dir.len = n)
        BY <1>1, <1>3, <1>4
      <4>. QED
        BY <2>2, <4>1, <4>2, <1>1, <1>5 DEF HasLength
    <3>3. n + 1 \in 0 .. m /\ m \in Nat
      BY <3>1, <3>2, <1>4, <1>3
    <3>4. Good(dir, m)
      BY <2>2, <3>3, LengthGood
    <3>5. Begins(Got(dir, n + 1), Got(dir, m))
      BY <3>3, <3>4, <1>3, GotBegins
    <3>6. Got(dir, m) \in Seq(Marks)
      BY <3>3, <3>4, <1>3, AllFine DEF Fine
    <3>7. Len(Got(dir, m)) \in Nat /\ Len(Got(dir, n + 1)) \in Nat
      BY <3>6, <1>7
    <3>8. Len(Got(dir, n + 1)) <= Len(Got(dir, m))
      BY <3>5 DEF Begins
    <3>. QED
      BY <3>7, <3>8, <1>7, <1>8, <1>3
  <2>3. EntriesOf(dir) = None
    BY <2>2, NoEntries
  <2>4. Walking' /\ results' \in Seq(Marks) /\ Len(results') = 0
    BY <1>2, <2>1, <2>3, NowRefused
  <2>5. pc' = "listed" /\ valid' = FALSE
    BY <2>1 DEF Refuse
  <2>6. TypeOK'
    <3>1. /\ visited' \subseteq Clusters /\ Len(results') <= MaxEntries /\ cluster' \in Nat
          /\ steps' \in 0 .. ClusterCount + 1 /\ (kind = "fat32" => steps' = 0)
      BY <2>4, <1>2, <1>3
    <3>2. valid' \in BOOLEAN /\ failed' \in BOOLEAN
      BY <2>5, <1>2, <1>3, Zenon
    <3>. QED
      BY <1>2, <1>3, <2>5, <3>1, <3>2, WalkTypes
  <2>. QED
    BY <1>2, <2>4, <2>5, <2>6, WalkKeeps
<1>9. CASE ~(Len(results) + Len(content[cluster].entries) > MaxEntries)
  <2>1. /\ results' = Got(dir, n + 1)
        /\ pc' = IF content[cluster].last THEN "listed" ELSE "next"
        /\ valid' = valid
    BY <1>7, <1>9 DEF Scan
  <2>2. Len(results') <= MaxEntries /\ results' \in Seq(Marks)
    <3>1. Len(Got(dir, n + 1)) \in Nat
      BY <1>7
    <3>. QED
      BY <2>1, <1>7, <1>9, <1>3, <3>1
  <2>3. valid = TRUE
    BY <1>1, <1>3 DEF Scanned
  <2>4. CASE content[cluster].last
    <3>1. HasLength(dir, n + 1)
      <4>1. \A i \in 1 .. (n + 1) - 1 : i \in 1 .. n
        BY <1>4
      <4>2. \A i \in 1 .. n : ~content[At(dir, i - 1)].last /\ ~(dir.flat /\ dir.len = i)
        BY <1>1, <1>3, <1>4 DEF Scanned
      <4>3. content[At(dir, (n + 1) - 1)].last /\ n + 1 > 0
        BY <1>1, <1>4, <2>4
      <4>. QED
        BY <1>1, <4>1, <4>2, <4>3 DEF HasLength, Good
    <3>2. EntriesOf(dir) = <<results'>>
      <4>1. ~(Len(Got(dir, n + 1)) > MaxEntries)
        BY <1>7, <1>9
      <4>. QED
        BY <3>1, <4>1, <2>1, <1>4, EntriesAre
    <3>3. Walking'
      BY <1>1, <1>2, <1>4, <2>1, <2>3, <2>4, <3>2, NowListed
    <3>4. TypeOK'
      BY <1>2, <1>3, <2>1, <2>2, <2>4, WalkTypes
    <3>. QED
      BY <1>2, <2>1, <2>2, <2>4, <3>3, <3>4, WalkKeeps
  <2>5. CASE ~content[cluster].last
    <3>1. UNCHANGED volume /\ dir' = dir /\ cluster' = cluster /\ kind' = kind
          /\ content' = content /\ steps' = steps /\ visited' = visited
      BY <1>2 DEF volume
    <3>2. /\ \A i \in Nat : At(dir, i)' = At(dir, i)
          /\ Good(dir, n + 1)' /\ Got(dir, n + 1)' = Got(dir, n + 1)
      BY <1>1, <1>4, <3>1, WordsStay
    <3>3. \A i \in 1 .. n + 1 : ~content[At(dir, i - 1)].last
      <4>1. \A i \in 1 .. n + 1 : i \in 1 .. n \/ i - 1 = n
        BY <1>4
      <4>. QED
        BY <4>1, <1>1, <2>5 DEF Scanned
    <3>4. ASSUME dir.flat
          PROVE  /\ \A i \in 0 .. n + 1 : At(dir, i) = dir.first + i
                 /\ dir.len # 0 => n + 1 <= dir.len
      <4>1. \A i \in 0 .. n : At(dir, i) = dir.first + i
        BY <3>4, <1>1 DEF Scanned
      <4>2. At(dir, n + 1) = At(dir, n) + 1
        BY <3>4, <1>4, WalkIs DEF NextCluster
      <4>3. \A i \in 0 .. n + 1 : i \in 0 .. n \/ i = n + 1
        BY <1>4
      <4>4. n \in 0 .. n
        BY <1>4
      <4>5. At(dir, n + 1) = dir.first + (n + 1)
        <5>1. At(dir, n) = dir.first + n
          BY <4>1, <4>4
        <5>. QED
          BY <5>1, <4>2, <1>4, Enough
      <4>. QED
        BY <4>1, <4>3, <4>5, <3>4, <1>1, <1>3, <1>4
    <3>5. Scanned(n + 1)'
      <4>1. /\ \A i \in 1 .. n + 1 : At(dir, i - 1)' = At(dir, i - 1)
            /\ \A i \in 0 .. n + 1 : At(dir, i)' = At(dir, i)
        BY <1>4, <3>2
      <4>. QED
        BY <1>4, <2>1, <2>3, <3>1, <3>2, <3>3, <3>4, <4>1 DEF Scanned
    <3>6. Entered(n + 1)'
      <4>1. {At(dir, i)' : i \in 0 .. (n + 1) - 1} = {At(dir, i) : i \in 0 .. (n + 1) - 1}
        <5>1. \A i \in 0 .. (n + 1) - 1 : At(dir, i)' = At(dir, i)
          BY <1>4, <3>2
        <5>. QED
          BY <5>1
      <4>. QED
        BY <1>1, <3>1, <4>1, Zenon DEF Entered
    <3>7. (cluster = At(dir, (n + 1) - 1))'
      BY <1>1, <1>4, <3>1, <3>2
    <3>8. pc' = "next"
      BY <2>1, <2>5
    <3>9. (\E k \in 1 .. ClusterCount :
             /\ Scanned(k) /\ Entered(k)
             /\ cluster = At(dir, k - 1))'
      BY <1>4, <3>5, <3>6, <3>7
    <3>10. Walking'
      BY <3>8, <3>9 DEF Walking
    <3>11. TypeOK'
      BY <1>2, <1>3, <2>1, <2>2, <3>8, WalkTypes
    <3>. QED
      BY <1>2, <2>2, <3>8, <3>10, <3>11, WalkKeeps
  <2>. QED
    BY <1>6, <2>4, <2>5
<1>. QED
  BY <1>8, <1>9

LEMMA ScansNot ==
    ASSUME IInv, ScanFails
    PROVE  IInv'
<1>1. /\ pc = "sectors" /\ Refuse /\ failed' = TRUE
      /\ UNCHANGED <<volume, goal, todo, dir, cluster, steps, visited, client>>
  BY DEF ScanFails
<1>2. Walking' /\ results' \in Seq(Marks) /\ Len(results') = 0
  BY <1>1, NowRefused
<1>3. pc' = "listed" /\ valid' = FALSE
  BY <1>1 DEF Refuse
<1>4. TypeOK'
  <2>1. /\ visited' \subseteq Clusters /\ Len(results') <= MaxEntries /\ cluster' \in Nat
        /\ steps' \in 0 .. ClusterCount + 1 /\ (kind = "fat32" => steps' = 0)
    BY <1>1, <1>2, Enough
  <2>2. valid' \in BOOLEAN /\ failed' \in BOOLEAN
    BY <1>1, <1>3, Zenon
  <2>. QED
    BY <1>1, <1>3, <2>1, <2>2, Enough, WalkTypes
<1>. QED
  BY <1>1, <1>2, <1>3, <1>4, WalkKeeps

(* One step along the chain, or to its end where the FAT cannot be read. *)
LEMMA Goes ==
    ASSUME IInv, pc = "next", NEW c \in Nat, cluster' = c, pc' = "walk",
           failed' \in BOOLEAN, failed => failed',
           c = NextCluster(dir, cluster) \/ (failed' /\ c = EndOfChain),
           UNCHANGED <<volume, goal, todo, dir, steps, visited, results, valid, client>>
    PROVE  IInv'
<1>1. PICK n \in 1 .. ClusterCount :
          /\ Scanned(n) /\ Entered(n)
          /\ cluster = At(dir, n - 1)
  BY DEF IInv, Walking
<1>2. n \in Nat /\ n - 1 \in Nat /\ n \in 0 .. ClusterCount /\ (n - 1) + 1 = n
  BY <1>1, NumbersAssumption
<1>3. NextCluster(dir, cluster) = At(dir, n)
  BY <1>1, <1>2, WalkIs
<1>4. UNCHANGED volume /\ dir' = dir /\ kind' = kind /\ steps' = steps /\ visited' = visited
      /\ valid' = valid /\ results' = results
  BY DEF volume
<1>5. Scanned(n)'
  BY <1>1, <1>2, <1>4, ScannedStays
<1>6. \A i \in Nat : At(dir, i)' = At(dir, i)
  BY <1>4, WordsStay
<1>7. Entered(n)'
  <2>1. {At(dir, i)' : i \in 0 .. n - 1} = {At(dir, i) : i \in 0 .. n - 1}
    <3>1. \A i \in 0 .. n - 1 : At(dir, i)' = At(dir, i)
      BY <1>2, <1>6
    <3>. QED
      BY <3>1
  <2>. QED
    BY <1>1, <1>4, <2>1, Zenon DEF Entered
<1>8. (cluster = At(dir, n) \/ (failed /\ cluster = EndOfChain))'
  BY <1>2, <1>3, <1>6, <1>4 DEF EndOfChain
<1>9. (\E k \in 0 .. ClusterCount :
          /\ Scanned(k) /\ Entered(k)
          /\ cluster = At(dir, k) \/ (failed /\ cluster = EndOfChain))'
  BY <1>2, <1>5, <1>7, <1>8
<1>10. Walking'
  BY <1>9 DEF Walking
<1>11. TypeOK'
  <2>1. /\ visited' \subseteq Clusters /\ Len(results') <= MaxEntries /\ cluster' \in Nat
        /\ steps' \in 0 .. ClusterCount + 1 /\ (kind = "fat32" => steps' = 0)
    BY <1>4, Enough
  <2>2. valid' \in BOOLEAN
    BY <1>4, Enough, Zenon
  <2>. QED
    BY <2>1, <2>2, Enough, WalkTypes
<1>12. results' \in Seq(Marks)
  BY <1>4, Enough
<1>. QED
  BY <1>10, <1>11, <1>12, WalkKeeps

LEMMA Follows ==
    ASSUME IInv, Follow \/ FollowFails
    PROVE  IInv'
<1>1. CASE Follow
  <2>1. NextCluster(dir, cluster) \in Nat
    BY Enough, NextType
  <2>2. failed' \in BOOLEAN /\ (failed => failed')
    BY <1>1, Enough, Zenon DEF Follow
  <2>. QED
    BY <1>1, <2>1, <2>2, Goes DEF Follow
<1>2. CASE FollowFails
  <2>1. EndOfChain \in Nat
    BY NumbersAssumption DEF EndOfChain
  <2>. QED
    BY <1>2, <2>1, Goes DEF FollowFails
<1>. QED
  BY <1>1, <1>2

-----------------------------------------------------------------------------
(* What a walk has found *)

(* Two walks of a directory agree where both have found a name. *)
LEMMA SameFirst ==
    ASSUME VolumeOK, NEW d, NEW n \in 0 .. ClusterCount, Good(d, n),
           NEW m \in 0 .. ClusterCount, Good(d, m), NEW name
    PROVE  /\ SubEntry(Got(d, n), name) # None /\ SubEntry(Got(d, m), name) # None
                 => SubEntry(Got(d, n), name) = SubEntry(Got(d, m), name)
           /\ SubDir(Got(d, n), name) # None /\ SubDir(Got(d, m), name) # None
                 => SubDir(Got(d, n), name) = SubDir(Got(d, m), name)
<1>1. n \in Nat /\ m \in Nat
  BY NumbersAssumption
<1>2. Got(d, n) \in Seq(Marks) /\ Got(d, m) \in Seq(Marks)
  BY <1>1, AllFine DEF Fine
<1>3. CASE n <= m
  <2>1. Begins(Got(d, n), Got(d, m))
    BY <1>1, <1>3, GotBegins
  <2>. QED
    BY <1>2, <2>1, FirstsStay
<1>4. CASE m <= n
  <2>1. Begins(Got(d, m), Got(d, n))
    BY <1>1, <1>4, GotBegins
  <2>. QED
    BY <1>2, <2>1, FirstsStay
<1>. QED
  BY <1>1, <1>3, <1>4

(* Behind a directory that is not there there is none. *)
LEMMA NoneStays ==
    ASSUME NEW k \in Nat, NEW l \in Nat, k <= l, DirAt[k] = None
    PROVE  DirAt[l] = None
<1>. DEFINE B == {i \in k .. l : DirAt[i] # None}
<1>1. SUFFICES ASSUME B # {} PROVE FALSE
  OBVIOUS
<1>2. B \subseteq Nat
  OBVIOUS
<1>3. PICK m \in B : \A y \in B : m <= y
  <2>. HIDE DEF B
  <2>. QED
    BY <1>1, <1>2, LeastNumber
<1>4. m # k
  BY <1>3
<1>5. m - 1 \in k .. l /\ m - 1 \in Nat /\ (m - 1) + 1 = m /\ m - 1 \notin B
  BY <1>3, <1>4
<1>6. DirAt[m - 1] = None
  BY <1>5
<1>7. DirAt[m] = Below(DirAt[m - 1], m)
  BY <1>5, DirAtIs
<1>. QED
  BY <1>3, <1>6, <1>7 DEF Below

(* The directory below one that has been listed without an error. *)
LEMMA BelowIs ==
    ASSUME NEW k \in Nat, NEW d, DirAt[k] = <<d>>, NEW s, EntriesOf(d) = <<s>>,
           NEW m, m = SubDir(s, path[k + 1])
    PROVE  DirAt[k + 1] = IF m = None THEN None
                          ELSE IF m[1].entry.first < 2 THEN None ELSE <<Place(m[1])>>
<1>1. \A x : <<x>> # None /\ <<x>>[1] = x
  BY DEF None
<1>2. DirAt[k + 1] = Below(<<d>>, k + 1)
  BY DirAtIs
<1>. QED
  BY <1>1, <1>2 DEF Below

LEMMA BelowIsNone ==
    ASSUME NEW k \in Nat, NEW d, DirAt[k] = <<d>>, EntriesOf(d) = None
    PROVE  DirAt[k + 1] = None
<1>1. \A x : <<x>> # None /\ <<x>>[1] = x
  BY DEF None
<1>2. DirAt[k + 1] = Below(<<d>>, k + 1)
  BY DirAtIs
<1>. QED
  BY <1>1, <1>2 DEF Below

-----------------------------------------------------------------------------
(* The steps of the calls *)

(* The walk of a directory begins. *)
LEMMA Opens ==
    ASSUME VolumeOK, NEW d \in Places, d.first >= 2, OpenDir(d), UNCHANGED volume,
           goal' \in {"list", "find"}, failed' \in BOOLEAN
    PROVE  TypeOK' /\ Walking' /\ dir' \in Places' /\ results' \in Seq(Marks')
           /\ dir' = d /\ pc' = "walk"
<1>1. /\ dir' = d /\ cluster' = d.first
      /\ steps' = 0 /\ visited' = {} /\ results' = <<>>
      /\ valid' = TRUE /\ pc' = "walk"
  BY DEF OpenDir
<1>2. kind' = kind
  BY DEF volume
<1>3. d.first \in Nat /\ d.len \in Nat /\ d.flat \in BOOLEAN /\ (d.flat => kind = "exfat")
  BY PlaceIs
<1>4. results' \in Seq(Marks) /\ Len(results') = 0
  <2>1. \A M : <<>> \in Seq(M) /\ Len(<<>>) = 0
    OBVIOUS
  <2>. QED
    BY <1>1, <2>1, Zenon
<1>5. TypeOK'
  <2>1. /\ steps' \in 0 .. ClusterCount + 1 /\ (kind' = "fat32" => steps' = 0)
        /\ Len(results') <= MaxEntries /\ visited' \subseteq Clusters /\ cluster' \in Nat
    BY <1>1, <1>3, <1>4, NumbersAssumption
  <2>2. valid' \in BOOLEAN
    BY <1>1, Zenon
  <2>3. dir'.first \in Nat /\ dir'.len \in Nat /\ dir'.flat \in BOOLEAN
        /\ (dir'.flat => kind' = "exfat")
    BY <1>1, <1>2, <1>3, Zenon
  <2>4. pc' \in {"start", "walk", "sectors", "next", "listed", "client", "done"}
    BY <1>1
  <2>. QED
    BY <2>1, <2>2, <2>3, <2>4, Zenon DEF TypeOK
<1>6. /\ Marks' = Marks /\ Places' = Places
      /\ At(d, 0)' = At(d, 0) /\ Got(d, 0)' = Got(d, 0) /\ (Good(d, 0)' <=> Good(d, 0))
  BY WordsStay
<1>7. At(d, 0) = d.first /\ Got(d, 0) = <<>> /\ Good(d, 0)
  BY WalkIs DEF Good
<1>8. Scanned(0)'
  <2>1. (At(dir, 0) = dir.first + 0)'
    BY <1>1, <1>3, <1>6, <1>7
  <2>2. (Good(dir, 0) /\ results = Got(dir, 0))'
    BY <1>1, <1>6, <1>7
  <2>. QED
    BY <1>1, <1>3, <2>1, <2>2, NumbersAssumption DEF Scanned
<1>9. Entered(0)'
  BY <1>1 DEF Entered
<1>10. (cluster = At(dir, 0))'
  BY <1>1, <1>6, <1>7
<1>11. (\E k \in 0 .. ClusterCount :
          /\ Scanned(k) /\ Entered(k)
          /\ cluster = At(dir, k) \/ (failed /\ cluster = EndOfChain))'
  BY <1>8, <1>9, <1>10, NumbersAssumption
<1>12. Walking'
  BY <1>1, <1>11 DEF Walking
<1>. QED
  BY <1>1, <1>4, <1>5, <1>6, <1>12

LEMMA RootOpens == Root \in Places /\ Root.first >= 2
  BY DEF Places, Root

(* A call ends: nothing is promised of a walk any more. *)
LEMMA Stops ==
    ASSUME IInv, pc' = "done", UNCHANGED <<volume, todo, walk>>,
           goal' \in {"list", "find"}, failed' \in BOOLEAN, Having', Ended'
    PROVE  IInv'
<1>1. /\ UNCHANGED volume /\ kind' = kind /\ todo' = todo /\ dir' = dir /\ cluster' = cluster
      /\ steps' = steps /\ visited' = visited /\ results' = results /\ valid' = valid
  BY DEF volume, walk
<1>2. Marks' = Marks /\ Places' = Places /\ VolumeOK'
  BY <1>1, WordsStay DEF IInv
<1>3. TypeOK'
  <2>1. pc' \in {"start", "walk", "sectors", "next", "listed", "client", "done"}
    OBVIOUS
  <2>. QED
    BY <1>1, <2>1, Zenon DEF IInv, TypeOK
<1>4. Walking' /\ Going'
  BY DEF Walking, Going
<1>5. dir' \in Places' /\ todo' \in Seq(ToSet(todo')) /\ results' \in Seq(Marks')
  BY <1>1, <1>2 DEF IInv
<1>. QED
  BY <1>2, <1>3, <1>4, <1>5 DEF IInv

(* A sequence of a type is one of its own elements. *)
LEMMA OwnSeq ==
    ASSUME NEW M, NEW s \in Seq(M)
    PROVE  s \in Seq(ToSet(s))
<1>1. PICK k \in Nat : k = Len(s)
  OBVIOUS
<1>2. s = [i \in 1 .. k |-> s[i]] /\ DOMAIN s = 1 .. k
  BY <1>1
<1>3. \A i \in 1 .. k : s[i] \in ToSet(s)
  BY <1>2 DEF ToSet
<1>4. s \in [1 .. k -> ToSet(s)]
  BY <1>2, <1>3, Zenon
<1>. QED
  BY <1>4

LEMMA Lists ==
    ASSUME IInv, List
    PROVE  IInv'
<1>1. pc = "start" /\ UNCHANGED <<volume, client>>
      /\ (\/ Start("list", path) /\ UNCHANGED failed
          \/ StartFails("list"))
  BY DEF List
<1>2. goal = "list" /\ found = None /\ UNCHANGED volume /\ path' = path /\ failed \in BOOLEAN
      /\ TypeOK /\ VolumeOK
  BY <1>1, Enough DEF IInv, Having, volume
<1>3. goal' = "list" /\ failed' \in BOOLEAN /\ (failed => failed')
      /\ pc' \in {"walk", "listed", "done"}
  <2>1. goal' = "list" /\ pc' \in {"walk", "listed", "done"}
    BY <1>1 DEF Start, StartFails, OpenDir
  <2>2. failed' \in BOOLEAN /\ (failed => failed')
    BY <1>1, <1>2, Zenon DEF Start, StartFails
  <2>. QED
    BY <2>1, <2>2
<1>4. Having'
  BY <1>1, <1>2, <1>3, HavingStays DEF client
<1>5. CASE Start("list", path) /\ UNCHANGED failed /\ Prepared
  <2>1. todo' = path /\ OpenDir(Root) /\ failed' = failed
    BY <1>5 DEF Start
  <2>2. /\ TypeOK' /\ Walking' /\ dir' \in Places' /\ results' \in Seq(Marks')
        /\ dir' = Root /\ pc' = "walk"
    BY <1>2, <1>3, <2>1, Opens, RootOpens
  <2>3. path \in Seq(ToSet(path)) /\ Len(path) \in Nat
    BY <1>2 DEF VolumeOK
  <2>4. VolumeOK' /\ \A ds : \A k \in Nat : Trail(ds, k)' <=> Trail(ds, k)
    BY <1>2, WordsStay
  <2>5. DirAt' = DirAt /\ Prepared' = Prepared
    BY <1>2, VolumeStays
  <2>6. Going'
    <3>. DEFINE ds == [i \in 0 .. 0 |-> Root]
    <3>1. ds \in [0 .. 0 -> Places] /\ ds[0] = Root
      BY RootOpens
    <3>2. Trail(ds, 0)
      BY <3>1 DEF Trail
    <3>3. Trail(ds, 0)'
      BY <3>2, <2>4
    <3>. HIDE DEF ds
    <3>4. ds \in [0 .. 0 -> Places'] /\ Trail(ds, 0)' /\ dir' = ds[0]
      BY <3>1, <3>3, <2>2, <1>2, WordsStay
    <3>5. Len(todo') = Len(path) - 0 + 0
          /\ \A i \in 1 .. Len(todo') : todo'[i] = path[0 + i] /\ 0 + i <= Len(path)
      BY <2>1, <2>3
    <3>6. ~failed' => DirAt[0] = <<dir'>> /\ Prepared
      BY <2>2, <1>5, DirAtIs
    <3>7. Len(todo') = Len(path) - 0 + IF goal' = "list" THEN 0 ELSE 1
      BY <3>5, <1>3
    <3>8. \A i \in 1 .. Len(todo') :
              todo'[i] = IF 0 + i <= Len(path) THEN path[0 + i] ELSE target'[1]
      BY <3>5
    <3>9. 0 \in 0 .. Len(path)
      BY <2>3
    <3>. QED
      BY <3>4, <3>6, <3>7, <3>8, <3>9, <2>5, <1>2, <1>3 DEF Going
  <2>7. Ended'
    BY <2>2 DEF Ended
  <2>8. todo' \in Seq(ToSet(todo'))
    BY <2>1, <2>3
  <2>. QED
    BY <1>4, <2>2, <2>4, <2>6, <2>7, <2>8 DEF IInv
<1>6. CASE ~(Start("list", path) /\ UNCHANGED failed /\ Prepared)
  <2>1. pc' = "done" /\ UNCHANGED <<todo, walk>>
        /\ (~failed' => ~Prepared)
    BY <1>1, <1>6 DEF Start, StartFails
  <2>2. ~failed' => Directory' = None
    <3>1. ~Prepared => Directory = None
      BY DEF Directory
    <3>2. Directory' = Directory
      BY <1>2, VolumeStays
    <3>. QED
      BY <2>1, <3>1, <3>2
  <2>3. Ended'
    <3>1. found' = None
      BY <1>1, <1>2 DEF client
    <3>. QED
      BY <1>3, <2>2, <3>1 DEF Ended
  <2>. QED
    BY <1>2, <1>3, <1>4, <2>1, <2>3, Stops
<1>. QED
  BY <1>5, <1>6

LEMMA Finds ==
    ASSUME IInv, Find
    PROVE  IInv'
<1>1. /\ pc = "client" /\ UNCHANGED <<volume, listing, found>>
      /\ \E i \in DOMAIN listing[1] :
          /\ ~listing[1][i].entry.dir
          /\ target' = <<listing[1][i].entry.name>>
      /\ (\/ Start("find", path \o target') /\ UNCHANGED failed
          \/ StartFails("find"))
  BY DEF Find
<1>2. /\ found = None /\ UNCHANGED volume /\ path' = path /\ failed \in BOOLEAN
      /\ TypeOK /\ VolumeOK /\ listing # None /\ listing' = listing /\ found' = None
      /\ path \in Seq(ToSet(path)) /\ Len(path) \in Nat
  BY <1>1, Enough DEF IInv, Having, volume, VolumeOK
<1>3. goal' = "find" /\ failed' \in BOOLEAN /\ (~failed' => ~failed)
      /\ pc' \in {"walk", "listed", "done"}
  <2>1. goal' = "find" /\ pc' \in {"walk", "listed", "done"}
    BY <1>1 DEF Start, StartFails, OpenDir
  <2>2. failed' \in BOOLEAN /\ (~failed' => ~failed)
    BY <1>1, <1>2, Zenon DEF Start, StartFails
  <2>. QED
    BY <2>1, <2>2
<1>4. /\ Marks' = Marks /\ Places' = Places /\ VolumeOK'
      /\ \A ds : \A k \in Nat : Trail(ds, k)' <=> Trail(ds, k)
      /\ \A d : \A n \in Nat : (Good(d, n)' <=> Good(d, n)) /\ Got(d, n)' = Got(d, n)
  BY <1>2, WordsStay
<1>5. DirAt' = DirAt /\ Prepared' = Prepared /\ Directory' = Directory
  BY <1>2, VolumeStays
<1>6. \A d : ListingOf(d)' <=> ListingOf(d)
  BY <1>2, <1>4, NumbersAssumption DEF ListingOf
<1>7. PICK ds \in [0 .. Len(path) -> Places] :
          Trail(ds, Len(path)) /\ ListingOf(ds[Len(path)])
  BY <1>1 DEF IInv, Having
<1>8. Trail(ds, Len(path))' /\ ListingOf(ds[Len(path)])'
  <2>1. PICK n \in Nat : n = Len(path)
    BY <1>2
  <2>2. Trail(ds, n)' /\ ListingOf(ds[n])'
    BY <1>4, <1>6, <1>7, <2>1
  <2>. QED
    BY <1>2, <2>1, <2>2
<1>9. ~failed' => listing' = Directory'
  BY <1>1, <1>2, <1>3, <1>5 DEF IInv, Having
<1>10. Having'
  <2>1. (\E es \in [0 .. Len(path) -> Places] :
                Trail(es, Len(path)) /\ ListingOf(es[Len(path)]))'
    BY <1>2, <1>4, <1>7, <1>8
  <2>2. (\E i \in DOMAIN listing[1] :
              ~listing[1][i].entry.dir /\ target = <<listing[1][i].entry.name>>)'
    BY <1>1, <1>2
  <2>3. listing' # None /\ (~failed' => listing' = Directory')
    BY <1>2, <1>9
  <2>4. goal' # "list" /\ pc' # "start" /\ pc' # "client" /\ found' = None
    BY <1>2, <1>3
  <2>. QED
    BY <2>1, <2>2, <2>3, <2>4 DEF Having
<1>11. CASE Start("find", path \o target') /\ UNCHANGED failed /\ Prepared
  <2>1. todo' = path \o target' /\ OpenDir(Root) /\ failed' = failed
    BY <1>11 DEF Start
  <2>2. /\ TypeOK' /\ Walking' /\ dir' \in Places' /\ results' \in Seq(Marks')
        /\ dir' = Root /\ pc' = "walk"
    BY <1>2, <1>3, <2>1, Opens, RootOpens
  <2>3. PICK x : target' = <<x>>
    BY <1>1
  <2>4. PICK M : M = ToSet(path) \cup {x}
    OBVIOUS
  <2>5. path \in Seq(M) /\ <<x>> \in Seq(M)
    BY <1>2, <2>4
  <2>6. /\ todo' \in Seq(M) /\ Len(todo') = Len(path) + 1
        /\ \A i \in 1 .. Len(path) + 1 :
              todo'[i] = IF i <= Len(path) THEN path[i] ELSE x
    <3>1. PICK p : p = path
      OBVIOUS
    <3>2. p \in Seq(M) /\ <<x>> \in Seq(M) /\ Len(p) \in Nat
      BY <2>5, <3>1
    <3>3. /\ p \o <<x>> \in Seq(M) /\ Len(p \o <<x>>) = Len(p) + 1
          /\ \A i \in 1 .. Len(p) + 1 :
                (p \o <<x>>)[i] = IF i <= Len(p) THEN p[i] ELSE x
      BY <3>2
    <3>. QED
      BY <3>1, <3>3, <2>1, <2>3
  <2>7. Going'
    <3>1. Len(todo') = Len(path) - 0 + IF goal' = "list" THEN 0 ELSE 1
      BY <1>2, <1>3, <2>6
    <3>2. \A i \in 1 .. Len(todo') :
              todo'[i] = IF 0 + i <= Len(path) THEN path[0 + i] ELSE target'[1]
      BY <1>2, <2>3, <2>6
    <3>3. dir' = ds[0]
      BY <2>2, <1>7 DEF Trail
    <3>4. ~failed' => DirAt'[0] = <<dir'>> /\ Prepared'
      BY <1>5, <1>11, <2>2, DirAtIs
    <3>5. 0 \in 0 .. Len(path) /\ goal' # "list"
      BY <1>2, <1>3
    <3>6. ds \in [0 .. Len(path') -> Places']
      BY <1>2, <1>4, <1>7
    <3>. QED
      BY <3>1, <3>2, <3>3, <3>4, <3>5, <3>6, <1>2, <1>8 DEF Going
  <2>8. Ended'
    BY <2>2 DEF Ended
  <2>9. todo' \in Seq(ToSet(todo'))
    BY <2>6, OwnSeq
  <2>. QED
    BY <1>4, <1>10, <2>2, <2>7, <2>8, <2>9 DEF IInv
<1>12. CASE ~(Start("find", path \o target') /\ UNCHANGED failed /\ Prepared)
  <2>1. pc' = "done" /\ UNCHANGED <<todo, walk>>
        /\ (~failed' => ~Prepared)
    BY <1>1, <1>12 DEF Start, StartFails
  <2>2. ~failed' => Directory = None
    BY <2>1 DEF Directory
  <2>3. Ended'
    <3>1. failed'
      BY <2>2, <1>2, <1>5, <1>9
    <3>2. goal' # "list" /\ found' = None
      BY <1>2, <1>3
    <3>. QED
      BY <3>1, <3>2 DEF Ended
  <2>. QED
    BY <1>2, <1>3, <1>10, <2>1, <2>3, Stops
<1>. QED
  BY <1>11, <1>12

(* Where the walk has ended: what it has found, and of which directory. *)
LEMMA AtListed ==
    ASSUME IInv, pc = "listed"
    PROVE  /\ \E n \in 0 .. ClusterCount : Good(dir, n) /\ results = Got(dir, n)
           /\ results \in Seq(Marks) /\ (results # <<>> => valid) /\ found = None
           /\ ~failed => EntriesOf(dir) = IF valid THEN <<results>> ELSE None
           /\ \A name : SubDir(results, name) # None \/ SubEntry(results, name) # None => valid
           /\ VolumeOK /\ TypeOK /\ failed \in BOOLEAN /\ valid \in BOOLEAN
           /\ path \in Seq(ToSet(path)) /\ Len(path) \in Nat
           /\ todo \in Seq(ToSet(todo)) /\ Len(todo) \in Nat
<1>1. /\ \E n \in 0 .. ClusterCount : Good(dir, n) /\ results = Got(dir, n)
      /\ results # <<>> => valid
      /\ ~failed => EntriesOf(dir) = IF valid THEN <<results>> ELSE None
  BY DEF IInv, Walking
<1>2. /\ VolumeOK /\ TypeOK /\ failed \in BOOLEAN /\ valid \in BOOLEAN
      /\ results \in Seq(Marks)
  BY Enough
<1>3. path \in Seq(ToSet(path)) /\ Len(path) \in Nat
      /\ todo \in Seq(ToSet(todo)) /\ Len(todo) \in Nat
  BY DEF IInv, VolumeOK
<1>4. ASSUME NEW name, results = <<>>
      PROVE  SubDir(results, name) = None /\ SubEntry(results, name) = None
  <2>1. \A i : i \notin DOMAIN results
    BY <1>4
  <2>. QED
    BY <2>1, <1>2, SubDirIs, SubEntryIs
<1>5. found = None
  BY DEF IInv, Having
<1>. QED
  BY <1>1, <1>2, <1>3, <1>4, <1>5

LEMMA ListDescends ==
    ASSUME IInv, DescendToList
    PROVE  IInv'
<1>. DEFINE m == SubDir(results, Head(todo))
<1>1. /\ pc = "listed" /\ goal = "list" /\ todo # <<>>
      /\ UNCHANGED <<volume, goal, client, failed>>
      /\ IF m = None THEN Stop
         ELSE IF m[1].entry.first < 2 THEN Stop ELSE Descend(m[1])
  BY DEF DescendToList
<1>2. PICK k \in 0 .. Len(path) :
          /\ Len(todo) = Len(path) - k
          /\ \A i \in 1 .. Len(todo) :
                todo[i] = IF k + i <= Len(path) THEN path[k + i] ELSE target[1]
          /\ \E ds \in [0 .. k -> Places] : Trail(ds, k) /\ dir = ds[k]
          /\ ~failed => DirAt[k] = <<dir>> /\ Prepared
  <2>1. Len(path) \in Nat
    BY AtListed, <1>1
  <2>2. Going
    BY DEF IInv
  <2>3. PICK k \in 0 .. Len(path) :
          /\ Len(todo) = Len(path) - k + IF goal = "list" THEN 0 ELSE 1
          /\ \A i \in 1 .. Len(todo) :
                todo[i] = IF k + i <= Len(path) THEN path[k + i] ELSE target[1]
          /\ IF goal = "list"
             THEN \E ds \in [0 .. k -> Places] : Trail(ds, k) /\ dir = ds[k]
             ELSE \E ds \in [0 .. Len(path) -> Places] :
                     Trail(ds, Len(path)) /\ dir = ds[k] /\ ListingOf(ds[Len(path)])
          /\ ~failed => DirAt[k] = <<dir>> /\ Prepared
    BY <2>2, <1>1 DEF Going
  <2>4. Len(todo) = Len(path) - k
    BY <2>1, <2>3, <1>1
  <2>. QED
    BY <2>3, <2>4, <1>1
<1>3. PICK ds \in [0 .. k -> Places] : Trail(ds, k) /\ dir = ds[k]
  BY <1>2
<1>4. PICK n \in 0 .. ClusterCount : Good(dir, n) /\ results = Got(dir, n)
  BY <1>1, AtListed
<1>5. /\ results \in Seq(Marks) /\ failed \in BOOLEAN /\ found = None /\ VolumeOK
      /\ Len(path) \in Nat /\ todo \in Seq(ToSet(todo)) /\ Len(todo) \in Nat
      /\ UNCHANGED volume /\ path' = path /\ goal' = goal /\ failed' = failed /\ found' = found
      /\ (m # None => valid)
      /\ (~failed => EntriesOf(dir) = IF valid THEN <<results>> ELSE None)
  BY <1>1, AtListed DEF volume, client
<1>6. Len(todo) > 0 /\ k \in Nat /\ k + 1 \in 0 .. Len(path) /\ Head(todo) = path[k + 1]
  <2>1. Len(todo) > 0
    BY <1>1, <1>5
  <2>2. Head(todo) = todo[1] /\ 1 \in 1 .. Len(todo) /\ k + 1 <= Len(path)
    BY <2>1, <1>2, <1>5
  <2>. QED
    BY <2>1, <2>2, <1>2, <1>5
<1>. HIDE DEF m
<1>7. m = SubDir(results, path[k + 1])
  BY <1>6 DEF m
<1>8. ~failed => DirAt[k + 1] = IF m = None THEN None
                                ELSE IF m[1].entry.first < 2 THEN None ELSE <<Place(m[1])>>
  <2>1. SUFFICES ASSUME ~failed
                 PROVE  DirAt[k + 1] = IF m = None THEN None
                                ELSE IF m[1].entry.first < 2 THEN None ELSE <<Place(m[1])>>
    OBVIOUS
  <2>2. DirAt[k] = <<dir>>
    BY <1>2, <2>1
  <2>3. CASE valid
    <3>1. EntriesOf(dir) = <<results>>
      BY <2>1, <2>3, <1>5
    <3>. QED
      BY <3>1, <2>2, <1>6, <1>7, BelowIs
  <2>4. CASE ~valid
    BY <2>1, <2>2, <2>4, <1>5, <1>6, BelowIsNone
  <2>. QED
    BY <2>3, <2>4
<1>9. CASE m # None /\ ~(m[1].entry.first < 2)
  <2>1. OpenDir(Place(m[1])) /\ todo' = Tail(todo)
    BY <1>1, <1>9 DEF m, Descend
  <2>2. PICK r \in Marks : m = <<r>>
    BY <1>5, <1>7, <1>9, SubDirIs
  <2>. DEFINE d == Place(r)
  <2>3. d \in Places /\ m[1] = r /\ d.first >= 2
    <3>1. m[1] = r
      BY <2>2
    <3>2. d.first = r.entry.first
      BY DEF Place
    <3>. QED
      BY <3>1, <3>2, <1>5, <1>9, MarkIs DEF Places
  <2>. HIDE DEF d
  <2>4. OpenDir(d)
    BY <2>1, <2>3 DEF d
  <2>5. /\ TypeOK' /\ Walking' /\ dir' \in Places' /\ results' \in Seq(Marks')
        /\ dir' = d /\ pc' = "walk"
    <3>1. goal' \in {"list", "find"} /\ failed' \in BOOLEAN
      BY <1>1, <1>5
    <3>. QED
      BY <1>5, <2>3, <2>4, <3>1, Opens
  <2>6. VolumeOK' /\ Places' = Places /\ \A es : \A i \in Nat : Trail(es, i)' <=> Trail(es, i)
    BY <1>5, WordsStay
  <2>7. DirAt' = DirAt /\ Prepared' = Prepared
    BY <1>5, VolumeStays
  <2>8. Going'
    <3>. DEFINE es == [i \in 0 .. k + 1 |-> IF i = k + 1 THEN d ELSE ds[i]]
    <3>1. es \in [0 .. k + 1 -> Places]
      <4>1. \A i \in 0 .. k + 1 : i = k + 1 \/ i \in 0 .. k
        BY <1>6
      <4>. QED
        BY <4>1, <2>3
    <3>2. es[k + 1] = d /\ \A i \in 0 .. k : es[i] = ds[i]
      BY <1>6
    <3>. HIDE DEF es
    <3>3. Leads(es[k], path[k + 1], es[k + 1])
      <4>1. es[k] = dir /\ es[k + 1] = Place(r)
        BY <1>3, <1>6, <3>2 DEF d
      <4>2. SubDir(Got(dir, n), path[k + 1]) = m
        BY <1>4, <1>7
      <4>3. Place(r).first >= 2
        BY <2>3 DEF d
      <4>. QED
        BY <1>4, <1>9, <2>3, <4>1, <4>2, <4>3 DEF Leads
    <3>4. Trail(es, k + 1)
      <4>1. es[0] = Root
        BY <1>3, <1>6, <3>2 DEF Trail
      <4>2. ASSUME NEW i \in 0 .. (k + 1) - 1 PROVE Leads(es[i], path[i + 1], es[i + 1])
        <5>1. CASE i = k
          BY <5>1, <3>3
        <5>2. CASE i # k
          <6>1. i \in 0 .. k - 1 /\ i \in 0 .. k /\ i + 1 \in 0 .. k
            BY <5>2, <1>6
          <6>2. Leads(ds[i], path[i + 1], ds[i + 1])
            BY <6>1, <1>3 DEF Trail
          <6>. QED
            BY <6>1, <6>2, <3>2
        <5>. QED
          BY <5>1, <5>2
      <4>. QED
        BY <4>1, <4>2 DEF Trail
    <3>5. Trail(es, k + 1)'
      <4>1. k + 1 \in Nat
        BY <1>6
      <4>. QED
        BY <3>4, <4>1, <2>6
    <3>6. es \in [0 .. k + 1 -> Places'] /\ dir' = es[k + 1]
      BY <3>1, <3>2, <2>5, <2>6
    <3>7. Len(todo') = Len(path) - (k + 1)
          /\ \A i \in 1 .. Len(todo') : i + 1 \in 1 .. Len(todo) /\ todo'[i] = todo[i + 1]
      BY <2>1, <1>2, <1>5, <1>6
    <3>8. \A i \in 1 .. Len(todo') :
              todo'[i] = IF (k + 1) + i <= Len(path) THEN path[(k + 1) + i] ELSE target'[1]
      <4>1. ASSUME NEW i \in 1 .. Len(todo')
            PROVE  (k + 1) + i <= Len(path) /\ todo'[i] = path[(k + 1) + i]
        <5>1. i + 1 \in 1 .. Len(todo) /\ todo'[i] = todo[i + 1] /\ k + (i + 1) <= Len(path)
              /\ k + (i + 1) = (k + 1) + i
          BY <3>7, <1>2, <1>5, <1>6
        <5>2. todo[i + 1] = path[k + (i + 1)]
          BY <5>1, <1>2
        <5>. QED
          BY <5>1, <5>2
      <4>. QED
        BY <4>1
    <3>9. ~failed' => DirAt'[k + 1] = <<dir'>> /\ Prepared'
      <4>1. ~failed => DirAt[k + 1] = <<Place(m[1])>>
        BY <1>8, <1>9
      <4>2. dir' = Place(m[1])
        BY <2>3, <2>5 DEF d
      <4>. QED
        BY <4>1, <4>2, <1>2, <1>5, <2>7
    <3>10. Len(todo') = Len(path') - (k + 1) + IF goal' = "list" THEN 0 ELSE 1
      BY <3>7, <1>1, <1>5, <1>6
    <3>. QED
      BY <3>5, <3>6, <3>8, <3>9, <3>10, <1>1, <1>5, <1>6 DEF Going
  <2>9. Having'
    BY <1>1, <2>5, HavingStays DEF client
  <2>10. Ended'
    BY <2>5 DEF Ended
  <2>11. todo' \in Seq(ToSet(todo'))
    <3>1. todo' \in Seq(ToSet(todo))
      BY <2>1, <1>1, <1>5
    <3>. QED
      BY <3>1, OwnSeq
  <2>. QED
    BY <2>5, <2>6, <2>8, <2>9, <2>10, <2>11 DEF IInv
<1>10. CASE ~(m # None /\ ~(m[1].entry.first < 2))
  <2>1. pc' = "done" /\ UNCHANGED <<todo, walk>>
    BY <1>1, <1>10 DEF m, Stop
  <2>2. Having'
    BY <1>1, <2>1, HavingStays DEF client
  <2>3. ~failed' => Directory' = None
    <3>1. SUFFICES ASSUME ~failed PROVE Directory = None
      BY <1>5, VolumeStays
    <3>2. DirAt[k + 1] = None
      BY <3>1, <1>8, <1>10
    <3>3. DirAt[Len(path)] = None
      <4>1. k + 1 \in Nat /\ k + 1 <= Len(path)
        BY <1>5, <1>6
      <4>. QED
        BY <3>2, <4>1, <1>5, NoneStays
    <3>. QED
      BY <3>3 DEF Directory
  <2>4. Ended'
    BY <1>1, <1>5, <2>3 DEF Ended
  <2>5. goal' \in {"list", "find"} /\ failed' \in BOOLEAN
    BY <1>1, <1>5
  <2>. QED
    BY <1>5, <2>1, <2>2, <2>4, <2>5, Stops
<1>. QED
  BY <1>9, <1>10

LEMMA GetsListing ==
    ASSUME IInv, Listed
    PROVE  IInv'
<1>1. /\ pc = "listed" /\ goal = "list" /\ todo = <<>>
      /\ listing' = IF valid THEN <<results>> ELSE None
      /\ pc' = IF valid THEN "client" ELSE "done"
      /\ UNCHANGED <<volume, goal, todo, walk, target, found, failed>>
  BY DEF Listed
<1>2. /\ results \in Seq(Marks) /\ failed \in BOOLEAN /\ valid \in BOOLEAN
      /\ found = None /\ VolumeOK /\ TypeOK /\ Len(path) \in Nat
      /\ UNCHANGED volume /\ path' = path /\ goal' = goal /\ failed' = failed /\ found' = found
      /\ target' = target
      /\ todo' = todo /\ dir' = dir /\ results' = results
      /\ (~failed => EntriesOf(dir) = IF valid THEN <<results>> ELSE None)
  BY <1>1, AtListed DEF volume, walk
<1>3. /\ Marks' = Marks /\ Places' = Places /\ VolumeOK'
      /\ \A ds : \A k \in Nat : Trail(ds, k)' <=> Trail(ds, k)
      /\ \A d : \A n \in Nat : (Good(d, n)' <=> Good(d, n)) /\ Got(d, n)' = Got(d, n)
  BY <1>2, WordsStay
<1>4. Directory' = Directory
  BY <1>2, VolumeStays
<1>5. Len(todo) = 0
  BY <1>1
<1>6. PICK k \in 0 .. Len(path) :
          /\ Len(todo) = Len(path) - k + IF goal = "list" THEN 0 ELSE 1
          /\ IF goal = "list"
             THEN \E ds \in [0 .. k -> Places] : Trail(ds, k) /\ dir = ds[k]
             ELSE \E ds \in [0 .. Len(path) -> Places] :
                     Trail(ds, Len(path)) /\ dir = ds[k] /\ ListingOf(ds[Len(path)])
          /\ ~failed => DirAt[k] = <<dir>> /\ Prepared
  <2>1. Going
    BY DEF IInv
  <2>. QED
    BY <1>1, <2>1 DEF Going
<1>7. k = Len(path)
  BY <1>1, <1>2, <1>5, <1>6
<1>8. PICK ds \in [0 .. Len(path) -> Places] : Trail(ds, Len(path)) /\ dir = ds[Len(path)]
  BY <1>1, <1>6, <1>7
<1>9. ~failed => Directory = IF valid THEN <<results>> ELSE None
  <2>1. SUFFICES ASSUME ~failed PROVE Directory = EntriesOf(dir)
    BY <1>2
  <2>2. DirAt[Len(path)] = <<dir>> /\ Prepared
    BY <2>1, <1>6, <1>7
  <2>3. \A x : <<x>> # None /\ <<x>>[1] = x
    BY DEF None
  <2>. QED
    BY <2>2, <2>3 DEF Directory
<1>10. Having'
  <2>0. goal' = "list" /\ target' = None /\ found' = None
    BY <1>1, <1>2 DEF IInv, Having
  <2>1. CASE valid
    <3>1. listing' = <<results>> /\ pc' = "client" /\ listing' # None
      BY <1>1, <2>1 DEF None
    <3>2. PICK n \in 0 .. ClusterCount : Good(dir, n) /\ results = Got(dir, n)
      BY <1>1, AtListed
    <3>3. \E i \in 0 .. ClusterCount :
             Good(ds[Len(path)], i)' /\ listing' = <<Got(ds[Len(path)], i)'>>
      <4>1. n \in Nat
        BY NumbersAssumption
      <4>2. PICK d : d = ds[Len(path)]
        OBVIOUS
      <4>3. Good(d, n)' /\ Got(d, n)' = results
        BY <4>1, <4>2, <3>2, <1>3, <1>8
      <4>4. Good(ds[Len(path)], n)' /\ Got(ds[Len(path)], n)' = results
        BY <4>2, <4>3, <1>2
      <4>. QED
        BY <4>4, <3>1
    <3>4. (\E es \in [0 .. Len(path) -> Places] :
                  Trail(es, Len(path)) /\ ListingOf(es[Len(path)]))'
      <4>1. Trail(ds, Len(path))'
        <5>1. PICK j \in Nat : j = Len(path)
          BY <1>2
        <5>2. Trail(ds, j)'
          BY <5>1, <1>3, <1>8
        <5>. QED
          BY <5>1, <5>2, <1>2
      <4>2. ListingOf(ds[Len(path)])'
        BY <3>3 DEF ListingOf
      <4>. QED
        BY <4>1, <4>2, <1>2, <1>3
    <3>5. ~failed' => listing' = Directory'
      BY <3>1, <2>1, <1>2, <1>4, <1>9
    <3>. QED
      BY <2>0, <3>1, <3>4, <3>5 DEF Having
  <2>2. CASE ~valid
    <3>1. listing' = None /\ pc' = "done"
      BY <1>1, <2>2
    <3>. QED
      BY <2>0, <3>1 DEF Having
  <2>. QED
    BY <2>1, <2>2
<1>11. Ended'
  <2>1. CASE valid
    BY <1>1, <2>1 DEF Ended
  <2>2. CASE ~valid
    <3>1. found' = None /\ goal' = "list" /\ (~failed' => Directory' = None)
      BY <1>1, <1>2, <1>4, <1>9, <2>2
    <3>. QED
      BY <3>1 DEF Ended
  <2>. QED
    BY <2>1, <2>2
<1>12. TypeOK'
  <2>1. pc' \in {"start", "walk", "sectors", "next", "listed", "client", "done"}
    BY <1>1
  <2>2. kind' = kind /\ cluster' = cluster /\ steps' = steps /\ visited' = visited
        /\ valid' = valid
    BY <1>1 DEF volume, walk
  <2>. QED
    BY <1>2, <2>1, <2>2, Zenon DEF TypeOK
<1>13. Walking' /\ Going'
  BY <1>1 DEF Walking, Going
<1>14. dir' \in Places' /\ todo' \in Seq(ToSet(todo')) /\ results' \in Seq(Marks')
  BY <1>2, <1>3 DEF IInv
<1>. QED
  BY <1>3, <1>10, <1>11, <1>12, <1>13, <1>14 DEF IInv

LEMMA BuildsNot ==
    ASSUME IInv, BuildFails
    PROVE  IInv'
<1>1. /\ pc = "listed" /\ goal = "list" /\ pc' = "done" /\ failed' = TRUE
      /\ UNCHANGED <<volume, goal, todo, walk, client>>
  BY DEF BuildFails
<1>2. found' = None
  BY <1>1, AtListed DEF client
<1>3. Having'
  BY <1>1, HavingStays DEF client
<1>4. Ended'
  BY <1>1, <1>2 DEF Ended
<1>5. goal' \in {"list", "find"} /\ failed' \in BOOLEAN
  <2>1. goal' \in {"list", "find"}
    BY <1>1
  <2>. QED
    BY <1>1, <2>1, Zenon
<1>. QED
  BY <1>1, <1>3, <1>4, <1>5, Stops

(* The lookup is on the way of the listing. *)
LEMMA AtFind ==
    ASSUME IInv, pc = "listed", goal = "find"
    PROVE  \E k \in 0 .. Len(path) :
              /\ Len(todo) = Len(path) - k + 1
              /\ \A i \in 1 .. Len(todo) :
                    todo[i] = IF k + i <= Len(path) THEN path[k + i] ELSE target[1]
              /\ \E ds \in [0 .. Len(path) -> Places] :
                    Trail(ds, Len(path)) /\ dir = ds[k] /\ ListingOf(ds[Len(path)])
              /\ ~failed => /\ DirAt[k] = <<dir>> /\ Prepared
                            /\ listing = Directory /\ listing # None
<1>1. Going /\ Having
  BY DEF IInv
<1>2. ~failed => listing = Directory /\ listing # None
  BY <1>1 DEF Having
<1>3. PICK k \in 0 .. Len(path) :
          /\ Len(todo) = Len(path) - k + IF goal = "list" THEN 0 ELSE 1
          /\ \A i \in 1 .. Len(todo) :
                todo[i] = IF k + i <= Len(path) THEN path[k + i] ELSE target[1]
          /\ IF goal = "list"
             THEN \E ds \in [0 .. k -> Places] : Trail(ds, k) /\ dir = ds[k]
             ELSE \E ds \in [0 .. Len(path) -> Places] :
                     Trail(ds, Len(path)) /\ dir = ds[k] /\ ListingOf(ds[Len(path)])
          /\ ~failed => DirAt[k] = <<dir>> /\ Prepared
  BY <1>1 DEF Going
<1>4. Len(todo) = Len(path) - k + 1
  BY <1>3
<1>. QED
  BY <1>2, <1>3, <1>4

(* Where names are unique ... *)
LEMMA NamesUnique ==
    ASSUME Unambiguous, NEW k \in 0 .. Len(path), NEW d, DirAt[k] = <<d>>,
           NEW s, EntriesOf(d) = <<s>>
    PROVE  \A p, q \in DOMAIN s : s[p].entry.name = s[q].entry.name => p = q
<1>1. EntriesOf(DirAt[k][1])[1] = s
  OBVIOUS
<1>2. \A p, q \in DOMAIN EntriesOf(DirAt[k][1])[1] :
         EntriesOf(DirAt[k][1])[1][p].entry.name = EntriesOf(DirAt[k][1])[1][q].entry.name
           => p = q
  BY DEF Unambiguous
<1>. QED
  BY <1>1, <1>2

(* ... the lookup meets the entry it is looking for. *)
LEMMA OnlyOne ==
    ASSUME NEW M, NEW s \in Seq(M), NEW i \in DOMAIN s,
           \A p, q \in DOMAIN s : s[p].entry.name = s[q].entry.name => p = q
    PROVE  SubEntry(s, s[i].entry.name) = <<s[i]>>
<1>1. \A j \in DOMAIN s : s[j].entry.name = s[i].entry.name => i <= j
  <2>1. i \in Nat
    OBVIOUS
  <2>. QED
    BY <2>1
<1>. QED
  BY <1>1, SubEntryIs

LEMMA FindDescends ==
    ASSUME IInv, DescendToFind
    PROVE  IInv'
<1>. DEFINE m == SubEntry(results, Head(todo))
<1>1. /\ pc = "listed" /\ goal = "find" /\ Len(todo) > 1
      /\ UNCHANGED <<volume, goal, client, failed>>
      /\ IF m = None THEN Stop
         ELSE IF ~m[1].entry.dir THEN Stop ELSE Descend(m[1])
  BY DEF DescendToFind
<1>2. PICK k \in 0 .. Len(path) :
          /\ Len(todo) = Len(path) - k + 1
          /\ \A i \in 1 .. Len(todo) :
                todo[i] = IF k + i <= Len(path) THEN path[k + i] ELSE target[1]
          /\ \E ds \in [0 .. Len(path) -> Places] :
                Trail(ds, Len(path)) /\ dir = ds[k] /\ ListingOf(ds[Len(path)])
          /\ ~failed => /\ DirAt[k] = <<dir>> /\ Prepared
                        /\ listing = Directory /\ listing # None
  BY <1>1, AtFind
<1>3. PICK ds \in [0 .. Len(path) -> Places] :
          Trail(ds, Len(path)) /\ dir = ds[k] /\ ListingOf(ds[Len(path)])
  BY <1>2
<1>4. PICK n \in 0 .. ClusterCount : Good(dir, n) /\ results = Got(dir, n)
  BY <1>1, AtListed
<1>5. /\ results \in Seq(Marks) /\ failed \in BOOLEAN /\ found = None /\ VolumeOK
      /\ Len(path) \in Nat /\ todo \in Seq(ToSet(todo)) /\ Len(todo) \in Nat
      /\ UNCHANGED volume /\ path' = path /\ goal' = goal /\ failed' = failed /\ found' = found
      /\ listing' = listing /\ target' = target
      /\ (m # None => valid)
      /\ (~failed => EntriesOf(dir) = IF valid THEN <<results>> ELSE None)
  BY <1>1, AtListed DEF volume, client
<1>6. /\ k \in Nat /\ k \in 0 .. Len(path) - 1 /\ k + 1 \in 0 .. Len(path) /\ k + 1 \in Nat
      /\ Head(todo) = path[k + 1]
  <2>1. k + 1 <= Len(path) /\ k \in Nat
    BY <1>1, <1>2, <1>5
  <2>2. Head(todo) = todo[1] /\ 1 \in 1 .. Len(todo)
    BY <1>1, <1>5
  <2>. QED
    BY <2>1, <2>2, <1>2, <1>5
<1>. HIDE DEF m
<1>7. m = SubEntry(results, path[k + 1])
  BY <1>6 DEF m
<1>8. PICK l \in 0 .. ClusterCount :
          /\ Good(dir, l) /\ SubDir(Got(dir, l), path[k + 1]) # None
          /\ ds[k + 1] = Place(SubDir(Got(dir, l), path[k + 1])[1]) /\ ds[k + 1].first >= 2
  BY <1>3, <1>6 DEF Trail, Leads
<1>9. CASE m # None /\ m[1].entry.dir
  <2>1. OpenDir(Place(m[1])) /\ todo' = Tail(todo)
    BY <1>1, <1>9 DEF m, Descend
  <2>2. SubDir(results, path[k + 1]) = m
    BY <1>5, <1>7, <1>9, DirectoryFirst
  <2>3. Place(m[1]) = ds[k + 1]
    <3>1. SubDir(Got(dir, l), path[k + 1]) = m
      BY <1>4, <1>5, <1>8, <1>9, <2>2, SameFirst
    <3>. QED
      BY <3>1, <1>8
  <2>4. PICK d \in Places : d = ds[k + 1]
    BY <1>3, <1>6
  <2>5. /\ TypeOK' /\ Walking' /\ dir' \in Places' /\ results' \in Seq(Marks')
        /\ dir' = d /\ pc' = "walk"
    <3>1. goal' \in {"list", "find"} /\ failed' \in BOOLEAN
      BY <1>1, <1>5
    <3>2. OpenDir(d) /\ d.first >= 2
      BY <2>1, <2>3, <2>4, <1>8
    <3>. QED
      BY <1>5, <3>1, <3>2, Opens
  <2>6. /\ VolumeOK' /\ Marks' = Marks /\ Places' = Places
        /\ \A es : \A i \in Nat : Trail(es, i)' <=> Trail(es, i)
        /\ \A e : \A i \in Nat : (Good(e, i)' <=> Good(e, i)) /\ Got(e, i)' = Got(e, i)
    BY <1>5, WordsStay
  <2>7. DirAt' = DirAt /\ Prepared' = Prepared
    BY <1>5, VolumeStays
  <2>8. \A e : ListingOf(e)' <=> ListingOf(e)
    BY <1>5, <2>6, NumbersAssumption DEF ListingOf
  <2>9. Going'
    <3>1. Trail(ds, Len(path))' /\ ListingOf(ds[Len(path)])'
      <4>1. PICK j \in Nat : j = Len(path)
        BY <1>5
      <4>2. Trail(ds, j)' /\ ListingOf(ds[j])'
        BY <4>1, <1>3, <2>6, <2>8
      <4>. QED
        BY <4>1, <4>2, <1>5
    <3>2. ds \in [0 .. Len(path') -> Places'] /\ dir' = ds[k + 1]
      BY <1>3, <1>5, <2>4, <2>5, <2>6
    <3>3. Len(todo') = Len(path) - (k + 1) + 1
          /\ \A i \in 1 .. Len(todo') : i + 1 \in 1 .. Len(todo) /\ todo'[i] = todo[i + 1]
      BY <2>1, <1>1, <1>2, <1>5, <1>6
    <3>4. \A i \in 1 .. Len(todo') :
              todo'[i] = IF (k + 1) + i <= Len(path) THEN path[(k + 1) + i] ELSE target'[1]
      <4>1. ASSUME NEW i \in 1 .. Len(todo')
            PROVE  todo'[i] = IF (k + 1) + i <= Len(path) THEN path[(k + 1) + i] ELSE target[1]
        <5>1. i + 1 \in 1 .. Len(todo) /\ todo'[i] = todo[i + 1] /\ k + (i + 1) = (k + 1) + i
          BY <3>3, <1>6
        <5>2. todo[i + 1] = IF k + (i + 1) <= Len(path) THEN path[k + (i + 1)] ELSE target[1]
          BY <5>1, <1>2
        <5>. QED
          BY <5>1, <5>2
      <4>. QED
        BY <4>1, <1>5
    <3>5. ~failed' => DirAt'[k + 1] = <<dir'>> /\ Prepared'
      <4>1. SUFFICES ASSUME ~failed PROVE DirAt[k + 1] = <<d>> /\ Prepared
        BY <1>5, <2>5, <2>7
      <4>2. EntriesOf(dir) = <<results>>
        BY <4>1, <1>5, <1>9
      <4>3. DirAt[k] = <<dir>> /\ Prepared
        BY <4>1, <1>2
      <4>4. DirAt[k + 1] = IF m = None THEN None
                           ELSE IF m[1].entry.first < 2 THEN None ELSE <<Place(m[1])>>
        BY <4>2, <4>3, <1>6, <2>2, BelowIs
      <4>5. ~(m[1].entry.first < 2)
        <5>1. Place(m[1]).first = m[1].entry.first
          BY DEF Place
        <5>2. PICK x : x = m[1].entry.first
          OBVIOUS
        <5>3. x >= 2 /\ x \in Nat
          <6>1. d.first \in Nat
            BY <1>5, PlaceIs
          <6>. QED
            BY <5>1, <5>2, <6>1, <2>3, <2>4, <1>8
        <5>. QED
          BY <5>2, <5>3
      <4>. QED
        BY <4>3, <4>4, <4>5, <1>9, <2>3, <2>4
    <3>6. Len(todo') = Len(path') - (k + 1) + IF goal' = "list" THEN 0 ELSE 1
      BY <3>3, <1>1, <1>5
    <3>7. goal' # "list" /\ k + 1 \in 0 .. Len(path')
      BY <1>1, <1>5, <1>6
    <3>. QED
      BY <3>1, <3>2, <3>4, <3>5, <3>6, <3>7, <1>5 DEF Going
  <2>10. Having'
    BY <1>1, <2>5, HavingStays DEF client
  <2>11. Ended'
    BY <2>5 DEF Ended
  <2>12. todo' \in Seq(ToSet(todo'))
    <3>1. todo' \in Seq(ToSet(todo))
      BY <2>1, <1>1, <1>5
    <3>. QED
      BY <3>1, OwnSeq
  <2>. QED
    BY <2>5, <2>6, <2>9, <2>10, <2>11, <2>12 DEF IInv
<1>10. CASE ~(m # None /\ m[1].entry.dir)
  <2>1. pc' = "done" /\ UNCHANGED <<todo, walk>>
    BY <1>1, <1>10 DEF m, Stop
  <2>2. Having'
    BY <1>1, <2>1, HavingStays DEF client
  <2>3. ~(~failed /\ Unambiguous)
    <3>1. SUFFICES ASSUME ~failed, Unambiguous PROVE FALSE
      OBVIOUS
    <3>2. DirAt[k] = <<dir>> /\ listing = Directory /\ listing # None
      BY <3>1, <1>2
    <3>3. DirAt[k + 1] # None
      <4>1. DirAt[Len(path)] # None
        BY <3>2 DEF Directory
      <4>2. k + 1 <= Len(path)
        BY <1>5, <1>6
      <4>. QED
        BY <4>1, <4>2, <1>5, <1>6, NoneStays
    <3>4. valid /\ EntriesOf(dir) = <<results>>
      <4>1. EntriesOf(dir) # None
        BY <3>2, <3>3, <1>6, BelowIsNone
      <4>. QED
        BY <4>1, <3>1, <1>5
    <3>5. SubDir(results, path[k + 1]) # None
      <4>1. PICK x : x = SubDir(results, path[k + 1])
        OBVIOUS
      <4>2. DirAt[k + 1] = IF x = None THEN None
                           ELSE IF x[1].entry.first < 2 THEN None ELSE <<Place(x[1])>>
        BY <4>1, <3>2, <3>4, <1>6, BelowIs
      <4>. QED
        BY <4>1, <4>2, <3>3
    <3>6. PICK i \in DOMAIN results :
             results[i].entry.name = path[k + 1] /\ results[i].entry.dir
      BY <3>5, <1>5, SubDirIs
    <3>7. SubEntry(results, path[k + 1]) = <<results[i]>>
      <4>1. k \in 0 .. Len(path)
        OBVIOUS
      <4>2. \A p, q \in DOMAIN results : results[p].entry.name = results[q].entry.name => p = q
        BY <4>1, <3>1, <3>2, <3>4, NamesUnique
      <4>3. SubEntry(results, results[i].entry.name) = <<results[i]>>
        BY <4>2, <1>5, OnlyOne
      <4>. QED
        BY <4>3, <3>6
    <3>8. m # None /\ m[1].entry.dir
      <4>1. \A x : <<x>> # None /\ <<x>>[1] = x
        BY DEF None
      <4>. QED
        BY <4>1, <3>6, <3>7, <1>7
    <3>. QED
      BY <3>8, <1>10
  <2>4. Ended'
    <3>1. ~(~failed' /\ Unambiguous') /\ goal' # "list" /\ found' = None
      BY <2>3, <1>1, <1>5, VolumeStays
    <3>. QED
      BY <3>1 DEF Ended
  <2>5. goal' \in {"list", "find"} /\ failed' \in BOOLEAN
    BY <1>1, <1>5
  <2>. QED
    BY <1>5, <2>1, <2>2, <2>4, <2>5, Stops
<1>. QED
  BY <1>9, <1>10

LEMMA Finishes ==
    ASSUME IInv, Found
    PROVE  IInv'
<1>. DEFINE m == SubEntry(results, Head(todo))
<1>1. /\ pc = "listed" /\ goal = "find" /\ Len(todo) = 1 /\ pc' = "done"
      /\ found' = IF m = None THEN None ELSE IF m[1].entry.dir THEN None ELSE m
      /\ UNCHANGED <<volume, goal, todo, walk, listing, target, failed>>
  BY DEF Found
<1>2. PICK k \in 0 .. Len(path) :
          /\ Len(todo) = Len(path) - k + 1
          /\ \A i \in 1 .. Len(todo) :
                todo[i] = IF k + i <= Len(path) THEN path[k + i] ELSE target[1]
          /\ \E ds \in [0 .. Len(path) -> Places] :
                Trail(ds, Len(path)) /\ dir = ds[k] /\ ListingOf(ds[Len(path)])
          /\ ~failed => /\ DirAt[k] = <<dir>> /\ Prepared
                        /\ listing = Directory /\ listing # None
  BY <1>1, AtFind
<1>3. /\ results \in Seq(Marks) /\ failed \in BOOLEAN /\ VolumeOK
      /\ Len(path) \in Nat /\ todo \in Seq(ToSet(todo))
      /\ (m # None => valid)
      /\ (~failed => EntriesOf(dir) = IF valid THEN <<results>> ELSE None)
  BY <1>1, AtListed
<1>4. k = Len(path) /\ Head(todo) = target[1]
  <2>0. Len(todo) = 1 /\ Len(todo) = Len(path) - k + 1 /\ Len(path) \in Nat
    BY <1>1, <1>2, <1>3
  <2>1. k = Len(path) /\ ~(k + 1 <= Len(path)) /\ 1 \in 1 .. Len(todo)
    <3>1. PICK l \in Nat : l = Len(path)
      BY <2>0
    <3>2. k \in 0 .. l /\ l - k + 1 = 1
      BY <2>0, <3>1
    <3>3. k = l /\ ~(k + 1 <= l)
      BY <3>2
    <3>4. 1 \in 1 .. 1
      OBVIOUS
    <3>. QED
      BY <2>0, <3>1, <3>3, <3>4
  <2>2. Head(todo) = todo[1]
    BY <1>1, <1>3
  <2>. QED
    BY <2>1, <2>2, <1>2
<1>5. ListingOf(dir)
  BY <1>2, <1>4
<1>6. PICK n \in 0 .. ClusterCount : Good(dir, n) /\ listing = <<Got(dir, n)>>
  BY <1>5 DEF ListingOf
<1>7. PICK l \in 0 .. ClusterCount : Good(dir, l) /\ results = Got(dir, l)
  BY <1>1, AtListed
<1>8. PICK s : s = Got(dir, n)
  OBVIOUS
<1>9. s \in Seq(Marks) /\ listing[1] = s
  <2>1. n \in Nat
    BY NumbersAssumption
  <2>. QED
    BY <2>1, <1>3, <1>6, <1>8, AllFine DEF Fine
<1>10. PICK i \in DOMAIN s : ~s[i].entry.dir /\ target = <<s[i].entry.name>>
  <2>1. \E i \in DOMAIN listing[1] :
            ~listing[1][i].entry.dir /\ target = <<listing[1][i].entry.name>>
    BY <1>1 DEF IInv, Having
  <2>. QED
    BY <2>1, <1>9
<1>11. target[1] = s[i].entry.name
  BY <1>10
<1>. HIDE DEF m
<1>12. m = SubEntry(results, target[1])
  BY <1>4 DEF m
<1>13. m # None => m = SubEntry(s, target[1])
  <2>1. SubEntry(s, target[1]) # None
    BY <1>9, <1>11, SubEntryIs
  <2>. QED
    BY <2>1, <1>3, <1>6, <1>7, <1>8, <1>12, SameFirst
<1>14. ~failed /\ Unambiguous => m # None /\ ~m[1].entry.dir
  <2>1. SUFFICES ASSUME ~failed, Unambiguous PROVE m # None /\ ~m[1].entry.dir
    OBVIOUS
  <2>2. \A x : <<x>> # None /\ <<x>>[1] = x
    BY DEF None
  <2>3. DirAt[Len(path)] = <<dir>> /\ listing = Directory /\ listing # None /\ Prepared
    BY <2>1, <1>2, <1>4
  <2>4. listing = EntriesOf(dir)
    BY <2>2, <2>3 DEF Directory
  <2>5. listing = <<results>>
    BY <2>1, <2>3, <2>4, <1>3
  <2>6. results = s /\ EntriesOf(dir) = <<s>>
    BY <2>2, <2>4, <2>5, <1>9
  <2>7. SubEntry(s, s[i].entry.name) = <<s[i]>>
    <3>1. PICK j \in 0 .. Len(path) : j = Len(path)
      BY <1>3
    <3>2. DirAt[j] = <<dir>> /\ EntriesOf(dir) = <<s>>
      BY <3>1, <2>3, <2>6
    <3>3. \A p, q \in DOMAIN s : s[p].entry.name = s[q].entry.name => p = q
      BY <3>1, <3>2, <2>1, NamesUnique
    <3>. QED
      BY <3>3, <1>9, OnlyOne
  <2>8. m = <<s[i]>>
    BY <2>6, <2>7, <1>11, <1>12
  <2>. QED
    BY <2>2, <2>8, <1>10
<1>15. Having'
  BY <1>1, HavingStays
<1>16. Ended'
  <2>1. goal' = "find" /\ listing' = listing /\ target' = target /\ failed' = failed
        /\ UNCHANGED volume
    BY <1>1
  <2>2. found' = IF m = None THEN None ELSE IF m[1].entry.dir THEN None ELSE m
    BY <1>1 DEF m
  <2>3. found' # None => found' = SubEntry(listing'[1], target'[1])
    BY <2>1, <2>2, <1>9, <1>13
  <2>4. ~failed' /\ Unambiguous' => found' # None
    BY <2>1, <2>2, <1>14, VolumeStays
  <2>. QED
    BY <2>1, <2>3, <2>4 DEF Ended
<1>17. goal' \in {"list", "find"} /\ failed' \in BOOLEAN
  BY <1>1, <1>3
<1>. QED
  BY <1>1, <1>15, <1>16, <1>17, Stops

LEMMA Stutters ==
    ASSUME IInv, UNCHANGED vars
    PROVE  IInv'
<1>1. /\ UNCHANGED volume /\ kind' = kind /\ content' = content /\ path' = path
      /\ pc' = pc /\ goal' = goal /\ todo' = todo /\ dir' = dir /\ cluster' = cluster
      /\ steps' = steps /\ visited' = visited /\ results' = results /\ valid' = valid
      /\ listing' = listing /\ target' = target /\ found' = found /\ failed' = failed
  BY DEF vars, volume, walk, client
<1>2. /\ Marks' = Marks /\ Places' = Places /\ VolumeOK'
      /\ \A d : \A n \in Nat : /\ At(d, n)' = At(d, n) /\ Got(d, n)' = Got(d, n)
                               /\ Good(d, n)' <=> Good(d, n)
  BY <1>1, WordsStay DEF IInv
<1>3. TypeOK'
  BY <1>1, Zenon DEF IInv, TypeOK
<1>4. Going'
  <2>1. CASE pc \in {"walk", "sectors", "next", "listed"}
    BY <1>1, <2>1, GoingStays
  <2>2. CASE pc \notin {"walk", "sectors", "next", "listed"}
    BY <1>1, <2>2 DEF Going
  <2>. QED
    BY <2>1, <2>2
<1>5. Having'
  BY <1>1, <1>3, HavingStays DEF TypeOK
<1>6. Ended'
  BY <1>1, VolumeStays DEF IInv, Ended
<1>7. Walking'
  <2>1. \A n \in 0 .. ClusterCount : Scanned(n) => Scanned(n)'
    BY <1>1, ScannedStays
  <2>2. ASSUME NEW n \in Nat PROVE Entered(n) => Entered(n)'
    <3>1. {At(dir, i)' : i \in 0 .. n - 1} = {At(dir, i) : i \in 0 .. n - 1}
      <4>1. \A i \in 0 .. n - 1 : At(dir, i)' = At(dir, i)
        BY <1>1, <1>2
      <4>. QED
        BY <4>1
    <3>. QED
      BY <1>1, <3>1, Zenon DEF Entered
  <2>3. Walking
    BY DEF IInv
  <2>4. CASE pc = "walk"
    <3>1. PICK n \in 0 .. ClusterCount :
            /\ Scanned(n) /\ Entered(n)
            /\ cluster = At(dir, n) \/ (failed /\ cluster = EndOfChain)
      BY <2>3, <2>4 DEF Walking
    <3>2. n \in Nat /\ Scanned(n)' /\ Entered(n)'
      BY <2>1, <2>2, <3>1, NumbersAssumption
    <3>3. (cluster = At(dir, n) \/ (failed /\ cluster = EndOfChain))'
      BY <1>1, <1>2, <3>1, <3>2 DEF EndOfChain
    <3>4. (\E k \in 0 .. ClusterCount :
             /\ Scanned(k) /\ Entered(k)
             /\ cluster = At(dir, k) \/ (failed /\ cluster = EndOfChain))'
      BY <3>2, <3>3
    <3>. QED
      BY <1>1, <2>4, <3>4 DEF Walking
  <2>5. CASE pc = "sectors"
    <3>1. PICK n \in 0 .. ClusterCount - 1 :
            /\ Scanned(n) /\ Entered(n + 1) /\ Good(dir, n + 1)
            /\ cluster = At(dir, n)
            /\ dir.flat /\ dir.len # 0 => n < dir.len
      BY <2>3, <2>5 DEF Walking
    <3>2. n \in Nat /\ n + 1 \in Nat /\ n \in 0 .. ClusterCount
      BY <3>1, NumbersAssumption
    <3>3. Scanned(n)' /\ Entered(n + 1)' /\ Good(dir, n + 1)'
      BY <2>1, <2>2, <3>1, <3>2, <1>1, <1>2
    <3>4. (cluster = At(dir, n))' /\ (dir.flat /\ dir.len # 0 => n < dir.len)'
      BY <1>1, <1>2, <3>1, <3>2
    <3>5. (\E k \in 0 .. ClusterCount - 1 :
             /\ Scanned(k) /\ Entered(k + 1) /\ Good(dir, k + 1)
             /\ cluster = At(dir, k)
             /\ dir.flat /\ dir.len # 0 => k < dir.len)'
      BY <3>3, <3>4
    <3>. QED
      BY <1>1, <2>5, <3>5 DEF Walking
  <2>6. CASE pc = "next"
    <3>1. PICK n \in 1 .. ClusterCount :
            /\ Scanned(n) /\ Entered(n)
            /\ cluster = At(dir, n - 1)
      BY <2>3, <2>6 DEF Walking
    <3>2. n \in Nat /\ n - 1 \in Nat /\ n \in 0 .. ClusterCount
      BY <3>1, NumbersAssumption
    <3>3. Scanned(n)' /\ Entered(n)' /\ (cluster = At(dir, n - 1))'
      BY <2>1, <2>2, <3>1, <3>2, <1>1, <1>2
    <3>4. (\E k \in 1 .. ClusterCount :
             /\ Scanned(k) /\ Entered(k)
             /\ cluster = At(dir, k - 1))'
      BY <3>3
    <3>. QED
      BY <1>1, <2>6, <3>4 DEF Walking
  <2>7. CASE pc = "listed"
    <3>1. PICK n \in 0 .. ClusterCount : Good(dir, n) /\ results = Got(dir, n)
      BY <2>3, <2>7 DEF Walking
    <3>2. valid \/ results = <<>>
      BY <2>3, <2>7 DEF Walking
    <3>3. ~failed => EntriesOf(dir) = IF valid THEN <<results>> ELSE None
      BY <2>3, <2>7 DEF Walking
    <3>. QED
      BY <1>1, <2>7, <3>1, <3>2, <3>3, NowListed
  <2>8. CASE pc \notin {"walk", "sectors", "next", "listed"}
    BY <1>1, <2>8 DEF Walking
  <2>. QED
    BY <2>4, <2>5, <2>6, <2>7, <2>8
<1>8. dir' \in Places' /\ todo' \in Seq(ToSet(todo')) /\ results' \in Seq(Marks')
  BY <1>1, <1>2 DEF IInv
<1>. QED
  BY <1>2, <1>3, <1>4, <1>5, <1>6, <1>7, <1>8 DEF IInv

-----------------------------------------------------------------------------
(* The theorems *)

LEMMA Inductive == Spec => []IInv
<1>1. Init => IInv
  BY Begun
<1>2. IInv /\ [Next]_vars => IInv'
  <2>. SUFFICES ASSUME IInv, [Next]_vars PROVE IInv'
    OBVIOUS
  <2>1. CASE List
    BY <2>1, Lists
  <2>2. CASE Find
    BY <2>2, Finds
  <2>3. CASE EndWalk
    BY <2>3, EndsWalk
  <2>4. CASE EnterCluster
    BY <2>4, EntersCluster
  <2>5. CASE Scan
    BY <2>5, Scans
  <2>6. CASE ScanFails
    BY <2>6, ScansNot
  <2>7. CASE Follow \/ FollowFails
    BY <2>7, Follows
  <2>8. CASE DescendToList
    BY <2>8, ListDescends
  <2>9. CASE Listed
    BY <2>9, GetsListing
  <2>10. CASE BuildFails
    BY <2>10, BuildsNot
  <2>11. CASE DescendToFind
    BY <2>11, FindDescends
  <2>12. CASE Found
    BY <2>12, Finishes
  <2>13. CASE UNCHANGED vars
    BY <2>13, Stutters
  <2>. QED
    BY <2>1, <2>2, <2>3, <2>4, <2>5, <2>6, <2>7, <2>8, <2>9, <2>10, <2>11, <2>12,
       <2>13 DEF Next
<1>. QED
  BY <1>1, <1>2, PTL DEF Spec

(* The walks of nativeListDir and nativeReadFile keep within their bounds: no
   more clusters are entered than the volume has, on exFAT by the count of the
   steps, and no listing has more than MAX_DIRECTORY_ENTRIES entries. *)
THEOREM TypeCorrect == Spec => []TypeOK
<1>1. IInv => TypeOK
  BY DEF IInv
<1>. QED
  BY <1>1, Inductive, PTL

(* On a volume that can be read, whatever its FAT, its bitmap and its records
   say, nativeListDir lists all of the directory or refuses it: all if its
   clusters are in range, allocated and not met twice up to its end marker, the
   end of its chain or its data length, and nothing otherwise; and no entry is in
   a listing twice, even where a FAT that cannot be read has cut the walk short. *)
THEOREM ListingComplete == Spec => []ListingIsWhole
<1>1. ASSUME IInv PROVE ListingIsWhole
  <2>1. Having /\ Ended /\ VolumeOK /\ goal \in {"list", "find"}
    BY <1>1 DEF IInv, TypeOK
  <2>2. ASSUME ~failed, listing # None \/ pc = "done" PROVE listing = Directory
    <3>1. CASE goal = "find" \/ pc = "client"
      BY <2>1, <2>2, <3>1 DEF Having
    <3>2. CASE goal = "list" /\ pc # "client"
      BY <2>1, <2>2, <3>2 DEF Having, Ended
    <3>. QED
      BY <2>1, <3>1, <3>2
  <2>3. ASSUME listing # None, NEW i \in DOMAIN listing[1], NEW j \in DOMAIN listing[1],
               listing[1][i].at = listing[1][j].at
        PROVE  i = j
    <3>1. goal = "find" \/ pc = "client"
      BY <2>1, <2>3 DEF Having
    <3>2. PICK ds \in [0 .. Len(path) -> Places] :
            Trail(ds, Len(path)) /\ ListingOf(ds[Len(path)])
      BY <2>1, <3>1 DEF Having
    <3>3. PICK d : d = ds[Len(path)]
      OBVIOUS
    <3>4. PICK n \in 0 .. ClusterCount : Good(d, n) /\ listing = <<Got(d, n)>>
      BY <3>2, <3>3 DEF ListingOf
    <3>5. Fine(d, n)
      <4>1. n \in Nat
        BY NumbersAssumption
      <4>. QED
        BY <2>1, <3>4, <4>1, AllFine
    <3>6. listing[1] = Got(d, n)
      BY <3>4
    <3>. QED
      BY <2>3, <3>5, <3>6 DEF Fine
  <2>. QED
    BY <2>2, <2>3 DEF ListingIsWhole
<1>. QED
  BY <1>1, Inductive, PTL

(* nativeReadFile looks a listed file up by rules of its own - the first entry of
   a name at each component, a directory or not, where nativeListDir takes the
   first directory - and still never opens another entry than the first of that
   name in the listing, reads that failed included; where names are unique and
   the volume can be read it opens that one. *)
THEOREM OpensListed == Spec => []OpensWhatWasListed
<1>1. ASSUME IInv PROVE OpensWhatWasListed
  <2>1. Having /\ Ended /\ TypeOK
    BY <1>1 DEF IInv
  <2>2. found # None => pc = "done"
    BY <2>1 DEF Having, TypeOK
  <2>. QED
    BY <2>1, <2>2 DEF Ended, OpensWhatWasListed
<1>. QED
  BY <1>1, Inductive, PTL
=============================================================================

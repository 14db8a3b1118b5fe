----------------------------- MODULE BuildProofs ----------------------------
(***************************************************************************)
(* Proofs about BuildStage, for any paths, contents, bases and sources:    *)
(* the layers of a build and the tree they show (TreesFit), what a build   *)
(* leaves behind (HeldFitsStep), and the overlay of any directories.       *)
(***************************************************************************)
EXTENDS BuildStage, FiniteSetTheorems, SequenceTheorems, WellFoundedInduction, TLAPS

\* A set of numbers that is not empty has a least one.
LEMMA LeastNumber ==
  ASSUME NEW S \in SUBSET Nat, S # {}
  PROVE  \E m \in S : \A n \in S : m <= n
<1>1. IsWellFoundedOn(OpToRel(<, Nat), Nat)
  BY NatLessThanWellFounded
<1>2. PICK m \in S : \A n \in S : ~(<<n, m>> \in OpToRel(<, Nat))
  BY <1>1, WFMin
<1>3. \A n \in S : ~(n < m)
  BY <1>2 DEF OpToRel
<1> QED
  BY <1>3

\* A set of numbers with 0 and the next of each has all of them.
LEMMA AllNumbers ==
  ASSUME NEW S \in SUBSET Nat, 0 \in S, \A k \in S : k + 1 \in S
  PROVE  S = Nat
<1> SUFFICES ASSUME Nat \ S # {} PROVE FALSE
  OBVIOUS
<1>1. PICK m \in Nat \ S : \A n \in Nat \ S : m <= n
  BY LeastNumber
<1>2. m # 0 /\ m - 1 \in Nat /\ m - 1 \notin Nat \ S
  BY <1>1
<1>3. m - 1 + 1 \in S
  BY <1>2
<1> QED
  BY <1>1, <1>2, <1>3

-----------------------------------------------------------------------------
(***************************************************************************)
(* Paths: what is above them, and their order in an archive.               *)
(***************************************************************************)
LEMMA StrictPrefixFacts ==
  ASSUME NEW p \in Seq(Nat), NEW q \in Seq(Nat)
  PROVE  IsStrictPrefix(p, q) <=> Len(p) < Len(q) /\ \A j \in 1..Len(p) : p[j] = q[j]
<1>1. Len(p) \in Nat /\ Len(q) \in Nat
  OBVIOUS
<1>2. p = [j \in 1..Len(p) |-> p[j]]
  OBVIOUS
<1>3. SubSeq(p, 1, Len(p)) = p
  BY <1>1, <1>2
<1>4. ASSUME Len(p) <= Len(q) PROVE SubSeq(q, 1, Len(p)) = [j \in 1..Len(p) |-> q[j]]
  BY <1>1, <1>4
<1>5. p # q /\ Len(p) = Len(q) => \E j \in 1..Len(p) : p[j] # q[j]
  OBVIOUS
<1>6. ASSUME Len(p) <= Len(q)
      PROVE  p = SubSeq(q, 1, Len(p)) <=> \A j \in 1..Len(p) : p[j] = q[j]
  BY <1>2, <1>4, <1>6
<1> QED
  BY <1>1, <1>3, <1>5, <1>6 DEF IsStrictPrefix, IsPrefix

\* What is above a path, and that it is above what is below it.
LEMMA AboveFacts ==
  ASSUME NEW p \in Seq(Nat)
  PROVE  \A q : q \in Above(p) <=> q \in Seq(Nat) /\ q # <<>> /\ IsStrictPrefix(q, p)
<1>1. Len(p) \in Nat
  OBVIOUS
<1>2. ASSUME NEW q \in Above(p) PROVE q \in Seq(Nat) /\ q # <<>> /\ IsStrictPrefix(q, p)
  <2>1. PICK l \in 0..Len(p) : q = SubSeq(p, 1, l)
    BY DEF Above, Prefixes
  <2>2. q \in Seq(Nat) /\ Len(q) = l /\ \A j \in 1..l : q[j] = p[j]
    BY <1>1, <2>1
  <2>3. q # <<>> /\ q # p
    BY DEF Above
  <2>4. l # Len(p)
    BY <2>2, <2>3
  <2>5. Len(q) < Len(p) /\ \A j \in 1..Len(q) : q[j] = p[j]
    BY <1>1, <2>2, <2>4
  <2> QED
    BY <2>2, <2>3, <2>5, StrictPrefixFacts
<1>3. ASSUME NEW q \in Seq(Nat), q # <<>>, IsStrictPrefix(q, p) PROVE q \in Above(p)
  <2>1. Len(q) < Len(p) /\ \A j \in 1..Len(q) : q[j] = p[j]
    BY <1>3, StrictPrefixFacts
  <2>2. Len(q) \in 0..Len(p)
    BY <1>1, <2>1
  <2>3. SubSeq(p, 1, Len(q)) = [j \in 1..Len(q) |-> p[j]]
    BY <1>1, <2>2
  <2>4. q = [j \in 1..Len(q) |-> q[j]]
    OBVIOUS
  <2>5. q = SubSeq(p, 1, Len(q))
    BY <2>1, <2>3, <2>4
  <2>6. q # p
    BY <1>3 DEF IsStrictPrefix
  <2> QED
    BY <1>3, <2>2, <2>5, <2>6 DEF Above, Prefixes
<1> QED
  BY <1>2, <1>3

\* A prefix of a prefix is one.
LEMMA PrefixTransitive ==
  ASSUME NEW p \in Seq(Nat), NEW q \in Seq(Nat), NEW r \in Seq(Nat),
         IsStrictPrefix(p, q), IsStrictPrefix(q, r)
  PROVE  IsStrictPrefix(p, r)
<1>1. /\ Len(p) < Len(q) /\ \A j \in 1..Len(p) : p[j] = q[j]
      /\ Len(q) < Len(r) /\ \A j \in 1..Len(q) : q[j] = r[j]
  BY StrictPrefixFacts
<1>2. Len(p) \in Nat /\ Len(q) \in Nat /\ Len(r) \in Nat
  OBVIOUS
<1>3. Len(p) < Len(r) /\ \A j \in 1..Len(p) : p[j] = r[j]
  BY <1>1, <1>2
<1> QED
  BY <1>3, StrictPrefixFacts

\* What is above something above p is above p.
LEMMA AboveTransitive ==
  ASSUME NEW p \in Seq(Nat), NEW q \in Above(p), NEW r \in Above(q)
  PROVE  r \in Above(p)
<1>1. q \in Seq(Nat) /\ IsStrictPrefix(q, p)
  BY AboveFacts
<1>2. r \in Seq(Nat) /\ r # <<>> /\ IsStrictPrefix(r, q)
  BY <1>1, AboveFacts
<1> QED
  BY <1>1, <1>2, PrefixTransitive, AboveFacts

\* The first place at which two paths differ.
DifferAt(p, q, i) ==
  i \in 1..Len(p) /\ i \in 1..Len(q) /\ p[i] < q[i] /\ \A j \in 1..(i - 1) : p[j] = q[j]

\* One path is before another: as its prefix, or by the first name they differ in.
LEMMA BeforeFacts ==
  ASSUME NEW p \in Seq(Nat), NEW q \in Seq(Nat)
  PROVE  PathBefore(p, q) <=> IsStrictPrefix(p, q) \/ \E i \in Nat : DifferAt(p, q, i)
BY DEF PathBefore, DifferAt

\* No path is before itself.
LEMMA BeforeIsStrict ==
  ASSUME NEW p \in Seq(Nat)
  PROVE  ~PathBefore(p, p)
<1>1. \A i \in 1..Len(p) : p[i] \in Nat
  OBVIOUS
<1> QED
  BY <1>1 DEF PathBefore, IsStrictPrefix

\* A path before one that is before a third is before the third.
LEMMA BeforeIsTransitive ==
  ASSUME NEW p \in Seq(Nat), NEW q \in Seq(Nat), NEW r \in Seq(Nat),
         PathBefore(p, q), PathBefore(q, r)
  PROVE  PathBefore(p, r)
<1>0. /\ Len(p) \in Nat /\ Len(q) \in Nat /\ Len(r) \in Nat
      /\ \A i \in 1..Len(p) : p[i] \in Nat
      /\ \A i \in 1..Len(q) : q[i] \in Nat
      /\ \A i \in 1..Len(r) : r[i] \in Nat
  OBVIOUS
<1>1. CASE IsStrictPrefix(p, q) /\ IsStrictPrefix(q, r)
  BY <1>1, PrefixTransitive DEF PathBefore
<1>2. ASSUME NEW i \in Nat, IsStrictPrefix(p, q), DifferAt(q, r, i) PROVE PathBefore(p, r)
  <2>1. Len(p) < Len(q) /\ \A j \in 1..Len(p) : p[j] = q[j]
    BY <1>2, StrictPrefixFacts
  <2>2. CASE i <= Len(p)
    <3>1. DifferAt(p, r, i)
      BY <1>0, <1>2, <2>1, <2>2 DEF DifferAt
    <3> QED
      BY <3>1, BeforeFacts
  <2>3. CASE i > Len(p)
    <3>1. Len(p) < Len(r) /\ \A j \in 1..Len(p) : p[j] = r[j]
      BY <1>0, <1>2, <2>1, <2>3 DEF DifferAt
    <3> QED
      BY <3>1, StrictPrefixFacts DEF PathBefore
  <2> QED
    BY <1>0, <2>2, <2>3
<1>3. ASSUME NEW i \in Nat, DifferAt(p, q, i), IsStrictPrefix(q, r) PROVE PathBefore(p, r)
  <2>1. Len(q) < Len(r) /\ \A j \in 1..Len(q) : q[j] = r[j]
    BY <1>3, StrictPrefixFacts
  <2>2. /\ i \in 1..Len(p) /\ i \in 1..Len(q) /\ p[i] < q[i]
        /\ \A j \in 1..(i - 1) : p[j] = q[j]
    BY <1>3 DEF DifferAt
  <2>3. i \in 1..Len(r) /\ q[i] = r[i] /\ \A j \in 1..(i - 1) : j \in 1..Len(q)
    <3>1. \A x, y \in Nat : \A k \in 1..x : x < y =>
            k \in 1..y /\ \A j \in 1..(k - 1) : j \in 1..x
      OBVIOUS
    <3>2. i \in 1..Len(r) /\ \A j \in 1..(i - 1) : j \in 1..Len(q)
      BY <1>0, <2>1, <2>2, <3>1
    <3> QED
      BY <2>1, <2>2, <3>2
  <2>4. \A j \in 1..(i - 1) : p[j] = r[j]
    BY <2>1, <2>2, <2>3
  <2>5. DifferAt(p, r, i)
    BY <2>2, <2>3, <2>4 DEF DifferAt
  <2> QED
    BY <2>5, BeforeFacts
<1>4. ASSUME NEW i \in Nat, NEW k \in Nat, DifferAt(p, q, i), DifferAt(q, r, k)
      PROVE  PathBefore(p, r)
  <2>1. CASE i < k
    <3>0. i \in 1..(k - 1) /\ (\A j \in 1..(i - 1) : j \in 1..(k - 1))
      BY <1>4, <2>1 DEF DifferAt
    <3>1. i \in 1..Len(r) /\ q[i] = r[i] /\ \A j \in 1..(i - 1) : q[j] = r[j]
      <4>1. i \in 1..Len(r)
        BY <1>0, <1>4, <2>1 DEF DifferAt
      <4> QED
        BY <1>4, <3>0, <4>1 DEF DifferAt
    <3>2. DifferAt(p, r, i)
      BY <1>4, <3>1 DEF DifferAt
    <3> QED
      BY <3>2, BeforeFacts
  <2>2. CASE i = k
    <3>1. /\ i \in 1..Len(p) /\ i \in 1..Len(q) /\ i \in 1..Len(r)
          /\ p[i] < q[i] /\ q[i] < r[i]
          /\ \A j \in 1..(i - 1) : p[j] = q[j] /\ q[j] = r[j]
      BY <1>4, <2>2 DEF DifferAt
    <3>2. p[i] < r[i]
      <4>1. \A x, y, z \in Nat : x < y /\ y < z => x < z
        OBVIOUS
      <4>2. \A s \in Seq(Nat) : \A j \in 1..Len(s) : s[j] \in Nat
        OBVIOUS
      <4>3. p[i] \in Nat /\ q[i] \in Nat /\ r[i] \in Nat
        BY <3>1, <4>2
      <4> QED
        BY <3>1, <4>1, <4>3
    <3>3. DifferAt(p, r, i)
      BY <3>1, <3>2 DEF DifferAt
    <3> QED
      BY <3>3, BeforeFacts
  <2>3. CASE i > k
    <3>0. k \in 1..(i - 1) /\ (\A j \in 1..(k - 1) : j \in 1..(i - 1))
      BY <1>4, <2>3 DEF DifferAt
    <3>1. k \in 1..Len(p) /\ p[k] = q[k] /\ \A j \in 1..(k - 1) : p[j] = q[j]
      <4>1. k \in 1..Len(p)
        BY <1>0, <1>4, <2>3 DEF DifferAt
      <4> QED
        BY <1>4, <3>0, <4>1 DEF DifferAt
    <3>2. DifferAt(p, r, k)
      BY <1>4, <3>1 DEF DifferAt
    <3> QED
      BY <3>2, BeforeFacts
  <2> QED
    BY <2>1, <2>2, <2>3
<1> QED
  BY <1>1, <1>2, <1>3, <1>4, BeforeFacts

\* Of two paths one is before the other.
LEMMA BeforeIsTotal ==
  ASSUME NEW p \in Seq(Nat), NEW q \in Seq(Nat), p # q
  PROVE  PathBefore(p, q) \/ PathBefore(q, p)
<1>0. /\ Len(p) \in Nat /\ Len(q) \in Nat
      /\ \A i \in 1..Len(p) : p[i] \in Nat
      /\ \A i \in 1..Len(q) : q[i] \in Nat
  OBVIOUS
<1> DEFINE differ == {i \in Nat : i \in 1..Len(p) /\ i \in 1..Len(q) /\ p[i] # q[i]}
<1>1. CASE differ = {}
  <2>1. \A i \in 1..Len(p) : i \in 1..Len(q) => p[i] = q[i]
    BY <1>1, SMTT(20)
  <2>2. Len(p) # Len(q)
    BY <2>1
  <2>3. CASE Len(p) < Len(q)
    <3>1. \A j \in 1..Len(p) : p[j] = q[j]
      BY <1>0, <2>1, <2>3
    <3>2. IsStrictPrefix(p, q)
      BY <2>3, <3>1, StrictPrefixFacts
    <3> QED
      BY <3>2 DEF PathBefore
  <2>4. CASE Len(q) < Len(p)
    <3>1. \A j \in 1..Len(q) : q[j] = p[j]
      BY <1>0, <2>1, <2>4
    <3>2. IsStrictPrefix(q, p)
      BY <2>4, <3>1, StrictPrefixFacts
    <3> QED
      BY <3>2 DEF PathBefore
  <2> QED
    BY <1>0, <2>2, <2>3, <2>4
<1>2. CASE differ # {}
  <2>0. differ \in SUBSET Nat
    OBVIOUS
  <2>1. PICK i \in differ : \A j \in differ : i <= j
    <3> HIDE DEF differ
    <3> QED
      BY <1>2, <2>0, LeastNumber
  <2>2. ASSUME NEW j \in 1..(i - 1) PROVE p[j] = q[j]
    <3>1. j \in Nat /\ j \in 1..Len(p) /\ j \in 1..Len(q) /\ ~(i <= j)
      BY <1>0, <2>1
    <3> QED
      BY <2>1, <3>1
  <2>3. p[i] < q[i] \/ q[i] < p[i]
    BY <1>0, <2>1
  <2>4. DifferAt(p, q, i) \/ DifferAt(q, p, i)
    BY <2>1, <2>2, <2>3 DEF DifferAt
  <2> QED
    BY <2>4, BeforeFacts
<1> QED
  BY <1>1, <1>2

\* An archive's paths in their order: each once, what is above one before it.
LEMMA InOrderFacts ==
  ASSUME NEW paths \in SUBSET Seq(Nat), IsFiniteSet(paths)
  PROVE  /\ Cardinality(paths) \in Nat
         /\ DOMAIN InOrder(paths) = 1..Cardinality(paths)
         /\ \A i \in 1..Cardinality(paths) : InOrder(paths)[i] \in paths
         /\ \A p \in paths : \E i \in 1..Cardinality(paths) : InOrder(paths)[i] = p
         /\ \A i, j \in 1..Cardinality(paths) :
              PathBefore(InOrder(paths)[i], InOrder(paths)[j]) => i < j
         /\ \A i, j \in 1..Cardinality(paths) : InOrder(paths)[i] = InOrder(paths)[j] => i = j
<1> DEFINE n == Cardinality(paths)
           Earlier(p) == {q \in paths : PathBefore(q, p)}
           rank == [p \in paths |-> Cardinality(Earlier(p)) + 1]
<1>1. n \in Nat
  BY FS_CardinalityType
<1>2. ASSUME NEW p \in paths
      PROVE  IsFiniteSet(Earlier(p)) /\ Cardinality(Earlier(p)) \in Nat /\ Cardinality(Earlier(p)) < n
  <2>1. Earlier(p) \subseteq paths /\ p \notin Earlier(p)
    BY BeforeIsStrict
  <2> HIDE DEF Earlier
  <2>2. IsFiniteSet(Earlier(p)) /\ Cardinality(Earlier(p)) <= n
        /\ (Cardinality(Earlier(p)) = n => Earlier(p) = paths)
    BY <2>1, FS_Subset
  <2>3. Cardinality(Earlier(p)) \in Nat
    BY <2>2, FS_CardinalityType
  <2> QED
    BY <1>1, <2>1, <2>2, <2>3
<1>3. ASSUME NEW p \in paths, NEW q \in paths, PathBefore(p, q)
      PROVE  Cardinality(Earlier(p)) < Cardinality(Earlier(q))
  <2>1. Earlier(p) \subseteq Earlier(q)
    BY <1>3, BeforeIsTransitive
  <2>2. p \in Earlier(q) /\ p \notin Earlier(p)
    BY <1>3, BeforeIsStrict
  <2>3. IsFiniteSet(Earlier(q)) /\ Cardinality(Earlier(p)) \in Nat /\ Cardinality(Earlier(q)) \in Nat
    BY <1>2
  <2> HIDE DEF Earlier
  <2>4. /\ Cardinality(Earlier(p)) <= Cardinality(Earlier(q))
        /\ Cardinality(Earlier(p)) = Cardinality(Earlier(q)) => Earlier(p) = Earlier(q)
    BY <2>1, <2>3, FS_Subset
  <2> QED
    BY <2>2, <2>3, <2>4
<1> HIDE DEF Earlier
<1>4. ASSUME NEW p \in paths, NEW q \in paths, Cardinality(Earlier(p)) = Cardinality(Earlier(q)),
             p # q
      PROVE  FALSE
  <2>1. PathBefore(p, q) \/ PathBefore(q, p)
    BY <1>4, BeforeIsTotal
  <2>2. Cardinality(Earlier(p)) \in Nat
    BY <1>2
  <2> QED
    BY <1>3, <1>4, <2>1, <2>2
<1>5. rank \in Injection(paths, 1..n)
  <2>1. rank \in [paths -> 1..n]
    BY <1>1, <1>2
  <2>2. \A p, q \in paths : rank[p] = rank[q] => p = q
    BY <1>2, <1>4
  <2> HIDE DEF rank
  <2> QED
    BY <2>1, <2>2 DEF Injection, IsInjective
<1>6. rank \in Surjection(paths, 1..n)
  <2>1. IsFiniteSet(1..n) /\ Cardinality(1..n) = n
    BY <1>1, FS_Interval
  <2> HIDE DEF rank
  <2> QED
    BY <1>5, <2>1, FS_Injection
<1>7. \A i \in 1..n : \E p \in paths : Cardinality(Earlier(p)) = i - 1
  <2>1. \A i \in 1..n : \E p \in paths : rank[p] = i
    <3> HIDE DEF rank
    <3> QED
      BY <1>6 DEF Surjection
  <2> QED
    BY <1>1, <1>2, <2>1
<1>8. /\ DOMAIN InOrder(paths) = 1..n
      /\ \A i \in 1..n : /\ InOrder(paths)[i] \in paths
                         /\ Cardinality(Earlier(InOrder(paths)[i])) = i - 1
  <2>1. InOrder(paths) = [i \in 1..n |-> CHOOSE p \in paths : Cardinality(Earlier(p)) = i - 1]
    BY DEF InOrder, Earlier
  <2> QED
    BY <1>7, <2>1
<1>9. \A p \in paths : \E i \in 1..n : InOrder(paths)[i] = p
  <2> SUFFICES ASSUME NEW p \in paths PROVE \E i \in 1..n : InOrder(paths)[i] = p
    OBVIOUS
  <2>1. Cardinality(Earlier(p)) + 1 \in 1..n
    BY <1>1, <1>2
  <2> QED
    BY <1>2, <1>4, <1>8, <2>1
<1>10. \A i, j \in 1..n : PathBefore(InOrder(paths)[i], InOrder(paths)[j]) => i < j
  BY <1>3, <1>8
<1>11. \A i, j \in 1..n : InOrder(paths)[i] = InOrder(paths)[j] => i = j
  BY <1>8
<1> QED
  BY <1>1, <1>8, <1>9, <1>10, <1>11

-----------------------------------------------------------------------------
(***************************************************************************)
(* What the extraction of a layer gives.  Every layer is of tree t, for    *)
(* paths S of it, and of paths G that are gone from it.                    *)
(***************************************************************************)
Nothing == [ok |-> TRUE, tree |-> EmptyTree, marks |-> {}]

\* The destination after each of the first n items of an archive.
Unpackings(g, archive, n) ==
  g = [i \in 0..n |-> IF i = 0 THEN Nothing ELSE Unpack(g[i - 1], archive[i])]

\* The recursion over the items has a value at each of them.
LEMMA UnpackingsExist ==
  ASSUME NEW archive
  PROVE  \A n \in Nat : \E g : Unpackings(g, archive, n)
<1> DEFINE have == {n \in Nat : \E g : Unpackings(g, archive, n)}
<1>1. 0 \in have
  <2> DEFINE g == [i \in 0..0 |-> Nothing]
  <2>1. Unpackings(g, archive, 0)
    BY DEF Unpackings
  <2> QED
    BY <2>1
<1>2. ASSUME NEW n \in have PROVE n + 1 \in have
  <2>1. n \in Nat
    OBVIOUS
  <2>2. PICK g : Unpackings(g, archive, n)
    OBVIOUS
  <2> DEFINE h == [i \in 0..(n + 1) |-> IF i = n + 1 THEN Unpack(g[n], archive[n + 1]) ELSE g[i]]
  <2>3. ASSUME NEW i \in 0..(n + 1)
        PROVE  h[i] = IF i = 0 THEN Nothing ELSE Unpack(h[i - 1], archive[i])
    <3>1. CASE i = n + 1
      <4>1. h[i - 1] = g[n] /\ h[i] = Unpack(g[n], archive[n + 1])
        BY <2>1, <3>1
      <4> HIDE DEF h
      <4> QED
        BY <2>1, <3>1, <4>1
    <3>2. CASE i # n + 1
      <4>1. i \in 0..n /\ h[i] = g[i] /\ (i # 0 => h[i - 1] = g[i - 1])
        BY <2>1, <3>2
      <4>2. g[i] = IF i = 0 THEN Nothing ELSE Unpack(g[i - 1], archive[i])
        BY <2>2, <4>1 DEF Unpackings
      <4> HIDE DEF h
      <4> QED
        BY <4>1, <4>2
    <3> QED
      BY <3>1, <3>2
  <2>4. h = [i \in 0..(n + 1) |-> h[i]]
    OBVIOUS
  <2> HIDE DEF h
  <2>5. Unpackings(h, archive, n + 1)
    BY <2>3, <2>4 DEF Unpackings
  <2> QED
    BY <2>1, <2>5
<1>3. have \in SUBSET Nat
  OBVIOUS
<1>4. have = Nat
  <2> HIDE DEF have
  <2> QED
    BY <1>1, <1>2, <1>3, AllNumbers
<1> QED
  BY <1>4

\* Unpacked is the last value of that recursion.
LEMMA UnpackedFacts ==
  ASSUME NEW archive, Len(archive) \in Nat
  PROVE  \E g : /\ Unpacked(archive) = g[Len(archive)]
                /\ g[0] = Nothing
                /\ \A i \in 1..Len(archive) : g[i] = Unpack(g[i - 1], archive[i])
<1> DEFINE g == CHOOSE g : Unpackings(g, archive, Len(archive))
<1>1. Unpackings(g, archive, Len(archive))
  BY UnpackingsExist
<1>2. Unpacked(archive) = g[Len(archive)]
  BY DEF Unpacked, Unpackings, Nothing
<1> HIDE DEF g
<1>3. g[0] = Nothing /\ \A i \in 1..Len(archive) : g[i] = Unpack(g[i - 1], archive[i])
  BY <1>1 DEF Unpackings
<1> QED
  BY <1>2, <1>3

\* What a tree or a layer may have at a path.
Entries == {"dir", "sticky"} \cup Contents

\* The directories that some path of S is in.
AboveAny(S) == UNION {Above(p) : p \in S}

\* The tree unpacked of the entries in S when all of S and G has its directories.
Spread(t, S, G) ==
  [q \in S \cup AboveAny(S \cup G) |-> IF q \in S THEN t[q] ELSE "dir"]

\* Domain and values of that tree.
LEMMA SpreadFacts ==
  ASSUME NEW t, NEW S, NEW G
  PROVE  /\ DOMAIN Spread(t, S, G) = S \cup AboveAny(S \cup G)
         /\ \A q \in DOMAIN Spread(t, S, G) : Spread(t, S, G)[q] = IF q \in S THEN t[q] ELSE "dir"
         /\ Spread(t, S, G) = [q \in DOMAIN Spread(t, S, G) |-> Spread(t, S, G)[q]]
         /\ \A p : AboveAny(S \cup {p}) = AboveAny(S) \cup Above(p)
BY DEF Spread, AboveAny

\* The paths of S whose entries are not passed over, and those of G whose ".wh." files
\* are not.
Kept(S) == {p \in S : ~HasTwoDots(p)}
Marked(G) == {p \in G : ~(HasTwoDots(p) \/ IsDotfile(p))}

\* Two dots in a path are in everything below it.
LEMMA TwoDotsBelow ==
  ASSUME NEW p \in Seq(Nat), NEW q \in Above(p), HasTwoDots(q)
  PROVE  HasTwoDots(p)
<1>1. q \in Seq(Nat) /\ IsStrictPrefix(q, p)
  BY AboveFacts
<1>2. Len(q) < Len(p) /\ \A j \in 1..Len(q) : q[j] = p[j]
  BY <1>1, StrictPrefixFacts
<1>3. PICK j \in 1..Len(q) : q[j] \in TwoDotNames
  BY <1>1 DEF HasTwoDots
<1>4. j \in DOMAIN p /\ p[j] \in TwoDotNames
  BY <1>1, <1>2, <1>3
<1> QED
  BY <1>4 DEF HasTwoDots

\* What is passed over changes nothing.
LEMMA PassedOverFacts ==
  ASSUME NEW p, NEW e, NEW dest
  PROVE  /\ e # "hidden" => (PassedOver([path |-> p, entry |-> e]) <=> HasTwoDots(p))
         /\ PassedOver([path |-> p, entry |-> "hidden"]) <=> HasTwoDots(p) \/ IsDotfile(p)
         /\ PassedOver([path |-> p, entry |-> e]) => Unpack(dest, [path |-> p, entry |-> e]) = dest
BY DEF PassedOver, Unpack

\* Paths of a tree that come with what is above them.
LEMMA UnpackItem ==
  ASSUME NEW t, IsTree(t), DOMAIN t \subseteq Seq(Nat), <<>> \notin DOMAIN t,
         NEW S \in SUBSET DOMAIN t, NEW p \in DOMAIN t, t[p] # "hidden", ~HasTwoDots(p),
         \A r \in S : ~IsStrictPrefix(p, r),
         NEW dest, dest.ok, dest = [ok |-> TRUE, tree |-> Spread(t, S, {}), marks |-> {}]
  PROVE  Unpack(dest, [path |-> p, entry |-> t[p]])
           = [ok |-> TRUE, tree |-> Spread(t, S \cup {p}, {}), marks |-> {}]
<1> DEFINE old == Spread(t, S, {})
           new == Spread(t, S \cup {p}, {})
           made == WithParents(old, p)
<1>1. /\ p \in Seq(Nat) /\ p # <<>>
      /\ \A q \in Above(p) : q \in DOMAIN t /\ IsDir(t[q]) /\ q # p
      /\ \A q \in Above(p) : IsDir("dir")
  BY DEF IsTree, IsDir, Above
<1>2. ~Blocked(old, p)
  BY <1>1 DEF Blocked, Spread
<1>3. /\ DOMAIN made = DOMAIN old \cup Above(p)
      /\ \A q \in DOMAIN made : made[q] = IF q \in DOMAIN old THEN old[q] ELSE "dir"
  BY DEF WithParents, Over
<1>4. \A r \in DOMAIN made : ~IsStrictPrefix(p, r)
  <2> SUFFICES ASSUME NEW r \in DOMAIN made, IsStrictPrefix(p, r) PROVE FALSE
    OBVIOUS
  <2>1. CASE r \in S
    BY <2>1
  <2>2. ASSUME NEW s \in S, r \in Above(s) PROVE FALSE
    <3>1. s \in Seq(Nat) /\ r \in Seq(Nat) /\ IsStrictPrefix(r, s)
      BY <2>2, AboveFacts
    <3>2. IsStrictPrefix(p, s)
      BY <1>1, <3>1, PrefixTransitive
    <3> QED
      BY <3>2
  <2>3. CASE r \in Above(p)
    <3>1. r \in Seq(Nat) /\ IsStrictPrefix(r, p)
      BY <1>1, <2>3, AboveFacts
    <3>2. IsStrictPrefix(p, p)
      BY <1>1, <3>1, PrefixTransitive
    <3> QED
      BY <3>2 DEF IsStrictPrefix
  <2> QED
    BY <1>3, <2>1, <2>2, <2>3 DEF Spread, AboveAny
<1>5. /\ DOMAIN Put(made, p, t[p]) = {p} \cup DOMAIN made
      /\ \A q \in {p} \cup DOMAIN made : Put(made, p, t[p])[q] = IF q = p THEN t[p] ELSE made[q]
  BY <1>4 DEF Put
<1>6. DOMAIN new = {p} \cup DOMAIN made
  <2>1. S \cup {} = S /\ (S \cup {p}) \cup {} = S \cup {p}
    OBVIOUS
  <2>2. DOMAIN old = S \cup AboveAny(S) /\ DOMAIN new = (S \cup {p}) \cup AboveAny(S \cup {p})
    <3>1. /\ DOMAIN old = S \cup AboveAny(S \cup {})
          /\ DOMAIN new = (S \cup {p}) \cup AboveAny((S \cup {p}) \cup {})
      BY DEF Spread
    <3> QED
      BY <2>1, <3>1, Zenon
  <2>3. AboveAny(S \cup {p}) = AboveAny(S) \cup Above(p)
    BY SpreadFacts
  <2> HIDE DEF old, new
  <2> QED
    BY <1>3, <2>2, <2>3
<1>7. ASSUME NEW q \in DOMAIN new PROVE new[q] = Put(made, p, t[p])[q]
  <2>1. CASE q = p
    BY <1>5, <1>6, <2>1 DEF Spread
  <2>2. CASE q # p
    <3>1. new[q] = IF q \in S THEN t[q] ELSE "dir"
      BY <1>7, <2>2 DEF Spread
    <3>2. q \in DOMAIN made /\ Put(made, p, t[p])[q] = made[q]
      BY <1>5, <1>6, <2>2
    <3>3. made[q] = IF q \in S THEN t[q] ELSE "dir"
      BY <1>3, <3>2 DEF Spread
    <3> QED
      BY <3>1, <3>2, <3>3
  <2> QED
    BY <2>1, <2>2
<1>8. Put(made, p, t[p]) = new
  <2>1. new = [q \in DOMAIN new |-> new[q]]
    BY DEF Spread
  <2>2. Put(made, p, t[p]) = [q \in {p} \cup DOMAIN made |-> Put(made, p, t[p])[q]]
    BY <1>4 DEF Put
  <2> QED
    BY <1>5, <1>6, <1>7, <2>1, <2>2
<1> HIDE DEF old, new, made
<1>a. ~PassedOver([path |-> p, entry |-> t[p]])
  BY PassedOverFacts
<1>9. Unpack(dest, [path |-> p, entry |-> t[p]])
        = [ok |-> TRUE, tree |-> Put(made, p, t[p]), marks |-> {}]
  BY <1>2, <1>a DEF Unpack, old, made
<1> QED
  BY <1>8, <1>9 DEF new

\* A ".wh." file makes the directories it is in and leaves its mark.
LEMMA UnpackWhiteout ==
  ASSUME NEW t, NEW S, NEW G, NEW m, ~(HasTwoDots(m) \/ IsDotfile(m)), NEW dest, NEW next,
         dest = [ok |-> TRUE, tree |-> Spread(t, S, G), marks |-> G],
         next = Unpack(dest, [path |-> m, entry |-> "hidden"])
  PROVE  /\ (\E q \in Above(m) \cap S : ~IsDir(t[q])) => ~next.ok
         /\ ~(\E q \in Above(m) \cap S : ~IsDir(t[q])) =>
              next = [ok |-> TRUE, tree |-> Spread(t, S, G \cup {m}), marks |-> G \cup {m}]
<1> DEFINE old == Spread(t, S, G)
           new == Spread(t, S, G \cup {m})
<1>1. Blocked(old, m) <=> \E q \in Above(m) \cap S : ~IsDir(t[q])
  BY DEF Blocked, Spread, IsDir
<1>2. WithParents(old, m) = new
  <2>1. DOMAIN new = DOMAIN old \cup Above(m)
    BY DEF Spread, AboveAny
  <2>2. \A q \in DOMAIN new : new[q] = IF q \in DOMAIN old THEN old[q] ELSE "dir"
    BY DEF Spread
  <2>3. new = [q \in DOMAIN new |-> new[q]]
    BY DEF Spread
  <2>4. WithParents(old, m)
          = [q \in DOMAIN old \cup Above(m) |-> IF q \in DOMAIN old THEN old[q] ELSE "dir"]
    BY DEF WithParents, Over
  <2> HIDE DEF old, new
  <2> QED
    BY <2>1, <2>2, <2>3, <2>4
<1> HIDE DEF old, new
<1>a. ~PassedOver([path |-> m, entry |-> "hidden"])
  BY PassedOverFacts
<1>3. CASE Blocked(old, m)
  <2>1. ~next.ok
    BY <1>3, <1>a DEF Unpack, old
  <2> QED
    BY <1>1, <1>3, <2>1
<1>4. CASE ~Blocked(old, m)
  <2>1. next = [ok |-> TRUE, tree |-> WithParents(old, m), marks |-> G \cup {m}]
    BY <1>4, <1>a DEF Unpack, old
  <2> QED
    BY <1>1, <1>2, <1>4, <2>1 DEF new
<1> QED
  BY <1>3, <1>4

\* An archive item by item: what changed, then what is gone.
IsArchive(archive, t, S, G) ==
  /\ Len(archive) = Cardinality(S) + Cardinality(G)
  /\ \A i \in 1..Cardinality(S) :
       archive[i] = [path |-> InOrder(S)[i], entry |-> t[InOrder(S)[i]]]
  /\ \A i \in 1..Cardinality(G) :
       archive[Cardinality(S) + i] = [path |-> InOrder(G)[i], entry |-> "hidden"]
  /\ archive \in Seq({archive[i] : i \in 1..Len(archive)})

\* A layer is its changes in the order of their paths, then its ".wh." files.
LEMMA ArchiveItems ==
  ASSUME NEW t,
         NEW S \in SUBSET Seq(Nat), IsFiniteSet(S),
         NEW G \in SUBSET Seq(Nat), IsFiniteSet(G)
  PROVE  IsArchive(Archived(t, S) \o Whiteouts(G), t, S, G)
<1> DEFINE n == Cardinality(S)
           k == Cardinality(G)
           some(i) == [path |-> InOrder(S)[i], entry |-> t[InOrder(S)[i]]]
           none(i) == [path |-> InOrder(G)[i], entry |-> "hidden"]
           one == Archived(t, S)
           other == Whiteouts(G)
           items == {some(i) : i \in 1..n} \cup {none(i) : i \in 1..k}
<1>1. n \in Nat /\ k \in Nat /\ DOMAIN InOrder(S) = 1..n /\ DOMAIN InOrder(G) = 1..k
  BY InOrderFacts
<1>2. one = [i \in 1..n |-> some(i)] /\ other = [i \in 1..k |-> none(i)]
  BY <1>1 DEF Archived, Whiteouts
<1> HIDE DEF n, k, some, none, one, other
<1>3. one \in Seq(items) /\ Len(one) = n
  BY <1>1, <1>2
<1>4. other \in Seq(items) /\ Len(other) = k
  BY <1>1, <1>2
<1> HIDE DEF items
<1>5. /\ Len(one \o other) = n + k
      /\ one \o other \in Seq(items)
      /\ \A i \in 1..(n + k) : (one \o other)[i] = IF i <= n THEN one[i] ELSE other[i - n]
  BY <1>1, <1>3, <1>4
<1>6. one \o other \in Seq({(one \o other)[i] : i \in 1..(n + k)})
  <2> DEFINE both == one \o other
  <2>1. both \in Seq(items) /\ Len(both) = n + k /\ n + k \in Nat
    BY <1>1, <1>5
  <2> HIDE DEF both
  <2>2. both = [i \in 1..(n + k) |-> both[i]]
    BY <2>1, SMTT(20)
  <2> QED
    BY <2>1, <2>2 DEF both
<1>7. \A i \in 1..n : (one \o other)[i] = some(i)
  BY <1>1, <1>2, <1>5
<1>8. ASSUME NEW i \in 1..k PROVE (one \o other)[n + i] = none(i)
  <2>1. n + i \in 1..(n + k) /\ ~(n + i <= n) /\ (n + i) - n = i
    BY <1>1
  <2> QED
    BY <1>2, <1>5, <2>1
<1> QED
  BY <1>1, <1>5, <1>6, <1>7, <1>8 DEF IsArchive, n, k, some, none, one, other

\* The tree with nothing in it.
LEMMA EmptyTreeFacts ==
  /\ DOMAIN EmptyTree = {}
  /\ \A f, D : f = [x \in D |-> f[x]] /\ DOMAIN f = {} => f = EmptyTree
BY DEF EmptyTree

\* The entries of what changed are unpacked, each below what was unpacked before it.
LEMMA ChangesUnpacked ==
  ASSUME NEW t, IsTree(t), DOMAIN t \subseteq Seq(Nat), <<>> \notin DOMAIN t,
         \A p \in DOMAIN t : t[p] # "hidden",
         NEW S \in SUBSET DOMAIN t, IsFiniteSet(S),
         NEW g, g[0] = Nothing,
         \A i \in 1..Cardinality(S) :
            g[i] = Unpack(g[i - 1], [path |-> InOrder(S)[i], entry |-> t[InOrder(S)[i]]])
  PROVE  g[Cardinality(S)] = [ok |-> TRUE, tree |-> Spread(t, Kept(S), {}), marks |-> {}]
<1> DEFINE n == Cardinality(S)
           order == InOrder(S)
           first(i) == {order[j] : j \in 1..i}
           Fits(i) == g[i] = [ok |-> TRUE, tree |-> Spread(t, Kept(first(i)), {}), marks |-> {}]
           good == {i \in Nat : i <= n => Fits(i)}
<1>0. S \in SUBSET Seq(Nat)
  OBVIOUS
<1>1. /\ n \in Nat
      /\ \A i \in 1..n : order[i] \in S
      /\ \A p \in S : \E i \in 1..n : order[i] = p
      /\ \A i, j \in 1..n : PathBefore(order[i], order[j]) => i < j
  BY <1>0, InOrderFacts
<1>2. first(0) = {} /\ first(n) = S
  BY <1>1
<1>3. \A i \in Nat : first(i + 1) = first(i) \cup {order[i + 1]}
  BY SMT
<1> HIDE DEF n, order
<1>4. 0 \in good
  <2>1. Spread(t, {}, {}) = EmptyTree
    <3>1. DOMAIN Spread(t, {}, {}) = {} /\ Spread(t, {}, {}) = [q \in DOMAIN Spread(t, {}, {}) |-> Spread(t, {}, {})[q]]
      BY DEF Spread, AboveAny
    <3> QED
      BY <3>1, EmptyTreeFacts
  <2>2. Fits(0)
    BY <1>2, <2>1 DEF Nothing, Kept
  <2> QED
    BY <2>2
<1>5. ASSUME NEW i \in good PROVE i + 1 \in good
  <2> SUFFICES ASSUME i + 1 <= n PROVE Fits(i + 1)
    OBVIOUS
  <2>1. i \in Nat /\ i <= n /\ i + 1 \in 1..n /\ Fits(i)
    BY <1>1
  <2>2. order[i + 1] \in S /\ order[i + 1] \in DOMAIN t /\ t[order[i + 1]] # "hidden"
    BY <1>1, <2>1
  <2>3. first(i) \in SUBSET DOMAIN t
    BY <1>1, <2>1
  <2>4. \A r \in first(i) : ~IsStrictPrefix(order[i + 1], r)
    <3> SUFFICES ASSUME NEW j \in 1..i, IsStrictPrefix(order[i + 1], order[j]) PROVE FALSE
      OBVIOUS
    <3>1. PathBefore(order[i + 1], order[j])
      BY DEF PathBefore
    <3> QED
      BY <1>1, <2>1, <3>1
  <2>5. g[i + 1] = Unpack(g[i], [path |-> order[i + 1], entry |-> t[order[i + 1]]])
    <3>1. (i + 1) - 1 = i
      BY <2>1
    <3> QED
      BY <2>1, <3>1 DEF n, order
  <2> DEFINE p == order[i + 1]
             dest == g[i]
             had == Kept(first(i))
  <2>6. p \in DOMAIN t /\ t[p] # "hidden" /\ had \in SUBSET DOMAIN t
        /\ \A r \in had : ~IsStrictPrefix(p, r)
    BY <2>2, <2>3, <2>4 DEF Kept
  <2>7. dest = [ok |-> TRUE, tree |-> Spread(t, had, {}), marks |-> {}] /\ dest.ok
    BY <2>1
  <2>8. /\ g[i + 1] = Unpack(dest, [path |-> p, entry |-> t[p]])
        /\ Kept(first(i + 1)) = IF HasTwoDots(p) THEN had ELSE had \cup {p}
    BY <1>3, <2>1, <2>5 DEF Kept
  <2> HIDE DEF first, p, dest, had
  <2>9. CASE HasTwoDots(p)
    <3>1. PassedOver([path |-> p, entry |-> t[p]])
      BY <2>6, <2>9, PassedOverFacts
    <3>2. Unpack(dest, [path |-> p, entry |-> t[p]]) = dest
      BY <3>1 DEF Unpack
    <3>3. g[i + 1] = dest
      BY <2>8, <3>2
    <3> QED
      BY <2>7, <2>8, <2>9, <3>3
  <2>10. CASE ~HasTwoDots(p)
    <3>1. Unpack(dest, [path |-> p, entry |-> t[p]])
            = [ok |-> TRUE, tree |-> Spread(t, had \cup {p}, {}), marks |-> {}]
      BY <2>6, <2>7, <2>10, UnpackItem, ZenonT(60)
    <3> QED
      BY <2>8, <2>10, <3>1
  <2> QED
    BY <2>9, <2>10
<1>6. good = Nat
  <2>1. good \in SUBSET Nat
    OBVIOUS
  <2> HIDE DEF good
  <2> QED
    BY <1>4, <1>5, <2>1, AllNumbers
<1>7. Fits(n)
  <2>1. n \in good
    BY <1>1, <1>6
  <2> HIDE DEF Fits
  <2> QED
    BY <1>1, <2>1
<1> HIDE DEF first
<1> QED
  BY <1>2, <1>7, Zenon DEF n

\* A ".wh." file cannot be unpacked where something above it is a file by then.
Collides(t, S, G) == \E m \in G : \E q \in Above(m) \cap S : ~IsDir(t[q])

\* The ".wh." files are unpacked last, and the first that collides ends it.
LEMMA GoneUnpacked ==
  ASSUME NEW t, NEW S, NEW n \in Nat,
         NEW G \in SUBSET Seq(Nat), IsFiniteSet(G),
         NEW g, g[n] = [ok |-> TRUE, tree |-> Spread(t, S, {}), marks |-> {}],
         \A i \in 1..Cardinality(G) :
            g[n + i] = Unpack(g[n + i - 1], [path |-> InOrder(G)[i], entry |-> "hidden"])
  PROVE  LET last == g[n + Cardinality(G)]
         IN  /\ Collides(t, S, Marked(G)) => ~last.ok
             /\ ~Collides(t, S, Marked(G)) =>
                  last = [ok |-> TRUE, tree |-> Spread(t, S, Marked(G)), marks |-> Marked(G)]
<1> DEFINE k == Cardinality(G)
           order == InOrder(G)
           first(i) == {order[j] : j \in 1..i}
           seen(i) == Marked(first(i))
           Fits(i) ==
             /\ Collides(t, S, seen(i)) => ~g[n + i].ok
             /\ ~Collides(t, S, seen(i)) =>
                  g[n + i] = [ok |-> TRUE, tree |-> Spread(t, S, seen(i)), marks |-> seen(i)]
           good == {i \in Nat : i <= k => Fits(i)}
<1>1. k \in Nat /\ (\A i \in 1..k : order[i] \in G) /\ \A p \in G : \E i \in 1..k : order[i] = p
  BY InOrderFacts
<1>2. first(0) = {} /\ first(k) = G
  BY <1>1
<1>3. \A i \in Nat : first(i + 1) = first(i) \cup {order[i + 1]}
  BY SMT
<1> HIDE DEF k, order, first
<1>a. seen(0) = {} /\ seen(k) = Marked(G)
  BY <1>2 DEF Marked
<1>b. \A i \in Nat : LET m == order[i + 1] IN
        seen(i + 1) = IF HasTwoDots(m) \/ IsDotfile(m) THEN seen(i) ELSE seen(i) \cup {m}
  BY <1>3 DEF Marked
<1> HIDE DEF seen
<1>4. 0 \in good
  <2>1. ~Collides(t, S, {}) /\ n + 0 = n
    BY DEF Collides
  <2>2. Fits(0)
    BY <1>a, <2>1
  <2> QED
    BY <2>2
<1>5. ASSUME NEW i \in good PROVE i + 1 \in good
  <2> SUFFICES ASSUME i + 1 <= k PROVE Fits(i + 1)
    OBVIOUS
  <2>1. i \in Nat /\ i <= k /\ i + 1 \in 1..k
    BY <1>1
  <2>2. Fits(i)
    BY <2>1
  <2> DEFINE m == order[i + 1]
             dest == g[n + i]
             had == seen(i)
             next == g[n + (i + 1)]
  <2>3. next = Unpack(dest, [path |-> m, entry |-> "hidden"])
    <3>1. n + (i + 1) - 1 = n + i
      BY <2>1
    <3> QED
      BY <2>1, <3>1 DEF k, order
  <2>4. seen(i + 1) = IF HasTwoDots(m) \/ IsDotfile(m) THEN had ELSE had \cup {m}
    BY <1>b, <2>1
  <2>5. Collides(t, S, had \cup {m}) <=>
          Collides(t, S, had) \/ \E q \in Above(m) \cap S : ~IsDir(t[q])
    BY DEF Collides
  <2> HIDE DEF m, dest, had, next
  <2>6. CASE HasTwoDots(m) \/ IsDotfile(m)
    <3>1. next = dest
      BY <2>3, <2>6, PassedOverFacts
    <3> QED
      BY <2>2, <2>4, <2>6, <3>1 DEF next, dest, had
  <2>7. CASE ~(HasTwoDots(m) \/ IsDotfile(m)) /\ Collides(t, S, had)
    <3>1. ~dest.ok
      BY <2>2, <2>7 DEF dest, had
    <3>a. ~PassedOver([path |-> m, entry |-> "hidden"])
      BY <2>7, PassedOverFacts
    <3>2. ~next.ok
      BY <2>3, <3>1, <3>a DEF Unpack
    <3> QED
      BY <2>4, <2>5, <2>7, <3>2 DEF next
  <2>8. CASE ~(HasTwoDots(m) \/ IsDotfile(m)) /\ ~Collides(t, S, had)
    <3>1. dest = [ok |-> TRUE, tree |-> Spread(t, S, had), marks |-> had]
      BY <2>2, <2>8 DEF dest, had
    <3>2. /\ (\E q \in Above(m) \cap S : ~IsDir(t[q])) => ~next.ok
          /\ ~(\E q \in Above(m) \cap S : ~IsDir(t[q])) =>
               next = [ok |-> TRUE, tree |-> Spread(t, S, had \cup {m}), marks |-> had \cup {m}]
      BY <2>3, <2>8, <3>1, UnpackWhiteout, Zenon
    <3>3. /\ Collides(t, S, had \cup {m}) => ~next.ok
          /\ ~Collides(t, S, had \cup {m}) =>
               next = [ok |-> TRUE, tree |-> Spread(t, S, had \cup {m}), marks |-> had \cup {m}]
      BY <2>5, <2>8, <3>2, Zenon
    <3>4. seen(i + 1) = had \cup {m}
      BY <2>4, <2>8
    <3> QED
      BY <3>3, <3>4, Zenon DEF next
  <2> QED
    BY <2>6, <2>7, <2>8
<1>6. good = Nat
  <2>1. good \in SUBSET Nat
    OBVIOUS
  <2> HIDE DEF good
  <2> QED
    BY <1>4, <1>5, <2>1, AllNumbers
<1>7. Fits(k)
  <2>1. k \in good
    BY <1>1, <1>6
  <2> HIDE DEF Fits
  <2> QED
    BY <1>1, <2>1
<1> QED
  BY <1>a, <1>7, Zenon DEF k

\* What the extraction of a layer gives, if anything.
Opened(t, S, G) == Over(Spread(t, S, G), [m \in G |-> "hidden"])

\* When a layer extracts, and what it extracts to.
LEMMA ArchiveFacts ==
  ASSUME NEW t, IsTree(t), DOMAIN t \subseteq Seq(Nat), <<>> \notin DOMAIN t,
         \A p \in DOMAIN t : t[p] # "hidden",
         NEW S \in SUBSET DOMAIN t, IsFiniteSet(S),
         NEW G \in SUBSET Seq(Nat), IsFiniteSet(G)
  PROVE  LET archive == Archived(t, S) \o Whiteouts(G)
         IN  /\ Extracts(archive) <=> ~Collides(t, Kept(S), Marked(G))
             /\ Extracts(archive) => Extracted(archive) = Opened(t, Kept(S), Marked(G))
<1> DEFINE archive == Archived(t, S) \o Whiteouts(G)
           n == Cardinality(S)
           k == Cardinality(G)
<1>0. S \in SUBSET Seq(Nat)
  OBVIOUS
<1>a. n \in Nat /\ k \in Nat
  BY <1>0, FS_CardinalityType
<1>b. IsArchive(archive, t, S, G)
  BY <1>0, ArchiveItems
<1> HIDE DEF archive
<1>1. /\ n \in Nat /\ k \in Nat
      /\ Len(archive) = n + k
      /\ \A i \in 1..n : archive[i] = [path |-> InOrder(S)[i], entry |-> t[InOrder(S)[i]]]
      /\ \A i \in 1..k : archive[n + i] = [path |-> InOrder(G)[i], entry |-> "hidden"]
  BY <1>a, <1>b DEF IsArchive
<1>2. PICK g : /\ Unpacked(archive) = g[Len(archive)]
               /\ g[0] = Nothing
               /\ \A i \in 1..Len(archive) : g[i] = Unpack(g[i - 1], archive[i])
  <2>1. Len(archive) \in Nat
    BY <1>1
  <2> QED
    BY <2>1, UnpackedFacts
<1>3. \A i \in 1..n :
         g[i] = Unpack(g[i - 1], [path |-> InOrder(S)[i], entry |-> t[InOrder(S)[i]]])
  BY <1>1, <1>2
<1>4. ASSUME NEW i \in 1..k
      PROVE  g[n + i] = Unpack(g[n + i - 1], [path |-> InOrder(G)[i], entry |-> "hidden"])
  <2>1. n + i \in 1..Len(archive)
    BY <1>1
  <2> QED
    BY <1>1, <1>2, <2>1
<1> DEFINE had == Kept(S)
           gone == Marked(G)
<1>5. g[n] = [ok |-> TRUE, tree |-> Spread(t, had, {}), marks |-> {}]
  BY <1>2, <1>3, ChangesUnpacked
<1>6. /\ Collides(t, had, gone) => ~g[n + k].ok
      /\ ~Collides(t, had, gone) => g[n + k] = [ok |-> TRUE, tree |-> Spread(t, had, gone), marks |-> gone]
  <2>1. n \in Nat
    BY <1>1
  <2> HIDE DEF n
  <2> QED
    BY <1>4, <1>5, <2>1, GoneUnpacked
<1>7. Unpacked(archive) = g[n + k]
  BY <1>1, <1>2
<1>8. CASE Collides(t, had, gone)
  BY <1>6, <1>7, <1>8 DEF Extracts, archive
<1>9. CASE ~Collides(t, had, gone)
  <2>1. Unpacked(archive) = [ok |-> TRUE, tree |-> Spread(t, had, gone), marks |-> gone]
    BY <1>6, <1>7, <1>9, Zenon
  <2>2. Extracts(archive) /\ Extracted(archive) = Opened(t, had, gone)
    BY <2>1 DEF Extracts, Extracted, ProcessWhiteouts, Opened
  <2> QED
    BY <1>9, <2>2 DEF archive
<1> QED
  BY <1>8, <1>9

-----------------------------------------------------------------------------
(***************************************************************************)
(* Trees, and the layers that are made of them.                            *)
(***************************************************************************)
LEMMA PathsFacts ==
  /\ IsFiniteSet(Paths) /\ Paths \subseteq Seq(Nat) /\ <<>> \notin Paths
  /\ \A p \in Paths : Above(p) \subseteq Paths
  /\ \A p \in Paths : \A q \in Above(p) : Above(q) \subseteq Above(p)
<1>1. IsFiniteSet(Paths) /\ Paths \subseteq Seq(Nat) /\ <<>> \notin Paths
      /\ \A p \in Paths : Above(p) \subseteq Paths
  BY PathsAssumption
<1>2. \A p \in Paths : \A q \in Above(p) : Above(q) \subseteq Above(p)
  BY <1>1, AboveTransitive
<1> QED
  BY <1>1, <1>2

\* Membership in a set of trees, without the sets of functions.
LEMMA TreesFacts ==
  ASSUME NEW paths, NEW entries
  PROVE  \A t : t \in Trees(paths, entries) <=>
                  /\ t = [p \in DOMAIN t |-> t[p]]
                  /\ DOMAIN t \subseteq paths
                  /\ \A p \in DOMAIN t : t[p] \in entries
                  /\ IsTree(t)
BY DEF Trees

\* The same of the trees of a build.
LEMMA BuildTreeFacts ==
  /\ \A t : t \in BuildTrees <=>
              /\ t = [p \in DOMAIN t |-> t[p]]
              /\ DOMAIN t \subseteq Paths
              /\ \A p \in DOMAIN t : t[p] \in Entries
              /\ IsTree(t)
  /\ "hidden" \notin Entries /\ "override" \notin Entries
BY TreesFacts, EntriesAssumption DEF BuildTrees, Entries

\* The tree with nothing in it is one of a build.
LEMMA EmptyTreeIsTree == EmptyTree \in BuildTrees
<1>1. DOMAIN EmptyTree = {} /\ EmptyTree = [p \in DOMAIN EmptyTree |-> EmptyTree[p]]
  BY EmptyTreeFacts DEF EmptyTree
<1> QED
  BY <1>1, BuildTreeFacts DEF IsTree

\* The directory of a layer: what changed, what it is in, what is gone.
IsOpened(top, t, S, G) ==
  /\ DOMAIN top = S \cup AboveAny(S) \cup AboveAny(G) \cup G
  /\ DOMAIN top \subseteq Paths
  /\ \A p \in S : top[p] = t[p]
  /\ \A p \in AboveAny(S) \cup AboveAny(G) : p \notin S => top[p] = "dir"
  /\ \A p \in G : p \notin AboveAny(G) => top[p] = "hidden"
  /\ \A p \in AboveAny(S) : p \in DOMAIN t /\ IsDir(t[p])
  /\ \A p \in DOMAIN t : ~Blocked(top, p)
  /\ ~Collides(t, S, G) => IsTree(top)

\* The directory of a layer is as IsOpened says.
LEMMA OpenedFacts ==
  ASSUME NEW t \in BuildTrees, NEW S \in SUBSET DOMAIN t, NEW G \in SUBSET (Paths \ DOMAIN t)
  PROVE  IsOpened(Opened(t, S, G), t, S, G)
<1> DEFINE top == Opened(t, S, G)
           low == Spread(t, S, G)
<1>1. DOMAIN t \subseteq Paths /\ IsTree(t)
  BY BuildTreeFacts
<1>2. AboveAny(S \cup G) = AboveAny(S) \cup AboveAny(G)
  BY DEF AboveAny
<1>3. /\ DOMAIN low = S \cup AboveAny(S) \cup AboveAny(G)
      /\ \A q \in DOMAIN low : low[q] = IF q \in S THEN t[q] ELSE "dir"
  BY <1>2 DEF Spread
<1>4. /\ DOMAIN top = DOMAIN low \cup G
      /\ \A q \in DOMAIN top : top[q] = IF q \in DOMAIN low THEN low[q] ELSE "hidden"
  BY DEF Opened, Over
<1>5. \A p \in AboveAny(S) : p \in DOMAIN t /\ IsDir(t[p])
  BY <1>1 DEF AboveAny, IsTree
<1> HIDE DEF low, top
<1>6. DOMAIN top \subseteq Paths
  <2>1. AboveAny(G) \subseteq Paths
    BY PathsFacts DEF AboveAny
  <2> QED
    BY <1>1, <1>3, <1>4, <1>5, <2>1
<1>7. \A p \in S : top[p] = t[p]
  BY <1>3, <1>4
<1>8. \A p \in AboveAny(S) \cup AboveAny(G) : p \notin S => top[p] = "dir"
  BY <1>3, <1>4
<1>9. \A p \in G : p \notin AboveAny(G) => top[p] = "hidden"
  BY <1>3, <1>4, <1>5
<1>10. \A p \in DOMAIN t : ~Blocked(top, p)
  <2> SUFFICES ASSUME NEW p \in DOMAIN t, NEW q \in Above(p), q \in DOMAIN top
               PROVE  IsDir(top[q])
    BY DEF Blocked
  <2>1. q \in DOMAIN t /\ IsDir(t[q])
    BY <1>1 DEF IsTree
  <2>2. q \in DOMAIN low
    BY <1>4, <2>1
  <2> QED
    BY <1>3, <1>4, <2>1, <2>2 DEF IsDir
<1>11. ASSUME ~Collides(t, S, G) PROVE IsTree(top)
  <2> SUFFICES ASSUME NEW p \in DOMAIN top, NEW q \in Above(p)
               PROVE  q \in DOMAIN top /\ IsDir(top[q])
    BY DEF IsTree
  <2>1. PICK r \in S \cup G : q \in Above(r)
    <3>1. CASE p \in S \cup G
      BY <3>1
    <3>2. CASE p \in AboveAny(S) \cup AboveAny(G)
      <4>1. PICK r \in S \cup G : p \in Above(r)
        BY <3>2 DEF AboveAny
      <4>2. q \in Above(r)
        BY <1>1, <4>1, PathsFacts
      <4> QED
        BY <4>2
    <3> QED
      BY <1>3, <1>4, <3>1, <3>2
  <2>2. q \in AboveAny(S) \cup AboveAny(G)
    BY <2>1 DEF AboveAny
  <2>3. q \in S => IsDir(t[q])
    <3>1. CASE r \in S
      BY <1>5, <2>1, <3>1 DEF AboveAny
    <3>2. CASE r \in G
      BY <1>11, <2>1, <3>2 DEF Collides
    <3> QED
      BY <3>1, <3>2
  <2> QED
    BY <1>3, <1>4, <1>7, <1>8, <2>2, <2>3 DEF IsDir
<1> QED
  BY <1>3, <1>4, <1>5, <1>6, <1>7, <1>8, <1>9, <1>10, <1>11 DEF IsOpened, top

-----------------------------------------------------------------------------
(***************************************************************************)
(* What an overlay shows: what the top layer has, and of the layers below  *)
(* what it does not hide.                                                  *)
(***************************************************************************)
LEMMA MaxFacts ==
  ASSUME NEW n \in Nat, NEW S \in SUBSET (1..n), S # {}
  PROVE  Max(S) \in S /\ \A i \in S : i <= Max(S)
<1> DEFINE below == {n - i : i \in S}
<1>1. below \in SUBSET Nat /\ below # {}
  <2>1. \A i \in S : i \in 1..n /\ n - i \in Nat
    OBVIOUS
  <2>2. PICK i : i \in S
    OBVIOUS
  <2> QED
    BY <2>1, <2>2
<1>2. PICK m \in below : \A j \in below : m <= j
  <2> HIDE DEF below
  <2> QED
    BY <1>1, LeastNumber
<1>3. PICK i \in S : m = n - i
  BY <1>2
<1>4. \A j \in S : i >= j
  BY <1>2, <1>3
<1>5. Max(S) \in S /\ \A j \in S : Max(S) >= j
  BY <1>3, <1>4 DEF Max
<1> QED
  BY <1>5

\* What an overlay shows, path by path.
LEMMA OverlayFacts ==
  ASSUME NEW dirs
  PROVE  /\ \A p : p \in DOMAIN Overlay(dirs) <=> Holders(dirs, p) # {} /\ Shown(dirs, p) # "hidden"
         /\ \A p \in DOMAIN Overlay(dirs) : Overlay(dirs)[p] = Shown(dirs, p)
         /\ Overlay(dirs) = [p \in DOMAIN Overlay(dirs) |-> Overlay(dirs)[p]]
BY DEF Overlay, Holders

\* Tree new is what top shows over tree old.
Layered(new, top, old) ==
  /\ new = [p \in DOMAIN new |-> new[p]]
  /\ \A p : p \in DOMAIN new <=>
             (IF p \in DOMAIN top THEN top[p] # "hidden"
              ELSE ~Blocked(top, p) /\ p \in DOMAIN old)
  /\ \A p \in DOMAIN new : new[p] = IF p \in DOMAIN top THEN top[p] ELSE old[p]

\* A directory on top of others shows over what they show.
LEMMA OverlayOver ==
  ASSUME NEW n \in Nat, NEW low, Len(low) = n, NEW all, Len(all) = n + 1,
         \A i \in 1..n : all[i] = low[i],
         NEW top, top = all[n + 1]
  PROVE  Layered(Overlay(all), top, Overlay(low))
<1> SUFFICES ASSUME NEW p
             PROVE  /\ p \in DOMAIN Overlay(all) <=>
                         (IF p \in DOMAIN top THEN top[p] # "hidden"
                          ELSE ~Blocked(top, p) /\ p \in DOMAIN Overlay(low))
                    /\ p \in DOMAIN Overlay(all) =>
                         Overlay(all)[p] = IF p \in DOMAIN top THEN top[p] ELSE Overlay(low)[p]
  BY OverlayFacts DEF Layered
<1>1. ASSUME NEW i \in 1..n
      PROVE  Reaches(all, i, p) <=> ~Blocked(top, p) /\ Reaches(low, i, p)
  <2>1. \A j : j \in (i + 1)..(n + 1) <=> j = n + 1 \/ j \in (i + 1)..n
    OBVIOUS
  <2>2. \A j \in (i + 1)..n : all[j] = low[j]
    OBVIOUS
  <2> QED
    BY <2>1, <2>2 DEF Reaches
<1>2. Reaches(all, n + 1, p)
  BY DEF Reaches
<1>3. \A i \in 1..n : i \in Holders(all, p) <=> ~Blocked(top, p) /\ i \in Holders(low, p)
  BY <1>1 DEF Holders
<1>4. n + 1 \in Holders(all, p) <=> p \in DOMAIN top
  BY <1>2 DEF Holders
<1>5. Holders(all, p) \subseteq 1..(n + 1) /\ Holders(low, p) \subseteq 1..n
  BY DEF Holders
<1>6. CASE p \in DOMAIN top
  <2>1. Max(Holders(all, p)) = n + 1
    <3>1. n + 1 \in Nat /\ Holders(all, p) # {}
      BY <1>4, <1>6
    <3>2. Max(Holders(all, p)) \in 1..(n + 1) /\ n + 1 <= Max(Holders(all, p))
      BY <1>4, <1>5, <1>6, <3>1, MaxFacts
    <3> QED
      BY <3>2
  <2>2. Holders(all, p) # {} /\ Shown(all, p) = top[p]
    BY <1>4, <1>6, <2>1 DEF Shown
  <2> QED
    BY <1>6, <2>2, OverlayFacts
<1>7. CASE p \notin DOMAIN top /\ Blocked(top, p)
  <2>1. Holders(all, p) = {}
    <3>1. \A i \in 1..(n + 1) : i \in 1..n \/ i = n + 1
      OBVIOUS
    <3> QED
      BY <1>3, <1>4, <1>5, <1>7, <3>1
  <2> QED
    BY <1>7, <2>1, OverlayFacts
<1>8. CASE p \notin DOMAIN top /\ ~Blocked(top, p)
  <2>1. Holders(all, p) = Holders(low, p)
    <3>1. \A i \in 1..(n + 1) : i \in 1..n \/ i = n + 1
      OBVIOUS
    <3>2. n + 1 \notin Holders(low, p)
      BY <1>5
    <3> QED
      BY <1>3, <1>4, <1>5, <1>8, <3>1, <3>2
  <2>2. Holders(low, p) # {} => Shown(all, p) = Shown(low, p)
    <3> SUFFICES ASSUME Holders(low, p) # {} PROVE Shown(all, p) = Shown(low, p)
      OBVIOUS
    <3>1. Max(Holders(low, p)) \in 1..n
      BY <1>5, MaxFacts
    <3> QED
      BY <2>1, <3>1 DEF Shown
  <2>3. p \in DOMAIN Overlay(all) <=> p \in DOMAIN Overlay(low)
    BY <2>1, <2>2, OverlayFacts
  <2>4. p \in DOMAIN Overlay(low) => Holders(low, p) # {}
    BY OverlayFacts
  <2>5. p \in DOMAIN Overlay(all) => Overlay(all)[p] = Overlay(low)[p]
    BY <2>2, <2>3, <2>4, OverlayFacts
  <2> QED
    BY <1>8, <2>3, <2>5
<1> QED
  BY <1>6, <1>7, <1>8

\* The same of a layer on top of an image.
LEMMA MountedOver ==
  ASSUME NEW any, NEW archives \in Seq(any), NEW a \in any
  PROVE  Layered(Mounted(Append(archives, a)), Extracted(a), Mounted(archives))
<1> DEFINE n == Len(archives)
           more == Append(archives, a)
           low == [i \in 1..Len(archives) |-> Extracted(archives[i])]
           all == [i \in 1..Len(more) |-> Extracted(more[i])]
           dirs == {Extracted(b) : b \in any}
<1>1. /\ n \in Nat /\ Len(more) = n + 1 /\ more[n + 1] = a
      /\ \A i \in 1..n : more[i] = archives[i]
      /\ \A i \in 1..(n + 1) : more[i] \in any
  OBVIOUS
<1>2. low \in Seq(dirs) /\ Len(low) = n
  <2>1. \A i \in 1..n : Extracted(archives[i]) \in dirs
    BY <1>1
  <2> HIDE DEF dirs
  <2> QED
    BY <1>1, <2>1
<1>3. all \in Seq(dirs) /\ Len(all) = n + 1
  <2>1. \A i \in 1..(n + 1) : Extracted(more[i]) \in dirs
    BY <1>1
  <2> HIDE DEF dirs, more
  <2>2. all = [i \in 1..(n + 1) |-> Extracted(more[i])]
    BY <1>1
  <2> QED
    BY <1>1, <2>1, <2>2
<1>4. (\A i \in 1..n : all[i] = low[i]) /\ all[n + 1] = Extracted(a)
  BY <1>1
<1>5. Mounted(archives) = Overlay(low) /\ Mounted(more) = Overlay(all)
  BY DEF Mounted
<1> HIDE DEF n, more, low, all
<1>6. Layered(Overlay(all), Extracted(a), Overlay(low))
  BY <1>1, <1>2, <1>3, <1>4, OverlayOver
<1> QED
  BY <1>5, <1>6 DEF more

\* An image of no layers is empty.
LEMMA MountedNone == Mounted(<<>>) = EmptyTree
<1> DEFINE none == [i \in 1..Len(<<>>) |-> Extracted(<<>>[i])]
<1>1. Mounted(<<>>) = Overlay(none)
  BY DEF Mounted
<1>2. Len(none) = 0
  <2>1. 1..Len(<<>>) = 1..0
    OBVIOUS
  <2>2. none = <<>>
    BY <2>1
  <2> QED
    BY <2>2
<1> HIDE DEF none
<1>3. DOMAIN Overlay(none) = {}
  <2>1. \A p : Holders(none, p) = {}
    BY <1>2 DEF Holders
  <2> QED
    BY <2>1, OverlayFacts
<1> QED
  BY <1>1, <1>3, OverlayFacts, EmptyTreeFacts

\* A layer over an image gives an image.
LEMMA LayeredTyped ==
  ASSUME NEW t \in BuildTrees, NEW S \in SUBSET DOMAIN t, NEW G \in SUBSET (Paths \ DOMAIN t),
         ~Collides(t, S, G),
         NEW old \in BuildTrees, NEW new, Layered(new, Opened(t, S, G), old)
  PROVE  new \in BuildTrees
<1> DEFINE top == Opened(t, S, G)
<1>a. IsOpened(top, t, S, G)
  BY OpenedFacts
<1> HIDE DEF top
<1>1. /\ DOMAIN top = S \cup AboveAny(S) \cup AboveAny(G) \cup G
      /\ DOMAIN top \subseteq Paths
      /\ \A p \in S : top[p] = t[p]
      /\ \A p \in AboveAny(S) \cup AboveAny(G) : p \notin S => top[p] = "dir"
      /\ \A p \in G : p \notin AboveAny(G) => top[p] = "hidden"
      /\ IsTree(top)
  BY <1>a DEF IsOpened
<1>2. \A p \in DOMAIN top : top[p] \in Entries \cup {"hidden"}
  BY <1>1, BuildTreeFacts DEF Entries
<1>3. /\ new = [p \in DOMAIN new |-> new[p]]
      /\ \A p : p \in DOMAIN new <=>
                 (IF p \in DOMAIN top THEN top[p] # "hidden"
                  ELSE ~Blocked(top, p) /\ p \in DOMAIN old)
      /\ \A p \in DOMAIN new : new[p] = IF p \in DOMAIN top THEN top[p] ELSE old[p]
  BY DEF Layered, top
<1>4. DOMAIN old \subseteq Paths /\ IsTree(old) /\ \A p \in DOMAIN old : old[p] \in Entries
  BY BuildTreeFacts
<1>5. DOMAIN new \subseteq Paths
  BY <1>1, <1>3, <1>4
<1>6. \A p \in DOMAIN new : new[p] \in Entries
  BY <1>2, <1>3, <1>4
<1>7. IsTree(new)
  <2> SUFFICES ASSUME NEW p \in DOMAIN new, NEW q \in Above(p)
               PROVE  q \in DOMAIN new /\ IsDir(new[q])
    BY DEF IsTree
  <2>1. CASE p \in DOMAIN top
    <3>1. q \in DOMAIN top /\ IsDir(top[q])
      BY <1>1, <2>1 DEF IsTree
    <3> QED
      BY <1>3, <3>1 DEF IsDir
  <2>2. CASE p \notin DOMAIN top
    <3>1. ~Blocked(top, p) /\ q \in DOMAIN old /\ IsDir(old[q])
      BY <1>3, <1>4, <2>2 DEF IsTree
    <3>2. CASE q \in DOMAIN top
      <4>1. IsDir(top[q])
        BY <3>1, <3>2 DEF Blocked
      <4> QED
        BY <1>3, <3>2, <4>1 DEF IsDir
    <3>3. CASE q \notin DOMAIN top
      <4>1. Above(q) \subseteq Above(p)
        BY <1>5, PathsFacts
      <4>2. ~Blocked(top, q)
        BY <3>1, <4>1 DEF Blocked
      <4> QED
        BY <1>3, <3>1, <3>3, <4>2
    <3> QED
      BY <3>2, <3>3
  <2> QED
    BY <2>1, <2>2
<1> QED
  BY <1>3, <1>5, <1>6, <1>7, BuildTreeFacts

-----------------------------------------------------------------------------
(***************************************************************************)
(* What a layer does to the image, for the tree b before the step and the  *)
(* tree a after it.                                                        *)
(***************************************************************************)
\* The image has the files of the tree that an archive can carry; what other files it has
\* are dotfiles.
Fits(image, tree) ==
  /\ image \in BuildTrees /\ tree \in BuildTrees
  /\ \A p \in DOMAIN image : ~HasTwoDots(p)
  /\ \A p \in DOMAIN tree :
       ~IsDir(tree[p]) /\ ~HasTwoDots(p) => p \in DOMAIN image /\ image[p] = tree[p]
  /\ \A p \in DOMAIN image :
       ~IsDir(image[p]) => IsDotfile(p) \/ (p \in DOMAIN tree /\ tree[p] = image[p])

\* No layer says that p is gone.
Forgotten(p) == HasTwoDots(p) \/ IsDotfile(p)

\* The layer of S and G has all that the step did but for paths with two dots, dotfiles
\* that are gone, and directories it made on the way to nothing.
Carries(b, a, S, G) ==
  /\ b \in BuildTrees /\ a \in BuildTrees
  /\ S \subseteq DOMAIN a /\ G \subseteq DOMAIN b \ DOMAIN a
  /\ \A p \in S \cup G : ~HasTwoDots(p)
  /\ \A p \in DOMAIN a \ S :
       \/ HasTwoDots(p)
       \/ IF p \in DOMAIN b THEN a[p] = b[p]
          ELSE a[p] = "dir" /\ (p \in AboveAny(S) \/ S \cup G = {})
  /\ \A p \in DOMAIN b \ DOMAIN a : p \in G \/ Blocked(Opened(a, S, G), p) \/ Forgotten(p)

\* The layer has no two dots anywhere.
LEMMA NoTwoDots ==
  ASSUME NEW a, NEW b, NEW S, NEW G, Carries(b, a, S, G)
  PROVE  \A p \in S \cup G \cup AboveAny(S) \cup AboveAny(G) : ~HasTwoDots(p)
<1>1. \A p \in S \cup G : p \in Seq(Nat) /\ ~HasTwoDots(p)
  BY BuildTreeFacts, PathsFacts DEF Carries
<1> QED
  BY <1>1, TwoDotsBelow DEF AboveAny

\* What is at a path of the tree, or of the image, after the step.
LEMMA CarriedFacts ==
  ASSUME NEW a, NEW b, NEW S, NEW G, Carries(b, a, S, G),
         NEW old, NEW new, Layered(new, Opened(a, S, G), old)
  PROVE  /\ \A p \in DOMAIN a :
               \/ p \in S /\ p \in DOMAIN new /\ new[p] = a[p]
               \/ /\ p \in (AboveAny(S) \cup AboveAny(G)) \ (S \cup G)
                  /\ p \in DOMAIN new /\ new[p] = "dir" /\ IsDir(a[p])
               \/ /\ p \notin S \cup AboveAny(S)
                  /\ p \in DOMAIN new <=> p \in DOMAIN old
                  /\ p \in DOMAIN old => new[p] = old[p]
         /\ \A p \in DOMAIN new \ DOMAIN a :
               \/ new[p] = "dir" /\ p \in AboveAny(G)
               \/ p \in DOMAIN old /\ (p \notin DOMAIN b \/ Forgotten(p)) /\ new[p] = old[p]
<1> DEFINE top == Opened(a, S, G)
<1>1. /\ b \in BuildTrees /\ a \in BuildTrees
      /\ S \subseteq DOMAIN a /\ G \subseteq DOMAIN b \ DOMAIN a
      /\ \A p \in DOMAIN a \ S : p \in DOMAIN b /\ ~HasTwoDots(p) => a[p] = b[p]
      /\ \A p \in DOMAIN b \ DOMAIN a : p \in G \/ Blocked(top, p) \/ Forgotten(p)
  BY DEF Carries
<1>2. /\ DOMAIN b \subseteq Paths
      /\ \A p \in DOMAIN b : \A q \in Above(p) : q \in DOMAIN b /\ IsDir(b[q])
  BY <1>1, BuildTreeFacts DEF IsTree
<1>3. IsOpened(top, a, S, G)
  BY <1>1, <1>2, OpenedFacts
<1>4. /\ \A p : p \in DOMAIN new <=>
                 (IF p \in DOMAIN top THEN top[p] # "hidden"
                  ELSE ~Blocked(top, p) /\ p \in DOMAIN old)
      /\ \A p \in DOMAIN new : new[p] = IF p \in DOMAIN top THEN top[p] ELSE old[p]
  BY DEF Layered
<1>0. \A p \in DOMAIN a : a[p] # "hidden"
  BY <1>1, BuildTreeFacts
<1> HIDE DEF top
<1>5. /\ DOMAIN top = S \cup AboveAny(S) \cup AboveAny(G) \cup G
      /\ \A p \in S : top[p] = a[p]
      /\ \A p \in AboveAny(S) \cup AboveAny(G) : p \notin S => top[p] = "dir"
      /\ \A p \in G : p \notin AboveAny(G) => top[p] = "hidden"
      /\ \A p \in AboveAny(S) : p \in DOMAIN a /\ IsDir(a[p])
      /\ \A p \in DOMAIN a : ~Blocked(top, p)
  BY <1>3 DEF IsOpened
<1>6. \A p \in AboveAny(G) : p \in DOMAIN b /\ IsDir(b[p]) /\ ~HasTwoDots(p)
  BY <1>1, <1>2, NoTwoDots DEF AboveAny
<1>7. ASSUME NEW p \in DOMAIN a
      PROVE  \/ p \in S /\ p \in DOMAIN new /\ new[p] = a[p]
             \/ /\ p \in (AboveAny(S) \cup AboveAny(G)) \ (S \cup G)
                /\ p \in DOMAIN new /\ new[p] = "dir" /\ IsDir(a[p])
             \/ /\ p \notin S \cup AboveAny(S)
                /\ p \in DOMAIN new <=> p \in DOMAIN old
                /\ p \in DOMAIN old => new[p] = old[p]
  <2>1. CASE p \in S
    BY <1>0, <1>4, <1>5, <2>1
  <2>2. CASE p \notin S /\ p \in AboveAny(S) \cup AboveAny(G)
    <3>1. p \in DOMAIN new /\ new[p] = "dir" /\ p \notin G
      BY <1>1, <1>4, <1>5, <2>2
    <3>2. IsDir(a[p])
      BY <1>1, <1>5, <1>6, <2>2 DEF IsDir
    <3> QED
      BY <2>2, <3>1, <3>2
  <2>3. CASE p \notin S /\ p \notin AboveAny(S) \cup AboveAny(G)
    <3>1. p \notin DOMAIN top /\ ~Blocked(top, p)
      BY <1>1, <1>5, <2>3
    <3> QED
      BY <1>4, <2>3, <3>1
  <2> QED
    BY <2>1, <2>2, <2>3
<1>8. ASSUME NEW p \in DOMAIN new \ DOMAIN a
      PROVE  \/ new[p] = "dir" /\ p \in AboveAny(G)
             \/ p \in DOMAIN old /\ (p \notin DOMAIN b \/ Forgotten(p)) /\ new[p] = old[p]
  <2>1. p \notin S /\ p \notin AboveAny(S)
    BY <1>1, <1>5
  <2>2. CASE p \in AboveAny(G)
    BY <1>4, <1>5, <2>1, <2>2
  <2>3. CASE p \notin AboveAny(G)
    <3>1. p \notin DOMAIN top
      BY <1>4, <1>5, <2>1, <2>3
    <3>2. ~Blocked(top, p) /\ p \in DOMAIN old /\ new[p] = old[p]
      BY <1>4, <3>1
    <3>3. p \notin DOMAIN b \/ Forgotten(p)
      BY <1>1, <1>5, <3>1, <3>2
    <3> QED
      BY <3>2, <3>3
  <2> QED
    BY <2>2, <2>3
<1> QED
  BY <1>7, <1>8

\* A layer that carries its step and extracts makes the image fit the tree.
LEMMA CarriesFits ==
  ASSUME NEW a, NEW b, NEW S, NEW G, Carries(b, a, S, G), ~Collides(a, S, G),
         NEW old, Fits(old, b),
         NEW new, Layered(new, Opened(a, S, G), old)
  PROVE  Fits(new, a)
<1>1. /\ b \in BuildTrees /\ a \in BuildTrees
      /\ S \subseteq DOMAIN a /\ G \subseteq DOMAIN b \ DOMAIN a
      /\ \A p \in DOMAIN a \ S : p \in DOMAIN b /\ ~HasTwoDots(p) => a[p] = b[p]
      /\ \A p \in DOMAIN a \ S : p \notin DOMAIN b /\ ~HasTwoDots(p) => a[p] = "dir"
  BY DEF Carries
<1>2. /\ old \in BuildTrees
      /\ \A p \in DOMAIN old : ~HasTwoDots(p)
      /\ \A p \in DOMAIN b :
           ~IsDir(b[p]) /\ ~HasTwoDots(p) => p \in DOMAIN old /\ old[p] = b[p]
      /\ \A p \in DOMAIN old :
           ~IsDir(old[p]) => IsDotfile(p) \/ (p \in DOMAIN b /\ b[p] = old[p])
  BY DEF Fits
<1>3. new \in BuildTrees
  <2>1. G \in SUBSET (Paths \ DOMAIN a)
    BY <1>1, BuildTreeFacts
  <2> QED
    BY <1>1, <1>2, <2>1, LayeredTyped
<1>4. \A p \in DOMAIN a :
         \/ p \in S /\ p \in DOMAIN new /\ new[p] = a[p]
         \/ /\ p \in AboveAny(S) \cup AboveAny(G)
            /\ p \in DOMAIN new /\ new[p] = "dir" /\ IsDir(a[p])
         \/ /\ p \notin S
            /\ p \in DOMAIN new <=> p \in DOMAIN old
            /\ p \in DOMAIN old => new[p] = old[p]
  BY CarriedFacts
<1>5. \A p \in DOMAIN new \ DOMAIN a :
         \/ new[p] = "dir" /\ p \in AboveAny(G)
         \/ p \in DOMAIN old /\ (p \notin DOMAIN b \/ Forgotten(p)) /\ new[p] = old[p]
  BY CarriedFacts
<1>6. \A p \in S \cup G \cup AboveAny(S) \cup AboveAny(G) : ~HasTwoDots(p)
  BY NoTwoDots
<1>7. ASSUME NEW p \in DOMAIN new PROVE ~HasTwoDots(p)
  BY <1>2, <1>4, <1>5, <1>6
<1>8. ASSUME NEW p \in DOMAIN a, ~IsDir(a[p]), ~HasTwoDots(p)
      PROVE  p \in DOMAIN new /\ new[p] = a[p]
  BY <1>1, <1>2, <1>4, <1>8 DEF IsDir
<1>9. ASSUME NEW p \in DOMAIN new, ~IsDir(new[p]), ~IsDotfile(p)
      PROVE  p \in DOMAIN a /\ a[p] = new[p]
  <2>1. ~HasTwoDots(p) /\ new[p] # "dir"
    BY <1>7, <1>9 DEF IsDir
  <2>2. p \in DOMAIN a
    BY <1>2, <1>5, <1>9, <2>1 DEF Forgotten
  <2>3. CASE p \in S
    BY <1>4, <1>9, <2>1, <2>2, <2>3
  <2>4. CASE p \notin S
    BY <1>1, <1>2, <1>4, <1>9, <2>1, <2>2, <2>4
  <2> QED
    BY <2>3, <2>4
<1> QED
  BY <1>1, <1>3, <1>7, <1>8, <1>9 DEF Fits

\* What the image does not have of the tree it did not have before.
LEMMA CarriesStep ==
  ASSUME NEW a, NEW b, NEW S, NEW G, Carries(b, a, S, G),
         NEW old, NEW new, Layered(new, Opened(a, S, G), old)
  PROVE  \A p \in DOMAIN a \ DOMAIN new :
            \/ HasTwoDots(p)
            \/ p \notin S /\ p \notin DOMAIN old /\ (p \in DOMAIN b \/ S \cup G = {})
<1> SUFFICES ASSUME NEW p \in DOMAIN a \ DOMAIN new, ~HasTwoDots(p)
             PROVE  p \notin S /\ p \notin DOMAIN old /\ (p \in DOMAIN b \/ S \cup G = {})
  OBVIOUS
<1>1. p \notin S /\ p \notin AboveAny(S) /\ p \notin DOMAIN old
  BY CarriedFacts
<1>2. p \in DOMAIN b \/ S \cup G = {}
  BY <1>1 DEF Carries
<1> QED
  BY <1>1, <1>2

\* What the image has and the tree has not, and where they differ.
LEMMA CarriesOnly ==
  ASSUME NEW a, NEW b, NEW S, NEW G, Carries(b, a, S, G),
         NEW old, Fits(old, b),
         NEW new, Layered(new, Opened(a, S, G), old)
  PROVE  /\ \A p \in DOMAIN new \ DOMAIN a :
              \/ p \in DOMAIN b /\ IsDotfile(p)
              \/ RemovedFull(p, b, a)
              \/ p \in DOMAIN old \ DOMAIN b
         /\ \A p \in Differs(a, new) :
              \/ p \in (AboveAny(S) \cup AboveAny(G)) \ S
              \/ p \in Differs(b, old)
              \/ p \in DOMAIN old \ DOMAIN b /\ S \cup G = {}
<1>0. \A p \in DOMAIN old : ~HasTwoDots(p)
  BY DEF Fits
<1>1. ASSUME NEW p \in DOMAIN new \ DOMAIN a
      PROVE  \/ p \in DOMAIN b /\ IsDotfile(p)
             \/ RemovedFull(p, b, a)
             \/ p \in DOMAIN old \ DOMAIN b
  <2>1. \/ p \in AboveAny(G)
        \/ p \in DOMAIN old /\ (p \notin DOMAIN b \/ Forgotten(p))
    BY CarriedFacts
  <2>2. ASSUME p \in AboveAny(G) PROVE RemovedFull(p, b, a)
    <3>1. PICK q \in G : p \in Above(q)
      BY <2>2 DEF AboveAny
    <3>2. q \in DOMAIN b /\ q \in Seq(Nat)
      BY BuildTreeFacts, PathsFacts DEF Carries
    <3>3. IsStrictPrefix(p, q)
      BY <3>1, <3>2, AboveFacts
    <3> QED
      BY <3>2, <3>3 DEF RemovedFull
  <2> QED
    BY <1>0, <2>1, <2>2 DEF Forgotten
<1>2. ASSUME NEW p \in DOMAIN a, p \in DOMAIN new, a[p] # new[p],
             p \notin AboveAny(S) \cup AboveAny(G)
      PROVE  /\ p \in DOMAIN old
             /\ IF p \in DOMAIN b THEN b[p] # old[p] ELSE S \cup G = {}
  <2>1. p \notin S \cup AboveAny(S) /\ p \in DOMAIN old /\ new[p] = old[p]
    BY <1>2, CarriedFacts
  <2>2. ~HasTwoDots(p)
    BY <1>0, <2>1
  <2>3. IF p \in DOMAIN b THEN a[p] = b[p] ELSE S \cup G = {}
    BY <2>1, <2>2 DEF Carries
  <2> QED
    BY <1>2, <2>1, <2>3
<1>3. ASSUME NEW p \in Differs(a, new)
      PROVE  \/ p \in (AboveAny(S) \cup AboveAny(G)) \ S
             \/ p \in Differs(b, old)
             \/ p \in DOMAIN old \ DOMAIN b /\ S \cup G = {}
  <2>1. p \in DOMAIN a /\ p \in DOMAIN new /\ a[p] # new[p]
    BY DEF Differs
  <2>2. p \notin S
    BY <2>1, CarriedFacts
  <2> QED
    BY <1>2, <2>1, <2>2 DEF Differs
<1> QED
  BY <1>1, <1>3

-----------------------------------------------------------------------------
(***************************************************************************)
(* The layers of RUN and ADD, which compare two trees.                     *)
(***************************************************************************)
LEMMA DiffCarries ==
  ASSUME NEW b \in BuildTrees, NEW a \in BuildTrees
  PROVE  /\ Carries(b, a, Kept(Changed(b, a)), Marked(Gone(b, a)))
         /\ Collides(a, Kept(Changed(b, a)), Marked(Gone(b, a))) <=>
              \E p \in DOMAIN b :
                /\ \E q \in DOMAIN b : IsStrictPrefix(p, q) /\ ~HasTwoDots(q) /\ ~IsDotfile(q)
                /\ p \in DOMAIN a
                /\ ~IsDir(a[p])
<1> DEFINE S == Kept(Changed(b, a))
           G == Marked(Gone(b, a))
<1>0. \A p \in DOMAIN b \cup DOMAIN a : p \in Seq(Nat) /\ p # <<>>
  BY BuildTreeFacts, PathsFacts
<1>1. Carries(b, a, S, G)
  BY DEF Carries, Changed, Gone, Kept, Marked, Forgotten
<1>2. ASSUME Collides(a, S, G)
      PROVE  \E p \in DOMAIN b :
               /\ \E q \in DOMAIN b : IsStrictPrefix(p, q) /\ ~HasTwoDots(q) /\ ~IsDotfile(q)
               /\ p \in DOMAIN a
               /\ ~IsDir(a[p])
  <2>1. PICK m \in G : \E q \in Above(m) \cap S : ~IsDir(a[q])
    BY <1>2 DEF Collides
  <2>2. PICK q \in Above(m) \cap S : ~IsDir(a[q])
    BY <2>1
  <2>3. m \in DOMAIN b /\ q \in DOMAIN a /\ ~HasTwoDots(m) /\ ~IsDotfile(m)
    BY DEF Gone, Changed, Kept, Marked
  <2>4. q \in DOMAIN b /\ IsStrictPrefix(q, m)
    BY <1>0, <2>3, AboveFacts, BuildTreeFacts DEF IsTree
  <2> QED
    BY <2>2, <2>3, <2>4
<1>3. ASSUME NEW p \in DOMAIN b, NEW q \in DOMAIN b, IsStrictPrefix(p, q),
             ~HasTwoDots(q), ~IsDotfile(q), p \in DOMAIN a, ~IsDir(a[p])
      PROVE  Collides(a, S, G)
  <2>1. p \in Above(q)
    BY <1>0, <1>3, AboveFacts
  <2>2. IsDir(b[p]) /\ q \notin DOMAIN a
    BY <1>3, <2>1, BuildTreeFacts DEF IsTree
  <2>3. ~HasTwoDots(p)
    BY <1>0, <1>3, <2>1, TwoDotsBelow
  <2>4. p \in S /\ q \in G
    BY <1>3, <2>2, <2>3 DEF Changed, Gone, Kept, Marked
  <2> QED
    BY <1>3, <2>1, <2>4 DEF Collides
<1> QED
  BY <1>1, <1>2, <1>3

-----------------------------------------------------------------------------
(***************************************************************************)
(* The layers of COPY, which have the paths that were copied.              *)
(***************************************************************************)
Way(d) == Above(Append(d, 0))

\* The way to d is d and all above it.
LEMMA WayFacts ==
  ASSUME NEW d \in Seq(Nat)
  PROVE  Way(d) = (Above(d) \cup {d}) \ {<<>>}
<1> DEFINE e == Append(d, 0)
<1>1. /\ e \in Seq(Nat) /\ Len(e) = Len(d) + 1 /\ Len(d) \in Nat
      /\ \A i \in 1..Len(d) : e[i] = d[i]
  OBVIOUS
<1> HIDE DEF e
<1>2. IsStrictPrefix(d, e)
  BY <1>1, StrictPrefixFacts
<1>3. ASSUME NEW q \in Seq(Nat), IsStrictPrefix(q, e) PROVE q = d \/ IsStrictPrefix(q, d)
  <2>0. Len(q) \in Nat
    OBVIOUS
  <2>1. Len(q) \in Nat /\ Len(q) < Len(e) /\ \A j \in 1..Len(q) : q[j] = e[j]
    BY <1>1, <1>3, <2>0, StrictPrefixFacts, Zenon
  <2>2. CASE Len(q) < Len(d)
    <3>1. \A j \in 1..Len(q) : q[j] = d[j]
      BY <1>1, <2>1, <2>2
    <3> QED
      BY <2>2, <3>1, StrictPrefixFacts
  <2>3. CASE Len(q) = Len(d)
    <3>1. \A j \in 1..Len(q) : q[j] = d[j]
      BY <1>1, <2>1, <2>3
    <3> QED
      BY <2>3, <3>1
  <2> QED
    BY <1>1, <2>1, <2>2, <2>3
<1>4. \A q : q \in Way(d) <=> q \in Seq(Nat) /\ q # <<>> /\ IsStrictPrefix(q, e)
  BY <1>1, AboveFacts DEF Way, e
<1>5. \A q : q \in Above(d) <=> q \in Seq(Nat) /\ q # <<>> /\ IsStrictPrefix(q, d)
  BY AboveFacts
<1>6. \A q \in Seq(Nat) : IsStrictPrefix(q, d) => IsStrictPrefix(q, e)
  BY <1>1, <1>2, PrefixTransitive
<1> QED
  BY <1>2, <1>3, <1>4, <1>5, <1>6

\* The directories on the way to d are there, and what was there stays.
HasWay(m, t, d) ==
  /\ m \in BuildTrees
  /\ DOMAIN m = DOMAIN t \cup Way(d)
  /\ \A p \in DOMAIN t : m[p] = t[p]
  /\ \A p \in DOMAIN m \ DOMAIN t : m[p] = "dir"
  /\ \A p \in Way(d) : IsDir(m[p])

\* create_dir_all leaves the way and changes nothing that was there.
LEMMA MakeDirsFacts ==
  ASSUME NEW t \in BuildTrees, NEW d \in Paths \cup {<<>>}, CanMakeDirs(t, d)
  PROVE  HasWay(MakeDirs(t, d), t, d)
<1> DEFINE m == MakeDirs(t, d)
<1>0. d \in Seq(Nat)
  <2>1. <<>> \in Seq(Nat)
    OBVIOUS
  <2> QED
    BY <2>1, PathsFacts
<1>1. Way(d) = (Above(d) \cup {d}) \ {<<>>}
  BY <1>0, WayFacts
<1>2. /\ DOMAIN m = DOMAIN t \cup Way(d)
      /\ m = [p \in DOMAIN m |-> m[p]]
      /\ \A p \in DOMAIN m : m[p] = IF p \in DOMAIN t THEN t[p] ELSE "dir"
  BY <1>1 DEF MakeDirs, MadeDirs, Over
<1>3. Way(d) \subseteq Paths
  <2>1. \A q : q \notin Above(<<>>)
    BY DEF Above, Prefixes
  <2> QED
    BY <1>1, <2>1, PathsFacts
<1>4. \A p \in Way(d) : p \in DOMAIN t => IsDir(t[p])
  BY DEF CanMakeDirs, Blocked, Way
<1>5. \A p \in Way(d) : Above(p) \subseteq Way(d)
  <2>1. Append(d, 0) \in Seq(Nat)
    BY <1>0
  <2> QED
    BY <2>1, AboveTransitive DEF Way
<1> HIDE DEF m
<1>6. DOMAIN t \subseteq Paths /\ IsTree(t) /\ \A p \in DOMAIN t : t[p] \in Entries
  BY BuildTreeFacts
<1>7. \A p \in Way(d) : IsDir(m[p])
  BY <1>2, <1>4 DEF IsDir
<1>8. IsTree(m)
  <2> SUFFICES ASSUME NEW p \in DOMAIN m, NEW q \in Above(p) PROVE q \in DOMAIN m /\ IsDir(m[q])
    BY DEF IsTree
  <2>1. CASE p \in DOMAIN t
    BY <1>2, <1>6, <2>1 DEF IsTree
  <2>2. CASE p \in Way(d)
    BY <1>2, <1>5, <1>7, <2>2
  <2> QED
    BY <1>2, <2>1, <2>2
<1>9. DOMAIN m \subseteq Paths /\ \A p \in DOMAIN m : m[p] \in Entries
  BY <1>2, <1>3, <1>6 DEF Entries
<1>10. m \in BuildTrees
  BY <1>2, <1>8, <1>9, BuildTreeFacts
<1> QED
  BY <1>2, <1>7, <1>10 DEF HasWay, m

\* What is copied to d is a tree below the way to d.
IsBelow(u, d) ==
  /\ u = [p \in DOMAIN u |-> u[p]]
  /\ \A p \in DOMAIN u : u[p] \in Entries
  /\ \A p \in DOMAIN u : Way(d) \subseteq Above(p)
  /\ \A p \in DOMAIN u : \A r \in Above(p) : r \in Way(d) \/ (r \in DOMAIN u /\ IsDir(u[r]))
  /\ \A r \in Way(d) : r \notin DOMAIN u /\ ~Blocked(u, r)

\* A source copied to d is below d.
LEMMA UnderFacts ==
  ASSUME NEW d \in Seq(Nat), NEW s \in BuildTrees
  PROVE  IsBelow(Under(d, s), d)
<1> DEFINE u == Under(d, s)
           n == Len(d)
<1>0. /\ DOMAIN s \subseteq Seq(Nat) /\ <<>> \notin DOMAIN s /\ n \in Nat
      /\ IsTree(s) /\ \A q \in DOMAIN s : s[q] \in Entries
  BY BuildTreeFacts, PathsFacts
<1>1. ASSUME NEW q \in Seq(Nat)
      PROVE  /\ d \o q \in Seq(Nat) /\ Len(d \o q) = n + Len(q) /\ Len(q) \in Nat
             /\ SubSeq(d \o q, n + 1, Len(d \o q)) = q
             /\ \A i \in 1..n : (d \o q)[i] = d[i]
             /\ \A i \in 1..Len(q) : (d \o q)[n + i] = q[i]
  <2>1. d \o q \in Seq(Nat) /\ Len(d \o q) = n + Len(q) /\ Len(q) \in Nat
    OBVIOUS
  <2>2. \A i \in 1..(n + Len(q)) : (d \o q)[i] = IF i <= n THEN d[i] ELSE q[i - n]
    OBVIOUS
  <2>3. \A i \in 1..n : (d \o q)[i] = d[i]
    BY <1>0, <2>1, <2>2
  <2>4. ASSUME NEW i \in 1..Len(q) PROVE (d \o q)[n + i] = q[i]
    <3>1. n + i \in 1..(n + Len(q)) /\ ~(n + i <= n) /\ n + i - n = i
      BY <1>0, <2>1
    <3> QED
      BY <2>2, <3>1
  <2>5. SubSeq(d \o q, n + 1, Len(d \o q)) = q
    <3> DEFINE e == d \o q
               w == SubSeq(e, n + 1, Len(e))
    <3>1. e \in Seq(Nat) /\ Len(e) = n + Len(q) /\ \A i \in 1..Len(q) : e[n + i] = q[i]
      BY <2>1, <2>4
    <3> HIDE DEF e
    <3>0. n \in Nat /\ Len(q) \in Nat /\ (n + Len(q)) - (n + 1) + 1 = Len(q)
      BY <1>0, <2>1
    <3>2. w = [i \in 1..Len(q) |-> e[n + 1 + i - 1]]
      BY <3>0, <3>1, SMTT(30)
    <3>6. \A i \in 1..Len(q) : n + 1 + i - 1 = n + i
      BY <3>0
    <3>3. \A i \in 1..Len(q) : e[n + 1 + i - 1] = q[i]
      BY <3>1, <3>6
    <3>4. q = [i \in 1..Len(q) |-> q[i]]
      OBVIOUS
    <3> HIDE DEF w
    <3>5. w = q
      BY <3>2, <3>3, <3>4
    <3> QED
      BY <3>5 DEF w, e
  <2> QED
    BY <2>1, <2>3, <2>4, <2>5
<1>2. /\ DOMAIN u = {d \o q : q \in DOMAIN s}
      /\ u = [p \in DOMAIN u |-> u[p]]
      /\ \A q \in DOMAIN s : u[d \o q] = s[q]
  BY <1>0, <1>1 DEF Under
<1>3. \A r : r \in Way(d) <=> r \in Seq(Nat) /\ r # <<>> /\ (r = d \/ IsStrictPrefix(r, d))
  BY WayFacts, AboveFacts
<1>4. ASSUME NEW r \in Way(d) PROVE Len(r) \in Nat /\ Len(r) <= n
  <2>1. r \in Seq(Nat) /\ (r = d \/ IsStrictPrefix(r, d))
    BY <1>3
  <2>2. IsStrictPrefix(r, d) => Len(r) < n
    BY <2>1, StrictPrefixFacts
  <2> QED
    BY <1>0, <2>1, <2>2
<1> HIDE DEF u
<1>5. \A p \in DOMAIN u : u[p] \in Entries
  BY <1>0, <1>2
<1>6. ASSUME NEW q \in DOMAIN s
      PROVE  /\ d \o q \in Seq(Nat) /\ Len(d \o q) \in Nat /\ n < Len(d \o q)
             /\ IsStrictPrefix(d, d \o q)
  <2>1. d \o q \in Seq(Nat) /\ Len(d \o q) = n + Len(q) /\ Len(q) \in Nat
        /\ \A i \in 1..n : (d \o q)[i] = d[i]
    BY <1>0, <1>1
  <2>2. Len(q) # 0
    BY <1>0
  <2> DEFINE e == d \o q
  <2>3. e \in Seq(Nat) /\ Len(e) \in Nat /\ n < Len(e) /\ \A i \in 1..n : e[i] = d[i]
    BY <1>0, <2>1, <2>2
  <2> HIDE DEF e
  <2>4. IsStrictPrefix(d, e)
    BY <2>3, StrictPrefixFacts
  <2> QED
    BY <2>3, <2>4 DEF e
<1>7. \A p \in DOMAIN u : Way(d) \subseteq Above(p)
  <2> SUFFICES ASSUME NEW q \in DOMAIN s, NEW r \in Way(d) PROVE r \in Above(d \o q)
    BY <1>2
  <2>1. IsStrictPrefix(r, d \o q)
    BY <1>3, <1>6, PrefixTransitive
  <2> QED
    BY <1>3, <1>6, <2>1, AboveFacts
<1>8. ASSUME NEW p \in DOMAIN u, NEW r \in Above(p)
      PROVE  r \in Way(d) \/ (r \in DOMAIN u /\ IsDir(u[r]))
  <2>1. PICK q \in DOMAIN s : p = d \o q
    BY <1>2
  <2>2. /\ p \in Seq(Nat) /\ Len(p) = n + Len(q) /\ Len(q) \in Nat
        /\ \A i \in 1..n : p[i] = d[i]
        /\ \A i \in 1..Len(q) : p[n + i] = q[i]
    BY <1>0, <1>1, <2>1
  <2>3. r \in Seq(Nat) /\ r # <<>> /\ IsStrictPrefix(r, p)
    BY <2>2, AboveFacts
  <2>4. Len(r) \in Nat /\ Len(r) < Len(p) /\ \A j \in 1..Len(r) : r[j] = p[j]
    BY <2>2, <2>3, StrictPrefixFacts
  <2>5. CASE Len(r) < n
    <3>1. \A j \in 1..Len(r) : r[j] = d[j]
      BY <1>0, <2>2, <2>4, <2>5
    <3>2. IsStrictPrefix(r, d)
      BY <2>3, <2>5, <3>1, StrictPrefixFacts
    <3> QED
      BY <1>3, <2>3, <3>2
  <2>6. CASE Len(r) = n
    <3>1. \A j \in 1..n : r[j] = d[j]
      BY <1>0, <2>2, <2>4, <2>6
    <3>2. r = d
      <4>1. r = [j \in 1..Len(r) |-> r[j]] /\ d = [j \in 1..n |-> d[j]]
        BY <2>3
      <4> QED
        BY <2>6, <3>1, <4>1
    <3> QED
      BY <1>3, <2>3, <3>2
  <2>7. CASE n < Len(r)
    <3> DEFINE k == Len(r) - n
               v == [i \in 1..k |-> q[i]]
    <3>1. k \in Nat /\ k < Len(q) /\ k # 0 /\ Len(r) = n + k
      BY <1>0, <2>2, <2>4, <2>7
    <3>2. v \in Seq(Nat) /\ Len(v) = k
      <4>1. \A i \in 1..k : q[i] \in Nat
        BY <1>0, <3>1
      <4> QED
        BY <3>1, <4>1
    <3>3. IsStrictPrefix(v, q) /\ v # <<>>
      BY <1>0, <3>1, <3>2, StrictPrefixFacts
    <3>4. v \in Above(q)
      BY <1>0, <3>2, <3>3, AboveFacts
    <3>5. v \in DOMAIN s /\ IsDir(s[v])
      BY <1>0, <3>4 DEF IsTree
    <3>6. r = d \o v
      <4> HIDE DEF k
      <4>1. \A i \in 1..k : v[i] = q[i]
        OBVIOUS
      <4> HIDE DEF v
      <4> DEFINE e == d \o v
      <4>2. /\ e \in Seq(Nat) /\ Len(e) = n + k
            /\ \A i \in 1..n : e[i] = d[i]
            /\ \A i \in 1..k : e[n + i] = v[i]
        BY <1>1, <3>2
      <4> HIDE DEF e
      <4>3. ASSUME NEW j \in 1..(n + k) PROVE r[j] = e[j]
        <5>1. CASE j <= n
          BY <1>0, <2>2, <2>4, <3>1, <4>2, <5>1
        <5>2. CASE n < j
          <6>1. \A a, b, c, i \in Nat : b < c /\ i \in 1..(a + b) /\ a < i =>
                  i - a \in 1..b /\ i - a \in 1..c /\ i = a + (i - a)
            OBVIOUS
          <6>2. j \in Nat /\ n \in Nat /\ k \in Nat /\ Len(q) \in Nat /\ k < Len(q)
            BY <1>0, <2>2, <3>1
          <6>3. j - n \in 1..k /\ j - n \in 1..Len(q) /\ j = n + (j - n) /\ j \in 1..Len(r)
            BY <3>1, <5>2, <6>1, <6>2
          <6>4. r[j] = p[n + (j - n)]
            BY <2>4, <6>3
          <6>5. r[j] = q[j - n] /\ e[j] = v[j - n] /\ v[j - n] = q[j - n]
            BY <2>2, <4>1, <4>2, <6>3, <6>4
          <6> QED
            BY <6>5
        <5> QED
          BY <1>0, <3>1, <5>1, <5>2
      <4>4. r = e
        <5>1. r = [j \in 1..Len(r) |-> r[j]] /\ e = [j \in 1..Len(e) |-> e[j]]
          BY <2>3, <4>2
        <5> QED
          BY <3>1, <4>2, <4>3, <5>1
      <4> QED
        BY <4>4 DEF e
    <3> QED
      BY <1>2, <3>5, <3>6
  <2> QED
    BY <1>0, <2>4, <2>5, <2>6, <2>7
<1>9. ASSUME NEW r \in Way(d) PROVE r \notin DOMAIN u /\ ~Blocked(u, r)
  <2>1. \A p \in DOMAIN u : Len(p) \in Nat /\ n < Len(p)
    BY <1>2, <1>6
  <2>2. r \in Seq(Nat) /\ Len(r) \in Nat /\ Len(r) <= n
    BY <1>3, <1>4
  <2>3. \A q \in Above(r) : Len(q) \in Nat /\ Len(q) < Len(r)
    BY <2>2, AboveFacts, StrictPrefixFacts
  <2> QED
    BY <1>0, <2>1, <2>2, <2>3 DEF Blocked
<1> QED
  BY <1>2, <1>5, <1>7, <1>8, <1>9 DEF IsBelow, u

\* What a copy leaves of the tree and of what was copied.
LEMMA CopyFacts ==
  ASSUME NEW t \in BuildTrees, NEW d, NEW m, HasWay(m, t, d),
         NEW u, IsBelow(u, d), DOMAIN u \subseteq Paths
  PROVE  LET a == CopyTree(m, u)
         IN  /\ a \in BuildTrees
             /\ DOMAIN u \cup Way(d) \subseteq DOMAIN a
             /\ \A p \in DOMAIN u : a[p] = u[p]
             /\ \A p \in DOMAIN a \ DOMAIN u : p \in DOMAIN m /\ a[p] = m[p]
             /\ \A p \in DOMAIN m \ DOMAIN a : Blocked(u, p)
<1> DEFINE a == CopyTree(m, u)
<1>1. /\ m \in BuildTrees
      /\ DOMAIN m = DOMAIN t \cup Way(d)
      /\ \A p \in Way(d) : IsDir(m[p])
  BY DEF HasWay
<1>2. /\ \A p \in DOMAIN u : u[p] \in Entries
      /\ \A p \in DOMAIN u : \A r \in Above(p) : r \in Way(d) \/ (r \in DOMAIN u /\ IsDir(u[r]))
      /\ \A r \in Way(d) : r \notin DOMAIN u /\ ~Blocked(u, r)
  BY DEF IsBelow
<1>3. /\ a = [p \in DOMAIN a |-> a[p]]
      /\ DOMAIN a = DOMAIN u \cup {q \in DOMAIN m : ~Blocked(u, q)}
      /\ \A p \in DOMAIN a : a[p] = IF p \in DOMAIN u THEN u[p] ELSE m[p]
  BY DEF CopyTree, Over
<1> HIDE DEF a
<1>4. DOMAIN u \cup Way(d) \subseteq DOMAIN a
  BY <1>1, <1>2, <1>3
<1>5. DOMAIN m \subseteq Paths /\ IsTree(m) /\ \A p \in DOMAIN m : m[p] \in Entries
  BY <1>1, BuildTreeFacts
<1>6. IsTree(a)
  <2> SUFFICES ASSUME NEW p \in DOMAIN a, NEW q \in Above(p) PROVE q \in DOMAIN a /\ IsDir(a[q])
    BY DEF IsTree
  <2>1. CASE q \in Way(d)
    BY <1>1, <1>2, <1>3, <1>4, <2>1
  <2>2. CASE p \in DOMAIN u /\ q \notin Way(d)
    BY <1>2, <1>3, <2>2
  <2>3. CASE p \notin DOMAIN u
    <3>1. p \in DOMAIN m /\ ~Blocked(u, p)
      BY <1>3, <2>3
    <3>2. q \in DOMAIN m /\ IsDir(m[q])
      BY <1>5, <3>1 DEF IsTree
    <3>3. CASE q \in DOMAIN u
      BY <1>3, <3>1, <3>3 DEF Blocked
    <3>4. CASE q \notin DOMAIN u
      <4>1. Above(q) \subseteq Above(p)
        BY <1>5, <3>1, PathsFacts
      <4>2. ~Blocked(u, q)
        BY <3>1, <4>1 DEF Blocked
      <4> QED
        BY <1>3, <3>2, <3>4, <4>2
    <3> QED
      BY <3>3, <3>4
  <2> QED
    BY <2>1, <2>2, <2>3
<1>7. DOMAIN a \subseteq Paths /\ \A p \in DOMAIN a : a[p] \in Entries
  BY <1>2, <1>3, <1>5
<1>8. a \in BuildTrees
  BY <1>3, <1>6, <1>7, BuildTreeFacts
<1> QED
  BY <1>3, <1>4, <1>8 DEF a

\* The layer has what was copied, and d itself unless it is that of one file.
LEMMA CopyCarries ==
  ASSUME NEW t \in BuildTrees, NEW d \in Seq(Nat), NEW m, HasWay(m, t, d),
         NEW u, IsBelow(u, d), DOMAIN u \subseteq Paths,
         NEW all, DOMAIN u \subseteq all, all \subseteq DOMAIN u \cup ({d} \ {<<>>})
  PROVE  all \subseteq DOMAIN CopyTree(m, u) /\ Carries(t, CopyTree(m, u), Kept(all), {})
<1> DEFINE a == CopyTree(m, u)
           S == Kept(all)
           top == Opened(a, S, {})
<1>0. /\ S \subseteq all /\ \A p \in S : ~HasTwoDots(p)
      /\ \A p \in all : p \notin S => HasTwoDots(p)
  BY DEF Kept
<1>1. /\ a \in BuildTrees
      /\ DOMAIN u \cup Way(d) \subseteq DOMAIN a
      /\ \A p \in DOMAIN u : a[p] = u[p]
      /\ \A p \in DOMAIN a \ DOMAIN u : p \in DOMAIN m /\ a[p] = m[p]
      /\ \A p \in DOMAIN m \ DOMAIN a : Blocked(u, p)
  BY CopyFacts
<1>2. Way(d) = (Above(d) \cup {d}) \ {<<>>}
  BY WayFacts
<1> HIDE DEF a, S
<1>3. all \subseteq DOMAIN a /\ S \subseteq DOMAIN a /\ {} \subseteq DOMAIN t \ DOMAIN a
  BY <1>0, <1>1, <1>2
<1>4. S # {} => Way(d) \subseteq S \cup AboveAny(S)
  <2>1. ASSUME NEW p \in DOMAIN u, p \in S PROVE Way(d) \subseteq AboveAny(S)
    BY <2>1 DEF IsBelow, AboveAny
  <2>2. CASE S # {} /\ \A p \in DOMAIN u : p \notin S
    <3>1. d \in S
      BY <1>0, <2>2
    <3> QED
      BY <1>2, <3>1 DEF AboveAny
  <2> QED
    BY <2>1, <2>2
<1>5. ASSUME NEW p \in DOMAIN a \ S, ~HasTwoDots(p)
      PROVE  IF p \in DOMAIN t THEN a[p] = t[p]
             ELSE a[p] = "dir" /\ (p \in AboveAny(S) \/ S \cup {} = {})
  <2>1. p \in DOMAIN m /\ a[p] = m[p]
    BY <1>0, <1>1, <1>5
  <2>2. p \in DOMAIN t => m[p] = t[p]
    BY <2>1 DEF HasWay
  <2>3. p \notin DOMAIN t => m[p] = "dir" /\ p \in Way(d)
    BY <2>1 DEF HasWay
  <2> QED
    BY <1>4, <2>1, <2>2, <2>3
<1>6. IsOpened(top, a, S, {})
  <2>1. {} \in SUBSET (Paths \ DOMAIN a)
    OBVIOUS
  <2> QED
    BY <1>1, <1>3, <2>1, OpenedFacts
<1>7. ASSUME NEW p \in DOMAIN t \ DOMAIN a PROVE Blocked(top, p) \/ Forgotten(p)
  <2>1. Blocked(u, p)
    BY <1>1 DEF HasWay
  <2>2. PICK q \in Above(p) \cap DOMAIN u : ~IsDir(u[q])
    BY <2>1 DEF Blocked
  <2>3. CASE HasTwoDots(q)
    <3>1. p \in Seq(Nat)
      BY BuildTreeFacts, PathsFacts
    <3> QED
      BY <2>3, <3>1, TwoDotsBelow DEF Forgotten
  <2>4. CASE ~HasTwoDots(q)
    <3>1. q \in S /\ q \in DOMAIN top /\ top[q] = a[q] /\ a[q] = u[q]
      BY <1>0, <1>1, <1>6, <2>4 DEF IsOpened
    <3> HIDE DEF top
    <3> QED
      BY <2>2, <3>1 DEF Blocked
  <2> QED
    BY <2>3, <2>4
<1> QED
  BY <1>0, <1>1, <1>3, <1>5, <1>7 DEF Carries, a, S

\* Nothing is copied: the layer is empty, and the directory is made.
LEMMA MakeDirsCarries ==
  ASSUME NEW t \in BuildTrees, NEW d, NEW m, HasWay(m, t, d)
  PROVE  Carries(t, m, Kept({}), Marked({}))
BY DEF HasWay, Carries, Kept, Marked

-----------------------------------------------------------------------------
(***************************************************************************)
(* The copy of the layers onto each other.                                 *)
(***************************************************************************)
Merging(g, archives, n) ==
  g = [i \in 0..n |-> IF i = 0 THEN [ok |-> TRUE, tree |-> EmptyTree]
                      ELSE CopyLayer(g[i - 1], Extracted(archives[i]))]

\* The recursion over the layers has a value at each of them.
LEMMA MergingExists ==
  ASSUME NEW archives
  PROVE  \A n \in Nat : \E g : Merging(g, archives, n)
<1> DEFINE have == {n \in Nat : \E g : Merging(g, archives, n)}
<1>1. 0 \in have
  <2> DEFINE g == [i \in 0..0 |-> [ok |-> TRUE, tree |-> EmptyTree]]
  <2>1. Merging(g, archives, 0)
    BY DEF Merging
  <2> QED
    BY <2>1
<1>2. ASSUME NEW n \in have PROVE n + 1 \in have
  <2>1. n \in Nat
    OBVIOUS
  <2>2. PICK g : Merging(g, archives, n)
    OBVIOUS
  <2> DEFINE next == CopyLayer(g[n], Extracted(archives[n + 1]))
             h == [i \in 0..(n + 1) |-> IF i = n + 1 THEN next ELSE g[i]]
  <2>3. ASSUME NEW i \in 0..(n + 1)
        PROVE  h[i] = IF i = 0 THEN [ok |-> TRUE, tree |-> EmptyTree]
                      ELSE CopyLayer(h[i - 1], Extracted(archives[i]))
    <3>1. CASE i = n + 1
      <4>1. h[i - 1] = g[n] /\ h[i] = next
        BY <2>1, <3>1
      <4> HIDE DEF h
      <4> QED
        BY <2>1, <3>1, <4>1
    <3>2. CASE i # n + 1
      <4>1. i \in 0..n /\ h[i] = g[i] /\ (i # 0 => h[i - 1] = g[i - 1])
        BY <2>1, <3>2
      <4>2. g[i] = IF i = 0 THEN [ok |-> TRUE, tree |-> EmptyTree]
                   ELSE CopyLayer(g[i - 1], Extracted(archives[i]))
        BY <2>2, <4>1 DEF Merging
      <4> HIDE DEF h
      <4> QED
        BY <4>1, <4>2
    <3> QED
      BY <3>1, <3>2
  <2>4. h = [i \in 0..(n + 1) |-> h[i]]
    OBVIOUS
  <2> HIDE DEF h
  <2>5. Merging(h, archives, n + 1)
    BY <2>3, <2>4 DEF Merging
  <2> QED
    BY <2>1, <2>5
<1>3. have \in SUBSET Nat
  OBVIOUS
<1>4. have = Nat
  <2> HIDE DEF have
  <2> QED
    BY <1>1, <1>2, <1>3, AllNumbers
<1> QED
  BY <1>4

\* The value at a layer is the copy of it onto the value before.
LEMMA MergingStep ==
  ASSUME NEW archives, NEW n \in Nat, NEW g, Merging(g, archives, n),
         NEW i \in Nat, i + 1 <= n
  PROVE  g[i + 1] = CopyLayer(g[i], Extracted(archives[i + 1]))
<1>1. \A j \in 0..n : j # 0 => g[j] = CopyLayer(g[j - 1], Extracted(archives[j]))
  BY DEF Merging
<1> DEFINE k == i + 1
<1>2. k \in 0..n /\ k # 0 /\ k - 1 = i
  OBVIOUS
<1> HIDE DEF k
<1>3. g[k] = CopyLayer(g[i], Extracted(archives[k]))
  BY <1>1, <1>2
<1> QED
  BY <1>3 DEF k

\* Two copies agree as far as their archives do.
LEMMA MergingAgrees ==
  ASSUME NEW one, NEW other, NEW n \in Nat, NEW k \in Nat, n <= k,
         \A i \in 1..n : one[i] = other[i],
         NEW g, Merging(g, one, n), NEW h, Merging(h, other, k)
  PROVE  g[n] = h[n]
<1> DEFINE good == {i \in Nat : i <= n => g[i] = h[i]}
<1>1. g[0] = h[0]
  BY DEF Merging
<1>2. ASSUME NEW i \in good PROVE i + 1 \in good
  <2> SUFFICES ASSUME i + 1 <= n PROVE g[i + 1] = h[i + 1]
    OBVIOUS
  <2>1. i \in Nat /\ i <= n /\ i + 1 \in 0..n /\ i + 1 \in 0..k /\ i + 1 # 0 /\ i + 1 - 1 = i
        /\ i + 1 \in 1..n
    OBVIOUS
  <2>2. g[i] = h[i] /\ one[i + 1] = other[i + 1]
    BY <2>1
  <2>3. g[i + 1] = CopyLayer(g[i], Extracted(one[i + 1]))
    BY <2>1, MergingStep
  <2>4. h[i + 1] = CopyLayer(h[i], Extracted(other[i + 1]))
    <3>1. i + 1 <= k
      BY <2>1
    <3> QED
      BY <2>1, <3>1, MergingStep
  <2> QED
    BY <2>2, <2>3, <2>4
<1>3. good = Nat
  <2>1. good \in SUBSET Nat /\ 0 \in good
    BY <1>1
  <2> HIDE DEF good
  <2> QED
    BY <1>2, <2>1, AllNumbers
<1> QED
  BY <1>3

\* MergeLayers of one more layer is the copy of that layer.
LEMMA MergeOver ==
  ASSUME NEW any, NEW archives \in Seq(any), NEW a \in any
  PROVE  /\ MergeLayers(Append(archives, a)) = CopyLayer(MergeLayers(archives), Extracted(a))
         /\ MergeLayers(<<>>) = [ok |-> TRUE, tree |-> EmptyTree]
<1> DEFINE n == Len(archives)
           more == Append(archives, a)
           g == CHOOSE g : Merging(g, archives, n)
           h == CHOOSE h : Merging(h, more, n + 1)
<1>1. /\ n \in Nat /\ Len(more) = n + 1 /\ more[n + 1] = a
      /\ \A i \in 1..n : archives[i] = more[i]
  OBVIOUS
<1>2. MergeLayers(archives) = g[n]
  BY DEF MergeLayers, Merging
<1>3. MergeLayers(more) = h[n + 1]
  <2>1. MergeLayers(more) = (CHOOSE f : Merging(f, more, Len(more)))[Len(more)]
    BY DEF MergeLayers, Merging
  <2> HIDE DEF more
  <2> QED
    BY <1>1, <2>1
<1> HIDE DEF n, more
<1>4. Merging(g, archives, n)
  BY <1>1, MergingExists
<1>5. Merging(h, more, n + 1)
  <2>1. n + 1 \in Nat
    BY <1>1
  <2> QED
    BY <2>1, MergingExists
<1> HIDE DEF g, h
<1>6. g[n] = h[n]
  <2>1. n + 1 \in Nat /\ n <= n + 1
    BY <1>1
  <2> QED
    BY <1>1, <1>4, <1>5, <2>1, MergingAgrees
<1>7. h[n + 1] = CopyLayer(h[n], Extracted(a))
  <2>1. n + 1 \in Nat /\ n + 1 <= n + 1
    BY <1>1
  <2>2. h[n + 1] = CopyLayer(h[n], Extracted(more[n + 1]))
    BY <1>1, <1>5, <2>1, MergingStep
  <2> QED
    BY <1>1, <2>2
<1>8. MergeLayers(<<>>) = [ok |-> TRUE, tree |-> EmptyTree]
  <2> DEFINE f == CHOOSE f : Merging(f, <<>>, 0)
  <2>1. Merging(f, <<>>, 0)
    BY MergingExists
  <2>2. Len(<<>>) = 0
    OBVIOUS
  <2>3. MergeLayers(<<>>) = f[0]
    BY <2>2 DEF MergeLayers, Merging
  <2> HIDE DEF f
  <2> QED
    BY <2>1, <2>3 DEF Merging
<1> QED
  BY <1>2, <1>3, <1>6, <1>7, <1>8 DEF more

\* A path is a directory in one of the layers and a file in another.
Turns(archives, p) ==
  \E i, j \in DOMAIN archives :
    LET one == Extracted(archives[i])
        other == Extracted(archives[j])
    IN  p \in Copies(one) \cap Copies(other) /\ IsDir(one[p]) /\ ~IsDir(other[p])

\* The directory of a layer hides p, or one that p is in.
HiddenBy(dir, p) == \E q \in Above(p) \cup {p} : q \in DOMAIN dir /\ dir[q] = "hidden"

\* Some layer hides p, or a directory that p is in.
Hides(archives, p) == \E i \in DOMAIN archives : HiddenBy(Extracted(archives[i]), p)

\* What the copy of the layers has, next to the image they show.
MergeFits(copy, archives, image) ==
  /\ copy.ok <=> ~\E p \in Paths : Turns(archives, p)
  /\ \A p \in DOMAIN copy.tree : \E i \in DOMAIN archives : p \in Copies(Extracted(archives[i]))
  /\ copy.ok =>
       /\ \A i \in DOMAIN archives : \A p \in Copies(Extracted(archives[i])) :
            /\ p \in DOMAIN copy.tree
            /\ IsDir(copy.tree[p]) <=> IsDir(Extracted(archives[i])[p])
       /\ \A p \in DOMAIN image :
            /\ p \in DOMAIN copy.tree
            /\ IsDir(copy.tree[p]) <=> IsDir(image[p])
            /\ ~IsDir(image[p]) => copy.tree[p] = image[p]
       /\ \A p \in DOMAIN copy.tree :
            \/ IsDir(copy.tree[p])
            \/ p \in DOMAIN image /\ image[p] = copy.tree[p]
            \/ Hides(archives, p)

\* The copy of one more layer has what the image with it has.
LEMMA MergeFitsOver ==
  ASSUME NEW any, NEW archives \in Seq(any), NEW a \in any,
         NEW old \in BuildTrees, NEW new,
         Layered(new, Extracted(a), old), DOMAIN Extracted(a) \subseteq Paths,
         NEW copy, MergeFits(copy, archives, old)
  PROVE  MergeFits(CopyLayer(copy, Extracted(a)), Append(archives, a), new)
<1> DEFINE n == Len(archives)
           more == Append(archives, a)
           top == Extracted(a)
           next == CopyLayer(copy, top)
           Ext(i) == Extracted(archives[i])
           clash == \E p \in Copies(top) \cap DOMAIN copy.tree : ~(IsDir(top[p]) <=> IsDir(copy.tree[p]))
<1>1. /\ n \in Nat /\ DOMAIN more = 1..(n + 1) /\ DOMAIN archives = 1..n /\ more[n + 1] = a
      /\ \A i \in 1..n : more[i] = archives[i]
  OBVIOUS
<1>2. /\ next.ok <=> copy.ok /\ ~clash
      /\ DOMAIN next.tree = Copies(top) \cup DOMAIN copy.tree
      /\ \A p \in DOMAIN next.tree :
           next.tree[p] = IF p \in Copies(top) /\ ~IsDir(top[p]) THEN top[p]
                          ELSE IF p \in DOMAIN copy.tree THEN copy.tree[p] ELSE "dir"
  BY DEF CopyLayer, Over
<1> HIDE DEF more, top, next
<1>3. /\ \A i \in DOMAIN more :
           \/ i \in DOMAIN archives /\ Extracted(more[i]) = Ext(i)
           \/ i = n + 1 /\ Extracted(more[i]) = top
      /\ \A i \in DOMAIN archives : i \in DOMAIN more /\ Extracted(more[i]) = Ext(i)
      /\ n + 1 \in DOMAIN more /\ Extracted(more[n + 1]) = top
  BY <1>1 DEF top
<1> HIDE DEF Ext, n
<1>4. /\ copy.ok <=> ~\E p \in Paths : Turns(archives, p)
      /\ \A p \in DOMAIN copy.tree : \E i \in DOMAIN archives : p \in Copies(Ext(i))
      /\ copy.ok => \A i \in DOMAIN archives : \A p \in Copies(Ext(i)) :
           p \in DOMAIN copy.tree /\ (IsDir(copy.tree[p]) <=> IsDir(Ext(i)[p]))
      /\ copy.ok => \A p \in DOMAIN old :
           /\ p \in DOMAIN copy.tree
           /\ IsDir(copy.tree[p]) <=> IsDir(old[p])
           /\ ~IsDir(old[p]) => copy.tree[p] = old[p]
      /\ copy.ok => \A p \in DOMAIN copy.tree :
           IsDir(copy.tree[p]) \/ (p \in DOMAIN old /\ old[p] = copy.tree[p]) \/ Hides(archives, p)
  BY DEF MergeFits, Ext
<1>5. /\ \A p : p \in DOMAIN new <=>
                 (IF p \in DOMAIN top THEN top[p] # "hidden"
                  ELSE ~Blocked(top, p) /\ p \in DOMAIN old)
      /\ \A p \in DOMAIN new : new[p] = IF p \in DOMAIN top THEN top[p] ELSE old[p]
      /\ DOMAIN top \subseteq Paths
      /\ \A p : p \in Copies(top) <=> p \in DOMAIN top /\ top[p] # "hidden"
  BY DEF Layered, top, Copies
<1>6. \A p : Hides(more, p) <=> Hides(archives, p) \/ HiddenBy(top, p)
  BY <1>3, Zenon DEF Hides, Ext
<1>7. \A p : Turns(more, p) <=>
              \/ Turns(archives, p)
              \/ \E i \in DOMAIN archives : /\ p \in Copies(Ext(i)) \cap Copies(top)
                                            /\ ~(IsDir(Ext(i)[p]) <=> IsDir(top[p]))
  <2> SUFFICES ASSUME NEW p
               PROVE  Turns(more, p) <=>
                        \/ Turns(archives, p)
                        \/ \E i \in DOMAIN archives : /\ p \in Copies(Ext(i)) \cap Copies(top)
                                                      /\ ~(IsDir(Ext(i)[p]) <=> IsDir(top[p]))
    OBVIOUS
  <2> DEFINE Turn(one, other) == p \in Copies(one) \cap Copies(other) /\ IsDir(one[p]) /\ ~IsDir(other[p])
  <2>1. Turns(more, p) <=> \E i, j \in DOMAIN more : Turn(Extracted(more[i]), Extracted(more[j]))
    BY DEF Turns
  <2>2. Turns(archives, p) <=> \E i, j \in DOMAIN archives : Turn(Ext(i), Ext(j))
    BY DEF Turns, Ext
  <2>3. ~Turn(top, top)
    OBVIOUS
  <2>4. \A i : /\ p \in Copies(Ext(i)) \cap Copies(top)
               /\ ~(IsDir(Ext(i)[p]) <=> IsDir(top[p]))
              <=> Turn(Ext(i), top) \/ Turn(top, Ext(i))
    OBVIOUS
  <2> HIDE DEF Turn
  <2>5. Turns(more, p) <=> \/ \E i, j \in DOMAIN archives : Turn(Ext(i), Ext(j))
                           \/ \E i \in DOMAIN archives : Turn(Ext(i), top) \/ Turn(top, Ext(i))
    BY <1>3, <2>1, <2>3
  <2> QED
    BY <2>2, <2>4, <2>5
<1>8. next.ok <=> ~\E p \in Paths : Turns(more, p)
  <2>1. ASSUME copy.ok, clash PROVE \E p \in Paths : Turns(more, p)
    <3>1. PICK p \in Copies(top) \cap DOMAIN copy.tree : ~(IsDir(top[p]) <=> IsDir(copy.tree[p]))
      BY <2>1
    <3>2. PICK i \in DOMAIN archives : p \in Copies(Ext(i))
      BY <1>4, <3>1
    <3>3. IsDir(copy.tree[p]) <=> IsDir(Ext(i)[p])
      BY <1>4, <2>1, <3>2
    <3>4. p \in Paths
      BY <1>5, <3>1
    <3> QED
      BY <1>7, <3>1, <3>2, <3>3, <3>4
  <2>2. ASSUME copy.ok, NEW p \in Paths, Turns(more, p) PROVE clash
    <3>1. PICK i \in DOMAIN archives : /\ p \in Copies(Ext(i)) \cap Copies(top)
                                       /\ ~(IsDir(Ext(i)[p]) <=> IsDir(top[p]))
      BY <1>4, <1>7, <2>2
    <3>2. p \in DOMAIN copy.tree /\ (IsDir(copy.tree[p]) <=> IsDir(Ext(i)[p]))
      BY <1>4, <2>2, <3>1
    <3> QED
      BY <3>1, <3>2
  <2> QED
    BY <1>2, <1>4, <1>7, <2>1, <2>2
<1>9. \A p \in DOMAIN next.tree : \E i \in DOMAIN more : p \in Copies(Extracted(more[i]))
  BY <1>2, <1>3, <1>4
<1>10. ASSUME next.ok
       PROVE  copy.ok /\ \A p \in DOMAIN next.tree :
                /\ p \in Copies(top) => (IsDir(next.tree[p]) <=> IsDir(top[p]))
                /\ p \in DOMAIN copy.tree => (IsDir(next.tree[p]) <=> IsDir(copy.tree[p]))
  BY <1>2, <1>10 DEF IsDir
<1>11. ASSUME next.ok, NEW i \in DOMAIN more, NEW p \in Copies(Extracted(more[i]))
       PROVE  p \in DOMAIN next.tree /\ (IsDir(next.tree[p]) <=> IsDir(Extracted(more[i])[p]))
  <2>1. CASE i \in DOMAIN archives /\ Extracted(more[i]) = Ext(i)
    <3>1. p \in DOMAIN copy.tree /\ (IsDir(copy.tree[p]) <=> IsDir(Ext(i)[p]))
      BY <1>4, <1>10, <1>11, <2>1
    <3> QED
      BY <1>2, <1>10, <1>11, <2>1, <3>1
  <2>2. CASE Extracted(more[i]) = top
    BY <1>2, <1>10, <1>11, <2>2
  <2> QED
    BY <1>3, <2>1, <2>2
<1>12. ASSUME next.ok, NEW p \in DOMAIN new
       PROVE  /\ p \in DOMAIN next.tree
              /\ IsDir(next.tree[p]) <=> IsDir(new[p])
              /\ ~IsDir(new[p]) => next.tree[p] = new[p]
  <2>1. CASE p \in DOMAIN top
    <3>1. p \in Copies(top) /\ new[p] = top[p]
      BY <1>5, <2>1
    <3> QED
      BY <1>2, <1>10, <1>12, <3>1
  <2>2. CASE p \notin DOMAIN top
    <3>1. p \in DOMAIN old /\ new[p] = old[p] /\ p \notin Copies(top)
      BY <1>5, <2>2
    <3>2. /\ p \in DOMAIN copy.tree
          /\ IsDir(copy.tree[p]) <=> IsDir(old[p])
          /\ ~IsDir(old[p]) => copy.tree[p] = old[p]
      BY <1>4, <1>10, <1>12, <3>1
    <3> QED
      BY <1>2, <3>1, <3>2
  <2> QED
    BY <2>1, <2>2
<1>13. ASSUME next.ok, NEW p \in DOMAIN next.tree, ~IsDir(next.tree[p])
       PROVE  (p \in DOMAIN new /\ new[p] = next.tree[p]) \/ Hides(more, p)
  <2>1. CASE p \in Copies(top)
    <3>1. ~IsDir(top[p]) /\ next.tree[p] = top[p]
      BY <1>2, <1>10, <1>13, <2>1
    <3> QED
      BY <1>5, <2>1, <3>1
  <2>2. CASE p \notin Copies(top)
    <3>1. p \in DOMAIN copy.tree /\ next.tree[p] = copy.tree[p]
      BY <1>2, <2>2
    <3>2. CASE Hides(archives, p)
      BY <1>6, <3>2
    <3>3. CASE p \in DOMAIN old /\ old[p] = copy.tree[p]
      <4>1. CASE p \in DOMAIN top
        <5>1. HiddenBy(top, p)
          BY <1>5, <2>2, <4>1 DEF HiddenBy
        <5> QED
          BY <1>6, <5>1
      <4>2. CASE p \notin DOMAIN top /\ ~Blocked(top, p)
        BY <1>5, <3>1, <3>3, <4>2
      <4>3. CASE Blocked(top, p)
        <5>1. PICK q \in Above(p) \cap DOMAIN top : ~IsDir(top[q])
          BY <4>3 DEF Blocked
        <5>2. CASE top[q] = "hidden"
          <6>1. HiddenBy(top, p)
            BY <5>1, <5>2 DEF HiddenBy
          <6> QED
            BY <1>6, <6>1
        <5>3. CASE top[q] # "hidden"
          <6>1. q \in Copies(top)
            BY <1>5, <5>1, <5>3
          <6>2. q \in DOMAIN old /\ IsDir(old[q])
            BY <3>3, <5>1, BuildTreeFacts DEF IsTree
          <6>3. q \in DOMAIN copy.tree /\ IsDir(copy.tree[q])
            BY <1>4, <1>10, <1>13, <6>2
          <6>4. q \in DOMAIN next.tree
            BY <1>2, <6>1
          <6> QED
            BY <1>10, <1>13, <5>1, <6>1, <6>3, <6>4
        <5> QED
          BY <5>2, <5>3
      <4> QED
        BY <4>1, <4>2, <4>3
    <3> QED
      BY <1>4, <1>10, <1>13, <3>1, <3>2, <3>3
  <2> QED
    BY <2>1, <2>2
<1>14. MergeFits(next, more, new)
  BY <1>8, <1>9, <1>11, <1>12, <1>13 DEF MergeFits
<1> QED
  BY <1>14 DEF next, more, top

-----------------------------------------------------------------------------
(***************************************************************************)
(* A layer is added to those of an image.                                  *)
(***************************************************************************)
Archives == Seq([path : Paths, entry : Entries \cup {"hidden"}])

\* What holds of the layers of tree b, if they extract.
LayersFit(archives, b) ==
  AllExtract(archives) => /\ Fits(Mounted(archives), b)
                          /\ MergeFits(MergeLayers(archives), archives, Mounted(archives))

\* No layers show the empty tree.
LEMMA NoLayersFit ==
  /\ <<>> \in Seq(Archives) /\ LayersFit(<<>>, EmptyTree) /\ Mounted(<<>>) = EmptyTree
  /\ AllExtract(<<>>)
<1>1. DOMAIN EmptyTree = {} /\ DOMAIN <<>> = {} /\ <<>> \in Seq(Archives)
  BY EmptyTreeFacts
<1>2. MergeLayers(<<>>) = [ok |-> TRUE, tree |-> EmptyTree]
  <2>1. <<>> \in Seq({{}}) /\ {} \in {{}}
    OBVIOUS
  <2> QED
    BY <2>1, MergeOver
<1>3. \A p : ~Turns(<<>>, p)
  BY <1>1 DEF Turns
<1>4. MergeFits(MergeLayers(<<>>), <<>>, EmptyTree)
  BY <1>1, <1>2, <1>3 DEF MergeFits
<1>5. Fits(EmptyTree, EmptyTree)
  BY <1>1, EmptyTreeIsTree DEF Fits
<1> QED
  BY <1>1, <1>4, <1>5, MountedNone DEF LayersFit, AllExtract

\* A layer is an archive, of the paths it was made of.
LEMMA ArchiveTyped ==
  ASSUME NEW a \in BuildTrees, NEW S \in SUBSET DOMAIN a, NEW G \in SUBSET (Paths \ DOMAIN a)
  PROVE  LET layer == Archived(a, S) \o Whiteouts(G)
         IN  /\ layer \in Archives
             /\ {layer[i].path : i \in DOMAIN layer} = S \cup G
             /\ S \cup G = {} => layer = <<>>
<1> DEFINE layer == Archived(a, S) \o Whiteouts(G)
           n == Cardinality(S)
           k == Cardinality(G)
           Items == [path : Paths, entry : Entries \cup {"hidden"}]
<1>1. /\ S \in SUBSET Seq(Nat) /\ IsFiniteSet(S) /\ S \subseteq Paths
      /\ G \in SUBSET Seq(Nat) /\ IsFiniteSet(G) /\ G \subseteq Paths
  <2>1. S \subseteq Paths /\ G \subseteq Paths
    BY BuildTreeFacts
  <2> QED
    BY <2>1, PathsFacts, FS_Subset
<1>2. IsArchive(layer, a, S, G)
  BY <1>1, ArchiveItems
<1>3. /\ n \in Nat /\ (\A i \in 1..n : InOrder(S)[i] \in S)
      /\ \A p \in S : \E i \in 1..n : InOrder(S)[i] = p
  BY <1>1, InOrderFacts
<1>4. /\ k \in Nat /\ (\A i \in 1..k : InOrder(G)[i] \in G)
      /\ \A p \in G : \E i \in 1..k : InOrder(G)[i] = p
  BY <1>1, InOrderFacts
<1> HIDE DEF layer
<1>5. /\ Len(layer) = n + k
      /\ \A i \in 1..n : layer[i] = [path |-> InOrder(S)[i], entry |-> a[InOrder(S)[i]]]
      /\ \A i \in 1..k : layer[n + i] = [path |-> InOrder(G)[i], entry |-> "hidden"]
      /\ layer \in Seq({layer[i] : i \in 1..Len(layer)})
  BY <1>2 DEF IsArchive
<1> HIDE DEF n, k
<1>6. DOMAIN layer = 1..(n + k)
  BY <1>5
<1>7. ASSUME NEW i \in 1..(n + k)
      PROVE  \/ i \in 1..n /\ layer[i] = [path |-> InOrder(S)[i], entry |-> a[InOrder(S)[i]]]
             \/ \E j \in 1..k : layer[i] = [path |-> InOrder(G)[j], entry |-> "hidden"]
  <2>1. CASE i <= n
    <3>1. i \in 1..n
      BY <1>3, <1>4, <2>1
    <3> QED
      BY <1>5, <3>1
  <2>2. CASE n < i
    <3>1. i - n \in 1..k /\ n + (i - n) = i
      BY <1>3, <1>4, <2>2
    <3>2. layer[n + (i - n)] = [path |-> InOrder(G)[i - n], entry |-> "hidden"]
      BY <1>5, <3>1
    <3> QED
      BY <3>1, <3>2
  <2> QED
    BY <1>3, <1>4, <2>1, <2>2
<1>8. \A i \in 1..(n + k) : layer[i] \in Items /\ layer[i].path \in S \cup G
  <2> SUFFICES ASSUME NEW i \in 1..(n + k) PROVE layer[i] \in Items /\ layer[i].path \in S \cup G
    OBVIOUS
  <2>1. ASSUME NEW j \in 1..n, layer[i] = [path |-> InOrder(S)[j], entry |-> a[InOrder(S)[j]]]
        PROVE  layer[i] \in Items /\ layer[i].path \in S \cup G
    <3>1. InOrder(S)[j] \in S /\ a[InOrder(S)[j]] \in Entries
      BY <1>3, BuildTreeFacts
    <3> QED
      BY <1>1, <2>1, <3>1
  <2>2. ASSUME NEW j \in 1..k, layer[i] = [path |-> InOrder(G)[j], entry |-> "hidden"]
        PROVE  layer[i] \in Items /\ layer[i].path \in S \cup G
    <3>1. InOrder(G)[j] \in G
      BY <1>4
    <3> QED
      BY <1>1, <2>2, <3>1
  <2> QED
    BY <1>7, <2>1, <2>2
<1>9. layer \in Archives
  <2>1. {layer[i] : i \in 1..Len(layer)} \subseteq Items
    BY <1>5, <1>8
  <2> HIDE DEF Items
  <2>2. layer \in Seq(Items)
    BY <1>5, <2>1
  <2> QED
    BY <2>2 DEF Archives, Items
<1>a. /\ \A i \in 1..n : layer[i] = [path |-> InOrder(S)[i], entry |-> a[InOrder(S)[i]]]
      /\ \A i \in 1..k : layer[n + i] = [path |-> InOrder(G)[i], entry |-> "hidden"]
  BY <1>5
<1>b. /\ \A i \in 1..n : layer[i].path = InOrder(S)[i]
      /\ \A i \in 1..k : layer[n + i].path = InOrder(G)[i]
  <2>1. \A x, y, z : z = [path |-> x, entry |-> y] => z.path = x
    OBVIOUS
  <2>2. \A i \in 1..n : layer[i].path = InOrder(S)[i]
    <3> SUFFICES ASSUME NEW i \in 1..n PROVE layer[i].path = InOrder(S)[i]
      OBVIOUS
    <3>1. layer[i] = [path |-> InOrder(S)[i], entry |-> a[InOrder(S)[i]]]
      BY <1>a
    <3> QED
      BY <2>1, <3>1
  <2>3. \A i \in 1..k : layer[n + i].path = InOrder(G)[i]
    <3> SUFFICES ASSUME NEW i \in 1..k PROVE layer[n + i].path = InOrder(G)[i]
      OBVIOUS
    <3>1. layer[n + i] = [path |-> InOrder(G)[i], entry |-> "hidden"]
      BY <1>a
    <3> QED
      BY <2>1, <3>1
  <2> QED
    BY <2>2, <2>3
<1>10. {layer[i].path : i \in DOMAIN layer} = S \cup G
  <2>1. ASSUME NEW p \in S PROVE \E i \in 1..(n + k) : layer[i].path = p
    <3>1. PICK i \in 1..n : InOrder(S)[i] = p
      BY <1>3
    <3>2. i \in 1..(n + k)
      BY <1>3, <1>4
    <3>3. layer[i].path = p
      BY <1>b, <3>1
    <3> QED
      BY <3>2, <3>3
  <2>2. ASSUME NEW p \in G PROVE \E i \in 1..(n + k) : layer[i].path = p
    <3>1. PICK i \in 1..k : InOrder(G)[i] = p
      BY <1>4
    <3>2. n + i \in 1..(n + k)
      BY <1>3, <1>4
    <3>3. layer[n + i].path = p
      BY <1>b, <3>1
    <3> QED
      BY <3>2, <3>3
  <2> QED
    BY <1>6, <1>8, <2>1, <2>2
<1>11. S \cup G = {} => layer = <<>>
  <2> SUFFICES ASSUME S \cup G = {} PROVE layer = <<>>
    OBVIOUS
  <2>1. \A i \in DOMAIN layer : layer[i].path \in S \cup G
    BY <1>10
  <2> QED
    BY <1>5, <2>1
<1> QED
  BY <1>9, <1>10, <1>11 DEF layer

\* What a layer of S and G is, and what more, the layers with it, show.
IsAdded(a, b, S, G, archives, layer, more) ==
  /\ layer \in Archives /\ more \in Seq(Archives)
  /\ Len(more) = Len(archives) + 1 /\ Last(more) = layer
  /\ Extracts(layer) <=> ~Collides(a, Kept(S), Marked(G))
  /\ Implied(layer) = (AboveAny(S) \cup AboveAny(G)) \ (S \cup G)
  /\ LayersFit(more, a)
  /\ AllExtract(more) =>
       /\ Fits(Mounted(archives), b)
       /\ Fits(Mounted(more), a)
       /\ Extracted(layer) = Opened(a, Kept(S), Marked(G))
       /\ Layered(Mounted(more), Opened(a, Kept(S), Marked(G)), Mounted(archives))

\* A layer that carries its step, over layers that fit the tree before it.
LEMMA LayerAdded ==
  ASSUME NEW a \in BuildTrees, NEW b, NEW S \in SUBSET DOMAIN a,
         NEW G \in SUBSET (Paths \ DOMAIN a), Carries(b, a, Kept(S), Marked(G)),
         NEW archives \in Seq(Archives), LayersFit(archives, b),
         NEW layer, layer = Archived(a, S) \o Whiteouts(G),
         NEW more, more = Append(archives, layer)
  PROVE  IsAdded(a, b, S, G, archives, layer, more)
<1> DEFINE had == Kept(S)
           gone == Marked(G)
<1>1. had \in SUBSET DOMAIN a /\ gone \in SUBSET (Paths \ DOMAIN a)
  BY DEF Kept, Marked
<1>2. /\ layer \in Archives
      /\ {layer[i].path : i \in DOMAIN layer} = S \cup G
  BY ArchiveTyped
<1>3. /\ more \in Seq(Archives) /\ Len(more) = Len(archives) + 1 /\ Len(archives) \in Nat
      /\ DOMAIN more = 1..(Len(archives) + 1) /\ DOMAIN archives = 1..Len(archives)
      /\ more[Len(archives) + 1] = layer
      /\ \A i \in 1..Len(archives) : more[i] = archives[i]
  <2> HIDE DEF Archives
  <2> QED
    BY <1>2
<1>4. Last(more) = layer
  BY <1>3 DEF Last
<1>5. /\ Extracts(layer) <=> ~Collides(a, had, gone)
      /\ Extracts(layer) => Extracted(layer) = Opened(a, had, gone)
  <2>1. /\ IsTree(a) /\ DOMAIN a \subseteq Seq(Nat) /\ <<>> \notin DOMAIN a
        /\ \A p \in DOMAIN a : a[p] # "hidden"
        /\ DOMAIN a \subseteq Paths
    BY BuildTreeFacts, PathsFacts
  <2>2. IsFiniteSet(S) /\ IsFiniteSet(G) /\ G \in SUBSET Seq(Nat)
    BY <2>1, PathsFacts, FS_Subset
  <2> QED
    BY <2>1, <2>2, ArchiveFacts
<1>6. Implied(layer) = (AboveAny(S) \cup AboveAny(G)) \ (S \cup G)
  BY <1>2 DEF Implied, AboveAny
<1>7. AllExtract(more) => AllExtract(archives) /\ Extracts(layer)
  <2>1. /\ Len(archives) + 1 \in DOMAIN more
        /\ \A i \in DOMAIN archives : i \in DOMAIN more /\ more[i] = archives[i]
    BY <1>3
  <2>2. ASSUME AllExtract(more) PROVE AllExtract(archives) /\ Extracts(layer)
    <3>1. \A i \in DOMAIN more : Extracts(more[i])
      BY <2>2 DEF AllExtract
    <3> QED
      BY <1>3, <2>1, <3>1 DEF AllExtract
  <2> QED
    BY <2>2
<1> HIDE DEF had, gone
<1>8. ASSUME AllExtract(more)
      PROVE  /\ Fits(Mounted(archives), b)
             /\ Extracted(layer) = Opened(a, had, gone)
             /\ Layered(Mounted(more), Opened(a, had, gone), Mounted(archives))
             /\ Fits(Mounted(more), a)
             /\ MergeFits(MergeLayers(more), more, Mounted(more))
  <2>1. /\ Fits(Mounted(archives), b)
        /\ MergeFits(MergeLayers(archives), archives, Mounted(archives))
    BY <1>7, <1>8 DEF LayersFit
  <2>2. ~Collides(a, had, gone) /\ Extracted(layer) = Opened(a, had, gone)
    BY <1>5, <1>7, <1>8
  <2>3. Layered(Mounted(more), Extracted(layer), Mounted(archives))
    BY <1>2, MountedOver
  <2>4. Fits(Mounted(more), a)
    BY <2>1, <2>2, <2>3, CarriesFits DEF had, gone
  <2>5. DOMAIN Extracted(layer) \subseteq Paths
    <3>1. IsOpened(Opened(a, had, gone), a, had, gone)
      BY <1>1, OpenedFacts
    <3> QED
      BY <2>2, <3>1 DEF IsOpened
  <2>6. MergeLayers(more) = CopyLayer(MergeLayers(archives), Extracted(layer))
    BY <1>2, MergeOver
  <2>7. MergeFits(MergeLayers(more), more, Mounted(more))
    <3>1. Mounted(archives) \in BuildTrees
      BY <2>1 DEF Fits
    <3> QED
      BY <1>2, <2>1, <2>3, <2>5, <2>6, <3>1, MergeFitsOver
  <2> QED
    BY <2>1, <2>2, <2>3, <2>4, <2>7
<1> QED
  BY <1>2, <1>3, <1>4, <1>5, <1>6, <1>8 DEF LayersFit, IsAdded, had, gone

-----------------------------------------------------------------------------
(***************************************************************************)
(* The file for apt in the tree, and the tree without it.                  *)
(***************************************************************************)
LEMMA WorkTreeFacts ==
  /\ \A t : t \in WorkTrees <=>
              /\ t = [p \in DOMAIN t |-> t[p]]
              /\ DOMAIN t \subseteq Paths
              /\ \A p \in DOMAIN t : t[p] \in Entries \cup {"override"}
              /\ IsTree(t)
  /\ BuildTrees \subseteq WorkTrees
<1>1. WorkTrees = Trees(Paths, Entries \cup {"override"})
  <2>1. {"dir", "sticky", "override"} \cup Contents = Entries \cup {"override"}
    BY DEF Entries
  <2> QED
    BY <2>1 DEF WorkTrees
<1>2. \A t : t \in WorkTrees <=>
              /\ t = [p \in DOMAIN t |-> t[p]]
              /\ DOMAIN t \subseteq Paths
              /\ \A p \in DOMAIN t : t[p] \in Entries \cup {"override"}
              /\ IsTree(t)
  BY <1>1, TreesFacts
<1> QED
  BY <1>2, BuildTreeFacts

\* The place of the file for apt among the paths.
LEMMA AptConfFacts ==
  /\ AptConf \in Paths /\ AptConf \in Seq(Nat) /\ AptConf # <<>>
  /\ AptConf \notin Above(AptConf)
  /\ \A p \in Paths : IsStrictPrefix(AptConf, p) <=> AptConf \in Above(p)
  /\ \A p \in Paths : \A q \in Above(p) : AptConf \in Above(q) => AptConf \in Above(p)
  /\ \A q \in Above(AptConf) : AptConf \notin Above(q)
<1>1. AptConf \in Paths /\ AptConf \in Seq(Nat) /\ AptConf # <<>> /\ AptConf \notin Above(AptConf)
  BY PathsAssumption DEF Above
<1>2. \A p \in Paths : IsStrictPrefix(AptConf, p) <=> AptConf \in Above(p)
  BY <1>1, PathsFacts, AboveFacts
<1>3. \A p \in Paths : \A q \in Above(p) : AptConf \in Above(q) => AptConf \in Above(p)
  BY PathsFacts
<1>4. \A q \in Above(AptConf) : AptConf \notin Above(q)
  BY <1>1, <1>3
<1> QED
  BY <1>1, <1>2, <1>3, <1>4

\* The override is put where apt has its directory.
Overridden(t) == Put(t, AptConf, "override")

\* The tree with the file for apt differs only there, and below it.
LEMMA OverriddenFacts ==
  ASSUME NEW t \in WorkTrees, Above(AptConf) \subseteq DOMAIN t, ~Blocked(t, AptConf)
  PROVE  /\ Overridden(t) \in WorkTrees
         /\ DOMAIN Overridden(t) = {AptConf} \cup {r \in DOMAIN t : AptConf \notin Above(r)}
         /\ Overridden(t)[AptConf] = "override"
         /\ \A p \in DOMAIN Overridden(t) : p # AptConf => Overridden(t)[p] = t[p]
<1> DEFINE u == Overridden(t)
<1>1. DOMAIN t \subseteq Paths /\ IsTree(t) /\ \A p \in DOMAIN t : t[p] \in Entries \cup {"override"}
  BY WorkTreeFacts
<1>2. ~IsDir("override")
  BY DEF IsDir
<1>3. /\ u = [p \in DOMAIN u |-> u[p]]
      /\ DOMAIN u = {AptConf} \cup {r \in DOMAIN t : ~IsStrictPrefix(AptConf, r)}
      /\ \A p \in DOMAIN u : u[p] = IF p = AptConf THEN "override" ELSE t[p]
  BY <1>2 DEF Overridden, Put
<1> HIDE DEF u
<1>4. DOMAIN u = {AptConf} \cup {r \in DOMAIN t : AptConf \notin Above(r)}
  BY <1>1, <1>3, AptConfFacts
<1>5. IsTree(u)
  <2> SUFFICES ASSUME NEW p \in DOMAIN u, NEW q \in Above(p) PROVE q \in DOMAIN u /\ IsDir(u[q])
    BY DEF IsTree
  <2>1. q \in DOMAIN t /\ IsDir(t[q])
    BY <1>1, <1>4 DEF IsTree, Blocked
  <2>2. q # AptConf /\ AptConf \notin Above(q)
    BY <1>1, <1>4, AptConfFacts
  <2> QED
    BY <1>3, <1>4, <2>1, <2>2
<1>6. DOMAIN u \subseteq Paths /\ \A p \in DOMAIN u : u[p] \in Entries \cup {"override"}
  BY <1>1, <1>3, <1>4, AptConfFacts
<1>7. u \in WorkTrees
  BY <1>3, <1>5, <1>6, WorkTreeFacts
<1> QED
  BY <1>3, <1>4, <1>7 DEF u

\* Once the guard is dropped the override is in no tree that a command may leave.
LEMMA OutcomesFit ==
  ASSUME NEW t \in Outcomes
  PROVE  WithoutOverride(t) \in BuildTrees
<1> DEFINE u == [p \in DOMAIN t \ {AptConf} |-> t[p]]
<1>1. ASSUME t \in WorkTrees, AptConf \in DOMAIN t, ~IsDir(t[AptConf]),
             \A p \in DOMAIN t : p # AptConf => t[p] \in Entries
      PROVE  u \in BuildTrees
  <2>1. DOMAIN t \subseteq Paths /\ IsTree(t)
    BY <1>1, WorkTreeFacts
  <2>2. DOMAIN u = DOMAIN t \ {AptConf} /\ \A p \in DOMAIN u : u[p] = t[p]
    OBVIOUS
  <2>3. u = [p \in DOMAIN u |-> u[p]]
    OBVIOUS
  <2> HIDE DEF u
  <2>4. IsTree(u)
    <3> SUFFICES ASSUME NEW p \in DOMAIN u, NEW q \in Above(p) PROVE q \in DOMAIN u /\ IsDir(u[q])
      BY DEF IsTree
    <3>1. q \in DOMAIN t /\ IsDir(t[q])
      BY <2>1, <2>2 DEF IsTree
    <3> QED
      BY <1>1, <2>2, <3>1
  <2> QED
    BY <1>1, <2>1, <2>2, <2>3, <2>4, BuildTreeFacts
<1>2. CASE t \in BuildTrees
  <2>1. t \in WorkTrees /\ \A p \in DOMAIN t : t[p] \in Entries
    BY <1>2, WorkTreeFacts, BuildTreeFacts
  <2> QED
    BY <1>1, <1>2, <2>1 DEF WithoutOverride
<1>3. ASSUME "apt" \in held, NEW v \in Results, t = Overridden(v),
             Above(AptConf) \subseteq DOMAIN v, ~Blocked(v, AptConf)
      PROVE  WithoutOverride(t) \in BuildTrees
  <2>1. v \in WorkTrees /\ \A p \in DOMAIN v : v[p] \in Entries
    BY TreesAssumption, WorkTreeFacts, BuildTreeFacts
  <2>2. /\ t \in WorkTrees /\ AptConf \in DOMAIN t /\ t[AptConf] = "override"
        /\ \A p \in DOMAIN t : p # AptConf => t[p] \in Entries
    BY <1>3, <2>1, OverriddenFacts
  <2>3. u \in BuildTrees
    BY <1>1, <2>2 DEF IsDir
  <2> QED
    BY <1>3, <2>2, <2>3 DEF WithoutOverride, IsDir
<1> QED
  BY <1>2, <1>3, TreesAssumption DEF Outcomes, Overridden

-----------------------------------------------------------------------------
(***************************************************************************)
(* The invariant: the layers so far show the tree that the steps so far    *)
(* have left.                                                              *)
(***************************************************************************)
Base == IF pc \in {"ready", "done"} THEN rootfs ELSE before

\* Layers that extract show the tree they are the layers of: the one the steps work
\* on, or, while a step is under way, the one it began with.
TreesFit ==
  /\ TypeOK
  /\ layers \in Seq(Archives)
  /\ "apt" \notin held => rootfs \in BuildTrees
  /\ pc \in Working \cup {"prepare", "store"} => Len(layers) < MaxLayers
  /\ LayersFit(layers, Base)

\* A stage begins with an empty tree and no layers.
LEMMA TreesInit == Init => TreesFit
<1> SUFFICES ASSUME Init PROVE TreesFit
  OBVIOUS
<1>1. Len(<<>>) <= MaxLayers
  BY BoundAssumption
<1>2. EmptyTree \in BuildTrees /\ EmptyTree \in WorkTrees
  BY EmptyTreeIsTree, WorkTreeFacts
<1>3. Base = EmptyTree /\ layers = <<>>
  BY DEF Init, Base
<1>4. TypeOK
  BY <1>1, <1>2, Zenon DEF Init, TypeOK, Working
<1> QED
  BY <1>2, <1>3, <1>4, NoLayersFit DEF Init, TreesFit, Working

\* A build that fails forgets its trees and layers.
LEMMA FailTrees ==
  ASSUME NEW reason \in {"step", "base", "bind"},
         NEW left \in SUBSET {"workspace", "base", "proc", "devices"},
         FailFor(reason, left)
  PROVE  TreesFit'
<1>1. Len(<<>>) <= MaxLayers
  BY BoundAssumption
<1>2. EmptyTree \in BuildTrees /\ EmptyTree \in WorkTrees
  BY EmptyTreeIsTree, WorkTreeFacts
<1>3. Base' = EmptyTree /\ layers' = <<>>
  BY DEF FailFor, Base
<1>4. TypeOK'
  BY <1>1, <1>2 DEF FailFor, TypeOK, Working
<1>5. LayersFit(layers', Base')
  BY <1>3, NoLayersFit
<1> QED
  BY <1>2, <1>3, <1>4, <1>5, NoLayersFit DEF FailFor, TreesFit, Working

\* The image of layers that extract and fit is a tree, and fits itself.
LEMMA MountedFits ==
  ASSUME NEW archives, NEW b, LayersFit(archives, b), AllExtract(archives)
  PROVE  Mounted(archives) \in BuildTrees /\ LayersFit(archives, Mounted(archives))
BY DEF LayersFit, Fits

\* A stage that begins with fitting layers has the tree they show.
LEMMA BeginTrees ==
  ASSUME TreesFit, NEW archives \in Seq(Archives), Len(archives) <= MaxLayers,
         NEW b, LayersFit(archives, b), AllExtract(archives),
         pc \in {"from", "done"}, BeginStage(archives)
  PROVE  TreesFit'
<1>1. Mounted(archives) \in BuildTrees /\ LayersFit(archives, Mounted(archives))
  BY MountedFits
<1>2. Mounted(archives) \in WorkTrees
  BY <1>1, WorkTreeFacts
<1>3. pc' = "ready" /\ layers' = archives /\ rootfs' = Mounted(archives) /\ held' = {"workspace"}
      /\ before' = before /\ cause' = cause
  BY DEF BeginStage
<1>4. TypeOK'
  BY <1>2, <1>3 DEF TreesFit, TypeOK, Working
<1>5. Base' = Mounted(archives)
  BY <1>3 DEF Base
<1>6. LayersFit(layers', Base')
  BY <1>1, <1>3, <1>5
<1> QED
  BY <1>1, <1>3, <1>4, <1>6 DEF TreesFit, Working

\* The layer of RUN and ADD carries the step.
LEMMA DiffLayerFits ==
  ASSUME NEW b \in BuildTrees, NEW a \in BuildTrees
  PROVE  /\ Changed(b, a) \in SUBSET DOMAIN a
         /\ Gone(b, a) \in SUBSET (Paths \ DOMAIN a)
         /\ Carries(b, a, Kept(Changed(b, a)), Marked(Gone(b, a)))
         /\ DiffLayer(b, a) = Archived(a, Changed(b, a)) \o Whiteouts(Gone(b, a))
BY DiffCarries, BuildTreeFacts DEF DiffLayer, Changed, Gone

\* A layer of files alone has nothing after them.
LEMMA PathsLayerFacts ==
  ASSUME NEW a \in BuildTrees, NEW S \in SUBSET DOMAIN a
  PROVE  PathsLayer(a, S) = Archived(a, S) \o Whiteouts({})
<1>1. S \in SUBSET Seq(Nat) /\ IsFiniteSet(S)
  <2>1. S \subseteq Paths
    BY BuildTreeFacts
  <2> QED
    BY <2>1, PathsFacts, FS_Subset
<1> DEFINE n == Cardinality(S)
           item(i) == [path |-> InOrder(S)[i], entry |-> a[InOrder(S)[i]]]
           items == {item(i) : i \in 1..n}
<1>2. n \in Nat /\ DOMAIN InOrder(S) = 1..n
  BY <1>1, InOrderFacts
<1>3. Archived(a, S) = [i \in 1..n |-> item(i)]
  BY <1>2 DEF Archived
<1> HIDE DEF n, item
<1>4. Archived(a, S) \in Seq(items)
  BY <1>2, <1>3
<1>5. Whiteouts({}) = <<>>
  <2>1. IsFiniteSet({}) /\ Cardinality({}) = 0 /\ {} \in SUBSET Seq(Nat)
    BY FS_EmptySet
  <2>2. DOMAIN InOrder({}) = 1..0
    BY <2>1, InOrderFacts
  <2>3. DOMAIN Whiteouts({}) = 1..0 /\ Whiteouts({}) = [i \in 1..0 |-> Whiteouts({})[i]]
    BY <2>2 DEF Whiteouts
  <2> QED
    BY <2>3
<1> HIDE DEF items
<1> QED
  BY <1>4, <1>5 DEF PathsLayer

\* What a copy makes of the tree, and the layer it leaves.
LEMMA CopiedFacts ==
  ASSUME rootfs \in BuildTrees, NEW s \in BuildTrees, NEW d \in Paths \cup {<<>>},
         CopyFits(s, d)
  PROVE  LET u == Under(d, s)
             a == Copied(s, d)
         IN  /\ a \in BuildTrees
             /\ \A S : DOMAIN u \subseteq S /\ S \subseteq DOMAIN u \cup ({d} \ {<<>>}) =>
                  S \subseteq DOMAIN a /\ Carries(rootfs, a, Kept(S), {})
             /\ <<>> \notin DOMAIN u
<1> DEFINE u == Under(d, s)
           m == MakeDirs(rootfs, d)
<1>1. d \in Seq(Nat)
  <2>1. <<>> \in Seq(Nat)
    OBVIOUS
  <2> QED
    BY <2>1, PathsFacts
<1>2. HasWay(m, rootfs, d)
  BY MakeDirsFacts DEF CopyFits
<1>3. IsBelow(u, d)
  BY <1>1, UnderFacts
<1>4. DOMAIN u \subseteq Paths
  BY DEF Under, CopyFits
<1>5. Copied(s, d) = CopyTree(m, u)
  BY DEF Copied
<1> HIDE DEF u, m
<1>6. CopyTree(m, u) \in BuildTrees
  BY <1>2, <1>3, <1>4, CopyFacts
<1>7. ASSUME NEW S, DOMAIN u \subseteq S, S \subseteq DOMAIN u \cup ({d} \ {<<>>})
      PROVE  S \subseteq DOMAIN CopyTree(m, u) /\ Carries(rootfs, CopyTree(m, u), Kept(S), {})
  BY <1>1, <1>2, <1>3, <1>4, <1>7, CopyCarries
<1>8. <<>> \notin DOMAIN u
  BY <1>4, PathsFacts
<1> QED
  BY <1>5, <1>6, <1>7, <1>8 DEF u

\* The directories on the way to d are made: the image is of the tree as before.
LEMMA WayFits ==
  ASSUME NEW archives, NEW t, NEW d, NEW m, HasWay(m, t, d), LayersFit(archives, t)
  PROVE  LayersFit(archives, m)
<1> SUFFICES ASSUME AllExtract(archives), NEW i, i = Mounted(archives) PROVE Fits(i, m)
  BY DEF LayersFit
<1>1. Fits(i, t)
  BY DEF LayersFit
<1>2. /\ m \in BuildTrees /\ DOMAIN t \subseteq DOMAIN m
      /\ \A p \in DOMAIN t : m[p] = t[p]
      /\ \A p \in DOMAIN m \ DOMAIN t : IsDir(m[p])
  BY DEF HasWay, IsDir
<1> QED
  BY <1>1, <1>2 DEF Fits

\* The layer of a step, and what it carries of the step.
Adds(S, G) ==
  /\ rootfs' \in BuildTrees
  /\ S \in SUBSET DOMAIN rootfs'
  /\ G \in SUBSET (Paths \ DOMAIN rootfs')
  /\ Carries(StepStart, rootfs', Kept(S), Marked(G))
  /\ layers' = Append(layers, Archived(rootfs', S) \o Whiteouts(G))
  /\ pc = "store" => rootfs' = rootfs /\ S = Changed(before, rootfs) /\ G = Gone(before, rootfs)
  /\ pc = "ready" => G = {}

\* The layer of RUN and ADD.
LEMMA StoreLayerAdds ==
  ASSUME TreesFit, StoreLayer, layers' # <<>>
  PROVE  rootfs' \in BuildTrees /\ \E S, G : Adds(S, G)
<1>1. pc = "store" /\ before \in BuildTrees /\ "apt" \notin held /\ rootfs' = rootfs
      /\ layers' = Append(layers, DiffLayer(before, rootfs))
  BY DEF TreesFit, TypeOK, StoreLayer, Fail, FailFor, Working
<1>2. rootfs \in BuildTrees
  BY <1>1 DEF TreesFit
<1>3. Adds(Changed(before, rootfs), Gone(before, rootfs))
  BY <1>1, <1>2, DiffLayerFits DEF Adds, StepStart
<1> QED
  BY <1>1, <1>2, <1>3

\* The layer of a COPY.
LEMMA CopyAdds ==
  ASSUME TreesFit, Copy
  PROVE  rootfs' \in BuildTrees /\ \E S, G : Adds(S, G)
<1>1. pc = "ready" /\ rootfs \in BuildTrees
  BY DEF TreesFit, TypeOK, Copy, Working
<1>2. PICK s \in Sources, d \in Paths \cup {<<>>} :
        /\ CopyFits(s, d)
        /\ rootfs' = Copied(s, d)
        /\ layers' = LayerOf(DOMAIN Under(d, s) \cup {d}) \/ layers' = LayerOf(DOMAIN Under(d, s))
  BY DEF Copy
<1> DEFINE u == DOMAIN Under(d, s)
<1>3. s \in BuildTrees
  BY TreesAssumption
<1>4. /\ rootfs' \in BuildTrees /\ <<>> \notin u
      /\ \A S : u \subseteq S /\ S \subseteq u \cup ({d} \ {<<>>}) =>
           S \subseteq DOMAIN rootfs' /\ Carries(rootfs, rootfs', Kept(S), {})
  BY <1>1, <1>2, <1>3, CopiedFacts
<1> HIDE DEF u
<1>5. ASSUME NEW S, u \subseteq S, S \subseteq u \cup ({d} \ {<<>>}),
             layers' = Append(layers, PathsLayer(rootfs', S))
      PROVE  Adds(S, {})
  <2>1. S \in SUBSET DOMAIN rootfs' /\ Carries(rootfs, rootfs', Kept(S), {})
    BY <1>4, <1>5
  <2>2. Marked({}) = {} /\ {} \in SUBSET (Paths \ DOMAIN rootfs')
    BY DEF Marked
  <2>3. PathsLayer(rootfs', S) = Archived(rootfs', S) \o Whiteouts({})
    BY <1>4, <2>1, PathsLayerFacts
  <2> QED
    BY <1>1, <1>4, <1>5, <2>1, <2>2, <2>3 DEF Adds, StepStart
<1>6. CASE layers' = LayerOf(u \cup {d})
  <2>1. layers' = Append(layers, PathsLayer(rootfs', (u \cup {d}) \ {<<>>}))
    BY <1>6 DEF LayerOf
  <2>2. Adds((u \cup {d}) \ {<<>>}, {})
    BY <1>4, <1>5, <2>1
  <2> QED
    BY <1>4, <2>2
<1>7. CASE layers' = LayerOf(u)
  <2>1. layers' = Append(layers, PathsLayer(rootfs', u \ {<<>>}))
    BY <1>7 DEF LayerOf
  <2>2. Adds(u \ {<<>>}, {})
    BY <1>4, <1>5, <2>1
  <2> QED
    BY <1>4, <2>2
<1> QED
  BY <1>2, <1>6, <1>7 DEF u

\* The layer of a COPY that has nothing to copy.
LEMMA CopyIgnoredAdds ==
  ASSUME TreesFit, CopyIgnored
  PROVE  rootfs' \in BuildTrees /\ \E S, G : Adds(S, G)
<1>1. pc = "ready" /\ rootfs \in BuildTrees
  BY DEF TreesFit, TypeOK, CopyIgnored, Working
<1>2. PICK d \in Paths : CanMakeDirs(rootfs, d) /\ rootfs' = MakeDirs(rootfs, d)
  BY DEF CopyIgnored
<1>3. HasWay(rootfs', rootfs, d)
  BY <1>1, <1>2, MakeDirsFacts
<1>4. rootfs' \in BuildTrees /\ Carries(rootfs, rootfs', Kept({}), Marked({}))
  BY <1>1, <1>3, MakeDirsCarries DEF HasWay
<1>5. {} \ {<<>>} = {} /\ {} \in SUBSET DOMAIN rootfs'
  OBVIOUS
<1>6. layers' = Append(layers, PathsLayer(rootfs', {}))
  BY <1>5 DEF CopyIgnored, LayerOf
<1>7. Adds({}, {})
  BY <1>1, <1>4, <1>5, <1>6, PathsLayerFacts DEF Adds, StepStart
<1> QED
  BY <1>4, <1>7

\* A step that adds a layer to fitting ones leaves fitting ones.
LEMMA AddedFits ==
  ASSUME TreesFit, pc \in {"ready", "store"}, NEW S, NEW G, Adds(S, G)
  PROVE  /\ layers' \in Seq(Archives)
         /\ Len(layers') = Len(layers) + 1
         /\ LayersFit(layers', rootfs')
<1>1. LayersFit(layers, StepStart) /\ layers \in Seq(Archives)
  BY DEF TreesFit, Base, StepStart
<1> DEFINE layer == Archived(rootfs', S) \o Whiteouts(G)
<1>2. /\ rootfs' \in BuildTrees /\ S \in SUBSET DOMAIN rootfs'
      /\ G \in SUBSET (Paths \ DOMAIN rootfs')
      /\ Carries(StepStart, rootfs', Kept(S), Marked(G)) /\ layers' = Append(layers, layer)
  BY DEF Adds
<1>3. layer = Archived(rootfs', S) \o Whiteouts(G)
  OBVIOUS
<1> HIDE DEF layer
<1>4. IsAdded(rootfs', StepStart, S, G, layers, layer, layers')
  BY <1>1, <1>2, <1>3, LayerAdded
<1> QED
  BY <1>4 DEF IsAdded

\* Each step keeps the layers and the tree fitting.
LEMMA TreesStep == TreesFit /\ [Next]_vars => TreesFit'
<1> SUFFICES ASSUME TreesFit, [Next]_vars PROVE TreesFit'
  OBVIOUS
<1>1. /\ layers \in Seq(Archives) /\ Len(layers) \in Nat
      /\ "apt" \notin held => rootfs \in BuildTrees
      /\ pc \in Working \cup {"prepare", "store"} => Len(layers) < MaxLayers
      /\ LayersFit(layers, Base)
      /\ rootfs \in WorkTrees /\ before \in BuildTrees /\ Len(layers) <= MaxLayers
      /\ held \subseteq {"workspace", "base", "apt", "proc", "devices"}
      /\ "apt" \in held => pc \in Working
      /\ cause \in {"none", "base", "bind", "step"}
  BY DEF TreesFit, TypeOK
<1>2. CASE FromScratch
  <2>1. Len(<<>>) <= MaxLayers
    BY BoundAssumption
  <2> QED
    BY <1>2, <2>1, NoLayersFit, BeginTrees DEF FromScratch
<1>3. CASE FromImage
  <2>1. PICK t \in Bases : BeginStage(<<DiffLayer(EmptyTree, t)>>)
    BY <1>3 DEF FromImage
  <2>2. t \in BuildTrees /\ EmptyTree \in BuildTrees
    BY TreesAssumption, EmptyTreeIsTree
  <2> DEFINE layer == DiffLayer(EmptyTree, t)
             S == Changed(EmptyTree, t)
             G == Gone(EmptyTree, t)
  <2>3. /\ S \in SUBSET DOMAIN t /\ G \in SUBSET (Paths \ DOMAIN t)
        /\ Carries(EmptyTree, t, Kept(S), Marked(G)) /\ layer = Archived(t, S) \o Whiteouts(G)
    BY <2>2, DiffLayerFits
  <2>4. G = {}
    BY EmptyTreeFacts DEF Gone
  <2>5. ~Collides(t, Kept(S), Marked(G))
    BY <2>4 DEF Collides, Marked
  <2>6. <<>> \in Seq(Archives) /\ LayersFit(<<>>, EmptyTree)
    BY NoLayersFit
  <2> HIDE DEF layer, S, G
  <2>7. layer \in Archives /\ Extracts(layer) /\ LayersFit(Append(<<>>, layer), t)
    <3>1. IsAdded(t, EmptyTree, S, G, <<>>, layer, Append(<<>>, layer))
      BY <2>2, <2>3, <2>6, LayerAdded
    <3> QED
      BY <2>5, <3>1 DEF IsAdded
  <2>8. /\ Append(<<>>, layer) = <<layer>> /\ <<layer>> \in Seq(Archives) /\ Len(<<layer>>) = 1
        /\ DOMAIN <<layer>> = {1} /\ <<layer>>[1] = layer
    BY <2>7
  <2>9. AllExtract(<<layer>>) /\ LayersFit(<<layer>>, t) /\ Len(<<layer>>) <= MaxLayers
    BY <2>7, <2>8, BoundAssumption DEF AllExtract
  <2>10. pc = "from" /\ BeginStage(<<layer>>)
    BY <1>3, <2>1 DEF FromImage, layer
  <2> QED
    BY <2>8, <2>9, <2>10, BeginTrees
<1>4. CASE FromBuilt
  BY <1>1, <1>4, BeginTrees DEF FromBuilt, Usable
<1>5. CASE BaseFails
  BY <1>5, FailTrees DEF BaseFails
<1>6. ASSUME NEW reason \in {"bind", "step"},
             NEW mounts \in SUBSET {"proc", "devices"}, Fail(reason, mounts)
      PROVE  TreesFit'
  BY <1>6, FailTrees DEF Fail
<1>7. CASE SnapshotRootfs
  <2>1. pc = "ready" /\ pc' = "prepare" /\ before' = rootfs /\ rootfs' = rootfs
        /\ layers' = layers /\ held' = held /\ cause' = cause /\ Len(layers) < MaxLayers
    BY <1>7 DEF SnapshotRootfs
  <2>2. "apt" \notin held
    BY <1>1, <2>1 DEF Working
  <2>3. Base' = Base
    BY <2>1 DEF Base
  <2> QED
    BY <1>1, <2>1, <2>2, <2>3 DEF TreesFit, TypeOK, Working
\* The steps of RUN up to the command change the tree only by the override.
<1>8. ASSUME pc \in Working \cup {"prepare"}, pc' \in Working \cup {"store"},
             layers' = layers, before' = before, cause' = cause,
             rootfs' \in WorkTrees, "apt" \notin held' => rootfs' \in BuildTrees,
             held' \subseteq {"workspace", "base", "apt", "proc", "devices"},
             "apt" \in held' => pc' \in Working
      PROVE  TreesFit'
  <2>1. Base' = Base
    BY <1>8 DEF Base, Working
  <2> QED
    BY <1>1, <1>8, <2>1, Zenon DEF TreesFit, TypeOK, Working
<1>9. CASE PrepareBuildRootfs
  <2>1. CASE Fail("step", {})
    BY <1>6, <2>1
  <2>2. CASE pc' = "apt" /\ UNCHANGED <<rootfs, before, layers, held, cause>>
    BY <1>1, <1>8, <1>9, <2>2 DEF PrepareBuildRootfs, Working
  <2> QED
    BY <1>9, <2>1, <2>2 DEF PrepareBuildRootfs
<1>10. CASE InjectAptConf
  <2>1. CASE Fail("step", {})
    BY <1>6, <2>1
  <2>2. CASE pc' = "mount" /\ UNCHANGED <<rootfs, before, layers, held, cause>>
    BY <1>1, <1>8, <1>10, <2>2 DEF InjectAptConf, Working
  <2>3. CASE /\ pc' = "mount"
             /\ AptConf \notin DOMAIN rootfs
             /\ Above(AptConf) \subseteq DOMAIN rootfs
             /\ ~Blocked(rootfs, AptConf)
             /\ rootfs' = Put(rootfs, AptConf, "override")
             /\ held' = held \cup {"apt"}
             /\ UNCHANGED <<before, layers, cause>>
    <3>1. rootfs' \in WorkTrees
      BY <1>1, <2>3, OverriddenFacts DEF Overridden
    <3>2. pc = "apt"
      BY <1>10 DEF InjectAptConf
    <3> QED
      BY <1>1, <1>8, <2>3, <3>1, <3>2 DEF Working
  <2> QED
    BY <1>10, <2>1, <2>2, <2>3 DEF InjectAptConf
<1>11. CASE MountProc
  <2>1. CASE Fail("step", {})
    BY <1>6, <2>1
  <2>2. CASE /\ pc' = "bind"
             /\ held' \in {held, held \cup {"proc"}}
             /\ UNCHANGED <<rootfs, before, layers, cause>>
    <3>1. pc = "mount"
      BY <1>11 DEF MountProc
    <3> QED
      BY <1>1, <1>8, <2>2, <3>1 DEF Working
  <2> QED
    BY <1>11, <2>1, <2>2 DEF MountProc
<1>12. CASE BindStandardDevices
  <2>1. CASE Fail("bind", held \cap {"proc"})
    BY <1>6, <2>1
  <2>2. CASE /\ pc' = "exec"
             /\ held' = held \cup {"devices"}
             /\ UNCHANGED <<rootfs, before, layers, cause>>
    <3>1. pc = "bind"
      BY <1>12 DEF BindStandardDevices
    <3> QED
      BY <1>1, <1>8, <2>2, <3>1 DEF Working
  <2> QED
    BY <1>12, <2>1, <2>2 DEF BindStandardDevices
<1>13. CASE Exec
  <2>1. CASE Fail("step", {})
    BY <1>6, <2>1
  <2>2. CASE /\ \E t \in Outcomes : rootfs' = WithoutOverride(t)
             /\ pc' = "store"
             /\ held' = held \ {"devices", "proc", "apt"}
             /\ UNCHANGED <<before, layers, cause>>
    <3>1. rootfs' \in BuildTrees /\ rootfs' \in WorkTrees
      BY <2>2, OutcomesFit, WorkTreeFacts
    <3>2. pc = "exec"
      BY <1>13 DEF Exec
    <3> QED
      BY <1>1, <1>8, <2>2, <3>1, <3>2 DEF Working
  <2> QED
    BY <1>13, <2>1, <2>2 DEF Exec
<1>14. ASSUME pc \in {"ready", "store"}, pc' = "ready", before' \in BuildTrees,
              held' = held, cause' = cause, Len(layers) < MaxLayers,
              rootfs' \in BuildTrees, \E S, G : Adds(S, G)
       PROVE  TreesFit'
  <2>1. /\ layers' \in Seq(Archives)
        /\ Len(layers') = Len(layers) + 1
        /\ LayersFit(layers', rootfs')
    BY <1>14, AddedFits
  <2>2. Base' = rootfs' /\ rootfs' \in WorkTrees /\ "apt" \notin held
    BY <1>1, <1>14, WorkTreeFacts DEF Base, Working
  <2>3. Len(layers') <= MaxLayers
    BY <1>1, <1>14, <2>1, BoundAssumption
  <2> QED
    BY <1>1, <1>14, <2>1, <2>2, <2>3 DEF TreesFit, TypeOK, Working
<1>15. CASE StoreLayer
  <2>1. CASE Fail("step", {})
    BY <1>6, <2>1
  <2>2. CASE /\ layers' = Append(layers, DiffLayer(before, rootfs))
             /\ pc' = "ready"
             /\ before' = EmptyTree
             /\ UNCHANGED <<rootfs, held, cause>>
    <3>1. layers' # <<>>
      BY <1>1, <2>2
    <3>2. rootfs' \in BuildTrees /\ \E S, G : Adds(S, G)
      BY <1>15, <3>1, StoreLayerAdds
    <3>3. pc = "store"
      BY <1>15 DEF StoreLayer
    <3> QED
      BY <1>1, <1>14, <2>2, <3>2, <3>3, EmptyTreeIsTree
  <2> QED
    BY <1>15, <2>1, <2>2 DEF StoreLayer
<1>16. CASE Copy
  BY <1>1, <1>14, <1>16, CopyAdds DEF Copy
<1>17. CASE CopyIgnored
  BY <1>1, <1>14, <1>17, CopyIgnoredAdds DEF CopyIgnored
<1>18. CASE Add
  <2>1. /\ pc = "ready" /\ pc' = "store" /\ before' = rootfs /\ layers' = layers
        /\ held' = held /\ cause' = cause /\ Len(layers) < MaxLayers
    BY <1>18 DEF Add
  <2>2. "apt" \notin held /\ rootfs \in BuildTrees
    BY <1>1, <2>1 DEF Working
  <2>3. PICK s \in Sources, d \in Paths \cup {<<>>} : CopyFits(s, d) /\ rootfs' = Copied(s, d)
    BY <1>18 DEF Add
  <2>4. rootfs' \in BuildTrees
    BY <2>2, <2>3, TreesAssumption, CopiedFacts
  <2>5. Base' = Base /\ rootfs' \in WorkTrees
    BY <2>1, <2>4, WorkTreeFacts DEF Base
  <2> QED
    BY <1>1, <2>1, <2>2, <2>4, <2>5 DEF TreesFit, TypeOK, Working
<1>19. CASE Workdir
  <2>1. /\ pc = "ready" /\ pc' = pc /\ before' = before /\ layers' = layers
        /\ held' = held /\ cause' = cause
    BY <1>19 DEF Workdir
  <2>2. "apt" \notin held /\ rootfs \in BuildTrees
    BY <1>1, <2>1 DEF Working
  <2>3. PICK d \in Paths : CanMakeDirs(rootfs, d) /\ rootfs' = MakeDirs(rootfs, d)
    BY <1>19 DEF Workdir
  <2>4. HasWay(rootfs', rootfs, d)
    BY <2>2, <2>3, MakeDirsFacts
  <2>5. Base = rootfs /\ Base' = rootfs' /\ rootfs' \in BuildTrees /\ rootfs' \in WorkTrees
    BY <2>1, <2>4, WorkTreeFacts DEF Base, HasWay
  <2>6. LayersFit(layers', Base')
    BY <1>1, <2>1, <2>4, <2>5, WayFits
  <2> QED
    BY <1>1, <2>1, <2>2, <2>5, <2>6 DEF TreesFit, TypeOK, Working
<1>20. CASE InstructionFails
  BY <1>6, <1>20 DEF InstructionFails
<1>21. CASE FinishBuild
  <2>1. /\ pc = "ready" /\ pc' = "done" /\ rootfs' = rootfs /\ before' = before
        /\ layers' = layers /\ held' = held \ {"workspace"} /\ cause' = cause
    BY <1>21 DEF FinishBuild
  <2>2. Base' = Base /\ "apt" \notin held
    BY <1>1, <2>1 DEF Base, Working
  <2> QED
    BY <1>1, <2>1, <2>2 DEF TreesFit, TypeOK, Working
<1>22. CASE UNCHANGED vars
  <2>1. /\ pc' = pc /\ rootfs' = rootfs /\ before' = before /\ layers' = layers
        /\ held' = held /\ cause' = cause
    BY <1>22 DEF vars
  <2>2. Base' = Base
    BY <2>1 DEF Base
  <2> QED
    BY <2>1, <2>2, Zenon DEF TreesFit, TypeOK
<1> QED
  BY <1>2, <1>3, <1>4, <1>5, <1>7, <1>9, <1>10, <1>11, <1>12, <1>13, <1>15, <1>16,
     <1>17, <1>18, <1>19, <1>20, <1>21, <1>22 DEF Next

\* The layers of a build that extract show, after every step and in whatever order the
\* steps come, the files of the tree that the steps left, but those with ".." in their
\* path, and no others but dotfiles (build_layer_from_diff, build_layer_from_paths,
\* extract_archive).
THEOREM TreesAreKept == Spec => []TreesFit
<1> QED
  BY TreesInit, TreesStep, PTL DEF Spec

-----------------------------------------------------------------------------
(***************************************************************************)
(* What follows of the layers of a build.                                  *)
(***************************************************************************)
\* The stage keeps trees where it works on trees, and never more layers than its
\* bound: the tree is as the steps of build.rs take and leave it.
THEOREM TreesAreTyped == Spec => []TypeOK
<1>1. TreesFit => TypeOK
  BY DEF TreesFit
<1> QED
  BY <1>1, TreesAreKept, PTL

\* No layer has the file that RUN puts where apt reads its configuration: the drop
\* of BuildAptGuard has removed it, whatever the command made of it, before the
\* tree is compared with the snapshot.
THEOREM TheOverrideIsInNoLayer == Spec => []OverrideStaysOut
<1>1. ASSUME TreesFit, NEW i \in DOMAIN layers, NEW k \in DOMAIN layers[i]
      PROVE  layers[i][k].entry # "override"
  <2>1. layers \in Seq(Archives)
    BY <1>1 DEF TreesFit
  <2>2. layers[i] \in Archives
    BY <2>1
  <2>3. layers[i][k] \in [path : Paths, entry : Entries \cup {"hidden"}]
    <3>1. \A items : \A s \in Seq(items) : \A n \in DOMAIN s : s[n] \in items
      OBVIOUS
    <3> QED
      BY <2>2, <3>1 DEF Archives
  <2>4. layers[i][k].entry \in Entries \cup {"hidden"}
    BY <2>3
  <2> QED
    BY <2>4, BuildTreeFacts
<1>2. TreesFit => OverrideStaysOut
  BY <1>1 DEF OverrideStaysOut
<1> QED
  BY <1>2, TreesAreKept, PTL

\* Between two steps, and once it is built, an image whose layers can be extracted
\* has the files of the tree that the steps worked on, but those with ".." in their
\* path, and no others but dotfiles, when overlayfs mounts its layers
\* (build_layer_from_diff, extract_archive, process_whiteouts, the order of lower
\* directories); when merge_layers copies them, removed files may be back too, and the
\* copy fails if and only if a path is a directory in one layer and a file in another.
THEOREM ImagesHaveTheFiles == Spec => []FilesAgree
<1>1. ASSUME TreesFit, pc \in {"ready", "done"}, Usable PROVE FilesAgree
  <2> DEFINE copy == MergeLayers(layers)
  <2>1. Fits(Image, rootfs) /\ MergeFits(copy, layers, Image)
    BY <1>1 DEF TreesFit, LayersFit, Base, Usable, Image
  <2>2. ASSUME NEW f \in CarriedFiles(rootfs) PROVE f \in Files(Image)
    <3>1. PICK p \in DOMAIN rootfs : ~IsDir(rootfs[p]) /\ f = <<p, rootfs[p]>>
      BY DEF CarriedFiles, Files
    <3>2. ~HasTwoDots(p)
      BY <3>1 DEF CarriedFiles
    <3>3. p \in DOMAIN Image /\ Image[p] = rootfs[p]
      BY <2>1, <3>1, <3>2 DEF Fits
    <3> QED
      BY <3>1, <3>3 DEF Files
  <2>3. ASSUME NEW f \in Files(Image) \ Files(rootfs) PROVE IsDotfile(f[1])
    <3>1. PICK p \in DOMAIN Image : ~IsDir(Image[p]) /\ f = <<p, Image[p]>>
      BY DEF Files
    <3>2. IsDotfile(p) \/ (p \in DOMAIN rootfs /\ rootfs[p] = Image[p])
      BY <2>1, <3>1 DEF Fits
    <3>3. ~(p \in DOMAIN rootfs /\ rootfs[p] = Image[p])
      BY <2>3, <3>1 DEF Files
    <3>4. f[1] = p
      BY <3>1
    <3> QED
      BY <3>2, <3>3, <3>4
  <2>4. copy.ok <=> ~KindChanges
    <3>1. KindChanges <=> \E p \in Paths : Turns(layers, p)
      BY Zenon DEF KindChanges, Turns
    <3> QED
      BY <2>1, <3>1 DEF MergeFits
  <2>5. ASSUME copy.ok, NEW f \in Files(Image) PROVE f \in Files(copy.tree)
    <3>1. PICK p \in DOMAIN Image : ~IsDir(Image[p]) /\ f = <<p, Image[p]>>
      BY DEF Files
    <3>2. p \in DOMAIN copy.tree /\ ~IsDir(copy.tree[p]) /\ copy.tree[p] = Image[p]
      BY <2>1, <2>5, <3>1 DEF MergeFits
    <3> HIDE DEF copy
    <3> QED
      BY <3>1, <3>2 DEF Files
  <2>6. ASSUME copy.ok, NEW f \in Files(copy.tree) \ Files(Image) PROVE WasRemoved(f[1])
    <3>1. PICK p \in DOMAIN copy.tree : ~IsDir(copy.tree[p]) /\ f = <<p, copy.tree[p]>>
      BY DEF Files
    <3>2. \/ p \in DOMAIN Image /\ Image[p] = copy.tree[p]
          \/ Hides(layers, p)
      BY <2>1, <2>6, <3>1 DEF MergeFits
    <3>3. ~(p \in DOMAIN Image /\ Image[p] = copy.tree[p])
      BY <2>6, <3>1 DEF Files
    <3>4. f[1] = p
      BY <3>1
    <3> QED
      BY <3>2, <3>3, <3>4 DEF Hides, HiddenBy, WasRemoved
  <2> HIDE DEF copy
  <2>7. FilesAgree <=> (pc \in {"ready", "done"} /\ Usable =>
          /\ CarriedFiles(rootfs) \subseteq Files(Image)
          /\ \A f \in Files(Image) \ Files(rootfs) : IsDotfile(f[1])
          /\ copy.ok <=> ~KindChanges
          /\ copy.ok => /\ CarriedFiles(rootfs) \subseteq Files(copy.tree)
                        /\ \A f \in Files(copy.tree) \ Files(rootfs) :
                              IsDotfile(f[1]) \/ WasRemoved(f[1]))
    BY DEF FilesAgree, copy
  <2> QED
    BY <2>2, <2>3, <2>4, <2>5, <2>6, <2>7
<1>2. TreesFit => FilesAgree
  BY <1>1 DEF FilesAgree
<1> QED
  BY <1>2, TreesAreKept, PTL

\* Only a step of COPY, or the end of one of RUN or ADD, adds a layer.
LEMMA NewLayersAreAdded ==
  ASSUME TreesFit, [Next]_vars, NewLayer
  PROVE  \E S, G : /\ Adds(S, G)
                   /\ IsAdded(rootfs', StepStart, S, G, layers,
                              Archived(rootfs', S) \o Whiteouts(G), layers')
<1>1. pc \in {"ready", "store"} /\ Len(layers') > Len(layers) /\ layers \in Seq(Archives)
  BY DEF NewLayer, TreesFit
<1>2. layers' # <<>> /\ layers' # layers /\ Len(layers) \in Nat
  BY <1>1
<1>3. StoreLayer \/ Copy \/ CopyIgnored
  <2>1. ~FromScratch /\ ~FromImage /\ ~FromBuilt /\ ~BaseFails
    BY <1>1, <1>2 DEF FromScratch, FromImage, FromBuilt, BaseFails, FailFor
  <2>2. ~SnapshotRootfs /\ ~PrepareBuildRootfs /\ ~InjectAptConf /\ ~MountProc
        /\ ~BindStandardDevices /\ ~Exec
    BY <1>1, <1>2 DEF SnapshotRootfs, PrepareBuildRootfs, InjectAptConf, MountProc,
                      BindStandardDevices, Exec
  <2>3. ~Add /\ ~Workdir /\ ~InstructionFails /\ ~FinishBuild /\ ~UNCHANGED vars
    BY <1>1, <1>2 DEF Add, Workdir, InstructionFails, Fail, FailFor, FinishBuild, vars
  <2> QED
    BY <2>1, <2>2, <2>3 DEF Next
<1>4. PICK S, G : Adds(S, G)
  BY <1>2, <1>3, StoreLayerAdds, CopyAdds, CopyIgnoredAdds
<1>5. LayersFit(layers, StepStart)
  BY <1>1 DEF TreesFit, Base, StepStart
<1> DEFINE layer == Archived(rootfs', S) \o Whiteouts(G)
<1>6. /\ rootfs' \in BuildTrees /\ S \in SUBSET DOMAIN rootfs'
      /\ G \in SUBSET (Paths \ DOMAIN rootfs')
      /\ Carries(StepStart, rootfs', Kept(S), Marked(G)) /\ layers' = Append(layers, layer)
  BY <1>4 DEF Adds
<1>7. layer = Archived(rootfs', S) \o Whiteouts(G)
  OBVIOUS
<1> HIDE DEF layer
<1>8. IsAdded(rootfs', StepStart, S, G, layers, layer, layers')
  BY <1>1, <1>5, <1>6, <1>7, LayerAdded
<1> QED
  BY <1>4, <1>8 DEF layer

\* A step adds a layer that cannot be extracted if, and only if, RUN or ADD put a
\* file where a directory was with something in it, dotfiles and names with ".." not
\* counted: the ".wh." files of what was in it come after the file
\* (build_layer_from_diff), and extract_archive passes over those with ".." in their
\* path.  COPY never does.
THEOREM OnlyReplacementBreaks == Spec => BreaksOnlyByReplacement
<1>1. ASSUME TreesFit, [Next]_vars, NewLayer
      PROVE  ~Extracts(Last(layers')) <=> pc = "store" /\ \E p \in DOMAIN before : ReplacedByFile(p)
  <2>1. PICK S, G : /\ Adds(S, G)
                    /\ IsAdded(rootfs', StepStart, S, G, layers,
                               Archived(rootfs', S) \o Whiteouts(G), layers')
    BY <1>1, NewLayersAreAdded
  <2>2. ~Extracts(Last(layers')) <=> Collides(rootfs', Kept(S), Marked(G))
    BY <2>1 DEF IsAdded
  <2>3. CASE pc = "ready"
    <3>1. G = {}
      BY <2>1, <2>3 DEF Adds
    <3> QED
      BY <2>2, <2>3, <3>1 DEF Collides, Marked
  <2>4. CASE pc = "store"
    <3>1. rootfs' = rootfs /\ S = Changed(before, rootfs) /\ G = Gone(before, rootfs)
      BY <2>1, <2>4 DEF Adds
    <3>2. before \in BuildTrees /\ rootfs \in BuildTrees
      BY <2>1, <2>4, <3>1 DEF Adds, Carries, StepStart
    <3>3. Collides(rootfs, Kept(S), Marked(G)) <=> \E p \in DOMAIN before : ReplacedByFile(p)
      BY <3>1, <3>2, DiffCarries DEF ReplacedByFile
    <3> QED
      BY <2>2, <2>4, <3>1, <3>3
  <2> QED
    BY <1>1, <2>3, <2>4 DEF NewLayer
<1>2. TreesFit /\ [Next]_vars =>
        [NewLayer => (~Extracts(Last(layers')) <=>
                        pc = "store" /\ \E p \in DOMAIN before : ReplacedByFile(p))]_vars
  BY <1>1
<1> QED
  BY <1>2, TreesAreKept, PTL DEF Spec, BreaksOnlyByReplacement

\* Nothing is extracted of a layer whose entries are all passed over.
LEMMA NothingOpened ==
  ASSUME NEW a
  PROVE  Opened(a, {}, {}) = EmptyTree
<1>1. AboveAny({} \cup {}) = {}
  BY DEF AboveAny
<1>2. DOMAIN Opened(a, {}, {}) = {}
  BY <1>1 DEF Opened, Over, Spread
<1>3. Opened(a, {}, {}) = [p \in DOMAIN Opened(a, {}, {}) |-> Opened(a, {}, {})[p]]
  BY DEF Opened, Over
<1> QED
  BY <1>2, <1>3, EmptyTreeFacts

\* What the image lacks of the tree after a step it lacked before it, or has ".." in
\* its path: a layer carries all else that its step put there, unless it is that of a
\* COPY of which nothing is extracted, .dockerignore having left out its files or their
\* paths having "..".
THEOREM LayersCarryTheirSteps == Spec => LayerCarriesStep
<1>1. ASSUME TreesFit, [Next]_vars, NewLayer, AllExtract(layers')
      PROVE  \/ \A p \in DOMAIN rootfs' \ DOMAIN Mounted(layers') :
                    HasTwoDots(p) \/ p \in DOMAIN StepStart \ DOMAIN Image
             \/ pc = "ready" /\ GivesNothing(Last(layers'))
  <2>1. PICK S, G : /\ Adds(S, G)
                    /\ IsAdded(rootfs', StepStart, S, G, layers,
                               Archived(rootfs', S) \o Whiteouts(G), layers')
    BY <1>1, NewLayersAreAdded
  <2> DEFINE had == Kept(S)
             gone == Marked(G)
  <2>2. /\ Carries(StepStart, rootfs', had, gone)
        /\ Layered(Mounted(layers'), Opened(rootfs', had, gone), Image)
        /\ Extracted(Last(layers')) = Opened(rootfs', had, gone)
    BY <1>1, <2>1 DEF Adds, IsAdded, Image
  <2>3. \A p \in DOMAIN rootfs' \ DOMAIN Mounted(layers') :
          \/ HasTwoDots(p)
          \/ /\ p \notin had /\ p \notin DOMAIN Image
             /\ p \in DOMAIN StepStart \/ had \cup gone = {}
    <3> HIDE DEF had, gone
    <3> QED
      BY <2>2, CarriesStep
  <2>4. CASE pc = "store"
    <3>1. rootfs' = rootfs /\ S = Changed(before, rootfs) /\ StepStart = before
      BY <2>1, <2>4 DEF Adds, StepStart
    <3>2. \A p \in DOMAIN rootfs' : p \notin had => p \in DOMAIN StepStart \/ HasTwoDots(p)
      BY <3>1 DEF Changed, Kept
    <3> HIDE DEF had, gone
    <3> QED
      BY <2>3, <3>2
  <2>5. CASE pc = "ready" /\ had \cup gone = {}
    <3>1. had = {} /\ gone = {}
      BY <2>5
    <3> HIDE DEF had, gone
    <3>2. Extracted(Last(layers')) = EmptyTree
      BY <2>2, <3>1, NothingOpened
    <3> QED
      BY <2>5, <3>2 DEF GivesNothing
  <2>6. CASE had \cup gone # {}
    <3> HIDE DEF had, gone
    <3> QED
      BY <2>3, <2>6
  <2> QED
    BY <1>1, <2>4, <2>5, <2>6 DEF NewLayer
<1>2. TreesFit /\ [Next]_vars =>
        [NewLayer /\ AllExtract(layers') =>
          \/ \A p \in DOMAIN rootfs' \ DOMAIN Mounted(layers') :
                HasTwoDots(p) \/ p \in DOMAIN StepStart \ DOMAIN Image
          \/ pc = "ready" /\ GivesNothing(Last(layers'))]_vars
  BY <1>1
<1> QED
  BY <1>2, TreesAreKept, PTL DEF Spec, LayerCarriesStep

\* What the image has and the tree has not after a step are dotfiles that the step
\* removed, whose ".wh." files are passed over, directories that it removed with
\* something in them, whose ".wh." files are lost on extraction, or what it had before;
\* and a path has another mode or contents in the image only where it had before, where
\* the layer has something below it and no entry of its own, or where a COPY of which
\* nothing is extracted made a directory over what lingered.
THEOREM StepsDifferOnlyThere == Spec => DiffersOnlyThere
<1>1. ASSUME TreesFit, [Next]_vars, NewLayer, AllExtract(layers')
      PROVE  /\ \A p \in DOMAIN Mounted(layers') \ DOMAIN rootfs' :
                   \/ p \in DOMAIN StepStart /\ IsDotfile(p)
                   \/ RemovedFull(p, StepStart, rootfs')
                   \/ p \in DOMAIN Image \ DOMAIN StepStart
             /\ \A p \in Differs(rootfs', Mounted(layers')) :
                   \/ p \in Implied(Last(layers')) \cup Differs(StepStart, Image)
                   \/ p \in DOMAIN Image \ DOMAIN StepStart /\ GivesNothing(Last(layers'))
  <2>1. PICK S, G : /\ Adds(S, G)
                    /\ IsAdded(rootfs', StepStart, S, G, layers,
                               Archived(rootfs', S) \o Whiteouts(G), layers')
    BY <1>1, NewLayersAreAdded
  <2> DEFINE had == Kept(S)
             gone == Marked(G)
  <2>2. /\ Carries(StepStart, rootfs', had, gone)
        /\ Fits(Image, StepStart)
        /\ Fits(Mounted(layers'), rootfs')
        /\ Layered(Mounted(layers'), Opened(rootfs', had, gone), Image)
        /\ Extracted(Last(layers')) = Opened(rootfs', had, gone)
        /\ Implied(Last(layers')) = (AboveAny(S) \cup AboveAny(G)) \ (S \cup G)
        /\ G \in SUBSET (Paths \ DOMAIN rootfs')
    BY <1>1, <2>1 DEF Adds, IsAdded, Image
  <2>3. AboveAny(had) \subseteq AboveAny(S) /\ AboveAny(gone) \subseteq AboveAny(G)
    BY DEF AboveAny, Kept, Marked
  <2>4. \A p : p \in S /\ ~HasTwoDots(p) => p \in had
    BY DEF Kept
  <2> HIDE DEF had, gone
  <2>5. /\ \A p \in DOMAIN Mounted(layers') \ DOMAIN rootfs' :
             \/ p \in DOMAIN StepStart /\ IsDotfile(p)
             \/ RemovedFull(p, StepStart, rootfs')
             \/ p \in DOMAIN Image \ DOMAIN StepStart
        /\ \A p \in Differs(rootfs', Mounted(layers')) :
             \/ p \in (AboveAny(had) \cup AboveAny(gone)) \ had
             \/ p \in Differs(StepStart, Image)
             \/ p \in DOMAIN Image \ DOMAIN StepStart /\ had \cup gone = {}
    BY <2>2, CarriesOnly
  <2>6. \A p \in Differs(rootfs', Mounted(layers')) : ~HasTwoDots(p) /\ p \notin G
    BY <2>2 DEF Fits, Differs
  <2>7. had \cup gone = {} => GivesNothing(Last(layers'))
    <3> SUFFICES ASSUME had = {}, gone = {} PROVE GivesNothing(Last(layers'))
      OBVIOUS
    <3> QED
      BY <2>2, NothingOpened DEF GivesNothing
  <2> QED
    BY <2>2, <2>3, <2>4, <2>5, <2>6, <2>7
<1>2. TreesFit /\ [Next]_vars =>
        [NewLayer /\ AllExtract(layers') =>
          /\ \A p \in DOMAIN Mounted(layers') \ DOMAIN rootfs' :
                \/ p \in DOMAIN StepStart /\ IsDotfile(p)
                \/ RemovedFull(p, StepStart, rootfs')
                \/ p \in DOMAIN Image \ DOMAIN StepStart
          /\ \A p \in Differs(rootfs', Mounted(layers')) :
                \/ p \in Implied(Last(layers')) \cup Differs(StepStart, Image)
                \/ p \in DOMAIN Image \ DOMAIN StepStart /\ GivesNothing(Last(layers'))]_vars
  BY <1>1
<1> QED
  BY <1>2, TreesAreKept, PTL DEF Spec, DiffersOnlyThere

-----------------------------------------------------------------------------
(***************************************************************************)
(* What a build leaves behind.                                             *)
(***************************************************************************)
\* What a build holds at each step.
HeldFitsStep ==
    /\ pc \in {"from", "done"} => held = {}
    /\ pc \in {"ready", "prepare", "apt", "store"} => held = {"workspace"}
    /\ pc = "mount" => held \subseteq {"workspace", "apt"}
    /\ pc = "bind" => held \subseteq {"workspace", "apt", "proc"}
    /\ pc = "exec" => /\ "workspace" \in held
                      /\ held \subseteq {"workspace", "apt", "proc", "devices"}
    /\ pc \in {"mount", "bind"} => "workspace" \in held
    /\ pc = "failed" => \/ held = {}
                        \/ cause = "bind" /\ held = {"proc", "workspace"}
                        \/ cause = "base" /\ held = {"base"}

LEMMA HeldInit == Init => HeldFitsStep
BY DEF Init, HeldFitsStep

LEMMA FailFits ==
    ASSUME NEW reason, NEW mounts \in {{}, {"proc"}},
           Fail(reason, mounts), mounts # {} => reason = "bind"
    PROVE  HeldFitsStep'
BY DEF Fail, FailFor, HeldFitsStep

LEMMA HeldStep == HeldFitsStep /\ [Next]_vars => HeldFitsStep'
<1> SUFFICES ASSUME HeldFitsStep, [Next]_vars PROVE HeldFitsStep'
  OBVIOUS
<1>1. ASSUME NEW archives, BeginStage(archives) PROVE HeldFitsStep'
  BY <1>1 DEF BeginStage, HeldFitsStep
<1>2. CASE FromScratch \/ FromImage \/ FromBuilt
  BY <1>1, <1>2 DEF FromScratch, FromImage, FromBuilt
<1>3. CASE BaseFails
  BY <1>3 DEF BaseFails, FailFor, HeldFitsStep
<1>4. CASE SnapshotRootfs \/ (StoreLayer /\ pc' = "ready") \/ Copy \/ CopyIgnored \/ Add \/ Workdir
  <2>1. held' = held /\ pc' \in {"ready", "prepare", "store"} /\ pc \in {"ready", "store"}
    BY <1>4 DEF SnapshotRootfs, StoreLayer, Fail, FailFor, Copy, CopyIgnored, Add, Workdir
  <2> QED
    BY <2>1 DEF HeldFitsStep
<1>a. CASE StoreLayer /\ pc' # "ready"
  BY <1>a, FailFits DEF StoreLayer
<1>5. CASE PrepareBuildRootfs
  BY <1>5, FailFits DEF PrepareBuildRootfs, HeldFitsStep
<1>6. CASE InjectAptConf
  BY <1>6, FailFits DEF InjectAptConf, HeldFitsStep
<1>7. CASE MountProc
  BY <1>7, FailFits DEF MountProc, HeldFitsStep
<1>8. CASE BindStandardDevices
  <2>1. held \cap {"proc"} \in {{}, {"proc"}}
    OBVIOUS
  <2> QED
    BY <1>8, <2>1, FailFits DEF BindStandardDevices, HeldFitsStep
<1>9. CASE Exec
  BY <1>9, FailFits DEF Exec, HeldFitsStep
<1>10. CASE InstructionFails
  BY <1>10, FailFits DEF InstructionFails
<1>11. CASE FinishBuild
  BY <1>11 DEF FinishBuild, HeldFitsStep
<1>12. CASE UNCHANGED vars
  BY <1>12 DEF vars, HeldFitsStep
<1> QED
  BY <1>2, <1>3, <1>4, <1>a, <1>5, <1>6, <1>7, <1>8, <1>9, <1>10, <1>11, <1>12 DEF Next

\* Whatever the commands do, a build that returns leaves something behind only when a
\* device could not be bound, or a base image not be mounted or taken down again.
THEOREM FailuresLeaveLittle == Spec => []OnlyTwoFailuresLeave
<1>1. HeldFitsStep => OnlyTwoFailuresLeave
  BY DEF HeldFitsStep, OnlyTwoFailuresLeave
<1> QED
  BY <1>1, HeldInit, HeldStep, PTL DEF Spec

-----------------------------------------------------------------------------
(***************************************************************************)
(* What an overlay shows.                                                  *)
(***************************************************************************)
LEMMA MaxOfLast ==
    ASSUME NEW n \in Nat, NEW S \in SUBSET (1..n), n \in S
    PROVE  Max(S) = n
<1>1. n \in S /\ \A y \in S : n >= y
  OBVIOUS
<1>2. \A x \in S : (\A y \in S : x >= y) => x = n
  OBVIOUS
<1> QED
  BY <1>1, <1>2 DEF Max

\* The directory on top decides what a path is that it holds, whether it shows
\* something there or hides what is below (LayerExtractor::mount_overlay).
THEOREM TopDecides ==
    ASSUME NEW dirs, NEW n \in Nat \ {0}, Len(dirs) = n, NEW p \in DOMAIN dirs[n]
    PROVE  /\ dirs[n][p] # "hidden" => p \in DOMAIN Overlay(dirs) /\ Overlay(dirs)[p] = dirs[n][p]
           /\ dirs[n][p] = "hidden" => p \notin DOMAIN Overlay(dirs)
<1>1. Holders(dirs, p) \in SUBSET (1..n) /\ n \in Holders(dirs, p)
  <2>1. Reaches(dirs, n, p)
    BY DEF Reaches
  <2> QED
    BY <2>1 DEF Holders
<1>2. Shown(dirs, p) = dirs[n][p]
  BY <1>1, MaxOfLast DEF Shown
<1>3. p \in UNION {DOMAIN dirs[i] : i \in 1..Len(dirs)}
  OBVIOUS
<1> QED
  BY <1>1, <1>2, <1>3 DEF Overlay

\* Nothing shows through from below a path that the directory on top hides or has a
\* file at.
THEOREM NothingShowsThrough ==
    ASSUME NEW dirs, NEW n \in Nat \ {0}, Len(dirs) = n,
           NEW p, Blocked(dirs[n], p), p \notin DOMAIN dirs[n]
    PROVE  p \notin DOMAIN Overlay(dirs)
<1>1. \A i \in 1..n : p \in DOMAIN dirs[i] => ~Reaches(dirs, i, p)
  <2> SUFFICES ASSUME NEW i \in 1..n, p \in DOMAIN dirs[i] PROVE ~Reaches(dirs, i, p)
    OBVIOUS
  <2>1. n \in (i + 1)..Len(dirs)
    OBVIOUS
  <2> QED
    BY <2>1 DEF Reaches
<1>2. Holders(dirs, p) = {}
  BY <1>1 DEF Holders
<1> QED
  BY <1>2 DEF Overlay
=============================================================================

----------------------------- MODULE TreeProofs -----------------------------
(***************************************************************************)
(* Proofs about TreeView, for any number of items in any shape: the sizes  *)
(* that the nodes keep count what is in view below them, either none or    *)
(* all items below one are in view, the iterator that is kept between the  *)
(* calls of the list is on the item of its index, and getWidget() finds an *)
(* item for every index below count().                                     *)
(*                                                                         *)
(* The invariant (TreeInv) is that the items in view are a tree, in which  *)
(* nothing is missing, of items of the program.  Indices are numbers of    *)
(* items before one in the order of paths, so most of this is about that   *)
(* order: that ++ and -- go to the next item in it and the one before, and *)
(* what the number becomes when paths are moved up or down.                *)
(***************************************************************************)
EXTENDS TreeView, SequenceTheorems, FiniteSetTheorems, WellFoundedInduction, TLAPS

\* Induction, with the set of the numbers that have the property.
LEMMA Induction ==
    ASSUME NEW S, 0 \in S, \A n \in Nat : n \in S => n + 1 \in S
    PROVE  Nat \subseteq S
<1> SUFFICES ASSUME NEW k \in Nat, k \notin S PROVE FALSE
  OBVIOUS
<1> DEFINE T == {n \in Nat : n \notin S}
           R == OpToRel(<, Nat)
<1>1. T \subseteq Nat /\ T # {}
  OBVIOUS
<1>2. IsWellFoundedOn(R, Nat)
  BY NatLessThanWellFounded
<1>3. \A x, y \in Nat : y < x => <<y, x>> \in R
  BY DEF OpToRel
<1> HIDE DEF T, R
<1>4. PICK m \in T : \A y \in T : ~(<<y, m>> \in R)
  BY <1>1, <1>2, WFMin
<1>5. m \in Nat /\ m \notin S
  BY <1>4 DEF T
<1>6. m - 1 \in Nat /\ m - 1 < m
  BY <1>5
<1>7. m - 1 \notin T
  BY <1>3, <1>4, <1>5, <1>6
<1>8. m - 1 \in S
  BY <1>6, <1>7 DEF T
<1>9. QED
  BY <1>5, <1>6, <1>8

\* A set of numbers has a least one.
LEMMA LeastOf ==
    ASSUME NEW I \in SUBSET Nat, I # {}
    PROVE  \E m \in I : \A j \in I : m <= j
<1>1. PICK m \in I : \A j \in I : ~(<<j, m>> \in OpToRel(<, Nat))
  BY WFMin, NatLessThanWellFounded
<1>2. \A j \in I : ~(j < m)
  BY <1>1, Zenon DEF OpToRel
<1>3. \A j \in I : m <= j
  BY <1>2
<1>4. QED
  BY <1>3

-----------------------------------------------------------------------------
(* Paths *)

\* Paths of the same numbers are the same.
LEMMA SamePath ==
    ASSUME NEW p \in Path, NEW q \in Path, Len(p) = Len(q),
           \A i \in 1 .. Len(p) : p[i] = q[i]
    PROVE  p = q
BY SeqEqual DEF Path

\* The parts of a path.
LEMMA PathIs ==
    ASSUME NEW p \in Path
    PROVE  /\ Len(p) \in Nat /\ DOMAIN p = 1 .. Len(p)
           /\ \A i \in 1 .. Len(p) : p[i] \in Nat
           /\ p = << >> <=> Len(p) = 0
BY DEF Path

Child(p, k) == Append(p, k)

IsChild(q, p, k) ==
    /\ q \in Path /\ q # << >> /\ Len(q) = Len(p) + 1
    /\ \A i \in 1 .. Len(p) : q[i] = p[i]
    /\ q[Len(p) + 1] = k
    /\ Parent(q) = p /\ Last(q) = k

\* What the k-th child's path is made of.
LEMMA ChildIs ==
    ASSUME NEW p \in Path, NEW k \in Nat
    PROVE  IsChild(Child(p, k), p, k)
<1> DEFINE q == Child(p, k)
<1>1. /\ q \in Path /\ Len(q) = Len(p) + 1 /\ Len(p) \in Nat
      /\ \A i \in 1 .. Len(p) : q[i] = p[i]
      /\ q[Len(p) + 1] = k
  BY DEF Path, Child
<1> HIDE DEF q
<1>2. PICK n \in Nat : n = Len(p)
  BY <1>1
<1>3. Len(q) - 1 = n
  BY <1>1, <1>2
<1>4. SubSeq(q, 1, n) \in Path /\ Len(SubSeq(q, 1, n)) = n
      /\ \A i \in 1 .. n : SubSeq(q, 1, n)[i] = q[i]
  BY <1>1, <1>2 DEF Path
<1>5. SubSeq(q, 1, n) = p
  BY <1>1, <1>2, <1>4, SamePath
<1>6. q # << >>
  BY <1>1
<1>7. IsChild(q, p, k)
  BY <1>1, <1>3, <1>5, <1>6 DEF IsChild, Parent, Front, Last
<1>8. QED
  BY <1>7 DEF q

\* What the first n numbers of a path are.
LEMMA PartIs ==
    ASSUME NEW p \in Path, NEW n \in 0 .. Len(p)
    PROVE  /\ SubSeq(p, 1, n) \in Path /\ Len(SubSeq(p, 1, n)) = n
           /\ \A i \in 1 .. n : SubSeq(p, 1, n)[i] = p[i]
BY DEF Path

\* Every path but the root's is that of a child of its parent.
LEMMA ParentIs ==
    ASSUME NEW q \in Path, q # << >>
    PROVE  /\ Parent(q) \in Path /\ Last(q) \in Nat
           /\ q = Child(Parent(q), Last(q))
           /\ Len(q) \in Nat \ {0} /\ Len(Parent(q)) = Len(q) - 1
           /\ \A i \in 1 .. Len(q) - 1 : Parent(q)[i] = q[i]
<1>1. PICK n \in Nat : n + 1 = Len(q)
  <2>1. Len(q) \in Nat /\ Len(q) # 0
    BY DEF Path
  <2>2. Len(q) - 1 \in Nat /\ (Len(q) - 1) + 1 = Len(q)
    BY <2>1
  <2>3. QED
    BY <2>2
<1>2. Len(q) - 1 = n /\ n \in 0 .. Len(q) /\ n + 1 \in 1 .. Len(q)
  BY <1>1
<1>3. PICK p : p = SubSeq(q, 1, n)
  OBVIOUS
<1>4. p \in Path /\ Len(p) = n /\ \A i \in 1 .. n : p[i] = q[i]
  BY <1>2, <1>3, PartIs
<1>5. Parent(q) = p
  BY <1>2, <1>3 DEF Parent, Front
<1>6. Last(q) = q[n + 1] /\ Last(q) \in Nat
  BY <1>1, <1>2 DEF Last, Path
<1>7. PICK r : r = Child(p, Last(q))
  OBVIOUS
<1>8. r \in Path /\ Len(r) = n + 1 /\ (\A i \in 1 .. n : r[i] = p[i])
      /\ r[n + 1] = Last(q)
  <2>1. PICK k \in Nat : k = Last(q)
    BY <1>6
  <2>2. /\ r \in Path /\ Len(r) = Len(p) + 1
        /\ \A i \in 1 .. Len(p) : r[i] = p[i]
        /\ r[Len(p) + 1] = k
    <3>1. IsChild(r, p, k)
      BY <1>4, <1>7, <2>1, ChildIs
    <3>2. QED
      BY <3>1 DEF IsChild
  <2>3. QED
    BY <1>4, <2>1, <2>2
<1>9. \A i \in 1 .. n + 1 : i \in 1 .. n \/ i = n + 1
  OBVIOUS
<1>10. r = q
  BY <1>1, <1>4, <1>6, <1>8, <1>9, SamePath
<1>11. QED
  BY <1>1, <1>2, <1>4, <1>5, <1>6, <1>7, <1>10

\* A sibling is another child of the parent.
LEMMA SiblingIs ==
    ASSUME NEW q \in Path, q # << >>, NEW d \in Int, Last(q) + d \in Nat
    PROVE  Sibling(q, d) = Child(Parent(q), Last(q) + d)
<1>1. /\ Parent(q) \in Path /\ Last(q) \in Nat /\ Len(q) \in Nat \ {0}
      /\ Len(Parent(q)) = Len(q) - 1
      /\ \A i \in 1 .. Len(q) - 1 : Parent(q)[i] = q[i]
  BY ParentIs
<1>2. PICK n \in Nat : n + 1 = Len(q) /\ n = Len(q) - 1
  BY <1>1
<1>3. PICK k \in Nat : k = Last(q) + d
  OBVIOUS
<1>4. PICK r : r = Sibling(q, d)
  OBVIOUS
<1>5. r = [q EXCEPT ![n + 1] = k]
  BY <1>2, <1>3, <1>4 DEF Sibling, Last
<1>6. r \in Path /\ Len(r) = n + 1 /\ r[n + 1] = k
      /\ \A i \in 1 .. n : r[i] = q[i]
  <2>1. n + 1 \in 1 .. Len(q) /\ DOMAIN q = 1 .. Len(q)
    BY <1>2, PathIs
  <2>2. r \in Path /\ Len(r) = n + 1
    BY <1>2, <1>5, <2>1 DEF Path
  <2>3. r[n + 1] = k
    BY <1>5, <2>1
  <2>4. \A i \in 1 .. n : i \in 1 .. Len(q) /\ i # n + 1
    <3>1. \A i \in 1 .. n : i \in 1 .. n + 1 /\ i # n + 1
      OBVIOUS
    <3>2. QED
      BY <1>2, <3>1
  <2>5. QED
    BY <1>5, <2>1, <2>2, <2>3, <2>4
<1>7. PICK c : c = Child(Parent(q), k)
  OBVIOUS
<1>8. c \in Path /\ Len(c) = n + 1 /\ c[n + 1] = k
      /\ \A i \in 1 .. n : c[i] = q[i]
  <2>1. PICK b \in Path : b = Parent(q)
    BY <1>1
  <2>2. Len(b) = n /\ \A i \in 1 .. n : b[i] = q[i]
    BY <1>1, <1>2, <2>1
  <2>3. /\ c \in Path /\ Len(c) = Len(b) + 1
        /\ \A i \in 1 .. Len(b) : c[i] = b[i]
        /\ c[Len(b) + 1] = k
    <3>1. IsChild(c, b, k)
      BY <1>3, <1>7, <2>1, ChildIs
    <3>2. QED
      BY <3>1 DEF IsChild
  <2>4. QED
    BY <2>2, <2>3
<1>9. \A i \in 1 .. n + 1 : i \in 1 .. n \/ i = n + 1
  OBVIOUS
<1>10. r = c
  BY <1>6, <1>8, <1>9, SamePath
<1>11. QED
  BY <1>3, <1>4, <1>7, <1>10

\* p and q are the same up to n.
Same(p, q, n) == \A i \in 1 .. n : p[i] = q[i]

\* Prefixes, number by number.
LEMMA PrefixIs ==
    ASSUME NEW p \in Path, NEW q \in Path
    PROVE  /\ IsPrefix(p, q) <=> Len(p) <= Len(q) /\ Same(p, q, Len(p))
           /\ IsStrictPrefix(p, q) <=> Len(p) < Len(q) /\ Same(p, q, Len(p))
<1>1. PICK m \in Nat, n \in Nat : m = Len(p) /\ n = Len(q)
  BY PathIs
<1>2. IsPrefix(p, q) <=> m <= n /\ Same(p, q, m)
  <2>1. CASE m <= n
    <3>1. m \in 0 .. Len(p) /\ m \in 0 .. Len(q)
      BY <1>1, <2>1
    <3>2. /\ SubSeq(p, 1, m) \in Path /\ Len(SubSeq(p, 1, m)) = m
          /\ \A i \in 1 .. m : SubSeq(p, 1, m)[i] = p[i]
      BY <3>1, PartIs
    <3>3. /\ SubSeq(q, 1, m) \in Path /\ Len(SubSeq(q, 1, m)) = m
          /\ \A i \in 1 .. m : SubSeq(q, 1, m)[i] = q[i]
      BY <3>1, PartIs
    <3>4. SubSeq(p, 1, m) = SubSeq(q, 1, m) <=> Same(p, q, m)
      <4>1. ASSUME Same(p, q, m) PROVE SubSeq(p, 1, m) = SubSeq(q, 1, m)
        BY <3>2, <3>3, <4>1, SamePath DEF Same
      <4>2. ASSUME SubSeq(p, 1, m) = SubSeq(q, 1, m) PROVE Same(p, q, m)
        BY <3>2, <3>3, <4>2 DEF Same
      <4>3. QED
        BY <4>1, <4>2
    <3>5. QED
      BY <1>1, <2>1, <3>4 DEF IsPrefix
  <2>2. CASE ~(m <= n)
    BY <1>1, <2>2 DEF IsPrefix
  <2>3. QED
    BY <2>1, <2>2
<1>3. ASSUME m <= n, Same(p, q, m) PROVE p # q <=> m < n
  <2>1. m = n => p = q
    BY <1>1, <1>3, SamePath DEF Same
  <2>2. QED
    BY <1>1, <1>3, <2>1
<1>4. QED
  BY <1>1, <1>2, <1>3 DEF IsStrictPrefix

\* The first number that differs decides.
LEMMA LessIs ==
    ASSUME NEW p \in Path, NEW q \in Path
    PROVE  Less(p, q) <=> \/ Len(p) < Len(q) /\ Same(p, q, Len(p))
                          \/ \E n \in 1 .. Len(p) :
                                 n <= Len(q) /\ p[n] < q[n] /\ Same(p, q, n - 1)
<1>1. DOMAIN p = 1 .. Len(p) /\ DOMAIN q = 1 .. Len(q)
      /\ Len(p) \in Nat /\ Len(q) \in Nat
  BY PathIs
<1>2. \A n : n \in DOMAIN p \cap DOMAIN q <=> n \in 1 .. Len(p) /\ n <= Len(q)
  BY <1>1
<1>3. QED
  BY <1>2, PrefixIs DEF Less, Same

\* The order of paths is total, strict and transitive.
LEMMA LessIsTotal ==
    ASSUME NEW p \in Path, NEW q \in Path
    PROVE  Less(p, q) \/ p = q \/ Less(q, p)
<1>1. PICK m \in Nat, n \in Nat : m = Len(p) /\ n = Len(q)
  BY PathIs
<1> DEFINE I == {i \in 1 .. m : i <= n /\ p[i] # q[i]}
<1>2. CASE I = {}
  <2>1. CASE m < n
    <3>1. Same(p, q, m)
      BY <1>2, <2>1 DEF Same
    <3>2. QED
      BY <1>1, <2>1, <3>1, LessIs
  <2>2. CASE n < m
    <3>1. Same(q, p, n)
      BY <1>2, <2>2 DEF Same
    <3>2. QED
      BY <1>1, <2>2, <3>1, LessIs
  <2>3. CASE m = n
    <3>1. \A i \in 1 .. Len(p) : p[i] = q[i]
      BY <1>1, <1>2, <2>3
    <3>2. QED
      BY <1>1, <2>3, <3>1, SamePath
  <2>4. QED
    BY <2>1, <2>2, <2>3
<1>3. CASE I # {}
  <2>1. PICK k \in I : \A i \in I : k <= i
    <3>1. I \in SUBSET Nat
      OBVIOUS
    <3>2. QED
      BY <1>3, <3>1, LeastOf
  <2>2. k \in 1 .. m /\ k \in 1 .. n /\ p[k] # q[k]
    BY <1>1
  <2>3. Same(p, q, k - 1) /\ Same(q, p, k - 1)
    <3>1. ASSUME NEW i \in 1 .. k - 1 PROVE p[i] = q[i]
      <4>1. i \in 1 .. m /\ i <= n /\ ~(k <= i)
        BY <2>2
      <4>2. QED
        BY <2>1, <4>1
    <3>2. QED
      BY <3>1 DEF Same
  <2>4. p[k] \in Nat /\ q[k] \in Nat
    BY <1>1, <2>2, PathIs
  <2>5. p[k] < q[k] \/ q[k] < p[k]
    BY <2>2, <2>4
  <2>6. QED
    BY <1>1, <2>2, <2>3, <2>5, LessIs
<1>4. QED
  BY <1>2, <1>3

LEMMA LessIsStrict ==
    ASSUME NEW p \in Path, NEW q \in Path, Less(p, q)
    PROVE  ~Less(q, p) /\ p # q
<1>1. PICK m \in Nat, n \in Nat : m = Len(p) /\ n = Len(q)
  BY PathIs
<1>2. /\ \A i \in 1 .. m : p[i] \in Nat
      /\ \A i \in 1 .. n : q[i] \in Nat
  BY <1>1, PathIs
<1>3. CASE m < n /\ Same(p, q, m)
  <2>1. \A i \in 1 .. m : p[i] = q[i]
    BY <1>3 DEF Same
  <2>2. QED
    BY <1>1, <1>2, <1>3, <2>1, LessIs
<1>4. ASSUME NEW i \in 1 .. m, i <= n, p[i] < q[i], Same(p, q, i - 1)
      PROVE  ~Less(q, p) /\ p # q
  <2>1. \A j \in 1 .. i - 1 : p[j] = q[j]
    BY <1>4 DEF Same
  <2>2. p # q
    BY <1>2, <1>4
  <2>3. ~(n < m /\ Same(q, p, n))
    BY <1>2, <1>4 DEF Same
  <2>4. ASSUME NEW j \in 1 .. n, j <= m, q[j] < p[j], Same(q, p, j - 1)
        PROVE  FALSE
    <3>1. CASE j < i
      <4>1. j \in 1 .. i - 1
        BY <3>1, <1>4, <2>4
      <4>2. QED
        BY <1>2, <1>4, <2>1, <2>4, <4>1
    <3>2. CASE j = i
      BY <1>2, <1>4, <2>4, <3>2
    <3>3. CASE i < j
      <4>1. i \in 1 .. j - 1
        BY <3>3, <1>4, <2>4
      <4>2. q[i] = p[i]
        BY <2>4, <4>1 DEF Same
      <4>3. QED
        BY <1>2, <1>4, <4>2
    <3>4. QED
      BY <3>1, <3>2, <3>3
  <2>5. QED
    BY <1>1, <2>2, <2>3, <2>4, LessIs
<1>5. QED
  BY <1>1, <1>3, <1>4, LessIs

LEMMA LessIsTransitive ==
    ASSUME NEW p \in Path, NEW q \in Path, NEW r \in Path, Less(p, q), Less(q, r)
    PROVE  Less(p, r)
<1>1. PICK l \in Nat, m \in Nat, n \in Nat : l = Len(p) /\ m = Len(q) /\ n = Len(r)
  BY PathIs
<1>2. /\ \A i \in 1 .. l : p[i] \in Nat
      /\ \A i \in 1 .. m : q[i] \in Nat
      /\ \A i \in 1 .. n : r[i] \in Nat
  BY <1>1, PathIs
<1>3. \/ l < m /\ Same(p, q, l)
      \/ \E i \in 1 .. l : i <= m /\ p[i] < q[i] /\ Same(p, q, i - 1)
  BY <1>1, LessIs
<1>4. \/ m < n /\ Same(q, r, m)
      \/ \E i \in 1 .. m : i <= n /\ q[i] < r[i] /\ Same(q, r, i - 1)
  BY <1>1, LessIs
<1>5. SUFFICES \/ l < n /\ Same(p, r, l)
               \/ \E i \in 1 .. l : i <= n /\ p[i] < r[i] /\ Same(p, r, i - 1)
  BY <1>1, LessIs
<1>6. CASE l < m /\ Same(p, q, l)
  <2>1. CASE m < n /\ Same(q, r, m)
    BY <1>6, <2>1 DEF Same
  <2>2. ASSUME NEW i \in 1 .. m, i <= n, q[i] < r[i], Same(q, r, i - 1)
        PROVE  \/ l < n /\ Same(p, r, l)
               \/ \E j \in 1 .. l : j <= n /\ p[j] < r[j] /\ Same(p, r, j - 1)
    <3>1. CASE i <= l
      <4>1. p[i] < r[i] /\ i \in 1 .. l
        BY <1>6, <2>2, <3>1 DEF Same
      <4>2. Same(p, r, i - 1)
        BY <1>6, <2>2, <3>1 DEF Same
      <4>3. QED
        BY <2>2, <4>1, <4>2
    <3>2. CASE l < i
      <4>1. Same(p, r, l) /\ l < n
        BY <1>6, <2>2, <3>2 DEF Same
      <4>2. QED
        BY <4>1
    <3>3. QED
      BY <3>1, <3>2
  <2>3. QED
    BY <1>4, <2>1, <2>2
<1>7. ASSUME NEW i \in 1 .. l, i <= m, p[i] < q[i], Same(p, q, i - 1)
      PROVE  \/ l < n /\ Same(p, r, l)
             \/ \E j \in 1 .. l : j <= n /\ p[j] < r[j] /\ Same(p, r, j - 1)
  <2>1. CASE m < n /\ Same(q, r, m)
    <3>1. p[i] < r[i] /\ i <= n /\ Same(p, r, i - 1)
      BY <1>7, <2>1 DEF Same
    <3>2. QED
      BY <3>1
  <2>2. ASSUME NEW j \in 1 .. m, j <= n, q[j] < r[j], Same(q, r, j - 1)
        PROVE  \/ l < n /\ Same(p, r, l)
               \/ \E k \in 1 .. l : k <= n /\ p[k] < r[k] /\ Same(p, r, k - 1)
    <3>1. CASE i < j
      <4>1. q[i] = r[i] /\ i <= n
        BY <1>7, <2>2, <3>1 DEF Same
      <4>2. p[i] < r[i] /\ Same(p, r, i - 1)
        BY <1>7, <2>2, <3>1, <4>1 DEF Same
      <4>3. QED
        BY <4>1, <4>2
    <3>2. CASE i = j
      <4>1. p[i] < r[i]
        <5>1. p[i] \in Nat /\ q[i] \in Nat /\ r[i] \in Nat
          BY <1>2, <1>7, <2>2, <3>2
        <5>2. QED
          BY <1>7, <2>2, <3>2, <5>1
      <4>2. Same(p, r, i - 1)
        BY <1>7, <2>2, <3>2 DEF Same
      <4>3. QED
        BY <2>2, <3>2, <4>1, <4>2
    <3>3. CASE j < i
      <4>1. p[j] = q[j] /\ j \in 1 .. l
        BY <1>7, <2>2, <3>3 DEF Same
      <4>2. p[j] < r[j] /\ Same(p, r, j - 1)
        BY <1>7, <2>2, <3>3, <4>1 DEF Same
      <4>3. QED
        BY <2>2, <4>1, <4>2
    <3>4. QED
      BY <3>1, <3>2, <3>3
  <2>3. QED
    BY <1>4, <2>1, <2>2
<1>8. QED
  BY <1>3, <1>6, <1>7

\* Different numbers, or different parents, make different children.
LEMMA ChildrenDiffer ==
    ASSUME NEW p \in Path, NEW q \in Path, NEW j \in Nat, NEW k \in Nat,
           Child(p, j) = Child(q, k)
    PROVE  p = q /\ j = k
<1>1. IsChild(Child(p, j), p, j)
  BY ChildIs
<1>2. IsChild(Child(q, k), q, k)
  BY ChildIs
<1>3. QED
  BY <1>1, <1>2 DEF IsChild

\* The part of q that is at depth n.
Part(q, n) == SubSeq(q, 1, n)

\* Each part of a path is a child of the one before.
LEMMA PartOf ==
    ASSUME NEW q \in Path, NEW n \in 1 .. Len(q)
    PROVE  /\ Part(q, n) = Child(Part(q, n - 1), q[n])
           /\ Part(q, n) \in Path /\ Part(q, n - 1) \in Path /\ q[n] \in Nat
           /\ Part(q, n) # << >> /\ Parent(Part(q, n)) = Part(q, n - 1)
           /\ Last(Part(q, n)) = q[n]
<1>1. Len(q) \in Nat /\ q[n] \in Nat
  BY PathIs
<1>2. PICK m \in Nat : m = n - 1
  OBVIOUS
<1>3. n \in 0 .. Len(q) /\ m \in 0 .. Len(q) /\ n = m + 1
  BY <1>1, <1>2
<1>4. PICK a \in Path : /\ a = Part(q, n) /\ Len(a) = n
                        /\ \A i \in 1 .. n : a[i] = q[i]
  BY <1>3, PartIs DEF Part
<1>5. PICK b \in Path : /\ b = Part(q, m) /\ Len(b) = m
                        /\ \A i \in 1 .. m : b[i] = q[i]
  BY <1>3, PartIs DEF Part
<1>6. PICK k \in Nat : k = q[n]
  BY <1>1
<1>7. PICK c : c = Child(b, k)
  OBVIOUS
<1>8. /\ c \in Path /\ Len(c) = Len(b) + 1 /\ c # << >>
      /\ \A i \in 1 .. Len(b) : c[i] = b[i]
      /\ c[Len(b) + 1] = k /\ Parent(c) = b /\ Last(c) = k
  <2>1. IsChild(c, b, k)
    BY <1>7, ChildIs
  <2>2. QED
    BY <2>1 DEF IsChild
<1>9. \A i \in 1 .. Len(a) : a[i] = c[i]
  <2>1. \A i \in 1 .. n : i \in 1 .. m \/ i = m + 1
    BY <1>3
  <2>2. QED
    BY <1>3, <1>4, <1>5, <1>6, <1>8, <2>1
<1>10. a = c
  BY <1>3, <1>4, <1>5, <1>8, <1>9, SamePath
<1>11. QED
  BY <1>2, <1>4, <1>5, <1>6, <1>7, <1>8, <1>10

\* The longest part of a path and the shortest.
LEMMA WholePart ==
    ASSUME NEW q \in Path
    PROVE  Part(q, Len(q)) = q /\ Part(q, 0) = << >>
<1>1. Len(q) \in 0 .. Len(q) /\ 0 \in 0 .. Len(q)
  BY PathIs
<1>2. Part(q, Len(q)) = q
  BY <1>1, PartIs, SamePath DEF Part
<1>3. Part(q, 0) \in Path /\ Len(Part(q, 0)) = 0
  BY <1>1, PartIs DEF Part
<1>4. QED
  BY <1>2, <1>3, PathIs

\* A prefix is a part.
LEMMA PrefixIsPart ==
    ASSUME NEW p \in Path, NEW q \in Path, IsPrefix(p, q)
    PROVE  Len(p) \in 0 .. Len(q) /\ p = Part(q, Len(p))
<1>1. Len(p) \in Nat /\ Len(q) \in Nat /\ Len(p) <= Len(q) /\ Same(p, q, Len(p))
  BY PathIs, PrefixIs
<1>2. PICK n \in 0 .. Len(q) : n = Len(p)
  BY <1>1
<1>3. /\ Part(q, n) \in Path /\ Len(Part(q, n)) = n
      /\ \A i \in 1 .. n : Part(q, n)[i] = q[i]
  BY PartIs DEF Part
<1>4. \A i \in 1 .. Len(p) : p[i] = Part(q, n)[i]
  BY <1>1, <1>2, <1>3 DEF Same
<1>5. p = Part(q, n)
  BY <1>2, <1>3, <1>4, SamePath
<1>6. QED
  BY <1>2, <1>5

\* The paths that are p or below p are those from p up to its next sibling.
LEMMA FamilyIs ==
    ASSUME NEW b \in Path, NEW j \in Nat, NEW p, p = Child(b, j),
           NEW s, s = Child(b, j + 1), NEW q \in Path
    PROVE  /\ IsPrefix(p, q) <=> (q = p \/ Less(p, q)) /\ Less(q, s)
           /\ IsPrefix(p, q) <=> Len(b) < Len(q) /\ Same(b, q, Len(b))
                                 /\ q[Len(b) + 1] = j
           /\ IsPrefix(p, q) <=> q = p \/ IsStrictPrefix(p, q)
<1>1. PICK m \in Nat, n \in Nat : m = Len(b) /\ n = Len(q)
  BY PathIs
<1>2. /\ p \in Path /\ Len(p) = m + 1 /\ p[m + 1] = j
      /\ \A i \in 1 .. m : p[i] = b[i]
  <2>1. IsChild(p, b, j)
    BY ChildIs
  <2>2. QED
    BY <1>1, <2>1 DEF IsChild
<1>3. /\ s \in Path /\ Len(s) = m + 1 /\ s[m + 1] = j + 1
      /\ \A i \in 1 .. m : s[i] = b[i]
  <2>1. PICK k \in Nat : k = j + 1
    OBVIOUS
  <2>2. IsChild(s, b, k)
    BY <2>1, ChildIs
  <2>3. QED
    BY <1>1, <2>1, <2>2 DEF IsChild
<1>4. \A i \in 1 .. n : q[i] \in Nat
  BY <1>1, PathIs
<1>5. \A i \in 1 .. m + 1 : i \in 1 .. m \/ i = m + 1
  OBVIOUS
<1>6. \A i \in 1 .. m : b[i] \in Nat
  BY <1>1, PathIs
<1>7. IsPrefix(p, q) <=> m < n /\ Same(b, q, m) /\ q[m + 1] = j
  <2>1. IsPrefix(p, q) <=> m + 1 <= n /\ Same(p, q, m + 1)
    BY <1>1, <1>2, PrefixIs
  <2>2. Same(p, q, m + 1) <=> Same(b, q, m) /\ q[m + 1] = j
    <3>1. m + 1 \in 1 .. m + 1 /\ \A i \in 1 .. m : i \in 1 .. m + 1
      OBVIOUS
    <3>2. QED
      BY <1>2, <1>5, <3>1 DEF Same
  <2>3. QED
    BY <1>1, <2>1, <2>2
<1>8. ASSUME IsPrefix(p, q) PROVE (q = p \/ Less(p, q)) /\ Less(q, s)
  <2>1. q = p \/ IsStrictPrefix(p, q)
    BY <1>8 DEF IsStrictPrefix
  <2>2. q = p \/ Less(p, q)
    BY <2>1 DEF Less
  <2>3. m + 1 \in 1 .. n /\ m + 1 <= Len(s) /\ q[m + 1] < s[m + 1]
    BY <1>1, <1>3, <1>7, <1>8
  <2>4. Same(q, s, (m + 1) - 1)
    <3>1. (m + 1) - 1 = m
      OBVIOUS
    <3>2. QED
      BY <1>3, <1>7, <1>8, <3>1 DEF Same
  <2>5. Less(q, s)
    BY <1>1, <1>3, <2>3, <2>4, LessIs
  <2>6. QED
    BY <2>2, <2>5
<1>9. ASSUME q = p \/ Less(p, q), Less(q, s) PROVE IsPrefix(p, q)
  <2>1. CASE q = p
    BY <1>2, <2>1 DEF IsPrefix
  <2>2. CASE Less(p, q)
    <3>1. CASE m + 1 < n /\ Same(p, q, m + 1)
      <4>1. m + 1 <= n
        BY <3>1
      <4>2. QED
        BY <1>1, <1>2, <3>1, <4>1, PrefixIs
    <3>2. ASSUME NEW i \in 1 .. m + 1, i <= n, p[i] < q[i], Same(p, q, i - 1)
          PROVE  FALSE
      <4>1. CASE n < m + 1 /\ Same(q, s, n)
        <5>1. q[i] = s[i] /\ i \in 1 .. m
          BY <3>2, <4>1 DEF Same
        <5>2. QED
          BY <1>2, <1>3, <1>6, <3>2, <5>1
      <4>2. ASSUME NEW k \in 1 .. n, k <= m + 1, q[k] < s[k], Same(q, s, k - 1)
            PROVE  FALSE
        <5>1. CASE i < k
          <6>1. q[i] = s[i] /\ i \in 1 .. m
            BY <3>2, <4>2, <5>1 DEF Same
          <6>2. QED
            BY <1>2, <1>3, <1>6, <3>2, <6>1
        <5>2. CASE k < i
          <6>1. p[k] = q[k] /\ k \in 1 .. m
            BY <3>2, <4>2, <5>2 DEF Same
          <6>2. QED
            BY <1>2, <1>3, <1>6, <4>2, <6>1
        <5>3. CASE k = i
          <6>1. CASE i = m + 1
            BY <1>2, <1>3, <1>4, <3>2, <4>2, <5>3, <6>1
          <6>2. CASE i \in 1 .. m
            BY <1>2, <1>3, <1>4, <1>6, <3>2, <4>2, <5>3, <6>2
          <6>3. QED
            BY <1>5, <6>1, <6>2
        <5>4. QED
          BY <5>1, <5>2, <5>3
      <4>3. QED
        BY <1>1, <1>3, <1>9, <4>1, <4>2, LessIs
    <3>3. QED
      BY <1>1, <1>2, <2>2, <3>1, <3>2, LessIs
  <2>3. QED
    BY <1>9, <2>1, <2>2
<1>10. IsPrefix(p, q) <=> q = p \/ IsStrictPrefix(p, q)
  <2>1. IsPrefix(p, p)
    BY <1>2 DEF IsPrefix
  <2>2. QED
    BY <2>1 DEF IsStrictPrefix
<1>11. QED
  BY <1>1, <1>7, <1>8, <1>9, <1>10

-----------------------------------------------------------------------------
(* Paths that are moved *)

\* q is at or below a child of b that is not before the j-th one.
Beyond(q, b, j) == Len(b) < Len(q) /\ Same(b, q, Len(b)) /\ q[Len(b) + 1] >= j

IsChanged(r, q, n, k) ==
    /\ r \in Path /\ Len(r) = Len(q) /\ r[n] = k
    /\ \A i \in 1 .. Len(q) : i # n => r[i] = q[i]

\* A path of which one number is changed.
LEMMA Changed ==
    ASSUME NEW q \in Path, NEW n \in 1 .. Len(q), NEW k \in Nat
    PROVE  IsChanged([q EXCEPT ![n] = k], q, n, k)
<1> DEFINE r == [q EXCEPT ![n] = k]
<1>1. DOMAIN q = 1 .. Len(q) /\ Len(q) \in Nat
  BY PathIs
<1>2. r \in Path /\ Len(r) = Len(q)
  BY <1>1 DEF Path
<1>3. r[n] = k /\ \A i \in 1 .. Len(q) : i # n => r[i] = q[i]
  BY <1>1
<1>4. IsChanged(r, q, n, k)
  BY <1>2, <1>3 DEF IsChanged
<1>5. QED
  BY <1>4

\* Moved() changes the number that is compared with the child's, or nothing.
LEMMA MovedIs ==
    ASSUME NEW b \in Path, NEW j \in Nat, NEW q \in Path, NEW d \in Int
    PROVE  Moved(q, Child(b, j), d) =
           IF Beyond(q, b, j) THEN [q EXCEPT ![Len(b) + 1] = q[Len(b) + 1] + d] ELSE q
<1>1. PICK p : p = Child(b, j)
  OBVIOUS
<1>2. IsChild(p, b, j)
  BY <1>1, ChildIs
<1>3. PICK m \in Nat : m = Len(b)
  BY PathIs
<1>4. Len(p) = m + 1 /\ Parent(p) = b /\ p[m + 1] = j
  BY <1>2, <1>3 DEF IsChild
<1>5. Len(q) \in Nat
  BY PathIs
<1>6. IsPrefix(b, q) <=> m <= Len(q) /\ Same(b, q, m)
  BY <1>3, PrefixIs
<1>7. Len(q) >= Len(p) /\ IsPrefix(Parent(p), q) /\ q[Len(p)] >= p[Len(p)]
          <=> Beyond(q, b, j)
  BY <1>3, <1>4, <1>5, <1>6 DEF Beyond
<1>8. QED
  BY <1>1, <1>3, <1>4, <1>7 DEF Moved

Up(q, b, j) == Moved(q, Child(b, j), 1)
Down(q, b, j) == Moved(q, Child(b, j), -1)

IsUp(r, q, b, j) ==
    /\ r \in Path /\ Len(r) = Len(q)
    /\ Beyond(q, b, j) => r[Len(b) + 1] = q[Len(b) + 1] + 1
    /\ ~Beyond(q, b, j) => r = q
    /\ \A i \in 1 .. Len(q) : i # Len(b) + 1 => r[i] = q[i]

\* What a path is after a child of b was added before it.
LEMMA UpIs ==
    ASSUME NEW b \in Path, NEW j \in Nat, NEW q \in Path
    PROVE  IsUp(Up(q, b, j), q, b, j)
<1>1. PICK m \in Nat, n \in Nat : m = Len(b) /\ n = Len(q)
  BY PathIs
<1>2. PICK r : r = Up(q, b, j)
  OBVIOUS
<1>3. CASE Beyond(q, b, j)
  <2>1. m + 1 \in 1 .. n /\ q[m + 1] \in Nat
    BY <1>1, <1>3, PathIs DEF Beyond
  <2>2. PICK k \in Nat : k = q[m + 1] + 1
    BY <2>1
  <2>a. r = [q EXCEPT ![Len(b) + 1] = q[Len(b) + 1] + 1]
    BY <1>2, <1>3, MovedIs DEF Up
  <2>b. PICK i \in 1 .. Len(q) : i = m + 1
    BY <1>1, <2>1
  <2>3. r = [q EXCEPT ![i] = k]
    BY <1>1, <2>2, <2>a, <2>b
  <2>4. /\ r \in Path /\ Len(r) = Len(q) /\ r[m + 1] = k
        /\ \A a \in 1 .. Len(q) : a # m + 1 => r[a] = q[a]
    <3>1. IsChanged(r, q, i, k)
      BY <2>3, Changed
    <3>2. QED
      BY <2>b, <3>1 DEF IsChanged
  <2>5. IsUp(r, q, b, j)
    BY <1>1, <1>3, <2>2, <2>4 DEF IsUp
  <2>6. QED
    BY <1>2, <2>5
<1>4. CASE ~Beyond(q, b, j)
  <2>1. r = q
    BY <1>2, <1>4, MovedIs DEF Up
  <2>2. IsUp(r, q, b, j)
    BY <1>4, <2>1 DEF IsUp
  <2>3. QED
    BY <1>2, <2>2
<1>5. QED
  BY <1>3, <1>4

\* Moving up keeps how far two paths agree, and so what is below what, and
\* the order.
LEMMA UpAgrees ==
    ASSUME NEW b \in Path, NEW j \in Nat, NEW q \in Path, NEW r \in Path,
           NEW n \in Nat, n <= Len(q), n <= Len(r)
    PROVE  Same(Up(q, b, j), Up(r, b, j), n) <=> Same(q, r, n)
<1>1. PICK m \in Nat : m = Len(b)
  BY PathIs
<1>2. PICK u, v : u = Up(q, b, j) /\ v = Up(r, b, j)
  OBVIOUS
<1>3. IsUp(u, q, b, j) /\ IsUp(v, r, b, j)
  <2>1. IsUp(Up(q, b, j), q, b, j)
    BY UpIs
  <2>2. IsUp(Up(r, b, j), r, b, j)
    BY UpIs
  <2>3. QED
    BY <1>2, <2>1, <2>2
<1>4. Len(q) \in Nat /\ Len(r) \in Nat
      /\ (\A i \in 1 .. Len(q) : q[i] \in Nat) /\ (\A i \in 1 .. Len(r) : r[i] \in Nat)
  BY PathIs
<1>5. \A i \in 1 .. n : i # m + 1 => u[i] = q[i] /\ v[i] = r[i]
  <2>1. \A i \in 1 .. n : i \in 1 .. Len(q) /\ i \in 1 .. Len(r)
    BY <1>4
  <2>2. QED
    BY <1>1, <1>3, <2>1 DEF IsUp
<1>6. CASE n <= m
  <2>1. \A i \in 1 .. n : i # m + 1
    BY <1>6
  <2>2. QED
    BY <1>2, <1>5, <2>1 DEF Same
<1>7. CASE m + 1 <= n
  <2>1. m + 1 \in 1 .. n /\ q[m + 1] \in Nat /\ r[m + 1] \in Nat
    BY <1>4, <1>7
  <2>2. \A i \in 1 .. m : i \in 1 .. n /\ i # m + 1
    BY <1>7
  <2>3. ASSUME Same(q, r, m), q[m + 1] = r[m + 1]
        PROVE  Beyond(q, b, j) <=> Beyond(r, b, j)
    <3>1. Same(b, q, m) <=> Same(b, r, m)
      BY <2>3 DEF Same
    <3>2. QED
      BY <1>1, <1>4, <1>7, <2>3, <3>1 DEF Beyond
  <2>4. u[m + 1] = IF Beyond(q, b, j) THEN q[m + 1] + 1 ELSE q[m + 1]
    BY <1>1, <1>3 DEF IsUp
  <2>5. v[m + 1] = IF Beyond(r, b, j) THEN r[m + 1] + 1 ELSE r[m + 1]
    BY <1>1, <1>3 DEF IsUp
  <2>6. ASSUME Same(q, r, n) PROVE Same(u, v, n)
    <3>1. Same(q, r, m) /\ q[m + 1] = r[m + 1]
      BY <2>1, <2>2, <2>6 DEF Same
    <3>2. u[m + 1] = v[m + 1]
      BY <2>3, <2>4, <2>5, <3>1
    <3>3. ASSUME NEW i \in 1 .. n PROVE u[i] = v[i]
      BY <1>5, <2>6, <3>2 DEF Same
    <3>4. QED
      BY <3>3 DEF Same
  <2>7. ASSUME Same(u, v, n) PROVE Same(q, r, n)
    <3>1. Same(q, r, m)
      BY <1>5, <2>2, <2>7 DEF Same
    <3>2. u[m + 1] = v[m + 1]
      BY <2>1, <2>7 DEF Same
    <3>3. q[m + 1] = r[m + 1]
      <4>1. Same(b, q, m) <=> Same(b, r, m)
        BY <3>1 DEF Same
      <4>2. Beyond(q, b, j) <=> Same(b, q, m) /\ q[m + 1] >= j
        BY <1>1, <1>4, <1>7 DEF Beyond
      <4>3. Beyond(r, b, j) <=> Same(b, r, m) /\ r[m + 1] >= j
        BY <1>1, <1>4, <1>7 DEF Beyond
      <4>4. QED
        BY <2>1, <2>4, <2>5, <3>2, <4>1, <4>2, <4>3
    <3>4. ASSUME NEW i \in 1 .. n PROVE q[i] = r[i]
      BY <1>5, <2>7, <3>3 DEF Same
    <3>5. QED
      BY <3>4 DEF Same
  <2>8. QED
    BY <1>2, <2>6, <2>7
<1>8. QED
  BY <1>6, <1>7

LEMMA UpKeepsPrefixes ==
    ASSUME NEW b \in Path, NEW j \in Nat, NEW q \in Path, NEW r \in Path
    PROVE  /\ IsPrefix(Up(q, b, j), Up(r, b, j)) <=> IsPrefix(q, r)
           /\ IsStrictPrefix(Up(q, b, j), Up(r, b, j)) <=> IsStrictPrefix(q, r)
<1>1. PICK u \in Path : u = Up(q, b, j) /\ Len(u) = Len(q)
  BY UpIs DEF IsUp
<1>2. PICK v \in Path : v = Up(r, b, j) /\ Len(v) = Len(r)
  BY UpIs DEF IsUp
<1>3. PICK m \in Nat, n \in Nat : m = Len(q) /\ n = Len(r)
  BY PathIs
<1>4. m <= n => (Same(u, v, m) <=> Same(q, r, m))
  BY <1>1, <1>2, <1>3, UpAgrees
<1>5. IsPrefix(u, v) <=> IsPrefix(q, r)
  BY <1>1, <1>2, <1>3, <1>4, PrefixIs
<1>6. IsStrictPrefix(u, v) <=> IsStrictPrefix(q, r)
  BY <1>1, <1>2, <1>3, <1>4, PrefixIs
<1>7. QED
  BY <1>1, <1>2, <1>5, <1>6

\* No two paths are moved to the same place.
LEMMA UpIsInjective ==
    ASSUME NEW b \in Path, NEW j \in Nat, NEW q \in Path, NEW r \in Path,
           Up(q, b, j) = Up(r, b, j)
    PROVE  q = r
<1>1. Len(q) = Len(r) /\ Len(q) \in Nat
  BY UpIs, PathIs DEF IsUp
<1>a. Same(Up(q, b, j), Up(r, b, j), Len(q))
  BY DEF Same
<1>2. Same(q, r, Len(q))
  BY <1>1, <1>a, UpAgrees
<1>3. QED
  BY <1>1, <1>2, SamePath DEF Same

LEMMA UpKeepsOrder ==
    ASSUME NEW b \in Path, NEW j \in Nat, NEW q \in Path, NEW r \in Path
    PROVE  Less(Up(q, b, j), Up(r, b, j)) <=> Less(q, r)
<1>1. ASSUME NEW x \in Path, NEW y \in Path, Less(x, y)
      PROVE  Less(Up(x, b, j), Up(y, b, j))
  <2>1. PICK u \in Path : u = Up(x, b, j) /\ IsUp(u, x, b, j)
    <3>1. IsUp(Up(x, b, j), x, b, j)
      BY UpIs
    <3>2. QED
      BY <3>1 DEF IsUp
  <2>2. PICK v \in Path : v = Up(y, b, j) /\ IsUp(v, y, b, j)
    <3>1. IsUp(Up(y, b, j), y, b, j)
      BY UpIs
    <3>2. QED
      BY <3>1 DEF IsUp
  <2>3. PICK k \in Nat, l \in Nat, m \in Nat : k = Len(x) /\ l = Len(y) /\ m = Len(b)
    BY PathIs
  <2>4. Len(u) = k /\ Len(v) = l
    BY <2>1, <2>2, <2>3 DEF IsUp
  <2>5. CASE k < l /\ Same(x, y, k)
    <3>1. Same(u, v, k)
      BY <2>1, <2>2, <2>3, <2>5, UpAgrees
    <3>2. Less(u, v)
      BY <2>4, <2>5, <3>1, LessIs
    <3>3. QED
      BY <2>1, <2>2, <3>2
  <2>6. ASSUME NEW n \in 1 .. k, n <= l, x[n] < y[n], Same(x, y, n - 1)
        PROVE  Less(u, v)
    <3>1. PICK i \in Nat : i = n - 1
      OBVIOUS
    <3>2. Same(u, v, n - 1)
      BY <2>1, <2>2, <2>3, <2>6, <3>1, UpAgrees
    <3>3. n \in 1 .. Len(x) /\ n \in 1 .. Len(y) /\ x[n] \in Nat /\ y[n] \in Nat
      BY <2>3, <2>6, PathIs
    <3>4. u[n] < v[n]
      <4>1. CASE n # m + 1
        <5>1. u[n] = x[n] /\ v[n] = y[n]
          BY <2>1, <2>2, <2>3, <3>3, <4>1 DEF IsUp
        <5>2. QED
          BY <2>6, <5>1
      <4>2. CASE n = m + 1
        <5>1. Same(b, x, m) <=> Same(b, y, m)
          BY <2>6, <4>2 DEF Same
        <5>2. Beyond(x, b, j) <=> Same(b, x, m) /\ x[n] >= j
          BY <2>3, <2>6, <4>2 DEF Beyond
        <5>3. Beyond(y, b, j) <=> Same(b, y, m) /\ y[n] >= j
          BY <2>3, <2>6, <4>2 DEF Beyond
        <5>4. u[n] = IF Beyond(x, b, j) THEN x[n] + 1 ELSE x[n]
          BY <2>1, <2>3, <4>2 DEF IsUp
        <5>5. v[n] = IF Beyond(y, b, j) THEN y[n] + 1 ELSE y[n]
          BY <2>2, <2>3, <4>2 DEF IsUp
        <5>6. QED
          BY <2>6, <3>3, <5>1, <5>2, <5>3, <5>4, <5>5
      <4>3. QED
        BY <4>1, <4>2
    <3>5. QED
      BY <2>4, <2>6, <3>2, <3>4, LessIs
  <2>7. QED
    BY <1>1, <2>1, <2>2, <2>3, <2>5, <2>6, LessIs
<1>2. Up(q, b, j) \in Path /\ Up(r, b, j) \in Path
  BY UpIs DEF IsUp
<1>3. ASSUME ~Less(q, r) PROVE ~Less(Up(q, b, j), Up(r, b, j))
  <2>1. q = r \/ Less(r, q)
    BY <1>3, LessIsTotal
  <2>2. PICK u \in Path, v \in Path : u = Up(q, b, j) /\ v = Up(r, b, j)
    BY <1>2
  <2>3. u = v \/ Less(v, u)
    BY <1>1, <2>1, <2>2
  <2>4. ~Less(u, v)
    BY <2>3, LessIsStrict
  <2>5. QED
    BY <2>2, <2>4
<1>4. QED
  BY <1>1, <1>3

\* What is moved is not before the child.
LEMMA OrderIsPath ==
    ASSUME NEW b \in Path, NEW j \in Nat
    PROVE  /\ Less(Child(b, j), Child(b, j + 1))
           /\ \A q \in Path : Beyond(q, b, j) => ~Less(q, Child(b, j))
<1>1. PICK p \in Path : p = Child(b, j) /\ IsChild(p, b, j)
  <2>1. IsChild(Child(b, j), b, j)
    BY ChildIs
  <2>2. QED
    BY <2>1 DEF IsChild
<1>2. PICK k \in Nat : k = j + 1
  OBVIOUS
<1>3. PICK s \in Path : s = Child(b, k) /\ IsChild(s, b, k)
  <2>1. IsChild(Child(b, k), b, k)
    BY ChildIs
  <2>2. QED
    BY <2>1 DEF IsChild
<1>4. PICK m \in Nat : m = Len(b)
  BY PathIs
<1>5. /\ Len(p) = m + 1 /\ p[m + 1] = j /\ \A i \in 1 .. m : p[i] = b[i]
      /\ Len(s) = m + 1 /\ s[m + 1] = k /\ \A i \in 1 .. m : s[i] = b[i]
  BY <1>1, <1>3, <1>4 DEF IsChild
<1>6. m + 1 \in 1 .. Len(p) /\ m + 1 <= Len(s) /\ (m + 1) - 1 = m
  BY <1>5
<1>7. Less(p, s)
  <2>1. Same(p, s, m) /\ p[m + 1] < s[m + 1]
    BY <1>2, <1>5 DEF Same
  <2>2. QED
    BY <1>6, <2>1, LessIs
<1>8. ASSUME NEW q \in Path, Beyond(q, b, j) PROVE ~Less(q, p)
  <2>1. Len(q) \in Nat /\ m < Len(q) /\ Same(b, q, m) /\ q[m + 1] >= j
        /\ q[m + 1] \in Nat
    BY <1>4, <1>8, PathIs DEF Beyond
  <2>2. CASE q[m + 1] = j
    <3>1. IsPrefix(p, q)
      BY <1>1, <1>4, <2>1, <2>2, FamilyIs
    <3>2. q = p \/ Less(p, q)
      BY <3>1 DEF Less, IsStrictPrefix
    <3>3. QED
      BY <3>2, LessIsStrict
  <2>3. CASE q[m + 1] > j
    <3>1. Same(p, q, m) /\ p[m + 1] < q[m + 1]
      BY <1>5, <2>1, <2>3 DEF Same
    <3>2. m + 1 <= Len(q)
      BY <2>1
    <3>3. Less(p, q)
      BY <1>6, <3>1, <3>2, LessIs
    <3>4. QED
      BY <3>3, LessIsStrict
  <2>4. QED
    BY <2>1, <2>2, <2>3
<1>9. QED
  BY <1>1, <1>2, <1>3, <1>7, <1>8

\* What a move up leaves alone: the parent and what is before the child.
\* Nothing is moved to the child's place or below it.
LEMMA UpStays ==
    ASSUME NEW b \in Path, NEW j \in Nat, NEW q \in Path
    PROVE  /\ Len(q) <= Len(b) => Up(q, b, j) = q
           /\ Less(q, Child(b, j)) => Up(q, b, j) = q
           /\ Up(Child(b, j), b, j) = Child(b, j + 1)
           /\ ~IsPrefix(Child(b, j), Up(q, b, j))
           /\ Less(Up(q, b, j), Child(b, j)) <=> Less(q, Child(b, j))
           /\ Less(Child(b, j), Up(q, b, j)) <=> ~Less(q, Child(b, j))
           /\ IsStrictPrefix(Up(q, b, j), Child(b, j)) <=> IsStrictPrefix(q, Child(b, j))
<1>1. PICK p \in Path : p = Child(b, j) /\ IsChild(p, b, j)
  <2>1. IsChild(Child(b, j), b, j)
    BY ChildIs
  <2>2. QED
    BY <2>1 DEF IsChild
<1>2. PICK k \in Nat : k = j + 1
  OBVIOUS
<1>3. PICK s \in Path : s = Child(b, k) /\ IsChild(s, b, k)
  <2>1. IsChild(Child(b, k), b, k)
    BY ChildIs
  <2>2. QED
    BY <2>1 DEF IsChild
<1>4. PICK m \in Nat : m = Len(b)
  BY PathIs
<1>5. /\ Len(p) = m + 1 /\ p[m + 1] = j /\ \A i \in 1 .. m : p[i] = b[i]
      /\ Len(s) = m + 1 /\ s[m + 1] = k /\ \A i \in 1 .. m : s[i] = b[i]
  BY <1>1, <1>3, <1>4 DEF IsChild
<1>6. PICK u \in Path : u = Up(q, b, j) /\ IsUp(u, q, b, j)
  <2>1. IsUp(Up(q, b, j), q, b, j)
    BY UpIs
  <2>2. QED
    BY <2>1 DEF IsUp
<1>7. Len(u) = Len(q) /\ (~Beyond(q, b, j) => u = q) /\ Len(q) \in Nat
  BY <1>6, PathIs DEF IsUp
<1>8. Len(q) <= m => u = q
  BY <1>4, <1>7 DEF Beyond
<1>9. Less(q, p) => u = q
  BY <1>1, <1>7, OrderIsPath
<1>10. PICK t \in Path : t = Up(p, b, j) /\ IsUp(t, p, b, j)
  <2>1. IsUp(Up(p, b, j), p, b, j)
    BY UpIs
  <2>2. QED
    BY <2>1 DEF IsUp
<1>11. t = s
  <2>1. Beyond(p, b, j)
    BY <1>4, <1>5 DEF Beyond, Same
  <2>2. Len(t) = m + 1 /\ t[m + 1] = k /\ \A i \in 1 .. m : t[i] = p[i]
    BY <1>2, <1>4, <1>5, <1>10, <2>1 DEF IsUp
  <2>3. \A i \in 1 .. m + 1 : i \in 1 .. m \/ i = m + 1
    OBVIOUS
  <2>4. \A i \in 1 .. m + 1 : t[i] = s[i]
    BY <1>5, <2>2, <2>3
  <2>5. QED
    BY <1>5, <2>2, <2>4, SamePath
<1>12. ~IsPrefix(p, u)
  <2>1. SUFFICES ASSUME IsPrefix(p, u) PROVE FALSE
    OBVIOUS
  <2>2. m < Len(u) /\ Same(b, u, m) /\ u[m + 1] = j
    BY <1>1, <1>4, <2>1, FamilyIs
  <2>3. CASE Beyond(q, b, j)
    <3>1. u[m + 1] = q[m + 1] + 1 /\ q[m + 1] >= j
      BY <1>4, <1>6, <2>3 DEF IsUp, Beyond
    <3>2. q[m + 1] \in Nat
      BY <1>7, <2>2, PathIs
    <3>3. QED
      BY <2>2, <3>1, <3>2
  <2>4. CASE ~Beyond(q, b, j)
    BY <1>4, <1>7, <2>2, <2>4 DEF Beyond
  <2>5. QED
    BY <2>3, <2>4
<1>13. ASSUME ~Less(q, p) PROVE Less(p, u)
  <2>1. Less(p, s)
    BY <1>1, <1>2, <1>3, OrderIsPath
  <2>2. q = p \/ Less(p, q)
    BY <1>13, LessIsTotal
  <2>3. u = s \/ Less(s, u)
    <3>1. Less(p, q) => Less(t, u)
      BY <1>6, <1>10, UpKeepsOrder
    <3>2. QED
      BY <1>6, <1>10, <1>11, <2>2, <3>1
  <2>4. QED
    BY <2>1, <2>3, LessIsTransitive
<1>14. Less(u, p) <=> Less(q, p)
  BY <1>9, <1>13, LessIsStrict
<1>15. Less(p, u) <=> ~Less(q, p)
  BY <1>9, <1>13, LessIsStrict
<1>16. IsStrictPrefix(u, p) <=> IsStrictPrefix(q, p)
  BY <1>5, <1>7, <1>8, PrefixIs
<1>17. QED
  BY <1>1, <1>2, <1>3, <1>4, <1>6, <1>8, <1>9, <1>10, <1>11, <1>12, <1>14, <1>15, <1>16

\* Moving down undoes moving up, and the other way round for what does not go
\* with the child.
LEMMA DownOfUp ==
    ASSUME NEW b \in Path, NEW j \in Nat, NEW q \in Path
    PROVE  Down(Up(q, b, j), b, j) = q
<1>1. PICK u \in Path : u = Up(q, b, j) /\ IsUp(u, q, b, j)
  <2>1. IsUp(Up(q, b, j), q, b, j)
    BY UpIs
  <2>2. QED
    BY <2>1 DEF IsUp
<1>2. PICK m \in Nat, n \in Nat : m = Len(b) /\ n = Len(q)
  BY PathIs
<1>3. /\ Len(u) = n
      /\ \A i \in 1 .. n : i # m + 1 => u[i] = q[i]
  BY <1>1, <1>2 DEF IsUp
<1>4. CASE Beyond(q, b, j)
  <2>1. m + 1 \in 1 .. n /\ q[m + 1] \in Nat /\ q[m + 1] >= j /\ Same(b, q, m)
    BY <1>2, <1>4, PathIs DEF Beyond
  <2>2. u[m + 1] = q[m + 1] + 1
    BY <1>1, <1>2, <1>4 DEF IsUp
  <2>3. \A i \in 1 .. m : i \in 1 .. n /\ i # m + 1
    BY <2>1
  <2>4. Same(b, u, m)
    BY <1>3, <2>1, <2>3 DEF Same
  <2>5. Beyond(u, b, j)
    BY <1>2, <1>3, <2>1, <2>2, <2>4 DEF Beyond
  <2>6. PICK r : r = Down(u, b, j)
    OBVIOUS
  <2>7. r = [u EXCEPT ![Len(b) + 1] = u[Len(b) + 1] + -1]
    BY <2>5, <2>6, MovedIs DEF Down
  <2>8. PICK a \in 1 .. Len(u) : a = m + 1
    BY <1>3, <2>1
  <2>9. PICK k \in Nat : k = q[m + 1]
    BY <2>1
  <2>10. u[a] + -1 = k
    BY <2>1, <2>2, <2>8, <2>9
  <2>11. r = [u EXCEPT ![a] = k]
    BY <1>2, <2>7, <2>8, <2>10
  <2>12. IsChanged(r, u, a, k)
    BY <2>11, Changed
  <2>13. \A i \in 1 .. Len(r) : r[i] = q[i]
    BY <1>2, <1>3, <2>8, <2>9, <2>12 DEF IsChanged
  <2>14. r = q
    BY <1>2, <1>3, <2>12, <2>13, SamePath DEF IsChanged
  <2>15. QED
    BY <1>1, <2>6, <2>14
<1>5. CASE ~Beyond(q, b, j)
  <2>1. u = q
    BY <1>1, <1>5 DEF IsUp
  <2>2. Down(q, b, j) = q
    BY <1>5, MovedIs DEF Down
  <2>3. QED
    BY <1>1, <2>1, <2>2
<1>6. QED
  BY <1>4, <1>5

LEMMA UpOfDown ==
    ASSUME NEW b \in Path, NEW j \in Nat, NEW q \in Path, ~IsPrefix(Child(b, j), q)
    PROVE  Down(q, b, j) \in Path /\ Up(Down(q, b, j), b, j) = q
<1>1. PICK m \in Nat, n \in Nat : m = Len(b) /\ n = Len(q)
  BY PathIs
<1>2. PICK r : r = Down(q, b, j)
  OBVIOUS
<1>3. CASE Beyond(q, b, j)
  <2>1. m + 1 \in 1 .. n /\ q[m + 1] \in Nat /\ q[m + 1] >= j /\ Same(b, q, m)
    BY <1>1, <1>3, PathIs DEF Beyond
  <2>2. q[m + 1] # j
    BY <1>1, <2>1, FamilyIs
  <2>3. PICK k \in Nat : k = q[m + 1] + -1 /\ k >= j
    BY <2>1, <2>2
  <2>4. r = [q EXCEPT ![Len(b) + 1] = q[Len(b) + 1] + -1]
    BY <1>2, <1>3, MovedIs DEF Down
  <2>5. PICK a \in 1 .. Len(q) : a = m + 1
    BY <1>1, <2>1
  <2>6. r = [q EXCEPT ![a] = k]
    BY <1>1, <2>3, <2>4, <2>5
  <2>7. IsChanged(r, q, a, k)
    BY <2>6, Changed
  <2>8. /\ r \in Path /\ Len(r) = n /\ r[m + 1] = k
        /\ \A i \in 1 .. n : i # m + 1 => r[i] = q[i]
    BY <1>1, <2>5, <2>7 DEF IsChanged
  <2>9. \A i \in 1 .. m : i \in 1 .. n /\ i # m + 1
    BY <2>1
  <2>10. Beyond(r, b, j)
    <3>1. Same(b, r, m)
      BY <2>1, <2>8, <2>9 DEF Same
    <3>2. QED
      BY <1>1, <2>1, <2>3, <2>8, <3>1 DEF Beyond
  <2>11. PICK u \in Path : u = Up(r, b, j) /\ IsUp(u, r, b, j)
    <3>1. IsUp(Up(r, b, j), r, b, j)
      BY <2>8, UpIs
    <3>2. QED
      BY <3>1 DEF IsUp
  <2>12. /\ Len(u) = n /\ u[m + 1] = k + 1
         /\ \A i \in 1 .. n : i # m + 1 => u[i] = r[i]
    BY <1>1, <2>8, <2>10, <2>11 DEF IsUp
  <2>13. \A i \in 1 .. Len(u) : u[i] = q[i]
    BY <2>1, <2>3, <2>8, <2>12
  <2>14. u = q
    BY <1>1, <2>12, <2>13, SamePath
  <2>15. QED
    BY <1>2, <2>8, <2>11, <2>14
<1>4. CASE ~Beyond(q, b, j)
  <2>1. r = q
    BY <1>2, <1>4, MovedIs DEF Down
  <2>2. Up(q, b, j) = q
    BY <1>4, MovedIs DEF Up
  <2>3. QED
    BY <1>2, <2>1, <2>2
<1>5. QED
  BY <1>3, <1>4

\* Where children are moved.
LEMMA UpOfChild ==
    ASSUME NEW b \in Path, NEW j \in Nat, NEW x \in Path, NEW k \in Nat
    PROVE  /\ x # b => Up(Child(x, k), b, j) = Child(Up(x, b, j), k)
           /\ k < j => Up(Child(b, k), b, j) = Child(b, k)
           /\ k >= j => Up(Child(b, k), b, j) = Child(b, k + 1)
<1>1. PICK m \in Nat, n \in Nat : m = Len(b) /\ n = Len(x)
  BY PathIs
<1>2. ASSUME x # b PROVE Up(Child(x, k), b, j) = Child(Up(x, b, j), k)
  <2>1. PICK c \in Path : c = Child(x, k) /\ IsChild(c, x, k)
    <3>1. IsChild(Child(x, k), x, k)
      BY ChildIs
    <3>2. QED
      BY <3>1 DEF IsChild
  <2>2. PICK u \in Path : u = Up(x, b, j) /\ IsUp(u, x, b, j)
    <3>1. IsUp(Up(x, b, j), x, b, j)
      BY UpIs
    <3>2. QED
      BY <3>1 DEF IsUp
  <2>3. PICK d \in Path : d = Child(u, k) /\ IsChild(d, u, k)
    <3>1. IsChild(Child(u, k), u, k)
      BY ChildIs
    <3>2. QED
      BY <3>1 DEF IsChild
  <2>4. PICK v \in Path : v = Up(c, b, j) /\ IsUp(v, c, b, j)
    <3>1. IsUp(Up(c, b, j), c, b, j)
      BY UpIs
    <3>2. QED
      BY <3>1 DEF IsUp
  <2>5. Len(c) = n + 1 /\ c[n + 1] = k /\ \A i \in 1 .. n : c[i] = x[i]
    BY <1>1, <2>1 DEF IsChild
  <2>6. Len(u) = n /\ \A i \in 1 .. n : i # m + 1 => u[i] = x[i]
    BY <1>1, <2>2 DEF IsUp
  <2>7. Len(d) = n + 1 /\ d[n + 1] = k /\ \A i \in 1 .. n : d[i] = u[i]
    BY <2>3, <2>6 DEF IsChild
  <2>8. Len(v) = n + 1 /\ \A i \in 1 .. n + 1 : i # m + 1 => v[i] = c[i]
    BY <1>1, <2>4, <2>5 DEF IsUp
  <2>9. Beyond(c, b, j) <=> Beyond(x, b, j)
    <3>1. CASE m < n
      <4>1. m + 1 \in 1 .. n /\ \A i \in 1 .. m : i \in 1 .. n
        BY <3>1
      <4>2. Same(b, c, m) <=> Same(b, x, m)
        BY <2>5, <4>1 DEF Same
      <4>3. QED
        BY <1>1, <2>5, <3>1, <4>1, <4>2 DEF Beyond
    <3>2. CASE m = n
      <4>1. ASSUME Same(b, c, m) PROVE FALSE
        <5>1. \A i \in 1 .. Len(b) : b[i] = x[i]
          BY <1>1, <2>5, <3>2, <4>1 DEF Same
        <5>2. QED
          BY <1>1, <1>2, <3>2, <5>1, SamePath
      <4>2. QED
        BY <1>1, <3>2, <4>1 DEF Beyond
    <3>3. CASE n < m
      BY <1>1, <2>5, <3>3 DEF Beyond
    <3>4. QED
      BY <3>1, <3>2, <3>3
  <2>10. ASSUME NEW i \in 1 .. n + 1 PROVE v[i] = d[i]
    <3>1. CASE ~Beyond(x, b, j)
      <4>1. v = c /\ u = x
        BY <2>2, <2>4, <2>9, <3>1 DEF IsUp
      <4>2. i \in 1 .. n \/ i = n + 1
        BY <2>10
      <4>3. QED
        BY <2>5, <2>7, <4>1, <4>2
    <3>2. CASE Beyond(x, b, j)
      <4>1. m + 1 \in 1 .. n
        BY <1>1, <3>2 DEF Beyond
      <4>2. v[m + 1] = c[m + 1] + 1 /\ u[m + 1] = x[m + 1] + 1
        BY <1>1, <2>2, <2>4, <2>9, <3>2 DEF IsUp
      <4>3. v[m + 1] = d[m + 1]
        BY <2>5, <2>7, <4>1, <4>2
      <4>4. i = m + 1 \/ (i \in 1 .. n /\ i # m + 1) \/ (i = n + 1 /\ i # m + 1)
        BY <2>10, <4>1
      <4>5. QED
        BY <2>5, <2>6, <2>7, <2>8, <4>3, <4>4
    <3>3. QED
      BY <3>1, <3>2
  <2>11. v = d
    BY <2>7, <2>8, <2>10, SamePath
  <2>12. QED
    BY <2>1, <2>2, <2>3, <2>4, <2>11
<1>3. PICK c \in Path : c = Child(b, k) /\ IsChild(c, b, k)
  <2>1. IsChild(Child(b, k), b, k)
    BY ChildIs
  <2>2. QED
    BY <2>1 DEF IsChild
<1>4. Len(c) = m + 1 /\ c[m + 1] = k /\ \A i \in 1 .. m : c[i] = b[i]
  BY <1>1, <1>3 DEF IsChild
<1>5. Beyond(c, b, j) <=> k >= j
  BY <1>1, <1>4 DEF Beyond, Same
<1>6. PICK v \in Path : v = Up(c, b, j) /\ IsUp(v, c, b, j)
  <2>1. IsUp(Up(c, b, j), c, b, j)
    BY UpIs
  <2>2. QED
    BY <2>1 DEF IsUp
<1>7. ASSUME k < j PROVE v = c
  BY <1>5, <1>6, <1>7 DEF IsUp
<1>8. ASSUME k >= j PROVE v = Child(b, k + 1)
  <2>1. PICK l \in Nat : l = k + 1
    OBVIOUS
  <2>2. PICK d \in Path : d = Child(b, l) /\ IsChild(d, b, l)
    <3>1. IsChild(Child(b, l), b, l)
      BY ChildIs
    <3>2. QED
      BY <3>1 DEF IsChild
  <2>3. Len(d) = m + 1 /\ d[m + 1] = l /\ \A i \in 1 .. m : d[i] = b[i]
    BY <1>1, <2>2 DEF IsChild
  <2>4. Len(v) = m + 1 /\ v[m + 1] = l /\ \A i \in 1 .. m + 1 : i # m + 1 => v[i] = c[i]
    BY <1>1, <1>4, <1>5, <1>6, <1>8, <2>1 DEF IsUp
  <2>5. ASSUME NEW i \in 1 .. m + 1 PROVE v[i] = d[i]
    <3>1. i = m + 1 \/ (i \in 1 .. m /\ i # m + 1)
      OBVIOUS
    <3>2. QED
      BY <1>4, <2>3, <2>4, <3>1
  <2>6. v = d
    BY <2>3, <2>4, <2>5, SamePath
  <2>7. QED
    BY <2>1, <2>2, <2>6
<1>9. QED
  BY <1>2, <1>3, <1>6, <1>7, <1>8

LEMMA ParentOfUp ==
    ASSUME NEW b \in Path, NEW j \in Nat, NEW q \in Path, q # << >>
    PROVE  Parent(Up(q, b, j)) = Up(Parent(q), b, j)
<1>1. PICK x \in Path, k \in Nat : x = Parent(q) /\ q = Child(x, k)
  BY ParentIs
<1>2. ASSUME NEW y \in Path, NEW l \in Nat PROVE Parent(Child(y, l)) = y
  <2>1. IsChild(Child(y, l), y, l)
    BY ChildIs
  <2>2. QED
    BY <2>1 DEF IsChild
<1>3. PICK u \in Path : u = Up(x, b, j)
  BY UpIs DEF IsUp
<1>4. CASE x # b
  <2>1. Up(q, b, j) = Child(u, k)
    <3>1. Up(Child(x, k), b, j) = Child(Up(x, b, j), k)
      BY <1>4, UpOfChild
    <3>2. QED
      BY <1>1, <1>3, <3>1
  <2>2. QED
    BY <1>1, <1>2, <1>3, <2>1
<1>5. CASE x = b
  <2>1. u = b
    <3>1. Len(b) <= Len(b)
      BY PathIs
    <3>2. QED
      BY <1>3, <1>5, <3>1, UpStays
  <2>2. PICK l \in Nat : Up(q, b, j) = Child(b, l)
    <3>1. Up(q, b, j) = Child(b, k) \/ Up(q, b, j) = Child(b, k + 1)
      BY <1>1, <1>5, UpOfChild
    <3>2. k + 1 \in Nat
      OBVIOUS
    <3>3. QED
      BY <3>1, <3>2
  <2>3. QED
    BY <1>1, <1>2, <1>3, <2>1, <2>2
<1>6. QED
  BY <1>4, <1>5

-----------------------------------------------------------------------------
(* Trees: sets of paths in which nothing is missing *)

Kids(S, p, n) == \A k \in Nat : Child(p, k) \in S <=> k < n

IsTree(S) ==
    /\ S \subseteq Path /\ << >> \in S /\ IsFiniteSet(S)
    /\ \A q \in S : q # << >> => Parent(q) \in S
    /\ \A p \in S : \E n \in Nat : Kids(S, p, n)

Below(S, p) == {q \in S : IsStrictPrefix(p, q)}
Before(S, p) == {q \in S : Less(q, p)}
Family(S, p) == {q \in S : IsPrefix(p, q)}

\* The number of what is in one of two sets that share nothing.
LEMMA Disjoint ==
    ASSUME NEW S, NEW T, IsFiniteSet(S), IsFiniteSet(T), S \cap T = {}
    PROVE  /\ IsFiniteSet(S \cup T)
           /\ Cardinality(S \cup T) = Cardinality(S) + Cardinality(T)
           /\ Cardinality(S) \in Nat /\ Cardinality(T) \in Nat
<1>1. Cardinality(S \cap T) = 0
  BY FS_EmptySet
<1>2. Cardinality(S) \in Nat /\ Cardinality(T) \in Nat
  BY FS_CardinalityType
<1>3. IsFiniteSet(S \cup T)
      /\ Cardinality(S \cup T) = Cardinality(S) + Cardinality(T) - Cardinality(S \cap T)
  BY FS_Union
<1>4. QED
  BY <1>1, <1>2, <1>3

\* Children are paths, longer by one.
LEMMA ChildIsPath ==
    ASSUME NEW p \in Path, NEW k \in Nat
    PROVE  /\ Child(p, k) \in Path /\ Child(p, k) # << >>
           /\ Parent(Child(p, k)) = p /\ Last(Child(p, k)) = k
           /\ Len(Child(p, k)) = Len(p) + 1 /\ Len(p) \in Nat
<1>1. IsChild(Child(p, k), p, k)
  BY ChildIs
<1>2. QED
  BY <1>1, PathIs DEF IsChild

\* A child is below its parent and what that is below, and after it.
LEMMA ChildIsBelow ==
    ASSUME NEW p \in Path, NEW q \in Path
    PROVE  /\ Len(q) = Len(p) + 1 /\ IsPrefix(p, q) <=> \E k \in Nat : q = Child(p, k)
           /\ \A k \in Nat : IsStrictPrefix(q, Child(p, k)) <=> IsPrefix(q, p)
           /\ \A k \in Nat : IsStrictPrefix(p, Child(p, k)) /\ Less(p, Child(p, k))
<1>1. PICK m \in Nat, n \in Nat : m = Len(p) /\ n = Len(q)
  BY PathIs
<1>2. ASSUME n = m + 1, IsPrefix(p, q) PROVE \E k \in Nat : q = Child(p, k)
  <2>a. Len(q) # 0
    BY <1>1, <1>2
  <2>1. q # << >>
    BY <2>a, PathIs
  <2>2. PICK x \in Path, k \in Nat :
            /\ x = Parent(q) /\ q = Child(x, k) /\ Len(x) = Len(q) - 1
            /\ \A i \in 1 .. Len(q) - 1 : x[i] = q[i]
    BY <2>1, ParentIs
  <2>3. Len(x) = m
    BY <1>1, <1>2, <2>2
  <2>4. Same(p, q, m)
    BY <1>1, <1>2, PrefixIs
  <2>5. Len(q) - 1 = m
    BY <1>1, <1>2
  <2>6. \A i \in 1 .. Len(x) : x[i] = p[i]
    BY <2>2, <2>3, <2>4, <2>5 DEF Same
  <2>7. x = p
    BY <1>1, <2>3, <2>6, SamePath
  <2>8. QED
    BY <2>2, <2>7
<1>3. ASSUME NEW k \in Nat
      PROVE  /\ q = Child(p, k) => n = m + 1 /\ IsPrefix(p, q)
             /\ IsStrictPrefix(q, Child(p, k)) <=> IsPrefix(q, p)
             /\ IsStrictPrefix(p, Child(p, k)) /\ Less(p, Child(p, k))
  <2>1. PICK c \in Path : c = Child(p, k) /\ IsChild(c, p, k)
    <3>1. IsChild(Child(p, k), p, k)
      BY ChildIs
    <3>2. QED
      BY <3>1 DEF IsChild
  <2>2. Len(c) = m + 1 /\ \A i \in 1 .. m : c[i] = p[i]
    BY <1>1, <2>1 DEF IsChild
  <2>3. Same(p, c, m)
    BY <2>2 DEF Same
  <2>4. IsStrictPrefix(p, c) /\ IsPrefix(p, c)
    BY <1>1, <2>2, <2>3, PrefixIs
  <2>5. Less(p, c)
    BY <2>4 DEF Less
  <2>6. n <= m => (Same(q, c, n) <=> Same(q, p, n))
    BY <2>2 DEF Same
  <2>7. IsStrictPrefix(q, c) <=> IsPrefix(q, p)
    BY <1>1, <2>2, <2>6, PrefixIs
  <2>8. QED
    BY <1>1, <2>1, <2>2, <2>4, <2>5, <2>7
<1>4. QED
  BY <1>1, <1>2, <1>3

\* ChildrenIn() gives the children, and as many as their numbers run to.
LEMMA ChildrenAre ==
    ASSUME NEW S, S \subseteq Path, NEW p \in Path
    PROVE  ChildrenIn(S, p) = {q \in S : \E k \in Nat : q = Child(p, k)}
BY ChildIsBelow DEF ChildrenIn

LEMMA KidsAreCounted ==
    ASSUME NEW S, S \subseteq Path, NEW p \in Path, NEW n \in Nat, Kids(S, p, n)
    PROVE  /\ ChildrenIn(S, p) = {Child(p, k) : k \in 0 .. n - 1}
           /\ IsFiniteSet(ChildrenIn(S, p))
           /\ Cardinality(ChildrenIn(S, p)) = n
<1> DEFINE K == {Child(p, k) : k \in 0 .. n - 1}
           f == [k \in 0 .. n - 1 |-> Child(p, k)]
<1>1. ChildrenIn(S, p) = K
  <2>1. ASSUME NEW q \in ChildrenIn(S, p) PROVE q \in K
    <3>1. PICK k \in Nat : q = Child(p, k) /\ q \in S
      BY ChildrenAre
    <3>2. k < n
      BY <3>1 DEF Kids
    <3>3. k \in 0 .. n - 1
      BY <3>2
    <3>4. QED
      BY <3>1, <3>3
  <2>2. ASSUME NEW q \in K PROVE q \in ChildrenIn(S, p)
    <3>1. PICK k \in 0 .. n - 1 : q = Child(p, k)
      OBVIOUS
    <3>2. k \in Nat /\ k < n
      OBVIOUS
    <3>3. q \in S
      BY <3>1, <3>2 DEF Kids
    <3>4. QED
      BY <3>1, <3>2, <3>3, ChildrenAre
  <2>3. QED
    BY <2>1, <2>2
<1>2. IsFiniteSet(0 .. n - 1) /\ Cardinality(0 .. n - 1) = n
  <2>1. PICK m \in Int : m = n - 1
    OBVIOUS
  <2>2. IsFiniteSet(0 .. m) /\ Cardinality(0 .. m) = IF 0 > m THEN 0 ELSE m - 0 + 1
    BY FS_Interval
  <2>3. QED
    BY <2>1, <2>2
<1>3. f \in Bijection(0 .. n - 1, K)
  <2>1. f \in [0 .. n - 1 -> K]
    OBVIOUS
  <2>2. ASSUME NEW k \in 0 .. n - 1, NEW l \in 0 .. n - 1, f[k] = f[l] PROVE k = l
    <3>1. Child(p, k) = Child(p, l)
      BY <2>2
    <3>2. k \in Nat /\ l \in Nat
      OBVIOUS
    <3>3. QED
      BY <3>1, <3>2, ChildrenDiffer
  <2>3. ASSUME NEW q \in K PROVE \E k \in 0 .. n - 1 : f[k] = q
    OBVIOUS
  <2> HIDE DEF f, K
  <2>4. QED
    BY <2>1, <2>2, <2>3 DEF Bijection, Injection, IsInjective, Surjection
<1>4. ExistsBijection(0 .. n - 1, K)
  BY <1>3 DEF ExistsBijection
<1> HIDE DEF K
<1>5. IsFiniteSet(K) /\ Cardinality(K) = n
  BY <1>2, <1>4, FS_Bijection
<1>6. QED
  BY <1>1, <1>5 DEF K

-----------------------------------------------------------------------------
(* A tree B and what of it is left, or was there before, in A: without the *)
(* items at and below the j-th child of b, where the next ones moved up    *)

Shift(A, B, b, j) ==
    /\ A \subseteq Path /\ B \subseteq Path
    /\ \A q \in Path : Up(q, b, j) \in B <=> q \in A

Ups(S, b, j) == {Up(q, b, j) : q \in S}

\* What is moved up is a path, and the root's only if it was.
LEMMA UpIsPath ==
    ASSUME NEW b \in Path, NEW j \in Nat, NEW q \in Path
    PROVE  Up(q, b, j) \in Path /\ (Up(q, b, j) = << >> <=> q = << >>)
<1>1. IsUp(Up(q, b, j), q, b, j)
  BY UpIs
<1>2. PICK u \in Path : u = Up(q, b, j) /\ Len(u) = Len(q)
  BY <1>1 DEF IsUp
<1>3. u = << >> <=> q = << >>
  BY <1>2, PathIs
<1>4. QED
  BY <1>2, <1>3

\* As many as there were are there after a move.
LEMMA UpsAreCounted ==
    ASSUME NEW b \in Path, NEW j \in Nat, NEW S, S \subseteq Path, IsFiniteSet(S)
    PROVE  IsFiniteSet(Ups(S, b, j)) /\ Cardinality(Ups(S, b, j)) = Cardinality(S)
<1> DEFINE T == Ups(S, b, j)
           f == [q \in S |-> Up(q, b, j)]
<1>1. f \in Bijection(S, T)
  <2>1. f \in [S -> T] /\ \A q \in T : \E r \in S : f[r] = q
    BY DEF Ups
  <2>2. ASSUME NEW q \in S, NEW r \in S, f[q] = f[r] PROVE q = r
    <3>1. Up(q, b, j) = Up(r, b, j) /\ q \in Path /\ r \in Path
      BY <2>2
    <3>2. QED
      BY <3>1, UpIsInjective
  <2> HIDE DEF f, T
  <2>3. QED
    BY <2>1, <2>2 DEF Bijection, Injection, IsInjective, Surjection
<1>2. ExistsBijection(S, T)
  BY <1>1 DEF ExistsBijection
<1>3. QED
  BY <1>2, FS_Bijection

\* What is not the child or below it was there before.
LEMMA ShiftSplits ==
    ASSUME NEW b \in Path, NEW j \in Nat, NEW A, NEW B, Shift(A, B, b, j),
           NEW q \in B, ~IsPrefix(Child(b, j), q)
    PROVE  \E r \in A : q = Up(r, b, j)
<1>1. q \in Path
  BY DEF Shift
<1>2. PICK r \in Path : r = Down(q, b, j) /\ Up(r, b, j) = q
  BY <1>1, UpOfDown
<1>3. r \in A
  BY <1>2 DEF Shift
<1>4. QED
  BY <1>2, <1>3

\* What is below, or before, an item, before and after.
LEMMA BelowUp ==
    ASSUME NEW b \in Path, NEW j \in Nat, NEW A, NEW B, Shift(A, B, b, j),
           NEW q \in Path
    PROVE  Below(B, Up(q, b, j)) =
               Ups(Below(A, q), b, j)
                   \cup (IF IsStrictPrefix(q, Child(b, j))
                         THEN Family(B, Child(b, j)) ELSE {})
<1>1. PICK p \in Path : p = Child(b, j)
  BY ChildIsPath
<1>2. PICK u \in Path : u = Up(q, b, j)
  BY UpIsPath
<1>3. ASSUME NEW r \in B, IsStrictPrefix(u, r), ~IsPrefix(p, r)
      PROVE  r \in Ups(Below(A, q), b, j)
  <2>1. PICK x \in A : r = Up(x, b, j)
    BY <1>1, <1>3, ShiftSplits
  <2>2. x \in Path
    BY DEF Shift
  <2>3. IsStrictPrefix(q, x)
    BY <1>2, <1>3, <2>1, <2>2, UpKeepsPrefixes
  <2>4. QED
    BY <2>1, <2>3 DEF Ups, Below
<1>4. ASSUME NEW x \in Below(A, q) PROVE Up(x, b, j) \in Below(B, u)
  <2>1. x \in A /\ x \in Path /\ IsStrictPrefix(q, x)
    BY DEF Below, Shift
  <2>2. Up(x, b, j) \in B
    BY <2>1 DEF Shift
  <2>3. IsStrictPrefix(u, Up(x, b, j))
    BY <1>2, <2>1, UpKeepsPrefixes
  <2>4. QED
    BY <2>2, <2>3 DEF Below
<1>5. ASSUME NEW r \in B, IsPrefix(p, r)
      PROVE  IsStrictPrefix(u, r) <=> IsStrictPrefix(q, p)
  <2>1. r \in Path
    BY DEF Shift
  <2>2. IsStrictPrefix(u, p) <=> IsStrictPrefix(q, p)
    BY <1>1, <1>2, UpStays
  <2>3. ~IsPrefix(p, u)
    BY <1>1, <1>2, UpStays
  <2>4. PICK k \in Nat, l \in Nat, n \in Nat : k = Len(u) /\ l = Len(p) /\ n = Len(r)
    BY <2>1, PathIs
  <2>5. l <= n /\ Same(p, r, l)
    BY <1>5, <2>1, <2>4, PrefixIs
  <2>6. ASSUME IsStrictPrefix(u, p) PROVE IsStrictPrefix(u, r)
    <3>1. k < l /\ Same(u, p, k)
      BY <2>4, <2>6, PrefixIs
    <3>2. k < n /\ Same(u, r, k)
      BY <2>5, <3>1 DEF Same
    <3>3. QED
      BY <2>1, <2>4, <3>2, PrefixIs
  <2>7. ASSUME IsStrictPrefix(u, r) PROVE IsStrictPrefix(u, p)
    <3>1. k < n /\ Same(u, r, k)
      BY <2>1, <2>4, <2>7, PrefixIs
    <3>2. CASE k < l
      <4>1. Same(u, p, k)
        BY <2>5, <3>1, <3>2 DEF Same
      <4>2. QED
        BY <2>4, <3>2, <4>1, PrefixIs
    <3>3. CASE l <= k
      <4>1. Same(p, u, l)
        BY <2>5, <3>1, <3>3 DEF Same
      <4>2. IsPrefix(p, u)
        BY <2>4, <3>3, <4>1, PrefixIs
      <4>3. QED
        BY <2>3, <4>2
    <3>4. QED
      BY <3>2, <3>3
  <2>8. QED
    BY <2>2, <2>6, <2>7
<1>6. Below(B, u) = Ups(Below(A, q), b, j)
                        \cup (IF IsStrictPrefix(q, p) THEN Family(B, p) ELSE {})
  <2>1. ASSUME NEW r \in Below(B, u)
        PROVE  r \in Ups(Below(A, q), b, j)
                   \cup (IF IsStrictPrefix(q, p) THEN Family(B, p) ELSE {})
    BY <1>3, <1>5 DEF Below, Family
  <2>2. ASSUME NEW r \in Ups(Below(A, q), b, j) PROVE r \in Below(B, u)
    BY <1>4 DEF Ups
  <2>3. ASSUME IsStrictPrefix(q, p), NEW r \in Family(B, p) PROVE r \in Below(B, u)
    BY <1>5, <2>3 DEF Below, Family
  <2>4. QED
    BY <2>1, <2>2, <2>3
<1>7. QED
  BY <1>1, <1>2, <1>6

\* The same of what is before.
LEMMA BeforeUp ==
    ASSUME NEW b \in Path, NEW j \in Nat, NEW A, NEW B, Shift(A, B, b, j),
           NEW q \in Path
    PROVE  Before(B, Up(q, b, j)) =
               Ups(Before(A, q), b, j)
                   \cup (IF Less(q, Child(b, j)) THEN {} ELSE Family(B, Child(b, j)))
<1>1. PICK p \in Path : p = Child(b, j)
  BY ChildIsPath
<1>2. PICK u \in Path : u = Up(q, b, j)
  BY UpIsPath
<1>3. ASSUME NEW r \in B, Less(r, u), ~IsPrefix(p, r)
      PROVE  r \in Ups(Before(A, q), b, j)
  <2>1. PICK x \in A : r = Up(x, b, j)
    BY <1>1, <1>3, ShiftSplits
  <2>2. x \in Path
    BY DEF Shift
  <2>3. Less(x, q)
    BY <1>2, <1>3, <2>1, <2>2, UpKeepsOrder
  <2>4. QED
    BY <2>1, <2>3 DEF Ups, Before
<1>4. ASSUME NEW x \in Before(A, q) PROVE Up(x, b, j) \in Before(B, u)
  <2>1. x \in A /\ x \in Path /\ Less(x, q)
    BY DEF Before, Shift
  <2>2. Up(x, b, j) \in B
    BY <2>1 DEF Shift
  <2>3. Less(Up(x, b, j), u)
    BY <1>2, <2>1, UpKeepsOrder
  <2>4. QED
    BY <2>2, <2>3 DEF Before
<1>5. ASSUME NEW r \in B, IsPrefix(p, r)
      PROVE  Less(r, u) <=> ~Less(q, p)
  <2>1. r \in Path
    BY DEF Shift
  <2>2. (Less(u, p) <=> Less(q, p)) /\ (Less(p, u) <=> ~Less(q, p)) /\ ~IsPrefix(p, u)
    BY <1>1, <1>2, UpStays
  <2>3. PICK s \in Path : s = Child(b, j + 1)
    <3>1. PICK k \in Nat : k = j + 1
      OBVIOUS
    <3>2. Child(b, k) \in Path
      BY ChildIsPath
    <3>3. QED
      BY <3>1, <3>2
  <2>4. (r = p \/ Less(p, r)) /\ Less(r, s)
    BY <1>1, <1>5, <2>1, <2>3, FamilyIs
  <2>5. ASSUME Less(q, p) PROVE ~Less(r, u)
    <3>1. Less(u, p)
      BY <2>2, <2>5
    <3>2. Less(u, r)
      BY <2>1, <2>4, <3>1, LessIsTransitive
    <3>3. QED
      BY <2>1, <3>2, LessIsStrict
  <2>6. ASSUME ~Less(q, p) PROVE Less(r, u)
    <3>1. ~Less(u, s)
      BY <1>1, <2>2, <2>3, <2>6, FamilyIs
    <3>2. u = s \/ Less(s, u)
      BY <3>1, LessIsTotal
    <3>3. QED
      BY <2>1, <2>4, <3>2, LessIsTransitive
  <2>7. QED
    BY <2>5, <2>6
<1>6. Before(B, u) = Ups(Before(A, q), b, j)
                         \cup (IF Less(q, p) THEN {} ELSE Family(B, p))
  <2>1. ASSUME NEW r \in Before(B, u)
        PROVE  r \in Ups(Before(A, q), b, j)
                   \cup (IF Less(q, p) THEN {} ELSE Family(B, p))
    BY <1>3, <1>5 DEF Before, Family
  <2>2. ASSUME NEW r \in Ups(Before(A, q), b, j) PROVE r \in Before(B, u)
    BY <1>4 DEF Ups
  <2>3. ASSUME ~Less(q, p), NEW r \in Family(B, p) PROVE r \in Before(B, u)
    BY <1>5, <2>3 DEF Before, Family
  <2>4. QED
    BY <2>1, <2>2, <2>3
<1>7. QED
  BY <1>1, <1>2, <1>6

\* The numbers of them.
LEMMA ShiftCounts ==
    ASSUME NEW b \in Path, NEW j \in Nat, NEW A, NEW B, Shift(A, B, b, j),
           IsFiniteSet(A), IsFiniteSet(B), NEW q \in Path
    PROVE  /\ Cardinality(Below(B, Up(q, b, j))) =
                  Cardinality(Below(A, q))
                      + (IF IsStrictPrefix(q, Child(b, j))
                         THEN Cardinality(Family(B, Child(b, j))) ELSE 0)
           /\ Cardinality(Before(B, Up(q, b, j))) =
                  Cardinality(Before(A, q))
                      + (IF Less(q, Child(b, j))
                         THEN 0 ELSE Cardinality(Family(B, Child(b, j))))
<1>1. PICK p \in Path : p = Child(b, j)
  BY ChildIsPath
<1>2. PICK F : F = Family(B, p)
  OBVIOUS
<1>3. IsFiniteSet(F) /\ IsFiniteSet({}) /\ Cardinality({}) = 0
  <2>1. F \in SUBSET B
    BY <1>2 DEF Family
  <2>2. QED
    BY <2>1, FS_Subset, FS_EmptySet
<1>4. ASSUME NEW S, S \subseteq A, NEW T \in {F, {}}
      PROVE  Cardinality(Ups(S, b, j) \cup T) = Cardinality(S) + Cardinality(T)
  <2>1. IsFiniteSet(S) /\ S \subseteq Path
    BY <1>4, FS_Subset DEF Shift
  <2>2. IsFiniteSet(Ups(S, b, j)) /\ Cardinality(Ups(S, b, j)) = Cardinality(S)
    BY <2>1, UpsAreCounted
  <2>3. ASSUME NEW r \in Ups(S, b, j) PROVE r \notin F
    <3>1. PICK x \in S : r = Up(x, b, j)
      BY DEF Ups
    <3>2. ~IsPrefix(p, r)
      BY <1>1, <2>1, <3>1, UpStays
    <3>3. QED
      BY <1>2, <3>2 DEF Family
  <2>4. Ups(S, b, j) \cap T = {} /\ IsFiniteSet(T)
    BY <1>3, <2>3
  <2>5. QED
    BY <2>2, <2>4, Disjoint
<1>5. Below(A, q) \subseteq A /\ Before(A, q) \subseteq A
  BY DEF Below, Before
<1>6. Cardinality(Below(A, q)) \in Nat /\ Cardinality(Before(A, q)) \in Nat
  <2>1. IsFiniteSet(Below(A, q)) /\ IsFiniteSet(Before(A, q))
    BY <1>5, FS_Subset
  <2>2. QED
    BY <2>1, FS_CardinalityType
<1>7. Cardinality(Below(B, Up(q, b, j))) =
          Cardinality(Below(A, q))
              + (IF IsStrictPrefix(q, p) THEN Cardinality(F) ELSE 0)
  <2>1. CASE IsStrictPrefix(q, p)
    <3>1. Below(B, Up(q, b, j)) = Ups(Below(A, q), b, j) \cup F
      BY <1>1, <1>2, <2>1, BelowUp
    <3>2. QED
      BY <1>4, <1>5, <2>1, <3>1
  <2>2. CASE ~IsStrictPrefix(q, p)
    <3>1. Below(B, Up(q, b, j)) = Ups(Below(A, q), b, j) \cup {}
      <4>1. Below(B, Up(q, b, j)) =
                Ups(Below(A, q), b, j)
                    \cup (IF IsStrictPrefix(q, Child(b, j))
                          THEN Family(B, Child(b, j)) ELSE {})
        BY BelowUp
      <4>2. QED
        BY <1>1, <2>2, <4>1
    <3>2. Cardinality(Ups(Below(A, q), b, j) \cup {})
              = Cardinality(Below(A, q)) + Cardinality({})
      BY <1>4, <1>5
    <3>3. QED
      BY <1>3, <1>6, <2>2, <3>1, <3>2
  <2>3. QED
    BY <2>1, <2>2
<1>8. Cardinality(Before(B, Up(q, b, j))) =
          Cardinality(Before(A, q))
              + (IF Less(q, p) THEN 0 ELSE Cardinality(F))
  <2>1. CASE ~Less(q, p)
    <3>1. Before(B, Up(q, b, j)) = Ups(Before(A, q), b, j) \cup F
      BY <1>1, <1>2, <2>1, BeforeUp
    <3>2. QED
      BY <1>4, <1>5, <2>1, <3>1
  <2>2. CASE Less(q, p)
    <3>1. Before(B, Up(q, b, j)) = Ups(Before(A, q), b, j) \cup {}
      BY <1>1, <2>2, BeforeUp
    <3>2. Cardinality(Ups(Before(A, q), b, j) \cup {})
              = Cardinality(Before(A, q)) + Cardinality({})
      BY <1>4, <1>5
    <3>3. QED
      BY <1>3, <1>6, <2>2, <3>1, <3>2
  <2>3. QED
    BY <2>1, <2>2
<1>9. QED
  BY <1>1, <1>2, <1>7, <1>8

-----------------------------------------------------------------------------
(* Functions that recur on a smaller argument *)

UpTo(g, n, S, X, m, Stop, base, nx, h) ==
    /\ g \in [S -> X]
    /\ \A q \in S : m[q] < n =>
           g[q] = IF q \in Stop THEN base[q] ELSE h[g[nx[q]]]

Recurs(S, X, m, Stop, base, nx, h) ==
    /\ m \in [S -> Nat] /\ base \in [S -> X] /\ nx \in [S -> S] /\ h \in [X -> X]
    /\ \A q \in S : q \notin Stop => m[nx[q]] < m[q]

Recursive(f, S, X, Stop, base, nx, h) ==
    /\ f \in [S -> X]
    /\ \A q \in S : f[q] = IF q \in Stop THEN base[q] ELSE h[f[nx[q]]]

\* A function that goes to a lesser argument in each step exists.
LEMMA Recursion ==
    ASSUME NEW S, NEW X, NEW m, NEW Stop, NEW base, NEW nx, NEW h,
           Recurs(S, X, m, Stop, base, nx, h)
    PROVE  \E f : Recursive(f, S, X, Stop, base, nx, h)
<1> USE DEF Recurs
<1> DEFINE OK(g, n) == UpTo(g, n, S, X, m, Stop, base, nx, h)
           N == {n \in Nat : \E g : OK(g, n)}
<1>1. 0 \in N
  <2>1. OK(base, 0)
    BY DEF UpTo
  <2>2. QED
    BY <2>1
<1>2. ASSUME NEW n \in Nat, n \in N PROVE n + 1 \in N
  <2>1. PICK g : OK(g, n)
    BY <1>2
  <2>2. PICK k : k = [q \in S |-> IF q \in Stop THEN base[q] ELSE h[g[nx[q]]]]
    OBVIOUS
  <2>3. k \in [S -> X]
    BY <2>1, <2>2 DEF UpTo
  <2>4. ASSUME NEW q \in S, m[q] < n PROVE k[q] = g[q]
    BY <2>1, <2>2, <2>4 DEF UpTo
  <2>5. ASSUME NEW q \in S, m[q] < n + 1
        PROVE  k[q] = IF q \in Stop THEN base[q] ELSE h[k[nx[q]]]
    <3>1. q \notin Stop => k[nx[q]] = g[nx[q]]
      <4>1. ASSUME q \notin Stop PROVE nx[q] \in S /\ m[nx[q]] < n
        <5>1. nx[q] \in S /\ m[nx[q]] < m[q] /\ m[nx[q]] \in Nat /\ m[q] \in Nat
          BY <4>1
        <5>2. QED
          BY <2>5, <5>1
      <4>2. QED
        BY <2>4, <4>1
    <3>2. QED
      BY <2>2, <3>1
  <2>6. OK(k, n + 1)
    BY <2>3, <2>5 DEF UpTo
  <2>7. QED
    BY <2>6
<1> HIDE DEF N
<1>3. Nat \subseteq N
  BY <1>1, <1>2, Induction
<1>4. \A n \in Nat : \E g : OK(g, n)
  BY <1>3 DEF N
<1>5. ASSUME NEW n \in Nat, NEW g, OK(g, n), NEW k, OK(k, n),
             NEW q \in S, m[q] < n, g[q] # k[q]
      PROVE  FALSE
  <2> DEFINE I == {m[x] : x \in {y \in S : m[y] < n /\ g[y] # k[y]}}
  <2>1. I \in SUBSET Nat /\ I # {}
    BY <1>5
  <2>2. PICK i \in I : \A l \in I : i <= l
    BY <2>1, LeastOf
  <2>3. PICK x \in S : i = m[x] /\ m[x] < n /\ g[x] # k[x]
    OBVIOUS
  <2>4. /\ g[x] = IF x \in Stop THEN base[x] ELSE h[g[nx[x]]]
        /\ k[x] = IF x \in Stop THEN base[x] ELSE h[k[nx[x]]]
    BY <1>5, <2>3 DEF UpTo
  <2>5. x \notin Stop /\ g[nx[x]] # k[nx[x]]
    BY <2>3, <2>4
  <2>6. nx[x] \in S /\ m[nx[x]] < m[x] /\ m[nx[x]] \in Nat /\ m[x] \in Nat
    BY <2>5
  <2>7. m[nx[x]] \in I
    BY <2>3, <2>5, <2>6
  <2>8. i <= m[nx[x]]
    BY <2>2, <2>7
  <2>9. QED
    BY <2>3, <2>6, <2>8
<1>6. ASSUME NEW n \in Nat, NEW l \in Nat, n <= l, NEW g, OK(g, l) PROVE OK(g, n)
  <2>1. \A q \in S : m[q] \in Nat /\ (m[q] < n => m[q] < l)
    BY <1>6
  <2>2. QED
    BY <1>6, <2>1 DEF UpTo
<1> DEFINE G(n) == CHOOSE g : OK(g, n)
           f == [q \in S |-> G(m[q] + 1)[q]]
<1>7. ASSUME NEW n \in Nat PROVE OK(G(n), n)
  BY <1>4
<1> HIDE DEF OK, G
<1>8. ASSUME NEW q \in S
      PROVE  /\ f[q] \in X
             /\ f[q] = IF q \in Stop THEN base[q] ELSE h[f[nx[q]]]
  <2>1. PICK n \in Nat : n = m[q] + 1
    OBVIOUS
  <2>2. PICK g : g = G(n)
    OBVIOUS
  <2>3. OK(g, n) /\ m[q] < n /\ f[q] = g[q]
    <3>1. m[q] \in Nat
      OBVIOUS
    <3>2. QED
      BY <1>7, <2>1, <2>2, <3>1
  <2>4. f[q] \in X
    BY <2>3 DEF OK, UpTo
  <2>5. f[q] = IF q \in Stop THEN base[q] ELSE h[g[nx[q]]]
    BY <2>3 DEF OK, UpTo
  <2>6. ASSUME q \notin Stop PROVE f[nx[q]] = g[nx[q]]
    <3>1. PICK r \in S : r = nx[q]
      OBVIOUS
    <3>2. PICK l \in Nat : l = m[r] + 1
      OBVIOUS
    <3>3. m[r] < m[q] /\ m[r] \in Nat /\ m[q] \in Nat
      BY <2>6, <3>1
    <3>4. m[r] < l /\ l <= n
      BY <2>1, <3>2, <3>3
    <3>5. PICK k : k = G(l)
      OBVIOUS
    <3>6. OK(k, l) /\ f[r] = k[r]
      BY <1>7, <3>2, <3>5
    <3>7. OK(g, l)
      BY <1>6, <2>3, <3>4
    <3>8. k[r] = g[r]
      BY <1>5, <3>4, <3>6, <3>7
    <3>9. QED
      BY <3>1, <3>6, <3>8
  <2>7. QED
    BY <2>4, <2>5, <2>6
<1>9. f \in [S -> X]
  BY <1>8
<1> HIDE DEF f
<1>10. QED
  BY <1>8, <1>9 DEF Recursive

-----------------------------------------------------------------------------
(* Trees that grow and shrink by one item *)

\* The children, before and after, of an item and of b.
LEMMA KidsOfUp ==
    ASSUME NEW b \in Path, NEW j \in Nat, NEW A, NEW B, Shift(A, B, b, j),
           NEW x \in Path, NEW n \in Nat
    PROVE  /\ x # b => (Kids(A, x, n) <=> Kids(B, Up(x, b, j), n))
           /\ j <= n /\ Child(b, j) \in B => (Kids(A, b, n) <=> Kids(B, b, n + 1))
<1>1. ASSUME x # b, NEW k \in Nat
      PROVE  Child(Up(x, b, j), k) \in B <=> Child(x, k) \in A
  <2>1. Up(Child(x, k), b, j) = Child(Up(x, b, j), k)
    BY <1>1, UpOfChild
  <2>2. Child(x, k) \in Path
    BY ChildIsPath
  <2>3. QED
    BY <2>1, <2>2 DEF Shift
<1>2. ASSUME NEW k \in Nat
      PROVE  /\ k < j => (Child(b, k) \in B <=> Child(b, k) \in A)
             /\ k >= j => (Child(b, k + 1) \in B <=> Child(b, k) \in A)
  <2>1. Child(b, k) \in Path
    BY ChildIsPath
  <2>2. PICK l \in Nat : l = k + 1
    OBVIOUS
  <2>3. /\ k < j => Up(Child(b, k), b, j) = Child(b, k)
        /\ k >= j => Up(Child(b, k), b, j) = Child(b, l)
    BY <2>2, UpOfChild
  <2>4. Up(Child(b, k), b, j) \in B <=> Child(b, k) \in A
    BY <2>1 DEF Shift
  <2>5. QED
    BY <2>2, <2>3, <2>4
<1>3. x # b => (Kids(A, x, n) <=> Kids(B, Up(x, b, j), n))
  BY <1>1 DEF Kids
<1>4. ASSUME j <= n, Child(b, j) \in B PROVE Kids(A, b, n) <=> Kids(B, b, n + 1)
  <2>1. ASSUME Kids(A, b, n), NEW k \in Nat
        PROVE  Child(b, k) \in B <=> k < n + 1
    <3>1. CASE k < j
      BY <1>2, <1>4, <2>1, <3>1 DEF Kids
    <3>2. CASE k = j
      BY <1>4, <3>2
    <3>3. CASE k > j
      <4>1. PICK l \in Nat : k = l + 1
        <5>1. k - 1 \in Nat /\ k = (k - 1) + 1
          BY <3>3
        <5>2. QED
          BY <5>1
      <4>2. l >= j /\ (l < n <=> k < n + 1)
        BY <3>3, <4>1
      <4>3. Child(b, k) \in B <=> Child(b, l) \in A
        BY <1>2, <4>1, <4>2
      <4>4. QED
        BY <2>1, <4>2, <4>3 DEF Kids
    <3>4. QED
      BY <3>1, <3>2, <3>3
  <2>2. ASSUME Kids(B, b, n + 1), NEW k \in Nat
        PROVE  Child(b, k) \in A <=> k < n
    <3>1. CASE k < j
      BY <1>2, <1>4, <2>2, <3>1 DEF Kids
    <3>2. CASE k >= j
      <4>1. PICK l \in Nat : l = k + 1
        OBVIOUS
      <4>2. Child(b, l) \in B <=> l < n + 1
        BY <2>2 DEF Kids
      <4>3. QED
        BY <1>2, <3>2, <4>1, <4>2
    <3>3. QED
      BY <3>1, <3>2
  <2>3. QED
    BY <2>1, <2>2 DEF Kids
<1>5. QED
  BY <1>3, <1>4

\* Parents are there before and after.
LEMMA ParentUp ==
    ASSUME NEW b \in Path, NEW j \in Nat, NEW A, NEW B, Shift(A, B, b, j),
           NEW q \in Path, q # << >>
    PROVE  /\ Parent(q) \in Path /\ Up(q, b, j) # << >>
           /\ Parent(Up(q, b, j)) \in B <=> Parent(q) \in A
<1>1. Parent(q) \in Path
  BY ParentIs
<1>2. Up(q, b, j) # << >>
  BY UpIsPath
<1>3. Parent(Up(q, b, j)) = Up(Parent(q), b, j)
  BY ParentOfUp
<1>4. QED
  BY <1>1, <1>2, <1>3 DEF Shift

\* A tree with one item more is a tree, in which the new one has nothing below.
LEMMA Grown ==
    ASSUME NEW A, IsTree(A), NEW b \in A, NEW j \in Nat,
           NEW n \in Nat, Kids(A, b, n), j <= n,
           NEW B, B = Ups(A, b, j) \cup {Child(b, j)}
    PROVE  /\ Shift(A, B, b, j) /\ IsTree(B) /\ Kids(B, b, n + 1)
           /\ Family(B, Child(b, j)) = {Child(b, j)}
<1>1. b \in Path /\ A \subseteq Path
  BY DEF IsTree
<1>2. PICK p \in Path : p = Child(b, j) /\ p # << >> /\ Parent(p) = b
  BY <1>1, ChildIsPath
<1>3. ASSUME NEW q \in Path PROVE ~IsPrefix(p, Up(q, b, j))
  BY <1>1, <1>2, UpStays
<1>4. IsPrefix(p, p)
  BY <1>2, PathIs, PrefixIs DEF Same
<1>5. B \subseteq Path
  BY <1>1, <1>2, UpIsPath DEF Ups
<1>6. ASSUME NEW q \in Path PROVE Up(q, b, j) \in B <=> q \in A
  <2>1. Up(q, b, j) # p
    BY <1>3, <1>4
  <2>2. ASSUME NEW r \in A, Up(q, b, j) = Up(r, b, j) PROVE q \in A
    BY <1>1, <2>2, UpIsInjective
  <2>3. QED
    BY <1>2, <2>1, <2>2 DEF Ups
<1>7. Shift(A, B, b, j)
  BY <1>1, <1>5, <1>6 DEF Shift
<1>8. Kids(B, b, n + 1)
  BY <1>1, <1>2, <1>7, KidsOfUp
<1>9. Up(b, b, j) = b /\ b \in B
  <2>1. Up(b, b, j) = b
    BY <1>1, PathIs, UpStays
  <2>2. QED
    BY <1>1, <1>6, <2>1
<1>10. << >> \in B
  <2>1. << >> \in Path /\ << >> \in A
    BY <1>1 DEF IsTree
  <2>2. Up(<< >>, b, j) = << >>
    BY <1>1, <2>1, UpIsPath
  <2>3. QED
    BY <1>6, <2>1, <2>2
<1>11. IsFiniteSet(B)
  <2>1. IsFiniteSet(Ups(A, b, j))
    BY <1>1, UpsAreCounted DEF IsTree
  <2>2. QED
    BY <2>1, FS_AddElement
<1>12. ASSUME NEW q \in B, q # << >> PROVE Parent(q) \in B
  <2>1. CASE q = p
    BY <1>2, <1>9, <2>1
  <2>2. CASE q # p
    <3>1. PICK r \in A : q = Up(r, b, j)
      BY <1>2, <2>2 DEF Ups
    <3>2. r \in Path
      BY <1>1
    <3>3. r # << >>
      BY <1>1, <1>12, <3>1, <3>2, UpIsPath
    <3>4. Parent(r) \in A
      BY <3>3 DEF IsTree
    <3>5. QED
      BY <1>1, <1>7, <3>1, <3>2, <3>3, <3>4, ParentUp
  <2>3. QED
    BY <2>1, <2>2
<1>13. ASSUME NEW q \in B PROVE \E k \in Nat : Kids(B, q, k)
  <2>1. CASE q = p
    <3>1. ASSUME NEW k \in Nat PROVE Child(p, k) \notin B
      <4>1. PICK c \in Path : c = Child(p, k) /\ c # p /\ IsPrefix(p, c)
        <5>1. IsStrictPrefix(p, Child(p, k)) /\ Child(p, k) \in Path
          BY ChildIsPath, ChildIsBelow
        <5>2. QED
          BY <5>1 DEF IsStrictPrefix
      <4>2. ASSUME NEW r \in A, c = Up(r, b, j) PROVE FALSE
        BY <1>1, <1>3, <4>1, <4>2
      <4>3. QED
        BY <1>2, <4>1, <4>2 DEF Ups
    <3>2. Kids(B, p, 0)
      BY <3>1 DEF Kids
    <3>3. QED
      BY <2>1, <3>2
  <2>2. CASE q # p
    <3>1. PICK r \in A : q = Up(r, b, j)
      BY <1>2, <2>2 DEF Ups
    <3>2. r \in Path
      BY <1>1
    <3>3. CASE r = b
      BY <1>8, <1>9, <3>1, <3>3
    <3>4. CASE r # b
      <4>1. PICK k \in Nat : Kids(A, r, k)
        BY DEF IsTree
      <4>2. Kids(B, Up(r, b, j), k)
        BY <1>1, <1>7, <3>2, <3>4, <4>1, KidsOfUp
      <4>3. QED
        BY <3>1, <4>2
    <3>5. QED
      BY <3>3, <3>4
  <2>3. QED
    BY <2>1, <2>2
<1>14. IsTree(B)
  BY <1>5, <1>10, <1>11, <1>12, <1>13 DEF IsTree
<1>15. Family(B, p) = {p}
  <2>1. ASSUME NEW q \in B, IsPrefix(p, q) PROVE q = p
    <3>1. ASSUME NEW r \in A, q = Up(r, b, j) PROVE FALSE
      BY <1>1, <1>3, <2>1, <3>1
    <3>2. QED
      BY <1>2, <3>1 DEF Ups
  <2>2. p \in B
    BY <1>2
  <2>3. QED
    BY <1>4, <2>1, <2>2 DEF Family
<1>16. QED
  BY <1>2, <1>7, <1>8, <1>14, <1>15

\* A tree without an item and what is below it is a tree.
LEMMA Shrunk ==
    ASSUME NEW B, IsTree(B), NEW b \in Path, NEW j \in Nat, Child(b, j) \in B,
           NEW A, A = {Down(q, b, j) : q \in {r \in B : ~IsPrefix(Child(b, j), r)}}
    PROVE  /\ Shift(A, B, b, j) /\ IsTree(A) /\ b \in A /\ b \in B
           /\ \E n \in Nat : j <= n /\ Kids(A, b, n) /\ Kids(B, b, n + 1)
<1>1. B \subseteq Path
  BY DEF IsTree
<1>2. PICK p \in Path : p = Child(b, j) /\ p # << >> /\ Parent(p) = b /\ p \in B
  BY ChildIsPath
<1>3. A \subseteq Path
  BY <1>1, UpOfDown
<1>4. ASSUME NEW q \in Path PROVE Up(q, b, j) \in B <=> q \in A
  <2>1. ASSUME q \in A PROVE Up(q, b, j) \in B
    <3>1. PICK r \in B : ~IsPrefix(Child(b, j), r) /\ q = Down(r, b, j)
      BY <2>1
    <3>2. Up(q, b, j) = r
      BY <1>1, <3>1, UpOfDown
    <3>3. QED
      BY <3>2
  <2>2. ASSUME Up(q, b, j) \in B PROVE q \in A
    <3>1. ~IsPrefix(Child(b, j), Up(q, b, j))
      BY UpStays
    <3>2. Down(Up(q, b, j), b, j) = q
      BY DownOfUp
    <3>3. QED
      BY <2>2, <3>1, <3>2
  <2>3. QED
    BY <2>1, <2>2
<1>5. Shift(A, B, b, j)
  BY <1>1, <1>3, <1>4 DEF Shift
<1>6. b \in B
  BY <1>2 DEF IsTree
<1>7. Up(b, b, j) = b
  BY PathIs, UpStays
<1>8. b \in A
  BY <1>4, <1>6, <1>7
<1>9. << >> \in A
  <2>1. << >> \in Path /\ << >> \in B
    BY <1>1 DEF IsTree
  <2>2. Up(<< >>, b, j) = << >>
    BY <2>1, UpIsPath
  <2>3. QED
    BY <1>4, <2>1, <2>2
<1>10. IsFiniteSet(A)
  <2> DEFINE f == [q \in A |-> Up(q, b, j)]
  <2>1. f \in [A -> B]
    BY <1>3, <1>4
  <2>2. ASSUME NEW q \in A, NEW r \in A, f[q] = f[r] PROVE q = r
    BY <1>3, <2>2, UpIsInjective
  <2> HIDE DEF f
  <2>3. f \in Injection(A, B)
    BY <2>1, <2>2 DEF Injection, IsInjective
  <2>4. QED
    BY <2>3, FS_Injection DEF IsTree
<1>11. ASSUME NEW q \in A, q # << >> PROVE Parent(q) \in A
  <2>1. q \in Path /\ Up(q, b, j) \in B
    BY <1>3, <1>4
  <2>2. Up(q, b, j) # << >>
    BY <1>11, <2>1, UpIsPath
  <2>3. Parent(Up(q, b, j)) \in B
    BY <2>1, <2>2 DEF IsTree
  <2>4. QED
    BY <1>5, <1>11, <2>1, <2>3, ParentUp
<1>12. PICK n \in Nat : j <= n /\ Kids(A, b, n) /\ Kids(B, b, n + 1)
  <2>1. PICK k \in Nat : Kids(B, b, k)
    BY <1>6 DEF IsTree
  <2>2. j < k
    BY <1>2, <2>1 DEF Kids
  <2>3. PICK n \in Nat : k = n + 1
    <3>1. k - 1 \in Nat /\ k = (k - 1) + 1
      BY <2>2
    <3>2. QED
      BY <3>1
  <2>4. j <= n
    BY <2>2, <2>3
  <2>5. Kids(A, b, n) <=> Kids(B, b, n + 1)
    BY <1>2, <1>5, <2>4, KidsOfUp
  <2>6. QED
    BY <2>1, <2>3, <2>4, <2>5
<1>13. ASSUME NEW q \in A PROVE \E k \in Nat : Kids(A, q, k)
  <2>1. CASE q = b
    BY <1>12, <2>1
  <2>2. CASE q # b
    <3>1. q \in Path /\ Up(q, b, j) \in B
      BY <1>3, <1>4
    <3>2. PICK k \in Nat : Kids(B, Up(q, b, j), k)
      BY <3>1 DEF IsTree
    <3>3. QED
      BY <1>5, <2>2, <3>1, <3>2, KidsOfUp
  <2>3. QED
    BY <2>1, <2>2
<1>14. IsTree(A)
  BY <1>3, <1>9, <1>10, <1>11, <1>13 DEF IsTree
<1>15. QED
  BY <1>5, <1>6, <1>8, <1>12, <1>14

-----------------------------------------------------------------------------
(* The order of the items of a tree *)

\* What an item is below is in the tree.
LEMMA PartsAreIn ==
    ASSUME NEW D, IsTree(D), NEW q \in D, NEW n \in 0 .. Len(q)
    PROVE  Part(q, n) \in D
<1>1. q \in Path /\ Len(q) \in Nat
  BY PathIs DEF IsTree
<1>2. PICK l \in Nat : l = Len(q)
  BY <1>1
<1> DEFINE N == {i \in Nat : i <= l => Part(q, l - i) \in D}
<1>3. 0 \in N
  <2>1. Part(q, l) = q
    BY <1>1, <1>2, WholePart
  <2>2. l - 0 = l
    OBVIOUS
  <2>3. QED
    BY <2>1, <2>2
<1>4. ASSUME NEW i \in Nat, i \in N PROVE i + 1 \in N
  <2>1. SUFFICES ASSUME i + 1 <= l PROVE Part(q, l - (i + 1)) \in D
    OBVIOUS
  <2>2. PICK k \in 1 .. Len(q) : k = l - i /\ k - 1 = l - (i + 1)
    BY <1>2, <2>1
  <2>3. Part(q, k) \in D
    BY <1>4, <2>1, <2>2
  <2>4. Part(q, k) # << >> /\ Parent(Part(q, k)) = Part(q, k - 1)
    BY <1>1, PartOf
  <2>5. Part(q, k - 1) \in D
    BY <2>3, <2>4 DEF IsTree
  <2>6. QED
    BY <2>2, <2>5
<1> HIDE DEF N
<1>5. Nat \subseteq N
  BY <1>3, <1>4, Induction
<1>6. PICK i \in Nat : i = l - n /\ i <= l /\ l - i = n
  <2>1. l - n \in Nat /\ l - n <= l /\ l - (l - n) = n
    BY <1>2
  <2>2. QED
    BY <2>1
<1>7. QED
  BY <1>5, <1>6 DEF N

\* Nothing is between an item and where its first child would be.
LEMMA FirstChild ==
    ASSUME NEW p \in Path, NEW q \in Path
    PROVE  Less(q, Child(p, 0)) <=> q = p \/ Less(q, p)
<1>1. PICK c \in Path : c = Child(p, 0)
  BY ChildIsPath
<1>2. Less(p, c)
  BY <1>1, ChildIsBelow
<1>3. ASSUME q = p \/ Less(q, p) PROVE Less(q, c)
  BY <1>2, <1>3, LessIsTransitive
<1>4. ASSUME Less(q, c) PROVE q = p \/ Less(q, p)
  <2>1. PICK m \in Nat, n \in Nat : m = Len(p) /\ n = Len(q)
    BY PathIs
  <2>2. IsChild(c, p, 0)
    BY <1>1, ChildIs
  <2>3. Len(c) = m + 1 /\ c[m + 1] = 0 /\ \A i \in 1 .. m : c[i] = p[i]
    BY <2>1, <2>2 DEF IsChild
  <2>4. CASE n < m + 1 /\ Same(q, c, n)
    <3>1. Same(q, p, n)
      BY <2>3, <2>4 DEF Same
    <3>2. n < m => Less(q, p)
      BY <2>1, <3>1, LessIs
    <3>3. n = m => q = p
      BY <2>1, <3>1, SamePath DEF Same
    <3>4. QED
      BY <2>4, <3>2, <3>3
  <2>5. ASSUME NEW i \in 1 .. n, i <= m + 1, q[i] < c[i], Same(q, c, i - 1)
        PROVE  Less(q, p)
    <3>1. i \in 1 .. m
      <4>1. q[i] \in Nat
        BY <2>1, PathIs
      <4>2. i # m + 1
        BY <2>3, <2>5, <4>1
      <4>3. QED
        BY <2>5, <4>2
    <3>2. q[i] < p[i] /\ i <= m
      BY <2>3, <2>5, <3>1
    <3>3. Same(q, p, i - 1)
      BY <2>3, <2>5, <3>1 DEF Same
    <3>4. QED
      BY <2>1, <3>2, <3>3, LessIs
  <2>6. QED
    BY <1>4, <2>1, <2>3, <2>4, <2>5, LessIs
<1>5. QED
  BY <1>1, <1>3, <1>4

\* What is before the next sibling is before the item or goes with it.
LEMMA NextSibling ==
    ASSUME NEW b \in Path, NEW j \in Nat, NEW q \in Path
    PROVE  Less(q, Child(b, j + 1)) <=> Less(q, Child(b, j)) \/ IsPrefix(Child(b, j), q)
<1>1. PICK p \in Path : p = Child(b, j)
  BY ChildIsPath
<1>2. PICK s \in Path : s = Child(b, j + 1)
  <2>1. PICK k \in Nat : k = j + 1
    OBVIOUS
  <2>2. Child(b, k) \in Path
    BY ChildIsPath
  <2>3. QED
    BY <2>1, <2>2
<1>3. IsPrefix(p, q) <=> (q = p \/ Less(p, q)) /\ Less(q, s)
  BY <1>1, <1>2, FamilyIs
<1>4. Less(p, s)
  BY <1>1, <1>2, OrderIsPath
<1>5. Less(q, p) => Less(q, s)
  BY <1>4, LessIsTransitive
<1>6. Less(q, p) \/ q = p \/ Less(p, q)
  BY LessIsTotal
<1>7. QED
  BY <1>1, <1>2, <1>3, <1>5, <1>6

\* What is below an item comes before where its next child would be.
LEMMA BelowIsBefore ==
    ASSUME NEW D, IsTree(D), NEW c \in D, NEW k \in Nat, Child(c, k) \notin D,
           NEW q \in D, IsStrictPrefix(c, q)
    PROVE  Less(q, Child(c, k))
<1>1. c \in Path /\ q \in Path
  BY DEF IsTree
<1>2. PICK m \in Nat, n \in Nat : m = Len(c) /\ n = Len(q)
  BY <1>1, PathIs
<1>3. m < n /\ Same(c, q, m)
  BY <1>1, <1>2, PrefixIs
<1>4. m + 1 \in 1 .. Len(q) /\ m + 1 \in 0 .. Len(q) /\ m \in 0 .. Len(q)
      /\ (m + 1) - 1 = m
  BY <1>2, <1>3
<1>5. PICK i \in 1 .. Len(q) : i = m + 1 /\ i - 1 = m
  BY <1>4
<1>6. Part(q, i) = Child(Part(q, i - 1), q[i]) /\ q[i] \in Nat
  BY <1>1, PartOf
<1>7. Part(q, m) = c
  <2>1. IsPrefix(c, q)
    BY DEF IsStrictPrefix
  <2>2. QED
    BY <1>1, <1>2, <2>1, PrefixIsPart
<1>8. Part(q, i) \in D
  BY <1>4, <1>5, PartsAreIn
<1>9. Child(c, q[i]) \in D
  BY <1>5, <1>6, <1>7, <1>8
<1>10. PICK l \in Nat : Kids(D, c, l)
  BY DEF IsTree
<1>11. q[i] < k
  BY <1>6, <1>9, <1>10 DEF Kids
<1>12. PICK d \in Path : d = Child(c, k) /\ IsChild(d, c, k)
  <2>1. IsChild(Child(c, k), c, k)
    BY <1>1, ChildIs
  <2>2. QED
    BY <2>1 DEF IsChild
<1>13. Len(d) = m + 1 /\ d[m + 1] = k /\ \A a \in 1 .. m : d[a] = c[a]
  BY <1>2, <1>12 DEF IsChild
<1>14. Same(q, d, i - 1)
  BY <1>3, <1>5, <1>13 DEF Same
<1>15. i <= Len(d) /\ q[i] < d[i]
  BY <1>5, <1>11, <1>13
<1>16. Less(q, d)
  BY <1>1, <1>14, <1>15, LessIs
<1>17. QED
  BY <1>12, <1>16

\* Where an item's children end, what is before is the same as before the
\* item's next sibling; below the root it is everything.
LEMMA GapClimbs ==
    ASSUME NEW D, IsTree(D), NEW V, V = D \ {<< >>},
           NEW c \in D, NEW k \in Nat, Child(c, k) \notin D
    PROVE  /\ c = << >> => Before(V, Child(c, k)) = V
           /\ \A a \in Path, l \in Nat : c = Child(a, l) =>
                  Before(V, Child(c, k)) = Before(V, Child(a, l + 1))
<1>1. c \in Path /\ D \subseteq Path
  BY DEF IsTree
<1>2. PICK d \in Path : d = Child(c, k)
  BY <1>1, ChildIsPath
<1>3. ASSUME c = << >>, NEW q \in V PROVE Less(q, d)
  <2>1. q \in Path /\ q # << >> /\ q \in D
    BY <1>1
  <2>2. Len(q) \in Nat /\ Len(q) # 0
    BY <2>1, PathIs
  <2>3. Len(c) = 0
    BY <1>1, <1>3, PathIs
  <2>4. Same(c, q, 0)
    BY DEF Same
  <2>5. IsStrictPrefix(c, q)
    BY <1>1, <2>1, <2>2, <2>3, <2>4, PrefixIs
  <2>6. QED
    BY <1>2, <2>1, <2>5, BelowIsBefore
<1>4. ASSUME NEW a \in Path, NEW l \in Nat, c = Child(a, l)
      PROVE  Before(V, d) = Before(V, Child(a, l + 1))
  <2>1. PICK s \in Path : s = Child(a, l + 1)
    <3>1. PICK i \in Nat : i = l + 1
      OBVIOUS
    <3>2. Child(a, i) \in Path
      BY ChildIsPath
    <3>3. QED
      BY <3>1, <3>2
  <2>2. Less(c, d) /\ IsStrictPrefix(c, d) /\ IsPrefix(c, d)
    <3>1. Less(c, d) /\ IsStrictPrefix(c, d)
      BY <1>1, <1>2, ChildIsBelow
    <3>2. QED
      BY <3>1 DEF IsStrictPrefix
  <2>3. Less(d, s)
    BY <1>4, <2>1, <2>2, NextSibling
  <2>4. ASSUME NEW q \in D, Less(q, s) PROVE Less(q, d)
    <3>1. q \in Path
      BY <1>1
    <3>2. Less(q, c) \/ IsPrefix(c, q)
      BY <1>4, <2>1, <2>4, <3>1, NextSibling
    <3>3. CASE Less(q, c)
      BY <1>1, <2>2, <3>1, <3>3, LessIsTransitive
    <3>4. CASE q = c
      BY <2>2, <3>4
    <3>5. CASE IsStrictPrefix(c, q)
      BY <1>2, <3>5, BelowIsBefore
    <3>6. QED
      BY <3>2, <3>3, <3>4, <3>5 DEF IsStrictPrefix
  <2>5. ASSUME NEW q \in D, Less(q, d) PROVE Less(q, s)
    BY <1>1, <2>1, <2>3, <2>5, LessIsTransitive
  <2>6. Before(V, d) = Before(V, s)
    BY <2>4, <2>5 DEF Before
  <2>7. QED
    BY <2>1, <2>6
<1>5. QED
  BY <1>2, <1>3, <1>4 DEF Before

\* The siblings to go up to from below t.
After(t, n) == Child(Part(t, n - 1), t[n] + 1)

\* They are what operator++ looks up.
LEMMA AfterIsPath ==
    ASSUME NEW t \in Path, NEW n \in 1 .. Len(t)
    PROVE  /\ After(t, n) \in Path /\ After(t, n) # << >>
           /\ Sibling(SubSeq(t, 1, n), 1) = After(t, n)
<1>1. /\ Part(t, n) = Child(Part(t, n - 1), t[n])
      /\ Part(t, n) \in Path /\ Part(t, n - 1) \in Path /\ t[n] \in Nat
      /\ Part(t, n) # << >> /\ Parent(Part(t, n)) = Part(t, n - 1)
      /\ Last(Part(t, n)) = t[n]
  BY PartOf
<1>2. PICK p \in Path : p = Part(t, n)
  BY <1>1
<1>3. PICK k \in Nat : k = t[n] + 1
  BY <1>1
<1>4. Sibling(p, 1) = Child(Parent(p), Last(p) + 1)
  BY <1>1, <1>2, <1>3, SiblingIs
<1>5. After(t, n) = Child(Part(t, n - 1), k)
  BY <1>3 DEF After
<1>6. After(t, n) \in Path /\ After(t, n) # << >>
  BY <1>1, <1>5, ChildIsPath
<1>7. Sibling(p, 1) = After(t, n)
  BY <1>1, <1>2, <1>4 DEF After
<1>8. QED
  BY <1>2, <1>6, <1>7 DEF Part

\* What comes before the gap comes before the first of them that is there.
ClimbsTo(V, t, c, I) ==
    /\ I = {} => Before(V, c) = V
    /\ \A m \in I : (\A n \in I : n <= m) =>
           Before(V, After(t, m)) = Before(V, c)

\* So what comes before the end of the children of t comes before the nearest
\* of the siblings to go up to, or, if there is none, is everything.
LEMMA Climbs ==
    ASSUME NEW D, IsTree(D), NEW V, V = D \ {<< >>},
           NEW t \in D, NEW k \in Nat, Child(t, k) \notin D,
           NEW I, I = {n \in 1 .. Len(t) : After(t, n) \in V}
    PROVE  ClimbsTo(V, t, Child(t, k), I)
<1>1. t \in Path /\ Len(t) \in Nat
  BY PathIs DEF IsTree
<1>2. PICK l \in Nat : l = Len(t)
  BY <1>1
<1> DEFINE G(i) == IF i = l THEN Child(t, k) ELSE After(t, i + 1)
           N == {i \in Nat : i <= l /\ (\A n \in I : n <= l - i) =>
                     Before(V, G(l - i)) = Before(V, Child(t, k))}
<1>3. 0 \in N
  BY <1>2
<1>4. ASSUME NEW i \in 0 .. l, \A n \in I : n <= i
      PROVE  /\ Part(t, i) \in D
             /\ \E a \in Nat : G(i) = Child(Part(t, i), a) /\ G(i) \notin D
  <2>1. Part(t, i) \in D
    BY <1>2, PartsAreIn
  <2>2. CASE i = l
    <3>1. Part(t, l) = t
      BY <1>1, <1>2, WholePart
    <3>2. QED
      BY <2>1, <2>2, <3>1
  <2>3. CASE i # l
    <3>1. PICK n \in 1 .. Len(t) : n = i + 1 /\ n - 1 = i
      BY <1>2, <2>3
    <3>2. G(i) = After(t, n)
      BY <2>3, <3>1
    <3>3. n \notin I
      BY <1>4, <3>1
    <3>4. After(t, n) \notin V /\ After(t, n) # << >>
      BY <1>1, <3>3, AfterIsPath
    <3>5. t[n] \in Nat
      BY <1>1, PathIs
    <3>6. PICK a \in Nat : a = t[n] + 1
      BY <3>5
    <3>7. After(t, n) = Child(Part(t, i), a)
      BY <3>1, <3>6 DEF After
    <3>8. QED
      BY <2>1, <3>2, <3>4, <3>7
  <2>4. QED
    BY <2>2, <2>3
<1>5. ASSUME NEW i \in 1 .. l, \A n \in I : n <= i
      PROVE  Before(V, G(i)) = Before(V, After(t, i))
  <2>1. PICK a \in Nat : G(i) = Child(Part(t, i), a) /\ G(i) \notin D
                         /\ Part(t, i) \in D
    BY <1>4, <1>5
  <2>2. PICK n \in 1 .. Len(t) : n = i
    BY <1>2
  <2>3. PICK c \in D : c = Part(t, i)
    BY <2>1
  <2>4. PICK b \in Path, e \in Nat : b = Part(t, n - 1) /\ e = t[n] /\ c = Child(b, e)
    BY <1>1, <2>2, <2>3, PartOf
  <2>5. Before(V, Child(c, a)) = Before(V, Child(b, e + 1))
    BY <2>1, <2>3, <2>4, GapClimbs
  <2>6. QED
    BY <2>1, <2>2, <2>3, <2>4, <2>5 DEF After
<1>6. ASSUME NEW i \in Nat, i \in N PROVE i + 1 \in N
  <2>1. SUFFICES ASSUME i + 1 <= l, \A n \in I : n <= l - (i + 1)
                 PROVE  Before(V, G(l - (i + 1))) = Before(V, Child(t, k))
    OBVIOUS
  <2>2. PICK m \in 1 .. l : m = l - i /\ m - 1 = l - (i + 1)
    BY <2>1
  <2>3. \A n \in I : n <= m
    BY <1>2, <2>1, <2>2
  <2>4. Before(V, G(m)) = Before(V, Child(t, k))
    BY <1>6, <2>1, <2>2, <2>3
  <2>5. Before(V, G(m)) = Before(V, After(t, m))
    BY <2>3, <1>5
  <2>6. G(m - 1) = After(t, m)
    OBVIOUS
  <2>7. QED
    BY <2>2, <2>4, <2>5, <2>6
<1> HIDE DEF N
<1>7. Nat \subseteq N
  BY <1>3, <1>6, Induction
<1>8. ASSUME NEW i \in 0 .. l, \A n \in I : n <= i
      PROVE  Before(V, G(i)) = Before(V, Child(t, k))
  <2>1. PICK a \in Nat : a = l - i /\ l - a = i /\ a <= l
    <3>1. l - i \in Nat /\ l - (l - i) = i /\ l - i <= l
      OBVIOUS
    <3>2. QED
      BY <3>1
  <2>2. a \in N
    BY <1>7
  <2>3. QED
    BY <1>8, <2>1, <2>2 DEF N
<1>9. ASSUME I = {} PROVE Before(V, Child(t, k)) = V
  <2>1. PICK z \in 0 .. l : z = 0
    OBVIOUS
  <2>2. Before(V, G(z)) = Before(V, Child(t, k))
    BY <1>8, <1>9
  <2>3. PICK a \in Nat : G(z) = Child(Part(t, z), a) /\ G(z) \notin D
                         /\ Part(t, z) \in D
    BY <1>4, <1>9
  <2>4. Part(t, z) = << >>
    BY <1>1, <2>1, WholePart
  <2>5. Before(V, G(z)) = V
    <3>1. PICK c \in D : c = Part(t, z) /\ c = << >>
      BY <2>3, <2>4
    <3>a. Child(c, a) \notin D
      BY <2>3, <3>1
    <3>2. Before(V, Child(c, a)) = V
      BY <3>1, <3>a, GapClimbs
    <3>3. QED
      BY <2>3, <3>1, <3>2
  <2>6. QED
    BY <2>2, <2>5
<1>10. ASSUME NEW m \in I, \A n \in I : n <= m
       PROVE  Before(V, After(t, m)) = Before(V, Child(t, k))
  <2>1. m \in 1 .. l /\ m \in 0 .. l
    BY <1>2
  <2>2. QED
    BY <1>5, <1>8, <1>10, <2>1
<1>11. QED
  BY <1>9, <1>10 DEF ClimbsTo

-----------------------------------------------------------------------------
(* The iterator goes to the next item and the one before *)

\* The root's path, end(), is before all others.
LEMMA NothingBeforeEnd ==
    ASSUME NEW q \in Path
    PROVE  ~Less(q, << >>)
<1>1. << >> \in Path /\ Len(<< >>) = 0 /\ Len(q) \in Nat
  BY PathIs DEF Path
<1>2. QED
  BY <1>1, LessIs

\* Max() of a set of numbers is the greatest.
LEMMA GreatestOf ==
    ASSUME NEW n \in Nat, NEW I, I \subseteq 1 .. n, I # {}
    PROVE  Max(I) \in I /\ \A i \in I : i <= Max(I)
<1> DEFINE J == {n - i : i \in I}
<1>1. J \in SUBSET Nat /\ J # {}
  OBVIOUS
<1>2. PICK j \in J : \A k \in J : j <= k
  BY <1>1, LeastOf
<1>3. PICK m \in I : j = n - m
  OBVIOUS
<1>4. ASSUME NEW i \in I PROVE m >= i
  <2>1. n - i \in J /\ n - m <= n - i
    BY <1>2, <1>3
  <2>2. i \in Int /\ m \in Int
    OBVIOUS
  <2>3. QED
    BY <2>1, <2>2
<1>5. Max(I) \in I /\ \A i \in I : Max(I) >= i
  BY <1>4 DEF Max
<1>6. \A i \in I : i \in Int
  OBVIOUS
<1>7. QED
  BY <1>5, <1>6

\* q is the item before r.
OneAfter(S, q, r) == q \in S /\ r \in S /\ Before(S, r) = Before(S, q) \cup {q}

\* The items in view, and how many there are below each.
LEMMA VisibleAre ==
    ASSUME IsTree(DOMAIN size)
    PROVE  /\ visible = DOMAIN size \ {<< >>} /\ visible \subseteq Path
           /\ IsFiniteSet(visible) /\ << >> \notin visible
           /\ \A p \in DOMAIN size :
                  /\ numChildren(p) \in Nat
                  /\ Kids(DOMAIN size, p, numChildren(p))
                  /\ Kids(visible, p, numChildren(p))
<1> DEFINE D == DOMAIN size
<1>1. visible = D \ {<< >>} /\ visible \subseteq Path /\ << >> \notin visible
  BY DEF visible, IsTree
<1>2. IsFiniteSet(visible)
  <2>1. visible \in SUBSET D /\ IsFiniteSet(D)
    BY <1>1 DEF IsTree
  <2>2. QED
    BY <2>1, FS_Subset
<1>3. ASSUME NEW p \in D
      PROVE  numChildren(p) \in Nat /\ Kids(D, p, numChildren(p))
             /\ Kids(visible, p, numChildren(p))
  <2>1. PICK n \in Nat : Kids(D, p, n)
    BY DEF IsTree
  <2>2. p \in Path
    BY DEF IsTree
  <2>3. ASSUME NEW k \in Nat PROVE Child(p, k) \in visible <=> Child(p, k) \in D
    BY <1>1, <2>2, ChildIsPath
  <2>4. Kids(visible, p, n)
    BY <2>1, <2>3 DEF Kids
  <2>5. Cardinality(ChildrenIn(visible, p)) = n
    BY <1>1, <2>2, <2>4, KidsAreCounted
  <2>6. QED
    BY <2>1, <2>4, <2>5 DEF numChildren
<1>4. QED
  BY <1>1, <1>2, <1>3

\* The item itself is not before itself.
LEMMA RankGrows ==
    ASSUME NEW S, S \subseteq Path, IsFiniteSet(S), NEW q \in S
    PROVE  /\ IsFiniteSet(Before(S, q)) /\ Cardinality(Before(S, q)) \in Nat
           /\ Cardinality(Before(S, q) \cup {q}) = Cardinality(Before(S, q)) + 1
<1>1. Before(S, q) \in SUBSET S
  BY DEF Before
<1>2. IsFiniteSet(Before(S, q))
  BY <1>1, FS_Subset
<1>3. q \notin Before(S, q)
  BY LessIsStrict DEF Before
<1>4. QED
  BY <1>2, <1>3, FS_AddElement, FS_CardinalityType

\* begin() is the first item.
LEMMA BeginIs ==
    ASSUME IsTree(DOMAIN size)
    PROVE  \/ begin = end /\ visible = {}
           \/ begin \in visible /\ Before(visible, begin) = {}
<1>1. << >> \in DOMAIN size /\ << >> \in Path
  BY DEF IsTree
<1>2. PICK c \in Path : c = Child(<< >>, 0)
  BY <1>1, ChildIsPath
<1>3. c = <<0>>
  BY <1>2 DEF Child
<1>4. numChildren(<< >>) \in Nat /\ Kids(visible, << >>, numChildren(<< >>))
      /\ Kids(DOMAIN size, << >>, numChildren(<< >>))
  BY <1>1, VisibleAre
<1>5. c \in visible <=> numChildren(<< >>) # 0
  BY <1>2, <1>4 DEF Kids
<1>6. ASSUME NEW q \in visible, Less(q, c) PROVE FALSE
  <2>1. q \in Path /\ q # << >>
    BY VisibleAre
  <2>2. q = << >> \/ Less(q, << >>)
    BY <1>1, <1>2, <1>6, <2>1, FirstChild
  <2>3. QED
    BY <2>1, <2>2, NothingBeforeEnd
<1>7. ASSUME numChildren(<< >>) = 0 PROVE visible = {}
  <2>1. Child(<< >>, 0) \notin DOMAIN size
    BY <1>4, <1>7 DEF Kids
  <2>2. Before(visible, c) = visible
    BY <1>1, <1>2, <2>1, VisibleAre, GapClimbs
  <2>3. QED
    BY <1>6, <2>2 DEF Before
<1>8. QED
  BY <1>3, <1>5, <1>6, <1>7 DEF begin, Before

\* operator++ gives the next item, or end() after the last.
LEMMA NextIs ==
    ASSUME IsTree(DOMAIN size), NEW q \in visible
    PROVE  \/ OneAfter(visible, q, NextOf(q))
           \/ NextOf(q) = end /\ Before(visible, q) \cup {q} = visible
<1>1. /\ visible = DOMAIN size \ {<< >>} /\ visible \subseteq Path
      /\ q \in DOMAIN size /\ q \in Path /\ q # << >>
  BY VisibleAre
<1>2. PICK n \in Nat : /\ n = numChildren(q)
                       /\ Kids(DOMAIN size, q, n) /\ Kids(visible, q, n)
  BY <1>1, VisibleAre
<1>3. PICK c \in Path : c = Child(q, 0)
  BY <1>1, ChildIsPath
<1>4. Before(visible, c) = Before(visible, q) \cup {q}
  BY <1>1, <1>3, FirstChild DEF Before
<1>5. CASE n # 0
  <2>1. NextOf(q) = c
    BY <1>1, <1>2, <1>3, <1>5 DEF NextOf, end, Child
  <2>2. c \in visible
    BY <1>2, <1>3, <1>5 DEF Kids
  <2>3. QED
    BY <1>4, <2>1, <2>2 DEF OneAfter
<1>6. CASE n = 0
  <2>1. Child(q, 0) \notin DOMAIN size
    BY <1>2, <1>6 DEF Kids
  <2>2. PICK I : I = {m \in 1 .. Len(q) : After(q, m) \in visible}
    OBVIOUS
  <2>3. DOMAIN q = 1 .. Len(q) /\ Len(q) \in Nat
    BY <1>1, PathIs
  <2>4. {m \in DOMAIN q : Sibling(SubSeq(q, 1, m), 1) \in visible} = I
    BY <1>1, <2>2, <2>3, AfterIsPath
  <2>5. NextOf(q) = IF I = {} THEN end ELSE Sibling(SubSeq(q, 1, Max(I)), 1)
    BY <1>1, <1>2, <1>6, <2>4 DEF NextOf, end
  <2>a. ClimbsTo(visible, q, Child(q, 0), I)
    BY <1>1, <2>1, <2>2, Climbs
  <2>6. CASE I = {}
    <3>1. Before(visible, Child(q, 0)) = visible
      BY <2>6, <2>a DEF ClimbsTo
    <3>2. QED
      BY <1>3, <1>4, <2>5, <2>6, <3>1
  <2>7. CASE I # {}
    <3>1. Max(I) \in I /\ \A i \in I : i <= Max(I)
      BY <2>2, <2>3, <2>7, GreatestOf
    <3>2. PICK m \in I : m = Max(I) /\ \A i \in I : i <= m
      BY <3>1
    <3>3. Before(visible, After(q, m)) = Before(visible, Child(q, 0))
      BY <3>2, <2>a DEF ClimbsTo
    <3>4. After(q, m) \in visible /\ NextOf(q) = After(q, m)
      BY <1>1, <2>2, <2>5, <2>7, <3>2, AfterIsPath
    <3>5. QED
      BY <1>3, <1>4, <3>3, <3>4 DEF OneAfter
  <2>8. QED
    BY <2>6, <2>7
<1>7. QED
  BY <1>5, <1>6

\* The function that PrevOf defines: the last item at or below one.
IsLast(f) == f = [q \in visible |->
                      IF numChildren(q) = 0 THEN q
                      ELSE f[Append(q, numChildren(q) - 1)]]

\* The last child has less below it.
LEMMA LastChild ==
    ASSUME IsTree(DOMAIN size), NEW q \in visible, numChildren(q) # 0
    PROVE  /\ Append(q, numChildren(q) - 1) \in visible
           /\ Append(q, numChildren(q) - 1) = Child(q, numChildren(q) - 1)
           /\ numChildren(q) \in Nat /\ numChildren(q) - 1 \in Nat
           /\ Cardinality(Below(visible, Append(q, numChildren(q) - 1)))
                  < Cardinality(Below(visible, q))
           /\ Cardinality(Below(visible, q)) \in Nat
           /\ Cardinality(Below(visible, Append(q, numChildren(q) - 1))) \in Nat
<1>1. q \in DOMAIN size /\ q \in Path /\ visible \subseteq Path /\ IsFiniteSet(visible)
  BY VisibleAre
<1>2. numChildren(q) \in Nat /\ Kids(visible, q, numChildren(q))
  BY <1>1, VisibleAre
<1>3. PICK k \in Nat : k = numChildren(q) - 1 /\ k < numChildren(q)
  BY <1>2
<1>4. PICK c \in Path : c = Child(q, k)
  BY <1>1, ChildIsPath
<1>5. c \in visible
  BY <1>2, <1>3, <1>4 DEF Kids
<1>6. c \in Below(visible, q)
  BY <1>1, <1>4, <1>5, ChildIsBelow DEF Below
<1>7. Below(visible, c) \subseteq Below(visible, q)
  <2>1. ASSUME NEW r \in visible, IsStrictPrefix(c, r) PROVE IsStrictPrefix(q, r)
    <3>1. r \in Path
      BY <1>1
    <3>2. Len(c) = Len(q) + 1 /\ Len(q) \in Nat /\ Len(r) \in Nat
      BY <1>1, <1>4, <3>1, ChildIsPath, PathIs
    <3>3. Len(c) < Len(r) /\ Same(c, r, Len(c))
      BY <2>1, <3>1, PrefixIs
    <3>4. Same(q, c, Len(q))
      <4>1. IsStrictPrefix(q, c)
        BY <1>1, <1>4, ChildIsBelow
      <4>2. QED
        BY <1>1, <4>1, PrefixIs
    <3>5. Same(q, r, Len(q))
      BY <3>2, <3>3, <3>4 DEF Same
    <3>6. QED
      BY <1>1, <3>1, <3>2, <3>3, <3>5, PrefixIs
  <2>2. QED
    BY <2>1 DEF Below
<1>8. c \notin Below(visible, c)
  BY DEF Below, IsStrictPrefix
<1>9. IsFiniteSet(Below(visible, q))
  <2>1. Below(visible, q) \in SUBSET visible
    BY DEF Below
  <2>2. QED
    BY <1>1, <2>1, FS_Subset
<1>10. PICK B, C : B = Below(visible, q) /\ C = Below(visible, c)
  OBVIOUS
<1>11. C \in SUBSET B /\ C # B /\ IsFiniteSet(B)
  BY <1>6, <1>7, <1>8, <1>9, <1>10
<1>12. IsFiniteSet(C) /\ Cardinality(C) <= Cardinality(B)
       /\ Cardinality(C) # Cardinality(B)
  BY <1>11, FS_Subset
<1>13. Cardinality(C) \in Nat /\ Cardinality(B) \in Nat
  BY <1>11, <1>12, FS_CardinalityType
<1>14. Cardinality(C) < Cardinality(B)
  BY <1>12, <1>13
<1>15. QED
  BY <1>2, <1>3, <1>4, <1>5, <1>10, <1>13, <1>14 DEF Child

\* The function exists, since it goes to an item with less below.
LEMMA LastExists ==
    ASSUME IsTree(DOMAIN size)
    PROVE  \E f : IsLast(f)
<1> DEFINE V == visible
           none == {q \in V : numChildren(q) = 0}
           m == [q \in V |-> Cardinality(Below(V, q))]
           base == [q \in V |-> q]
           nx == [q \in V |-> IF numChildren(q) = 0 THEN q
                              ELSE Append(q, numChildren(q) - 1)]
<1>1. m \in [V -> Nat]
  <2>1. ASSUME NEW q \in V PROVE Cardinality(Below(V, q)) \in Nat
    <3>1. Below(V, q) \in SUBSET V /\ IsFiniteSet(V)
      BY VisibleAre DEF Below
    <3>2. QED
      BY <3>1, FS_Subset, FS_CardinalityType
  <2>2. QED
    BY <2>1
<1>2. base \in [V -> V] /\ nx \in [V -> V]
  BY LastChild
<1>3. \A q \in V : q \notin none => m[nx[q]] < m[q]
  BY LastChild
<1> HIDE DEF V, none, m, base, nx
<1>a. Recurs(V, V, m, none, base, nx, base)
  BY <1>1, <1>2, <1>3 DEF Recurs
<1>b. \E f : Recursive(f, V, V, none, base, nx, base)
  BY <1>a, Recursion
<1>4. PICK f \in [V -> V] :
          \A q \in V : f[q] = IF q \in none THEN base[q] ELSE base[f[nx[q]]]
  BY <1>b DEF Recursive
<1>5. ASSUME NEW q \in V
      PROVE  f[q] = IF numChildren(q) = 0 THEN q
                    ELSE f[Append(q, numChildren(q) - 1)]
  <2>1. nx[q] \in V
    BY <1>2
  <2> USE DEF none, base
  <2>2. f[nx[q]] \in V
    BY <2>1
  <2>3. base[f[nx[q]]] = f[nx[q]]
    BY <2>2
  <2>4. f[q] = IF q \in none THEN base[q] ELSE base[f[nx[q]]]
    BY <1>4
  <2>5. f[q] = IF numChildren(q) = 0 THEN q ELSE f[nx[q]]
    BY <2>3, <2>4
  <2>6. QED
    BY <2>5 DEF nx
<1>6. f = [q \in V |-> IF numChildren(q) = 0 THEN q
                       ELSE f[Append(q, numChildren(q) - 1)]]
  BY <1>5
<1>7. QED
  BY <1>6 DEF IsLast, V

\* What it gives is the last before the next sibling.
LEMMA LastIs ==
    ASSUME IsTree(DOMAIN size), NEW f, IsLast(f),
           NEW a \in Path, NEW l \in Nat, Child(a, l) \in visible
    PROVE  /\ f[Child(a, l)] \in visible
           /\ Before(visible, f[Child(a, l)]) \cup {f[Child(a, l)]} =
                  Before(visible, Child(a, l + 1))
<1> DEFINE Good(q, b, i) == /\ f[q] \in visible
                            /\ Before(visible, f[q]) \cup {f[q]} =
                                   Before(visible, Child(b, i + 1))
           M(q) == Cardinality(Below(visible, q))
           Bad == {q \in visible : \E b \in Path, i \in Nat :
                                       q = Child(b, i) /\ ~Good(q, b, i)}
<1>1. SUFFICES ASSUME Bad # {} PROVE FALSE
  OBVIOUS
<1>2. \A q \in visible : M(q) \in Nat
  <2>1. ASSUME NEW q \in visible PROVE M(q) \in Nat
    <3>1. Below(visible, q) \in SUBSET visible /\ IsFiniteSet(visible)
      BY VisibleAre DEF Below
    <3>2. QED
      BY <3>1, FS_Subset, FS_CardinalityType
  <2>2. QED
    BY <2>1
<1>3. PICK q \in Bad : \A r \in Bad : M(q) <= M(r)
  <2> DEFINE I == {M(q) : q \in Bad}
  <2>1. I \in SUBSET Nat /\ I # {}
    BY <1>1, <1>2
  <2>2. PICK i \in I : \A j \in I : i <= j
    BY <2>1, LeastOf
  <2>3. QED
    BY <2>2
<1>4. PICK b \in Path, i \in Nat : q = Child(b, i) /\ ~Good(q, b, i)
  OBVIOUS
<1>5. q \in visible /\ q \in Path /\ q \in DOMAIN size /\ q # << >>
      /\ visible = DOMAIN size \ {<< >>} /\ visible \subseteq Path
  BY VisibleAre
<1>6. PICK n \in Nat : n = numChildren(q) /\ Kids(DOMAIN size, q, n)
  BY <1>5, VisibleAre
<1>7. Child(q, n) \notin DOMAIN size
  BY <1>6 DEF Kids
<1>8. Before(visible, Child(q, n)) = Before(visible, Child(b, i + 1))
  BY <1>4, <1>5, <1>7, GapClimbs
<1>9. f[q] = IF n = 0 THEN q ELSE f[Append(q, n - 1)]
  BY <1>5, <1>6 DEF IsLast
<1>10. CASE n = 0
  <2>1. Before(visible, Child(q, 0)) = Before(visible, q) \cup {q}
    BY <1>5, FirstChild DEF Before
  <2>2. QED
    BY <1>4, <1>5, <1>8, <1>9, <1>10, <2>1
<1>11. CASE n # 0
  <2>1. PICK k \in Nat : k = n - 1 /\ k + 1 = n
    BY <1>6, <1>11
  <2>2. PICK c \in visible : c = Child(q, k) /\ c = Append(q, n - 1) /\ M(c) < M(q)
                              /\ M(c) \in Nat /\ M(q) \in Nat
    BY <1>5, <1>6, <1>11, <2>1, LastChild
  <2>3. c \notin Bad
    <3> HIDE DEF M, Bad
    <3>1. SUFFICES ASSUME c \in Bad PROVE FALSE
      OBVIOUS
    <3>2. M(q) <= M(c)
      BY <1>3, <3>1
    <3>3. QED
      BY <2>2, <3>2
  <2>4. Good(c, q, k)
    BY <1>5, <2>2, <2>3
  <2>5. QED
    BY <1>4, <1>8, <1>9, <1>11, <2>1, <2>2, <2>4
<1>12. QED
  BY <1>10, <1>11

\* operator-- gives the item before, or end() from the first.
LEMMA PrevIs ==
    ASSUME IsTree(DOMAIN size), NEW q \in visible
    PROVE  \/ OneAfter(visible, PrevOf(q), q)
           \/ PrevOf(q) = end /\ Before(visible, q) = {}
<1>1. q \in visible /\ q \in Path /\ q \in DOMAIN size /\ q # << >>
      /\ visible = DOMAIN size \ {<< >>} /\ visible \subseteq Path
  BY VisibleAre
<1>2. PICK a \in Path, l \in Nat : a = Parent(q) /\ l = Last(q) /\ q = Child(a, l)
  BY <1>1, ParentIs
<1>3. PICK f : IsLast(f) /\ PrevOf(q) = IF l = 0 THEN a ELSE f[Sibling(q, -1)]
  <2> DEFINE f == CHOOSE f : IsLast(f)
  <2>1. IsLast(f)
    BY LastExists
  <2>2. PrevOf(q) = IF Last(q) = 0 THEN Parent(q) ELSE f[Sibling(q, -1)]
    BY <1>1 DEF PrevOf, IsLast, end
  <2> HIDE DEF f
  <2>3. QED
    BY <1>2, <2>1, <2>2
<1>4. CASE l = 0
  <2>1. \A x \in visible : Less(x, q) <=> x = a \/ Less(x, a)
    BY <1>1, <1>2, <1>4, FirstChild
  <2>2. CASE a = << >>
    <3>1. Before(visible, q) = {}
      BY <1>1, <2>1, <2>2, NothingBeforeEnd DEF Before
    <3>2. QED
      BY <1>3, <1>4, <2>2, <3>1 DEF end
  <2>3. CASE a # << >>
    <3>1. a \in visible
      BY <1>1, <1>2, <2>3 DEF IsTree
    <3>2. Before(visible, q) = Before(visible, a) \cup {a}
      BY <2>1, <3>1 DEF Before
    <3>3. QED
      BY <1>1, <1>3, <1>4, <3>1, <3>2 DEF OneAfter
  <2>4. QED
    BY <2>2, <2>3
<1>5. CASE l # 0
  <2>1. PICK k \in Nat : k = l - 1 /\ k + 1 = l /\ k = l + -1
    BY <1>5
  <2>2. PICK c \in Path : c = Child(a, k)
    BY <1>2, ChildIsPath
  <2>3. Sibling(q, -1) = c
    <3>1. PICK e \in Int : e = -1 /\ Last(q) + e = k
      BY <1>2, <2>1
    <3>2. Last(q) + e \in Nat
      BY <3>1
    <3>3. Sibling(q, e) = Child(Parent(q), Last(q) + e)
      BY <1>1, <3>2, SiblingIs
    <3>4. QED
      BY <1>2, <2>2, <3>1, <3>3
  <2>4. c \in visible
    <3>1. a \in DOMAIN size
      BY <1>1, <1>2 DEF IsTree
    <3>2. PICK n \in Nat : Kids(visible, a, n)
      BY <3>1, VisibleAre
    <3>3. k < n
      BY <1>1, <1>2, <2>1, <3>2 DEF Kids
    <3>4. QED
      BY <2>2, <3>2, <3>3 DEF Kids
  <2>5. f[c] \in visible
        /\ Before(visible, f[c]) \cup {f[c]} = Before(visible, Child(a, k + 1))
    BY <1>3, <2>2, <2>4, LastIs
  <2>6. QED
    BY <1>1, <1>2, <1>3, <1>5, <2>1, <2>3, <2>5 DEF OneAfter
<1>6. QED
  BY <1>4, <1>5

-----------------------------------------------------------------------------
(* The iterator goes any number of items *)

\* The index is the number of the items before.
LEMMA IndexIs ==
    ASSUME IsTree(DOMAIN size), NEW q
    PROVE  /\ Index(q) = Cardinality(Before(visible, q)) /\ Index(q) \in Nat
           /\ IsFiniteSet(Before(visible, q))
<1>1. IsFiniteSet(visible) /\ Before(visible, q) \in SUBSET visible
  BY VisibleAre DEF Before
<1>2. IsFiniteSet(Before(visible, q))
  BY <1>1, FS_Subset
<1>3. QED
  BY <1>2, FS_CardinalityType DEF Index, Before

\* The next item has the next index.
LEMMA IndexAfter ==
    ASSUME IsTree(DOMAIN size), NEW q, NEW r, OneAfter(visible, q, r)
    PROVE  Index(r) = Index(q) + 1 /\ Index(q) \in Nat
<1>1. visible \subseteq Path /\ IsFiniteSet(visible) /\ q \in visible
  BY VisibleAre DEF OneAfter
<1>2. Cardinality(Before(visible, q) \cup {q}) = Cardinality(Before(visible, q)) + 1
  BY <1>1, RankGrows
<1>3. Before(visible, r) = Before(visible, q) \cup {q}
  BY DEF OneAfter
<1>4. QED
  BY <1>2, <1>3, IndexIs

\* The end is left by neither operator.
LEMMA EndStays == NextOf(end) = end /\ PrevOf(end) = end
<1>1. DOMAIN end = {}
  BY DEF end
<1>2. {n \in DOMAIN end : Sibling(SubSeq(end, 1, n), 1) \in visible} = {}
  BY <1>1
<1>3. NextOf(end) = end
  BY <1>2 DEF NextOf
<1>4. QED
  BY <1>3 DEF PrevOf

\* r is the item that is d after p, and there is one if it is in the list.
Reaches(p, d, r) ==
    /\ r = end \/ (r \in visible /\ p \in visible /\ Index(r) = Index(p) + d)
    /\ p \in visible /\ 0 <= Index(p) + d /\ Index(p) + d < Cardinality(visible)
           => r # end

\* One step more reaches one item further, forward or back.
LEMMA ReachesNext ==
    ASSUME IsTree(DOMAIN size), NEW p \in visible \cup {end}, NEW n \in Nat, NEW r,
           Reaches(p, n, r)
    PROVE  Reaches(p, n + 1, NextOf(r)) /\ NextOf(r) \in visible \cup {end}
<1>1. end \notin visible /\ visible \subseteq Path /\ IsFiniteSet(visible)
      /\ Cardinality(visible) \in Nat
  BY VisibleAre, FS_CardinalityType DEF end
<1>2. PICK i \in Nat, l \in Nat : i = Index(p) /\ l = Cardinality(visible)
  BY <1>1, IndexIs
<1>3. CASE r = end
  <2>1. ~(p \in visible /\ i + n < l)
    BY <1>2, <1>3 DEF Reaches
  <2>2. ~(p \in visible /\ i + (n + 1) < l)
    BY <2>1
  <2>3. QED
    BY <1>2, <1>3, <2>2, EndStays DEF Reaches
<1>4. CASE r # end
  <2>1. r \in visible /\ p \in visible /\ Index(r) = i + n
    BY <1>2, <1>4 DEF Reaches
  <2>2. CASE OneAfter(visible, r, NextOf(r))
    <3>1. Index(NextOf(r)) = i + n + 1 /\ NextOf(r) \in visible
      BY <2>1, <2>2, IndexAfter DEF OneAfter
    <3>2. QED
      BY <1>1, <1>2, <2>1, <3>1 DEF Reaches
  <2>3. CASE NextOf(r) = end /\ Before(visible, r) \cup {r} = visible
    <3>1. Cardinality(Before(visible, r) \cup {r}) = Cardinality(Before(visible, r)) + 1
      BY <1>1, <2>1, RankGrows
    <3>2. l = i + n + 1
      BY <1>2, <2>1, <2>3, <3>1, IndexIs
    <3>3. QED
      BY <1>2, <2>3, <3>2 DEF Reaches
  <2>4. QED
    BY <2>1, <2>2, <2>3, NextIs
<1>5. QED
  BY <1>3, <1>4

LEMMA ReachesPrev ==
    ASSUME IsTree(DOMAIN size), NEW p \in visible \cup {end}, NEW n \in Nat, NEW r,
           Reaches(p, -n, r)
    PROVE  Reaches(p, -(n + 1), PrevOf(r)) /\ PrevOf(r) \in visible \cup {end}
<1>1. end \notin visible /\ visible \subseteq Path /\ IsFiniteSet(visible)
      /\ Cardinality(visible) \in Nat
  BY VisibleAre, FS_CardinalityType DEF end
<1>2. PICK i \in Nat, l \in Nat : i = Index(p) /\ l = Cardinality(visible)
  BY <1>1, IndexIs
<1>3. p \in visible => i < l
  <2>1. ASSUME p \in visible PROVE i < l
    <3>1. Cardinality(Before(visible, p) \cup {p}) = Cardinality(Before(visible, p)) + 1
      BY <1>1, <2>1, RankGrows
    <3>2. Before(visible, p) \cup {p} \in SUBSET visible
      BY <2>1 DEF Before
    <3>3. Cardinality(Before(visible, p) \cup {p}) <= Cardinality(visible)
      BY <1>1, <3>2, FS_Subset
    <3>4. QED
      BY <1>2, <3>1, <3>3, IndexIs
  <2>2. QED
    BY <2>1
<1>4. CASE r = end
  <2>1. ~(p \in visible /\ 0 <= i - n)
    BY <1>2, <1>3, <1>4 DEF Reaches
  <2>2. ~(p \in visible /\ 0 <= i + -(n + 1))
    BY <2>1
  <2>3. QED
    BY <1>2, <1>4, <2>2, EndStays DEF Reaches
<1>5. CASE r # end
  <2>1. r \in visible /\ p \in visible /\ Index(r) = i - n
    BY <1>2, <1>5 DEF Reaches
  <2>2. CASE OneAfter(visible, PrevOf(r), r)
    <3>1. Index(r) = Index(PrevOf(r)) + 1 /\ PrevOf(r) \in visible
          /\ Index(PrevOf(r)) \in Nat
      BY <2>1, <2>2, IndexAfter DEF OneAfter
    <3>2. Index(PrevOf(r)) = i + -(n + 1)
      BY <2>1, <3>1
    <3>3. QED
      BY <1>1, <1>2, <2>1, <3>1, <3>2 DEF Reaches
  <2>3. CASE PrevOf(r) = end /\ Before(visible, r) = {}
    <3>1. Index(r) = 0
      BY <2>3, IndexIs, FS_EmptySet
    <3>2. ~(0 <= i + -(n + 1))
      BY <2>1, <3>1
    <3>3. QED
      BY <1>2, <2>3, <3>2 DEF Reaches
  <2>4. QED
    BY <2>1, <2>2, <2>3, PrevIs
<1>6. QED
  BY <1>4, <1>5

\* The functions that Advanced defines.
GoesOn(f, p) == f = [n \in Nat |-> IF n = 0 THEN p ELSE NextOf(f[n - 1])]
GoesBack(f, p) == f = [n \in Nat |-> IF n = 0 THEN p ELSE PrevOf(f[n - 1])]

\* A function that is applied n times exists.
LEMMA Iterates ==
    ASSUME NEW X, NEW p \in X, NEW h \in [X -> X]
    PROVE  \E f \in [Nat -> X] :
               \A n \in Nat : f[n] = IF n = 0 THEN p ELSE h[f[n - 1]]
<1> DEFINE m == [n \in Nat |-> n]
           base == [n \in Nat |-> p]
           nx == [n \in Nat |-> IF n = 0 THEN 0 ELSE n - 1]
<1>1. Recurs(Nat, X, m, {0}, base, nx, h)
  BY DEF Recurs
<1>2. PICK f : Recursive(f, Nat, X, {0}, base, nx, h)
  <2> HIDE DEF m, base, nx
  <2>1. QED
    BY <1>1, Recursion
<1>3. ASSUME NEW n \in Nat
      PROVE  f[n] = IF n = 0 THEN p ELSE h[f[n - 1]]
  <2>1. f[n] = IF n \in {0} THEN base[n] ELSE h[f[nx[n]]]
    BY <1>2 DEF Recursive
  <2>2. QED
    BY <2>1
<1>4. QED
  BY <1>2, <1>3 DEF Recursive

\* operator+= and operator-= reach the item that is d away.
LEMMA AdvancedIs ==
    ASSUME IsTree(DOMAIN size), NEW p \in visible \cup {end}, NEW d \in Int
    PROVE  Reaches(p, d, Advanced(p, d))
<1> DEFINE X == visible \cup {end}
           next == [q \in X |-> NextOf(q)]
           prev == [q \in X |-> PrevOf(q)]
<1>1. ASSUME NEW q \in X PROVE NextOf(q) \in X /\ PrevOf(q) \in X
  <2>1. CASE q = end
    BY <2>1, EndStays
  <2>2. CASE q # end
    BY <2>2, NextIs, PrevIs DEF OneAfter
  <2>3. QED
    BY <2>1, <2>2
<1>2. next \in [X -> X] /\ prev \in [X -> X]
  BY <1>1
<1>3. \E f : GoesOn(f, p)
  <2>1. PICK f \in [Nat -> X] :
            \A n \in Nat : f[n] = IF n = 0 THEN p ELSE next[f[n - 1]]
    <3> HIDE DEF next, X
    <3>1. p \in X
      BY DEF X
    <3>2. QED
      BY <1>2, <3>1, Iterates
  <2>2. ASSUME NEW n \in Nat PROVE f[n] = IF n = 0 THEN p ELSE NextOf(f[n - 1])
    <3>1. n # 0 => f[n - 1] \in X
      OBVIOUS
    <3>2. n # 0 => next[f[n - 1]] = NextOf(f[n - 1])
      BY <3>1
    <3>3. QED
      BY <2>1, <3>2
  <2>3. QED
    BY <2>2 DEF GoesOn
<1>4. \E f : GoesBack(f, p)
  <2>1. PICK f \in [Nat -> X] :
            \A n \in Nat : f[n] = IF n = 0 THEN p ELSE prev[f[n - 1]]
    <3> HIDE DEF prev, X
    <3>1. p \in X
      BY DEF X
    <3>2. QED
      BY <1>2, <3>1, Iterates
  <2>2. ASSUME NEW n \in Nat PROVE f[n] = IF n = 0 THEN p ELSE PrevOf(f[n - 1])
    <3>1. n # 0 => f[n - 1] \in X
      OBVIOUS
    <3>2. n # 0 => prev[f[n - 1]] = PrevOf(f[n - 1])
      BY <3>1
    <3>3. QED
      BY <2>1, <3>2
  <2>3. QED
    BY <2>2 DEF GoesBack
<1>5. PICK f, g : GoesOn(f, p) /\ GoesBack(g, p)
                  /\ Advanced(p, d) = IF d >= 0 THEN f[d] ELSE g[-d]
  <2> DEFINE f == CHOOSE f : GoesOn(f, p)
             g == CHOOSE g : GoesBack(g, p)
  <2>1. GoesOn(f, p) /\ GoesBack(g, p)
    BY <1>3, <1>4
  <2>2. Advanced(p, d) = IF d >= 0 THEN f[d] ELSE g[-d]
    BY DEF Advanced, GoesOn, GoesBack
  <2> HIDE DEF f, g
  <2>3. QED
    BY <2>1, <2>2
<1>6. f[0] = p /\ \A n \in Nat : f[n + 1] = NextOf(f[n])
  <2>1. ASSUME NEW n \in Nat PROVE f[n + 1] = NextOf(f[n])
    <3>1. n + 1 \in Nat /\ n + 1 # 0 /\ (n + 1) - 1 = n
      OBVIOUS
    <3>2. QED
      BY <1>5, <3>1 DEF GoesOn
  <2>2. QED
    BY <1>5, <2>1 DEF GoesOn
<1>7. g[0] = p /\ \A n \in Nat : g[n + 1] = PrevOf(g[n])
  <2>1. ASSUME NEW n \in Nat PROVE g[n + 1] = PrevOf(g[n])
    <3>1. n + 1 \in Nat /\ n + 1 # 0 /\ (n + 1) - 1 = n
      OBVIOUS
    <3>2. QED
      BY <1>5, <3>1 DEF GoesBack
  <2>2. QED
    BY <1>5, <2>1 DEF GoesBack
<1>8. Reaches(p, 0, p) /\ Reaches(p, -0, p)
  <2>1. Index(p) \in Nat
    BY IndexIs
  <2>2. p \in visible => p # end
    BY VisibleAre DEF end
  <2>3. QED
    BY <2>1, <2>2 DEF Reaches
<1> DEFINE N == {n \in Nat : Reaches(p, n, f[n]) /\ Reaches(p, -n, g[n])}
<1>9. 0 \in N
  BY <1>6, <1>7, <1>8
<1>10. ASSUME NEW n \in Nat, n \in N PROVE n + 1 \in N
  <2>1. Reaches(p, n + 1, NextOf(f[n]))
    BY <1>10, ReachesNext
  <2>2. Reaches(p, -(n + 1), PrevOf(g[n]))
    BY <1>10, ReachesPrev
  <2>3. QED
    BY <1>6, <1>7, <2>1, <2>2
<1> HIDE DEF N
<1>11. Nat \subseteq N
  BY <1>9, <1>10, Induction
<1>12. CASE d >= 0
  <2>1. d \in N
    BY <1>11, <1>12
  <2>2. QED
    BY <1>5, <1>12, <2>1 DEF N
<1>13. CASE d < 0
  <2>1. PICK n \in Nat : n = -d /\ -n = d
    <3>1. -d \in Nat /\ -(-d) = d
      BY <1>13
    <3>2. QED
      BY <3>1
  <2>2. n \in N
    BY <1>11
  <2>3. Reaches(p, d, g[n])
    BY <2>1, <2>2 DEF N
  <2>4. QED
    BY <1>5, <1>13, <2>1, <2>3
<1>14. QED
  BY <1>12, <1>13

-----------------------------------------------------------------------------
(* The iterator leaves what is about to go *)

IsSteps(f, p) == f = [q \in {r \in visible : ~Less(r, p)} |->
                         IF q = p THEN 0 ELSE 1 + f[PrevOf(q)]]

\* The loops of collapse() and notifyItemRemoved() count as many steps as there
\* are items between, and so give the index of p.
LEMMA LeftIs ==
    ASSUME IsTree(DOMAIN size), NEW p \in visible, NEW n, iter \in visible,
           ~Less(iter, p)
    PROVE  Left(p, n) =
               IF Less(iter, Sibling(p, 1))
               THEN [iter |-> p, iterIndex |-> iterIndex - (Index(iter) - Index(p))]
               ELSE [iter |-> iter, iterIndex |-> iterIndex - n]
<1> DEFINE R == {r \in visible : ~Less(r, p)}
<1>1. p \in Path /\ visible \subseteq Path
  BY VisibleAre
<1>2. ASSUME NEW q \in R, q # p
      PROVE  /\ PrevOf(q) \in R /\ Index(q) = Index(PrevOf(q)) + 1
             /\ Index(PrevOf(q)) \in Nat
  <2>1. q \in Path /\ Less(p, q)
    BY <1>1, <1>2, LessIsTotal
  <2>2. p \in Before(visible, q)
    BY <2>1 DEF Before
  <2>3. OneAfter(visible, PrevOf(q), q)
    BY <2>2, PrevIs
  <2>4. PrevOf(q) \in visible /\ (p = PrevOf(q) \/ Less(p, PrevOf(q)))
    BY <2>2, <2>3 DEF OneAfter, Before
  <2>5. ~Less(PrevOf(q), p)
    BY <1>1, <2>4, LessIsStrict
  <2>6. QED
    BY <2>3, <2>4, <2>5, IndexAfter
<1>3. \A q \in R : Index(q) \in Nat
  BY IndexIs
<1>4. p \in R /\ Index(p) \in Nat
  BY <1>1, LessIsStrict, IndexIs
<1>5. \E f : IsSteps(f, p)
  <2> DEFINE f == [q \in R |-> Index(q) - Index(p)]
  <2>1. ASSUME NEW q \in R
        PROVE  f[q] = IF q = p THEN 0 ELSE 1 + f[PrevOf(q)]
    <3>1. CASE q = p
      BY <1>4, <3>1
    <3>2. CASE q # p
      <4>1. PICK i \in Nat, j \in Nat : i = Index(PrevOf(q)) /\ j = Index(p)
        BY <1>2, <1>4, <3>2
      <4>2. f[PrevOf(q)] = i - j /\ f[q] = (i + 1) - j
        BY <1>2, <3>2, <4>1
      <4>3. QED
        BY <3>2, <4>2
    <3>3. QED
      BY <3>1, <3>2
  <2>2. f = [q \in R |-> IF q = p THEN 0 ELSE 1 + f[PrevOf(q)]]
    BY <2>1
  <2> HIDE DEF f
  <2>3. QED
    BY <2>2 DEF IsSteps
<1>6. PICK f : /\ IsSteps(f, p)
               /\ Left(p, n) =
                      IF Less(iter, Sibling(p, 1))
                      THEN [iter |-> p, iterIndex |-> iterIndex - f[iter]]
                      ELSE [iter |-> iter, iterIndex |-> iterIndex - n]
  <2> DEFINE f == CHOOSE f : IsSteps(f, p)
  <2>1. IsSteps(f, p)
    BY <1>5
  <2>2. Left(p, n) = IF Less(iter, Sibling(p, 1))
                     THEN [iter |-> p, iterIndex |-> iterIndex - f[iter]]
                     ELSE [iter |-> iter, iterIndex |-> iterIndex - n]
    BY DEF Left, IsSteps
  <2> HIDE DEF f
  <2>3. QED
    BY <2>1, <2>2
<1>7. ASSUME NEW q \in R PROVE f[q] = IF q = p THEN 0 ELSE 1 + f[PrevOf(q)]
  BY <1>6 DEF IsSteps
<1> HIDE DEF R
<1> DEFINE N == {i \in Nat : \A q \in R : Index(q) <= i => f[q] = Index(q) - Index(p)}
<1>8. ASSUME NEW q \in R, NEW i \in Nat, Index(q) <= i,
             \A r \in R : Index(r) < i => f[r] = Index(r) - Index(p)
      PROVE  f[q] = Index(q) - Index(p)
  <2>1. CASE q = p
    BY <1>4, <1>7, <2>1
  <2>2. CASE q # p
    <3>1. PICK k \in Nat, j \in Nat : k = Index(PrevOf(q)) /\ j = Index(p)
                                       /\ Index(q) = k + 1
      BY <1>2, <1>4, <2>2
    <3>2. PICK r \in R : r = PrevOf(q) /\ Index(r) < i
      BY <1>2, <1>8, <2>2, <3>1
    <3>3. f[r] = k - j
      BY <1>8, <3>1, <3>2
    <3>4. f[q] = 1 + f[r]
      BY <1>7, <2>2, <3>2
    <3>5. QED
      BY <3>1, <3>3, <3>4
  <2>3. QED
    BY <2>1, <2>2
<1>9. 0 \in N
  <2>1. ASSUME NEW q \in R, Index(q) <= 0 PROVE f[q] = Index(q) - Index(p)
    BY <1>3, <1>8, <2>1
  <2>2. QED
    BY <2>1
<1>10. ASSUME NEW i \in Nat, i \in N PROVE i + 1 \in N
  <2>1. \A r \in R : Index(r) < i + 1 => f[r] = Index(r) - Index(p)
    <3>1. \A r \in R : Index(r) < i + 1 => Index(r) <= i
      BY <1>3
    <3>2. QED
      BY <1>10, <3>1
  <2>2. PICK k \in Nat : k = i + 1
    OBVIOUS
  <2>3. ASSUME NEW q \in R, Index(q) <= k PROVE f[q] = Index(q) - Index(p)
    BY <1>8, <2>1, <2>2, <2>3
  <2>4. QED
    BY <2>2, <2>3
<1> HIDE DEF N
<1>11. Nat \subseteq N
  BY <1>9, <1>10, Induction
<1>12. f[iter] = Index(iter) - Index(p)
  <2>1. iter \in R
    BY DEF R
  <2>2. PICK i \in Nat : i = Index(iter)
    BY <1>3, <2>1
  <2>3. i \in N
    BY <1>11
  <2>4. QED
    BY <2>1, <2>2, <2>3 DEF N
<1>13. QED
  BY <1>6, <1>12

-----------------------------------------------------------------------------
(* The iterator goes up after the last child of a node was removed *)

IsUpper(f, E) ==
    f = [q \in Seq(Nat) |-> IF q = end \/ q \in E THEN q
                            ELSE IF Len(q) = 1 THEN end
                            ELSE f[Sibling(Parent(q), 1)]]

\* The next one up is a path and a shorter one.
LEMMA ParentsSibling ==
    ASSUME NEW q \in Path, Len(q) # 0, Len(q) # 1
    PROVE  /\ Sibling(Parent(q), 1) \in Path
           /\ Len(Sibling(Parent(q), 1)) < Len(q)
<1>1. q # << >> /\ Len(q) \in Nat
  BY PathIs
<1>2. PICK c \in Path : c = Parent(q) /\ Len(c) = Len(q) - 1
  BY <1>1, ParentIs
<1>3. Len(c) # 0
  BY <1>1, <1>2
<1>4. c # << >>
  BY <1>3, PathIs
<1>5. PICK b \in Path, l \in Nat : b = Parent(c) /\ l = Last(c)
                                   /\ Len(c) = Len(b) + 1 /\ Len(b) \in Nat
  <2>1. Parent(c) \in Path /\ Last(c) \in Nat
        /\ Len(c) \in Nat \ {0} /\ Len(Parent(c)) = Len(c) - 1
    BY <1>4, ParentIs
  <2>2. QED
    BY <2>1
<1>6. PICK k \in Nat : k = l + 1
  OBVIOUS
<1>7. Sibling(c, 1) = Child(b, k)
  BY <1>4, <1>5, <1>6, SiblingIs
<1>8. Child(b, k) \in Path /\ Len(Child(b, k)) = Len(b) + 1
  BY ChildIsPath
<1>9. QED
  BY <1>1, <1>2, <1>5, <1>7, <1>8

\* So the function exists.
LEMMA UpperExists ==
    ASSUME NEW E
    PROVE  \E f : IsUpper(f, E)
<1> DEFINE stop == {q \in Path : q = end \/ q \in E \/ Len(q) = 1}
           m == [q \in Path |-> Len(q)]
           base == [q \in Path |-> IF q = end \/ q \in E THEN q ELSE end]
           nx == [q \in Path |-> IF q \in stop THEN q ELSE Sibling(Parent(q), 1)]
           id == [q \in Path |-> q]
<1>1. m \in [Path -> Nat]
  BY PathIs
<1>2. base \in [Path -> Path] /\ id \in [Path -> Path]
  BY DEF end, Path
<1>3. ASSUME NEW q \in Path, q \notin stop
      PROVE  Sibling(Parent(q), 1) \in Path /\ Len(Sibling(Parent(q), 1)) < Len(q)
  <2>1. Len(q) # 1 /\ Len(q) # 0
    BY <1>3, PathIs DEF end
  <2>2. QED
    BY <2>1, ParentsSibling
<1>4. nx \in [Path -> Path] /\ \A q \in Path : q \notin stop => m[nx[q]] < m[q]
  <2> HIDE DEF stop
  <2>1. QED
    BY <1>3
<1>5. PICK f : Recursive(f, Path, Path, stop, base, nx, id)
  <2> HIDE DEF stop, m, base, nx, id
  <2>1. Recurs(Path, Path, m, stop, base, nx, id)
    BY <1>1, <1>2, <1>4 DEF Recurs
  <2>2. QED
    BY <2>1, Recursion
<1>6. ASSUME NEW q \in Path
      PROVE  f[q] = IF q = end \/ q \in E THEN q
                    ELSE IF Len(q) = 1 THEN end
                    ELSE f[Sibling(Parent(q), 1)]
  <2>1. f[q] = IF q \in stop THEN base[q] ELSE id[f[nx[q]]]
    <3> HIDE DEF stop, base, nx, id
    <3>1. QED
      BY <1>5 DEF Recursive
  <2>2. nx[q] \in Path /\ f[nx[q]] \in Path
    BY <1>4, <1>5 DEF Recursive
  <2>3. CASE q \in stop
    BY <2>1, <2>3
  <2>4. CASE q \notin stop
    <3>1. f[q] = f[nx[q]] /\ nx[q] = Sibling(Parent(q), 1)
      BY <2>1, <2>2, <2>4
    <3>2. QED
      BY <2>4, <3>1
  <2>5. QED
    BY <2>3, <2>4
<1>7. f = [q \in Path |-> f[q]]
  BY <1>5 DEF Recursive
<1>8. f = [q \in Path |-> IF q = end \/ q \in E THEN q
                         ELSE IF Len(q) = 1 THEN end
                         ELSE f[Sibling(Parent(q), 1)]]
  BY <1>6, <1>7
<1>9. QED
  BY <1>8 DEF IsUpper, Path

\* The item that takes the place, or the next one in view.
Landing(f, E, U) ==
    /\ \A q \in E : f[q] = q
    /\ \A c \in E, k \in Nat :
           \/ f[Child(c, k)] = end
           \/ /\ f[Child(c, k)] \in U
              /\ Before(U, f[Child(c, k)]) = Before(U, Child(c, k))

\* It gives what is in the tree, and otherwise the next item in view, or the end.
LEMMA UpperIs ==
    ASSUME NEW E, IsTree(E), NEW U, U = E \ {<< >>}, NEW f, IsUpper(f, E)
    PROVE  Landing(f, E, U)
<1>1. ASSUME NEW q \in Path
      PROVE  f[q] = IF q = end \/ q \in E THEN q
                    ELSE IF Len(q) = 1 THEN end
                    ELSE f[Sibling(Parent(q), 1)]
  BY DEF IsUpper, Path
<1>2. E \subseteq Path
  BY DEF IsTree
<1>3. \A q \in E : f[q] = q
  BY <1>1, <1>2
<1> DEFINE Lands(q) == \/ f[q] = end
                       \/ f[q] \in U /\ Before(U, f[q]) = Before(U, q)
           N == {n \in Nat : \A c \in E, k \in Nat :
                                 Len(c) = n => Lands(Child(c, k))}
<1>4. ASSUME NEW c \in E, NEW k \in Nat, Child(c, k) \in E
      PROVE  Lands(Child(c, k))
  <2>1. Child(c, k) \in U
    BY <1>2, <1>4, ChildIsPath
  <2>2. QED
    BY <1>3, <1>4, <2>1
<1>5. ASSUME NEW c \in E, Len(c) = 0, NEW k \in Nat PROVE Lands(Child(c, k))
  <2>a. c \in Path
    BY <1>2
  <2>b. PICK d \in Path : d = Child(c, k) /\ Len(d) = Len(c) + 1 /\ d # << >>
    BY <2>a, ChildIsPath
  <2>1. d = Child(c, k) /\ Len(d) = 1 /\ d # end
    BY <1>5, <2>b DEF end
  <2>2. d \notin E => f[d] = end
    BY <1>1, <2>1
  <2>3. QED
    BY <1>4, <2>1, <2>2
<1>6. ASSUME NEW n \in Nat, n \in N PROVE n + 1 \in N
  <2>1. SUFFICES ASSUME NEW c \in E, NEW k \in Nat, Len(c) = n + 1,
                        Child(c, k) \notin E
                 PROVE  Lands(Child(c, k))
    <3> HIDE DEF Lands
    <3>1. QED
      BY <1>4
  <2>2. c \in Path /\ c # << >>
    <3>1. Len(c) # 0
      BY <2>1
    <3>2. QED
      BY <1>2, <3>1, PathIs
  <2>3. PICK b \in Path, l \in Nat : b = Parent(c) /\ l = Last(c) /\ c = Child(b, l)
                                     /\ Len(b) = n
    <3>1. Parent(c) \in Path /\ Last(c) \in Nat /\ c = Child(Parent(c), Last(c))
          /\ Len(Parent(c)) = Len(c) - 1
      BY <2>2, ParentIs
    <3>2. Len(c) - 1 = n
      BY <2>1
    <3>3. QED
      BY <3>1, <3>2
  <2>4. b \in E
    BY <2>2, <2>3 DEF IsTree
  <2>5. PICK i \in Nat : i = l + 1
    OBVIOUS
  <2>6. Lands(Child(b, i))
    BY <1>6, <2>3, <2>4
  <2>7. PICK d \in Path : d = Child(c, k) /\ Parent(d) = c /\ Len(d) = n + 2 /\ d # end
    BY <2>1, <2>2, ChildIsPath DEF end
  <2>8. Sibling(c, 1) = Child(b, i)
    <3>1. Sibling(c, 1) = Child(Parent(c), Last(c) + 1)
      BY <2>2, <2>3, SiblingIs
    <3>2. QED
      BY <2>3, <2>5, <3>1
  <2>9. f[d] = f[Child(b, i)]
    <3>1. Len(d) # 1 /\ d \notin E
      BY <2>1, <2>7
    <3>2. f[d] = f[Sibling(Parent(d), 1)]
      BY <1>1, <2>7, <3>1
    <3>3. QED
      BY <2>7, <2>8, <3>2
  <2>10. Before(U, d) = Before(U, Child(b, i))
    <3>1. Before(U, Child(c, k)) = Before(U, Child(b, l + 1))
      BY <2>1, <2>3, GapClimbs
    <3>2. QED
      BY <2>5, <2>7, <3>1
  <2>11. QED
    BY <2>6, <2>7, <2>9, <2>10
<1>7. 0 \in N
  BY <1>5
<1> HIDE DEF N
<1>8. Nat \subseteq N
  BY <1>6, <1>7, Induction
<1>9. ASSUME NEW c \in E, NEW k \in Nat PROVE Lands(Child(c, k))
  <2>1. PICK n \in Nat : n = Len(c)
    BY <1>2, PathIs
  <2>2. QED
    BY <1>8, <2>1 DEF N
<1>10. QED
  BY <1>3, <1>9 DEF Landing

-----------------------------------------------------------------------------
(* What every step keeps *)

\* Under x none or all of the items of M are in D.
AlikeAt(D, M, x) ==
    \/ \A k \in Nat : Child(x, k) \notin D
    \/ \A k \in Nat : Child(x, k) \in D <=> Child(x, k) \in M

KeptTree(sz, M) ==
    /\ IsTree(DOMAIN sz) /\ IsTree(M \cup {<< >>}) /\ << >> \notin M
    /\ DOMAIN sz \ {<< >>} \subseteq M
    /\ \A x \in DOMAIN sz : AlikeAt(DOMAIN sz, M, x)
    /\ \A x \in DOMAIN sz : sz[x] = Cardinality(Below(DOMAIN sz, x))

AtIndex(D, it, ix) ==
    /\ it \in Path /\ ix \in Nat
    /\ it # << >> => it \in D /\ ix = Cardinality(Before(D \ {<< >>}, it))

-----------------------------------------------------------------------------
(* The items below p are replaced: the tree is D before and E after *)

Replaced(D, p, n) == {q \in D : ~IsStrictPrefix(p, q)} \cup {Child(p, k) : k \in 0 .. n - 1}

\* Below p is a child of what is p or below it.
LEMMA PrefixOfChild ==
    ASSUME NEW p \in Path, NEW x \in Path, NEW k \in Nat
    PROVE  IsStrictPrefix(p, Child(x, k)) <=> IsPrefix(p, x)
BY ChildIsBelow

\* What is there after: what was there outside, and the new ones.
LEMMA ReplacedIs ==
    ASSUME NEW D, IsTree(D), NEW p \in D, NEW n \in Nat, NEW E, E = Replaced(D, p, n)
    PROVE  /\ E \subseteq Path
           /\ \A q \in Path : ~IsStrictPrefix(p, q) => (q \in E <=> q \in D)
           /\ \A q \in E : IsStrictPrefix(p, q) =>
                  \E k \in Nat : k < n /\ q = Child(p, k)
           /\ Kids(E, p, n)
           /\ \A x \in Path, k \in Nat : x # p =>
                  (Child(x, k) \in E <=> Child(x, k) \in D /\ ~IsPrefix(p, x))
<1>1. p \in Path /\ D \subseteq Path
  BY DEF IsTree
<1> DEFINE new == {Child(p, k) : k \in 0 .. n - 1}
<1>2. \A k \in 0 .. n - 1 : k \in Nat /\ k < n
  OBVIOUS
<1>3. \A k \in Nat : Child(p, k) \in Path /\ IsStrictPrefix(p, Child(p, k))
  BY <1>1, ChildIsPath, ChildIsBelow
<1>4. new \subseteq Path /\ \A q \in new : IsStrictPrefix(p, q)
  BY <1>2, <1>3
<1>5. E \subseteq Path
  BY <1>1, <1>4 DEF Replaced
<1>6. \A q \in Path : ~IsStrictPrefix(p, q) => (q \in E <=> q \in D)
  BY <1>4 DEF Replaced
<1>7. \A q \in E : IsStrictPrefix(p, q) => q \in new
  BY DEF Replaced
<1>8. \A q \in new : \E k \in Nat : k < n /\ q = Child(p, k)
  BY <1>2
<1>9. \A k \in Nat : Child(p, k) \in new <=> k < n
  <2>1. ASSUME NEW k \in Nat, Child(p, k) \in new PROVE k < n
    <3>1. PICK l \in Nat : l < n /\ Child(p, k) = Child(p, l)
      BY <1>8, <2>1
    <3>2. k = l
      BY <1>1, <3>1, ChildrenDiffer
    <3>3. QED
      BY <3>1, <3>2
  <2>2. ASSUME NEW k \in Nat, k < n PROVE Child(p, k) \in new
    <3>1. k \in 0 .. n - 1
      BY <2>2
    <3>2. QED
      BY <3>1
  <2>3. QED
    BY <2>1, <2>2
<1>10. Kids(E, p, n)
  <2>1. \A k \in Nat : Child(p, k) \in E <=> Child(p, k) \in new
    BY <1>3, <1>7 DEF Replaced
  <2> HIDE DEF new
  <2>2. QED
    BY <1>9, <2>1 DEF Kids
<1>11. ASSUME NEW x \in Path, NEW k \in Nat, x # p
       PROVE  Child(x, k) \in E <=> Child(x, k) \in D /\ ~IsPrefix(p, x)
  <2>1. Child(x, k) \notin new
    <3>1. ASSUME NEW l \in Nat, Child(x, k) = Child(p, l) PROVE FALSE
      BY <1>1, <1>11, <3>1, ChildrenDiffer
    <3>2. QED
      BY <1>8, <3>1
  <2>2. Child(x, k) \in E <=> Child(x, k) \in D /\ ~IsStrictPrefix(p, Child(x, k))
    BY <2>1 DEF Replaced
  <2>3. QED
    BY <1>1, <2>2, PrefixOfChild
<1> HIDE DEF new
<1>12. \A q \in E : IsStrictPrefix(p, q) => \E k \in Nat : k < n /\ q = Child(p, k)
  BY <1>7, <1>8
<1>13. QED
  BY <1>5, <1>6, <1>10, <1>11, <1>12

\* Being at or below is an order, in which what is above an item is a chain.
LEMMA PrefixesJoin ==
    ASSUME NEW p \in Path, NEW q \in Path, NEW r \in Path
    PROVE  /\ IsPrefix(p, q) /\ IsPrefix(q, r) => IsPrefix(p, r)
           /\ IsStrictPrefix(p, q) /\ IsPrefix(q, r) => IsStrictPrefix(p, r)
           /\ IsPrefix(p, q) /\ IsStrictPrefix(q, r) => IsStrictPrefix(p, r)
           /\ IsPrefix(p, r) /\ IsPrefix(q, r) => IsPrefix(p, q) \/ IsStrictPrefix(q, p)
           /\ IsPrefix(p, p) /\ ~IsStrictPrefix(p, p)
           /\ IsPrefix(p, q) <=> p = q \/ IsStrictPrefix(p, q)
           /\ ~(IsPrefix(p, q) /\ IsStrictPrefix(q, p))
<1>1. PICK l \in Nat, m \in Nat, n \in Nat : l = Len(p) /\ m = Len(q) /\ n = Len(r)
  BY PathIs
<1>2. IsPrefix(p, q) <=> l <= m /\ Same(p, q, l)
  BY <1>1, PrefixIs
<1>3. IsPrefix(q, r) <=> m <= n /\ Same(q, r, m)
  BY <1>1, PrefixIs
<1>4. IsPrefix(p, r) <=> l <= n /\ Same(p, r, l)
  BY <1>1, PrefixIs
<1>5. IsStrictPrefix(p, q) <=> l < m /\ Same(p, q, l)
  BY <1>1, PrefixIs
<1>6. IsStrictPrefix(q, r) <=> m < n /\ Same(q, r, m)
  BY <1>1, PrefixIs
<1>7. IsStrictPrefix(p, r) <=> l < n /\ Same(p, r, l)
  BY <1>1, PrefixIs
<1>8. IsStrictPrefix(q, p) <=> m < l /\ Same(q, p, m)
  BY <1>1, PrefixIs
<1>9. IsPrefix(p, p) /\ ~IsStrictPrefix(p, p)
  BY <1>1, PrefixIs DEF Same
<1>10. l <= m /\ Same(p, q, l) /\ Same(q, r, m) => Same(p, r, l)
  BY DEF Same
<1>11. l <= m /\ Same(p, r, l) /\ Same(q, r, m) => Same(p, q, l)
  BY DEF Same
<1>12. m < l /\ Same(p, r, l) /\ Same(q, r, m) => Same(q, p, m)
  BY DEF Same
<1>13. IsPrefix(p, q) <=> p = q \/ IsStrictPrefix(p, q)
  BY <1>9 DEF IsStrictPrefix
<1>14. QED
  BY <1>1, <1>2, <1>3, <1>4, <1>5, <1>6, <1>7, <1>8, <1>9, <1>10, <1>11, <1>12, <1>13

\* It is a tree.
LEMMA ReplacedIsTree ==
    ASSUME NEW D, IsTree(D), NEW p \in D, NEW n \in Nat, NEW E, E = Replaced(D, p, n)
    PROVE  IsTree(E) /\ p \in E
<1>1. p \in Path /\ D \subseteq Path /\ E \subseteq Path
  BY ReplacedIs DEF IsTree
<1>2. \A q \in Path : ~IsStrictPrefix(p, q) => (q \in E <=> q \in D)
  BY ReplacedIs
<1>3. \A q \in E : IsStrictPrefix(p, q) => \E k \in Nat : k < n /\ q = Child(p, k)
  BY ReplacedIs
<1>4. Kids(E, p, n)
  BY ReplacedIs
<1>5. \A x \in Path, k \in Nat : x # p =>
          (Child(x, k) \in E <=> Child(x, k) \in D /\ ~IsPrefix(p, x))
  BY ReplacedIs
<1>6. p \in E
  BY <1>1, <1>2, PrefixesJoin
<1>7. << >> \in E
  <2>1. << >> \in D /\ << >> \in Path
    BY <1>1 DEF IsTree
  <2>2. ~IsStrictPrefix(p, << >>)
    <3>1. Len(<< >>) = 0 /\ Len(p) \in Nat
      BY <1>1, PathIs
    <3>2. QED
      BY <1>1, <2>1, <3>1, PrefixIs
  <2>3. QED
    BY <1>2, <2>1, <2>2
<1>8. IsFiniteSet(E)
  <2>1. IsFiniteSet(ChildrenIn(E, p)) /\ ChildrenIn(E, p) = {Child(p, k) : k \in 0 .. n - 1}
    BY <1>1, <1>4, KidsAreCounted
  <2>2. IsFiniteSet({q \in D : ~IsStrictPrefix(p, q)})
    <3>1. {q \in D : ~IsStrictPrefix(p, q)} \in SUBSET D /\ IsFiniteSet(D)
      BY DEF IsTree
    <3>2. QED
      BY <3>1, FS_Subset
  <2>3. QED
    BY <2>1, <2>2, FS_Union DEF Replaced
<1>9. ASSUME NEW q \in E, q # << >> PROVE Parent(q) \in E
  <2>1. PICK x \in Path, k \in Nat : x = Parent(q) /\ q = Child(x, k)
    BY <1>1, <1>9, ParentIs
  <2>2. CASE x = p
    BY <1>6, <2>1, <2>2
  <2>3. CASE x # p
    <3>1. q \in D /\ ~IsPrefix(p, x)
      BY <1>5, <2>1, <2>3
    <3>2. x \in D
      BY <1>9, <2>1, <3>1 DEF IsTree
    <3>3. ~IsStrictPrefix(p, x)
      BY <3>1 DEF IsStrictPrefix
    <3>4. QED
      BY <1>2, <2>1, <3>2, <3>3
  <2>4. QED
    BY <2>2, <2>3
<1>10. ASSUME NEW x \in E PROVE \E k \in Nat : Kids(E, x, k)
  <2>1. CASE x = p
    BY <1>4, <2>1
  <2>2. CASE x # p /\ IsPrefix(p, x)
    <3>1. \A k \in Nat : Child(x, k) \notin E
      BY <1>1, <1>5, <2>2
    <3>2. Kids(E, x, 0)
      BY <3>1 DEF Kids
    <3>3. QED
      BY <3>2
  <2>3. CASE x # p /\ ~IsPrefix(p, x)
    <3>1. x \in D
      BY <1>1, <1>2, <2>3 DEF IsStrictPrefix
    <3>2. PICK k \in Nat : Kids(D, x, k)
      BY <3>1 DEF IsTree
    <3>3. \A i \in Nat : Child(x, i) \in E <=> Child(x, i) \in D
      BY <1>1, <1>5, <2>3
    <3>4. Kids(E, x, k)
      BY <3>2, <3>3 DEF Kids
    <3>5. QED
      BY <3>4
  <2>4. QED
    BY <2>1, <2>2, <2>3
<1>11. QED
  BY <1>1, <1>6, <1>7, <1>8, <1>9, <1>10 DEF IsTree

\* A set without the items below p and with the new ones.
LEMMA ReplacedCounts ==
    ASSUME NEW D, IsTree(D), NEW p \in D, NEW n \in Nat, NEW E, E = Replaced(D, p, n),
           NEW S, S \subseteq D, NEW T, T \subseteq E,
           \A q \in Path : IsStrictPrefix(p, q) => (q \in D => q \in S) /\ (q \in E => q \in T),
           \A q \in Path : ~IsStrictPrefix(p, q) => (q \in S <=> q \in T)
    PROVE  /\ Cardinality(T) = Cardinality(S) - Cardinality(Below(D, p)) + n
           /\ Cardinality(S) \in Nat /\ Cardinality(Below(D, p)) \in Nat
           /\ Cardinality(Below(D, p)) <= Cardinality(S)
<1>1. p \in Path /\ D \subseteq Path /\ E \subseteq Path /\ IsFiniteSet(D) /\ IsTree(E)
  <2>1. IsTree(E)
    BY ReplacedIsTree
  <2>2. QED
    BY <2>1 DEF IsTree
<1>2. PICK new, B : new = ChildrenIn(E, p) /\ B = Below(D, p)
  OBVIOUS
<1>3. IsFiniteSet(new) /\ Cardinality(new) = n
  <2>1. Kids(E, p, n)
    BY ReplacedIs
  <2>2. QED
    BY <1>1, <1>2, <2>1, KidsAreCounted
<1>4. ASSUME NEW q \in E PROVE q \in new <=> IsStrictPrefix(p, q)
  <2>1. new = {r \in E : \E k \in Nat : r = Child(p, k)}
    BY <1>1, <1>2, ChildrenAre
  <2>2. q \in new => IsStrictPrefix(p, q)
    BY <1>1, <2>1, ChildIsBelow
  <2>3. IsStrictPrefix(p, q) => q \in new
    BY <2>1, ReplacedIs
  <2>4. QED
    BY <2>2, <2>3
<1>5. PICK R : R = S \ B
  OBVIOUS
<1>6. B \subseteq S /\ IsFiniteSet(S) /\ IsFiniteSet(B)
  <2>1. B \subseteq S
    BY <1>1, <1>2 DEF Below
  <2>2. QED
    BY <1>1, <2>1, FS_Subset
<1>7. Cardinality(B) \in Nat /\ Cardinality(S) \in Nat /\ Cardinality(B) <= Cardinality(S)
  BY <1>6, FS_CardinalityType, FS_Subset
<1>8. IsFiniteSet(R) /\ Cardinality(R) = Cardinality(S) - Cardinality(B)
  <2>1. S \cap B = B
    BY <1>6
  <2>2. QED
    <3>1. IsFiniteSet(S \ B)
          /\ Cardinality(S \ B) = Cardinality(S) - Cardinality(S \cap B)
      BY <1>6, FS_Difference
    <3>2. QED
      BY <1>5, <2>1, <3>1
<1>9. T = R \cup new
  <2>1. ASSUME NEW q \in T PROVE q \in R \cup new
    BY <1>1, <1>2, <1>4, <1>5, <2>1 DEF Below
  <2>2. ASSUME NEW q \in R PROVE q \in T
    BY <1>1, <1>2, <1>5, <2>2 DEF Below
  <2>3. ASSUME NEW q \in new PROVE q \in T
    <3>1. q \in E
      BY <1>2, <2>3 DEF ChildrenIn
    <3>2. QED
      BY <1>1, <1>4, <2>3, <3>1
  <2>4. QED
    BY <2>1, <2>2, <2>3
<1>10. R \cap new = {}
  <2>1. ASSUME NEW q \in R, q \in new PROVE FALSE
    <3>1. q \in E
      BY <1>2, <2>1 DEF ChildrenIn
    <3>2. QED
      BY <1>2, <1>4, <1>5, <2>1, <3>1 DEF Below
  <2>2. QED
    BY <2>1
<1>11. Cardinality(T) = Cardinality(R) + n
  BY <1>3, <1>8, <1>9, <1>10, Disjoint
<1>12. QED
  BY <1>2, <1>7, <1>8, <1>11

\* The sizes and the indexes after.
LEMMA ReplacedSizes ==
    ASSUME NEW D, IsTree(D), NEW p \in D, NEW n \in Nat, NEW E, E = Replaced(D, p, n),
           NEW q \in E
    PROVE  Cardinality(Below(E, q)) =
               IF IsStrictPrefix(p, q) THEN 0
               ELSE IF IsPrefix(q, p)
                    THEN Cardinality(Below(D, q)) - Cardinality(Below(D, p)) + n
                    ELSE Cardinality(Below(D, q))
<1>1. p \in Path /\ D \subseteq Path /\ E \subseteq Path /\ q \in Path
  BY ReplacedIs DEF IsTree
<1>2. \A r \in Path : ~IsStrictPrefix(p, r) => (r \in E <=> r \in D)
  BY ReplacedIs
<1>3. \A r \in E : IsStrictPrefix(p, r) => \E k \in Nat : k < n /\ r = Child(p, k)
  BY ReplacedIs
<1>4. CASE IsStrictPrefix(p, q)
  <2>1. ASSUME NEW r \in E, IsStrictPrefix(q, r) PROVE FALSE
    <3>1. r \in Path
      BY <1>1
    <3>2. IsStrictPrefix(p, r)
      BY <1>1, <1>4, <2>1, <3>1, PrefixesJoin
    <3>3. PICK k \in Nat : r = Child(p, k)
      BY <1>3, <3>2
    <3>4. IsPrefix(q, p)
      BY <1>1, <2>1, <3>3, PrefixOfChild
    <3>5. QED
      BY <1>1, <1>4, <3>4, PrefixesJoin
  <2>2. Below(E, q) = {}
    BY <2>1 DEF Below
  <2>3. QED
    BY <1>4, <2>2, FS_EmptySet
<1>5. CASE ~IsStrictPrefix(p, q) /\ IsPrefix(q, p)
  <2>1. PICK S, T : S = Below(D, q) /\ T = Below(E, q)
    OBVIOUS
  <2>2. \A r \in Path : IsStrictPrefix(p, r) => IsStrictPrefix(q, r)
    BY <1>1, <1>5, PrefixesJoin
  <2>3. \A r \in Path : IsStrictPrefix(p, r) => (r \in D => r \in S) /\ (r \in E => r \in T)
    BY <2>1, <2>2 DEF Below
  <2>4. \A r \in Path : ~IsStrictPrefix(p, r) => (r \in S <=> r \in T)
    BY <1>2, <2>1 DEF Below
  <2>5. S \subseteq D /\ T \subseteq E
    BY <2>1 DEF Below
  <2>6. Cardinality(T) = Cardinality(S) - Cardinality(Below(D, p)) + n
    BY <2>3, <2>4, <2>5, ReplacedCounts
  <2>7. QED
    BY <1>5, <2>1, <2>6
<1>6. CASE ~IsStrictPrefix(p, q) /\ ~IsPrefix(q, p)
  <2>1. ~IsPrefix(p, q)
    BY <1>1, <1>6, PrefixesJoin
  <2>2. ASSUME NEW r \in Path, IsStrictPrefix(q, r) PROVE ~IsStrictPrefix(p, r)
    <3>1. SUFFICES ASSUME IsStrictPrefix(p, r) PROVE FALSE
      OBVIOUS
    <3>2. IsPrefix(p, r) /\ IsPrefix(q, r)
      BY <2>2, <3>1 DEF IsStrictPrefix
    <3>3. IsPrefix(p, q) \/ IsStrictPrefix(q, p)
      BY <1>1, <3>2, PrefixesJoin
    <3>4. QED
      BY <1>6, <2>1, <3>3 DEF IsStrictPrefix
  <2>3. Below(E, q) = Below(D, q)
    BY <1>1, <1>2, <2>2 DEF Below
  <2>4. QED
    BY <1>6, <2>3
<1>7. QED
  BY <1>4, <1>5, <1>6

\* Items before p keep their indices, and later ones move by the difference.
LEMMA ReplacedIndexes ==
    ASSUME NEW D, IsTree(D), NEW p \in D, NEW n \in Nat, NEW E, E = Replaced(D, p, n),
           NEW q \in D, ~IsStrictPrefix(p, q),
           NEW V, V = D \ {<< >>}, NEW W, W = E \ {<< >>}
    PROVE  /\ q \in E
           /\ ~Less(p, q) => Before(W, q) = Before(V, q)
           /\ Less(p, q) =>
                  /\ Cardinality(Before(W, q)) =
                         Cardinality(Before(V, q)) - Cardinality(Below(D, p)) + n
                  /\ Cardinality(Before(V, q)) \in Nat
                  /\ Cardinality(Below(D, p)) \in Nat
                  /\ Cardinality(Below(D, p)) <= Cardinality(Before(V, q))
<1>1. p \in Path /\ D \subseteq Path /\ E \subseteq Path /\ q \in Path
  BY ReplacedIs DEF IsTree
<1>2. \A r \in Path : ~IsStrictPrefix(p, r) => (r \in E <=> r \in D)
  BY ReplacedIs
<1>3. \A r \in Path : IsStrictPrefix(p, r) => r # << >>
  <2>1. ASSUME NEW r \in Path, IsStrictPrefix(p, r), r = << >> PROVE FALSE
    <3>1. Len(r) = 0 /\ Len(p) \in Nat
      BY <1>1, <2>1, PathIs
    <3>2. QED
      BY <1>1, <2>1, <3>1, PrefixIs
  <2>2. QED
    BY <2>1
<1>4. ASSUME ~Less(p, q) PROVE Before(W, q) = Before(V, q)
  <2>1. ASSUME NEW r \in Path, Less(r, q) PROVE ~IsStrictPrefix(p, r)
    <3>1. SUFFICES ASSUME IsStrictPrefix(p, r) PROVE FALSE
      OBVIOUS
    <3>2. Less(p, r)
      BY <3>1 DEF Less
    <3>3. QED
      BY <1>1, <1>4, <2>1, <3>2, LessIsTransitive
  <2>2. QED
    BY <1>1, <1>2, <2>1 DEF Before
<1>5. ASSUME Less(p, q), NEW r \in Path, IsStrictPrefix(p, r) PROVE Less(r, q)
  <2>1. CASE p = << >>
    <3>1. Len(p) = 0 /\ Len(q) \in Nat
      BY <1>1, <2>1, PathIs
    <3>2. q # p
      BY <1>1, <1>5, LessIsStrict
    <3>3. Len(q) # 0
      BY <1>1, <2>1, <3>2, PathIs
    <3>4. IsStrictPrefix(p, q)
      BY <1>1, <3>1, <3>3, PrefixIs DEF Same
    <3>5. QED
      BY <3>4
  <2>2. CASE p # << >>
    <3>1. PICK b \in Path, j \in Nat : p = Child(b, j)
      BY <1>1, <2>2, ParentIs
    <3>2. PICK s \in Path : s = Child(b, j + 1)
      <4>1. PICK k \in Nat : k = j + 1
        OBVIOUS
      <4>2. Child(b, k) \in Path
        BY ChildIsPath
      <4>3. QED
        BY <4>1, <4>2
    <3>3. IsPrefix(p, r)
      BY <1>5 DEF IsStrictPrefix
    <3>4. Less(r, s)
      BY <1>5, <3>1, <3>2, <3>3, NextSibling
    <3>5. ~IsPrefix(p, q)
      BY <1>1, <1>5, LessIsStrict, PrefixesJoin
    <3>6. ~Less(q, s)
      BY <1>1, <1>5, <3>1, <3>2, <3>5, NextSibling, LessIsStrict
    <3>7. q = s \/ Less(s, q)
      BY <1>1, <3>6, LessIsTotal
    <3>8. QED
      BY <1>1, <1>5, <3>4, <3>7, LessIsTransitive
  <2>3. QED
    BY <2>1, <2>2
<1>6. ASSUME Less(p, q)
      PROVE  /\ Cardinality(Before(W, q)) =
                    Cardinality(Before(V, q)) - Cardinality(Below(D, p)) + n
             /\ Cardinality(Before(V, q)) \in Nat
             /\ Cardinality(Below(D, p)) \in Nat
             /\ Cardinality(Below(D, p)) <= Cardinality(Before(V, q))
  <2>1. PICK S, T : S = Before(V, q) /\ T = Before(W, q)
    OBVIOUS
  <2>2. \A r \in Path : IsStrictPrefix(p, r) => (r \in D => r \in S) /\ (r \in E => r \in T)
    BY <1>3, <1>5, <1>6, <2>1 DEF Before
  <2>3. \A r \in Path : ~IsStrictPrefix(p, r) => (r \in S <=> r \in T)
    BY <1>2, <2>1 DEF Before
  <2>4. S \subseteq D /\ T \subseteq E
    BY <2>1 DEF Before
  <2>5. /\ Cardinality(T) = Cardinality(S) - Cardinality(Below(D, p)) + n
        /\ Cardinality(S) \in Nat /\ Cardinality(Below(D, p)) \in Nat
        /\ Cardinality(Below(D, p)) <= Cardinality(S)
    BY <2>2, <2>3, <2>4, ReplacedCounts
  <2>6. QED
    BY <2>1, <2>5
<1>7. QED
  BY <1>1, <1>2, <1>4, <1>6

-----------------------------------------------------------------------------
(* The tree in view and the program's items change together *)

\* The children of the program's items are numbered from 0.
LEMMA ModelIs ==
    ASSUME NEW M, IsTree(M \cup {<< >>}), << >> \notin M
    PROVE  /\ M \subseteq Path
           /\ \A x \in M \cup {<< >>} :
                  /\ x \in Path
                  /\ Cardinality(ChildrenIn(M, x)) \in Nat
                  /\ Kids(M, x, Cardinality(ChildrenIn(M, x)))
                  /\ \A n \in Nat : Kids(M, x, n) <=> Kids(M \cup {<< >>}, x, n)
<1>1. M \subseteq Path /\ << >> \in Path
  BY DEF IsTree
<1>2. ASSUME NEW x \in M \cup {<< >>}
      PROVE  /\ x \in Path
             /\ Cardinality(ChildrenIn(M, x)) \in Nat
             /\ Kids(M, x, Cardinality(ChildrenIn(M, x)))
             /\ \A n \in Nat : Kids(M, x, n) <=> Kids(M \cup {<< >>}, x, n)
  <2>1. x \in Path
    BY <1>1
  <2>2. \A k \in Nat : Child(x, k) \in M <=> Child(x, k) \in M \cup {<< >>}
    BY <2>1, ChildIsPath
  <2>3. \A n \in Nat : Kids(M, x, n) <=> Kids(M \cup {<< >>}, x, n)
    BY <2>2 DEF Kids
  <2>4. PICK n \in Nat : Kids(M \cup {<< >>}, x, n)
    BY DEF IsTree
  <2>5. Kids(M, x, n)
    BY <2>3, <2>4
  <2>6. Cardinality(ChildrenIn(M, x)) = n
    BY <1>1, <2>1, <2>5, KidsAreCounted
  <2>7. QED
    BY <2>1, <2>3, <2>5, <2>6
<1>3. QED
  BY <1>1, <1>2

\* The program's items are a tree after one is added or removed.
LEMMA ModelGrows ==
    ASSUME NEW M, IsTree(M \cup {<< >>}), << >> \notin M,
           NEW b \in M \cup {<< >>}, NEW j \in Nat,
           j <= Cardinality(ChildrenIn(M, b)),
           NEW N, N = Ups(M, b, j) \cup {Child(b, j)}
    PROVE  Shift(M, N, b, j) /\ IsTree(N \cup {<< >>}) /\ << >> \notin N
<1>1. PICK T : T = M \cup {<< >>}
  OBVIOUS
<1>2. b \in Path /\ M \subseteq Path /\ << >> \in Path
  BY ModelIs DEF IsTree
<1>3. PICK n \in Nat : n = Cardinality(ChildrenIn(M, b)) /\ Kids(T, b, n)
  BY <1>1, ModelIs
<1>4. \A q \in Path : Up(q, b, j) \in Path /\ (Up(q, b, j) = << >> <=> q = << >>)
  BY <1>2, UpIsPath
<1>5. Up(<< >>, b, j) = << >> /\ Child(b, j) # << >>
  BY <1>2, <1>4, ChildIsPath
<1>6. PICK U : U = Ups(T, b, j) \cup {Child(b, j)}
  OBVIOUS
<1>7. U = N \cup {<< >>} /\ << >> \notin N
  <2>1. Ups(T, b, j) = Ups(M, b, j) \cup {<< >>}
    BY <1>1, <1>5 DEF Ups
  <2>2. << >> \notin Ups(M, b, j)
    BY <1>2, <1>4 DEF Ups
  <2>3. QED
    BY <1>5, <1>6, <2>1, <2>2
<1>8. Shift(T, U, b, j) /\ IsTree(U)
  BY <1>1, <1>3, <1>6, Grown
<1>9. Shift(M, N, b, j)
  <2>1. N \subseteq Path
    BY <1>7, <1>8 DEF Shift
  <2>2. ASSUME NEW q \in Path PROVE Up(q, b, j) \in N <=> q \in M
    <3>1. Up(q, b, j) \in U <=> q \in T
      BY <1>8 DEF Shift
    <3>2. QED
      BY <1>1, <1>4, <1>7, <3>1
  <2>3. QED
    BY <1>2, <2>1, <2>2 DEF Shift
<1>10. QED
  BY <1>7, <1>8, <1>9

LEMMA ModelShrinks ==
    ASSUME NEW N, IsTree(N \cup {<< >>}), << >> \notin N,
           NEW b \in Path, NEW j \in Nat, Child(b, j) \in N,
           NEW M, M = {Down(q, b, j) : q \in {r \in N : ~IsPrefix(Child(b, j), r)}}
    PROVE  Shift(M, N, b, j) /\ IsTree(M \cup {<< >>}) /\ << >> \notin M
<1>1. PICK U : U = N \cup {<< >>}
  OBVIOUS
<1>2. N \subseteq Path /\ << >> \in Path
  BY ModelIs DEF IsTree
<1>3. PICK T : T = {Down(q, b, j) : q \in {r \in U : ~IsPrefix(Child(b, j), r)}}
  OBVIOUS
<1>4. Shift(T, U, b, j) /\ IsTree(T)
  BY <1>1, <1>3, Shrunk
<1>5. \A q \in Path : Up(q, b, j) \in Path /\ (Up(q, b, j) = << >> <=> q = << >>)
  BY UpIsPath
<1>6. ~IsPrefix(Child(b, j), << >>) /\ Down(<< >>, b, j) = << >>
  <2>1. Up(<< >>, b, j) = << >>
    BY <1>2, <1>5
  <2>2. ~IsPrefix(Child(b, j), Up(<< >>, b, j))
    BY <1>2, UpStays
  <2>3. Down(Up(<< >>, b, j), b, j) = << >>
    BY <1>2, DownOfUp
  <2>4. QED
    BY <2>1, <2>2, <2>3
<1>7. T = M \cup {<< >>}
  BY <1>1, <1>3, <1>6
<1>8. << >> \notin M
  <2>1. ASSUME NEW q \in N, ~IsPrefix(Child(b, j), q), Down(q, b, j) = << >> PROVE FALSE
    <3>1. q \in Path /\ Up(Down(q, b, j), b, j) = q
      BY <1>2, <2>1, UpOfDown
    <3>2. q = << >>
      BY <1>2, <1>5, <2>1, <3>1
    <3>3. QED
      BY <3>2
  <2>2. QED
    BY <2>1
<1>9. Shift(M, N, b, j)
  <2>1. M \subseteq Path
    BY <1>4, <1>7 DEF Shift
  <2>2. ASSUME NEW q \in Path PROVE Up(q, b, j) \in N <=> q \in M
    <3>1. Up(q, b, j) \in U <=> q \in T
      BY <1>4 DEF Shift
    <3>2. QED
      BY <1>1, <1>5, <1>7, <1>8, <3>1
  <2>3. QED
    BY <1>2, <2>1, <2>2 DEF Shift
<1>10. QED
  BY <1>4, <1>7, <1>8, <1>9

\* Which items show all of theirs is the same before and after.
LEMMA AlikeShift ==
    ASSUME NEW b \in Path, NEW j \in Nat,
           NEW A, NEW B, Shift(A, B, b, j), NEW M, NEW N, Shift(M, N, b, j)
    PROVE  /\ \A x \in Path : x # b =>
                  (AlikeAt(A, M, x) <=> AlikeAt(B, N, Up(x, b, j)))
           /\ Child(b, j) \in B /\ Child(b, j) \in N =>
                  ((\A k \in Nat : Child(b, k) \in A <=> Child(b, k) \in M)
                   <=> (\A k \in Nat : Child(b, k) \in B <=> Child(b, k) \in N))
<1>1. ASSUME NEW x \in Path, NEW k \in Nat, x # b
      PROVE  /\ Child(Up(x, b, j), k) \in B <=> Child(x, k) \in A
             /\ Child(Up(x, b, j), k) \in N <=> Child(x, k) \in M
  <2>1. Up(Child(x, k), b, j) = Child(Up(x, b, j), k)
    BY <1>1, UpOfChild
  <2>2. Child(x, k) \in Path
    BY ChildIsPath
  <2>3. QED
    BY <2>1, <2>2 DEF Shift
<1>2. ASSUME NEW k \in Nat
      PROVE  /\ k < j => /\ Child(b, k) \in B <=> Child(b, k) \in A
                         /\ Child(b, k) \in N <=> Child(b, k) \in M
             /\ k >= j => /\ Child(b, k + 1) \in B <=> Child(b, k) \in A
                          /\ Child(b, k + 1) \in N <=> Child(b, k) \in M
  <2>1. Child(b, k) \in Path
    BY ChildIsPath
  <2>2. PICK l \in Nat : l = k + 1
    OBVIOUS
  <2>3. /\ k < j => Up(Child(b, k), b, j) = Child(b, k)
        /\ k >= j => Up(Child(b, k), b, j) = Child(b, l)
    BY <2>2, UpOfChild
  <2>4. /\ Up(Child(b, k), b, j) \in B <=> Child(b, k) \in A
        /\ Up(Child(b, k), b, j) \in N <=> Child(b, k) \in M
    BY <2>1 DEF Shift
  <2>5. QED
    BY <2>2, <2>3, <2>4
<1>3. ASSUME NEW x \in Path, x # b
      PROVE  AlikeAt(A, M, x) <=> AlikeAt(B, N, Up(x, b, j))
  BY <1>1, <1>3 DEF AlikeAt
<1>4. ASSUME Child(b, j) \in B, Child(b, j) \in N,
             \A k \in Nat : Child(b, k) \in A <=> Child(b, k) \in M,
             NEW k \in Nat
      PROVE  Child(b, k) \in B <=> Child(b, k) \in N
  <2>1. CASE k < j
    BY <1>2, <1>4, <2>1
  <2>2. CASE k = j
    BY <1>4, <2>2
  <2>3. CASE k > j
    <3>1. PICK l \in Nat : k = l + 1 /\ l >= j
      <4>1. k - 1 \in Nat /\ k = (k - 1) + 1 /\ k - 1 >= j
        BY <2>3
      <4>2. QED
        BY <4>1
    <3>2. QED
      BY <1>2, <1>4, <3>1
  <2>4. QED
    BY <2>1, <2>2, <2>3
<1>5. ASSUME \A k \in Nat : Child(b, k) \in B <=> Child(b, k) \in N,
             NEW k \in Nat
      PROVE  Child(b, k) \in A <=> Child(b, k) \in M
  <2>1. CASE k < j
    BY <1>2, <1>5, <2>1
  <2>2. CASE k >= j
    <3>1. PICK l \in Nat : l = k + 1
      OBVIOUS
    <3>2. QED
      BY <1>2, <1>5, <2>2, <3>1
  <2>3. QED
    BY <2>1, <2>2
<1>6. QED
  BY <1>3, <1>4, <1>5

\* An item without children has nothing below it.
LEMMA NoneBelow ==
    ASSUME NEW D, IsTree(D), NEW b \in Path, \A k \in Nat : Child(b, k) \notin D
    PROVE  Below(D, b) = {} /\ \A q \in D : ~IsStrictPrefix(b, q)
<1>1. ASSUME NEW x \in D, IsStrictPrefix(b, x) PROVE FALSE
  <2>1. x \in Path
    BY DEF IsTree
  <2>2. Len(b) \in Nat /\ Len(x) \in Nat
    BY <2>1, PathIs
  <2>3. Len(b) < Len(x)
    BY <1>1, <2>1, <2>2, PrefixIs
  <2>4. PICK n : n = Len(b) + 1 /\ n \in 1 .. Len(x) /\ n \in 0 .. Len(x) /\ n - 1 = Len(b)
    BY <2>2, <2>3
  <2>5. Part(x, n) = Child(Part(x, n - 1), x[n]) /\ x[n] \in Nat
    BY <2>1, <2>4, PartOf
  <2>6. b = Part(x, Len(b))
    <3>1. IsPrefix(b, x)
      BY <1>1 DEF IsStrictPrefix
    <3>2. QED
      BY <2>1, <3>1, PrefixIsPart
  <2>7. Part(x, n) \in D
    BY <2>4, PartsAreIn
  <2>8. QED
    BY <2>4, <2>5, <2>6, <2>7
<1>2. QED
  BY <1>1 DEF Below

\* A change below an item that shows none of its items is not seen.
LEMMA HiddenKeeps ==
    ASSUME NEW sz, NEW M, KeptTree(sz, M), NEW b \in Path, NEW j \in Nat,
           \A k \in Nat : Child(b, k) \notin DOMAIN sz,
           NEW N, Shift(M, N, b, j) \/ Shift(N, M, b, j),
           IsTree(N \cup {<< >>}), << >> \notin N
    PROVE  KeptTree(sz, N)
<1>1. PICK D : D = DOMAIN sz
  OBVIOUS
<1>2. IsTree(D) /\ D \subseteq Path
  BY <1>1 DEF KeptTree, IsTree
<1>3. \A x \in D : ~IsStrictPrefix(b, x)
  BY <1>1, <1>2, NoneBelow
<1>4. ASSUME NEW x \in D PROVE Up(x, b, j) = x
  <2>1. x \in Path
    BY <1>2
  <2>2. ~Beyond(x, b, j)
    <3>1. SUFFICES ASSUME Beyond(x, b, j) PROVE FALSE
      OBVIOUS
    <3>2. IsStrictPrefix(b, x)
      BY <2>1, <3>1, PrefixIs DEF Beyond
    <3>3. QED
      BY <1>3, <3>2
  <2>3. IsUp(Up(x, b, j), x, b, j)
    BY <2>1, UpIs
  <2>4. QED
    BY <2>2, <2>3 DEF IsUp
<1>5. ASSUME NEW q \in Path, Up(q, b, j) = q PROVE q \in M <=> q \in N
  BY <1>5 DEF Shift
<1>6. D \ {<< >>} \subseteq N
  BY <1>1, <1>2, <1>4, <1>5 DEF KeptTree
<1>7. ASSUME NEW x \in D PROVE AlikeAt(D, N, x)
  <2>1. AlikeAt(D, M, x) /\ x \in Path
    BY <1>1, <1>2 DEF KeptTree
  <2>2. CASE x = b
    BY <1>1, <2>2 DEF AlikeAt
  <2>3. CASE x # b
    <3>1. ASSUME NEW k \in Nat PROVE Child(x, k) \in M <=> Child(x, k) \in N
      <4>1. Up(Child(x, k), b, j) = Child(Up(x, b, j), k)
        BY <2>1, <2>3, UpOfChild
      <4>2. Up(Child(x, k), b, j) = Child(x, k) /\ Child(x, k) \in Path
        BY <1>4, <2>1, <4>1, ChildIsPath
      <4>3. QED
        BY <1>5, <4>2
    <3>2. QED
      BY <2>1, <3>1 DEF AlikeAt
  <2>4. QED
    BY <2>2, <2>3
<1>8. QED
  BY <1>1, <1>6, <1>7 DEF KeptTree

-----------------------------------------------------------------------------
(* The methods of Tree *)

\* The values that the definitions of the model have for the sizes sz.
ResetOf(sz, p, n) ==
    LET kept == {q \in DOMAIN sz : ~IsStrictPrefix(p, q)}
        new == {Append(p, k) : k \in 0 .. n - 1}
    IN [q \in kept \cup new |->
           IF q \in new THEN 0
           ELSE IF IsPrefix(q, p) THEN sz[q] - sz[p] + n
           ELSE sz[q]]

AddOf(sz, p) ==
    [q \in {Moved(r, p, 1) : r \in DOMAIN sz} \cup {p} |->
        IF q = p THEN 0
        ELSE LET r == CHOOSE r \in DOMAIN sz : Moved(r, p, 1) = q
             IN IF IsPrefix(q, p) THEN sz[r] + 1 ELSE sz[r]]

RemoveOf(sz, p) ==
    LET kept == {r \in DOMAIN sz : ~IsPrefix(p, r)}
    IN [q \in {Moved(r, p, -1) : r \in kept} |->
           LET r == CHOOSE r \in kept : Moved(r, p, -1) = q
           IN IF IsStrictPrefix(r, p) THEN sz[r] - (sz[p] + 1) ELSE sz[r]]

\* They are the methods of the tree that the state has.
LEMMA TheMethods ==
    ASSUME NEW p, NEW n
    PROVE  /\ resetChildren(p, n) = ResetOf(size, p, n)
           /\ add(p) = AddOf(size, p)
           /\ remove(p) = RemoveOf(size, p)
BY DEF resetChildren, add, remove, ResetOf, AddOf, RemoveOf

\* resetChildren() and removeAll(), for no items or all that the program has.
LEMMA ResetKeeps ==
    ASSUME NEW sz, NEW M, KeptTree(sz, M), NEW p \in DOMAIN sz, NEW n \in Nat,
           n = 0 \/ Kids(M, p, n)
    PROVE  /\ KeptTree(ResetOf(sz, p, n), M)
           /\ DOMAIN ResetOf(sz, p, n) = Replaced(DOMAIN sz, p, n)
<1>1. PICK D, E, s : D = DOMAIN sz /\ s = ResetOf(sz, p, n) /\ E = Replaced(D, p, n)
  OBVIOUS
<1> DEFINE new == {Child(p, k) : k \in 0 .. n - 1}
<1>2. IsTree(D) /\ D \subseteq Path /\ p \in Path /\ p \in D
  BY <1>1 DEF KeptTree, IsTree
<1>3. DOMAIN s = E /\ \A q \in E :
          s[q] = IF q \in new THEN 0
                 ELSE IF IsPrefix(q, p) THEN sz[q] - sz[p] + n ELSE sz[q]
  BY <1>1 DEF ResetOf, Replaced, Child
<1>4. IsTree(E) /\ p \in E
  BY <1>1, <1>2, ReplacedIsTree
<1>5. E \subseteq Path
  BY <1>4 DEF IsTree
<1>6. \A q \in E : q \in new <=> IsStrictPrefix(p, q)
  <2>1. ASSUME NEW q \in new PROVE IsStrictPrefix(p, q)
    <3>1. PICK k \in Nat : q = Child(p, k)
      OBVIOUS
    <3>2. QED
      BY <1>2, <3>1, ChildIsBelow
  <2>2. ASSUME NEW q \in E, IsStrictPrefix(p, q) PROVE q \in new
    BY <1>1, <2>2 DEF Replaced
  <2>3. QED
    BY <2>1, <2>2
<1> HIDE DEF new
<1>7. ASSUME NEW q \in E PROVE s[q] = Cardinality(Below(E, q))
  <2>1. Cardinality(Below(E, q)) =
            IF IsStrictPrefix(p, q) THEN 0
            ELSE IF IsPrefix(q, p)
                 THEN Cardinality(Below(D, q)) - Cardinality(Below(D, p)) + n
                 ELSE Cardinality(Below(D, q))
    BY <1>1, <1>2, ReplacedSizes
  <2>2. ~IsStrictPrefix(p, q) => q \in D
    BY <1>1, <1>2, <1>5, ReplacedIs
  <2>3. \A x \in D : sz[x] = Cardinality(Below(D, x))
    BY <1>1 DEF KeptTree
  <2>4. QED
    BY <1>2, <1>3, <1>6, <2>1, <2>2, <2>3
<1>8. ASSUME NEW x \in E PROVE AlikeAt(E, M, x)
  <2>1. x \in Path
    BY <1>5
  <2>2. CASE x = p
    <3>1. Kids(E, p, n)
      BY <1>1, <1>2, ReplacedIs
    <3>2. CASE n = 0
      <4>1. \A k \in Nat : Child(p, k) \notin E
        BY <3>1, <3>2 DEF Kids
      <4>2. QED
        BY <2>2, <4>1 DEF AlikeAt
    <3>3. CASE Kids(M, p, n)
      <4>1. \A k \in Nat : Child(p, k) \in E <=> Child(p, k) \in M
        BY <3>1, <3>3 DEF Kids
      <4>2. QED
        BY <2>2, <4>1 DEF AlikeAt
    <3>4. QED
      BY <3>2, <3>3
  <2>3. CASE x # p
    <3>1. \A k \in Nat : Child(x, k) \in E <=> Child(x, k) \in D /\ ~IsPrefix(p, x)
      BY <1>1, <1>2, <2>1, <2>3, ReplacedIs
    <3>2. CASE IsPrefix(p, x)
      BY <3>1, <3>2 DEF AlikeAt
    <3>3. CASE ~IsPrefix(p, x)
      <4>1. x \in D
        BY <1>1, <1>2, <2>1, <3>3, ReplacedIs DEF IsStrictPrefix
      <4>2. AlikeAt(D, M, x)
        BY <1>1, <4>1 DEF KeptTree
      <4>3. QED
        BY <3>1, <3>3, <4>2 DEF AlikeAt
    <3>4. QED
      BY <3>2, <3>3
  <2>4. QED
    BY <2>2, <2>3
<1>9. ASSUME NEW q \in E, q # << >> PROVE q \in M
  <2>1. q \in Path
    BY <1>5
  <2>2. CASE IsStrictPrefix(p, q)
    <3>1. PICK k \in Nat : k < n /\ q = Child(p, k)
      BY <1>1, <1>2, <2>2, ReplacedIs
    <3>2. Kids(M, p, n)
      BY <3>1
    <3>3. QED
      BY <3>1, <3>2 DEF Kids
  <2>3. CASE ~IsStrictPrefix(p, q)
    <3>1. q \in D
      BY <1>1, <1>2, <2>1, <2>3, ReplacedIs
    <3>2. QED
      BY <1>1, <1>9, <3>1 DEF KeptTree
  <2>4. QED
    BY <2>2, <2>3
<1>10. KeptTree(s, M)
  <2>1. IsTree(M \cup {<< >>}) /\ << >> \notin M
    BY DEF KeptTree
  <2>2. QED
    BY <1>3, <1>4, <1>7, <1>8, <1>9, <2>1 DEF KeptTree
<1>11. QED
  BY <1>1, <1>3, <1>10

\* An item can be added in view as the j-th below b, and what that does.
CanAdd(sz, M, b, n, j) ==
    /\ KeptTree(sz, M) /\ b \in DOMAIN sz
    /\ n \in Nat /\ Kids(DOMAIN sz, b, n) /\ n # 0 /\ j <= n

Adds(sz, M, b, j) ==
    /\ KeptTree(AddOf(sz, Child(b, j)), Ups(M, b, j) \cup {Child(b, j)})
    /\ DOMAIN AddOf(sz, Child(b, j)) = Ups(DOMAIN sz, b, j) \cup {Child(b, j)}

\* add(), where the parent has items in view.
LEMMA AddKeeps ==
    ASSUME NEW sz, NEW M, NEW b, NEW n, NEW j \in Nat, CanAdd(sz, M, b, n, j)
    PROVE  Adds(sz, M, b, j)
<1>0. PICK N : N = Ups(M, b, j) \cup {Child(b, j)}
  OBVIOUS
<1> USE DEF CanAdd
<1>1. PICK D, E, p, s : /\ D = DOMAIN sz /\ p = Child(b, j) /\ s = AddOf(sz, p)
                        /\ E = Ups(D, b, j) \cup {p}
  OBVIOUS
<1>2. /\ IsTree(D) /\ D \subseteq Path /\ b \in Path /\ p \in Path /\ b \in D
      /\ IsFiniteSet(D) /\ IsTree(M \cup {<< >>}) /\ << >> \notin M
  BY <1>1, ChildIsPath DEF KeptTree, IsTree
<1>3. Shift(D, E, b, j) /\ IsTree(E) /\ Family(E, p) = {p}
  BY <1>1, <1>2, Grown
<1>4. E \subseteq Path /\ IsFiniteSet(E)
  BY <1>3 DEF IsTree
<1>5. (\A k \in Nat : Child(b, k) \in D <=> Child(b, k) \in M) /\ Kids(M, b, n)
  <2>1. AlikeAt(D, M, b)
    BY <1>1 DEF KeptTree
  <2>2. Child(b, 0) \in D
    BY <1>1 DEF Kids
  <2>3. QED
    BY <1>1, <2>1, <2>2 DEF AlikeAt, Kids
<1>6. Shift(M, N, b, j) /\ IsTree(N \cup {<< >>}) /\ << >> \notin N
  <2>1. b \in M \cup {<< >>}
    BY <1>1 DEF KeptTree
  <2>2. M \subseteq Path
    BY <1>2, ModelIs
  <2>3. Cardinality(ChildrenIn(M, b)) = n
    BY <1>2, <1>5, <2>2, KidsAreCounted
  <2>4. QED
    BY <1>0, <1>2, <2>1, <2>3, ModelGrows
<1>7. DOMAIN s = E /\ \A q \in E : q # p =>
          s[q] = LET r == CHOOSE r \in D : Up(r, b, j) = q
                 IN IF IsPrefix(q, p) THEN sz[r] + 1 ELSE sz[r]
  BY <1>1 DEF AddOf, Ups, Up
<1>8. s[p] = 0
  BY <1>1 DEF AddOf
<1>9. \A q \in E : q = p \/ (q # p /\ \E r \in D : q = Up(r, b, j))
  BY <1>1 DEF Ups
<1>10. ASSUME NEW q \in E PROVE s[q] = Cardinality(Below(E, q))
  <2>1. CASE q = p
    <3>1. \A r \in E : ~IsStrictPrefix(p, r)
      <4>1. ASSUME NEW r \in E, IsStrictPrefix(p, r) PROVE FALSE
        <5>1. r \in Family(E, p)
          BY <4>1 DEF Family, IsStrictPrefix
        <5>2. r = p
          BY <1>3, <5>1
        <5>3. QED
          BY <4>1, <5>2 DEF IsStrictPrefix
      <4>2. QED
        BY <4>1
    <3>2. Below(E, p) = {}
      BY <3>1 DEF Below
    <3>3. QED
      BY <1>8, <2>1, <3>2, FS_EmptySet
  <2>2. CASE q # p
    <3>1. PICK r \in D : q = Up(r, b, j)
      BY <1>9, <2>2
    <3>2. r \in Path
      BY <1>2
    <3>3. (CHOOSE x \in D : Up(x, b, j) = q) = r
      BY <1>2, <3>1, <3>2, UpIsInjective
    <3>4. s[q] = IF IsPrefix(q, p) THEN sz[r] + 1 ELSE sz[r]
      BY <1>7, <2>2, <3>3
    <3>5. sz[r] = Cardinality(Below(D, r))
      BY <1>1, <3>1 DEF KeptTree
    <3>6. Cardinality(Below(E, Up(r, b, j))) =
              Cardinality(Below(D, r))
                  + (IF IsStrictPrefix(r, p) THEN Cardinality(Family(E, p)) ELSE 0)
      BY <1>1, <1>2, <1>3, <1>4, <3>2, ShiftCounts
    <3>7. Cardinality(Family(E, p)) = 1
      BY <1>3, FS_Singleton
    <3>8. IsPrefix(q, p) <=> IsStrictPrefix(r, p)
      <4>1. IsStrictPrefix(Up(r, b, j), p) <=> IsStrictPrefix(r, p)
        BY <1>1, <1>2, <3>2, UpStays
      <4>2. QED
        BY <2>2, <3>1, <4>1 DEF IsStrictPrefix
    <3>9. Cardinality(Below(D, r)) \in Nat
      BY <1>2, FS_Subset, FS_CardinalityType DEF Below
    <3>10. QED
      BY <3>1, <3>4, <3>5, <3>6, <3>7, <3>8, <3>9
  <2>3. QED
    BY <2>1, <2>2
<1>11. ASSUME NEW q \in E, q # << >> PROVE q \in N
  <2>1. CASE q = p
    BY <1>0, <1>1, <2>1
  <2>2. CASE q # p
    <3>1. PICK r \in D : q = Up(r, b, j)
      BY <1>9, <2>2
    <3>2. r # << >>
      BY <1>2, <1>11, <3>1, UpIsPath
    <3>3. r \in M
      BY <1>1, <3>1, <3>2 DEF KeptTree
    <3>4. QED
      BY <1>0, <3>1, <3>3 DEF Ups
  <2>3. QED
    BY <2>1, <2>2
<1>12. ASSUME NEW x \in E PROVE AlikeAt(E, N, x)
  <2>1. CASE x = p
    <3>1. ASSUME NEW k \in Nat, Child(p, k) \in E PROVE FALSE
      <4>1. IsStrictPrefix(p, Child(p, k))
        BY <1>2, ChildIsBelow
      <4>2. Child(p, k) \in Family(E, p)
        BY <3>1, <4>1 DEF Family, IsStrictPrefix
      <4>3. Child(p, k) = p
        BY <1>3, <4>2
      <4>4. QED
        BY <4>1, <4>3 DEF IsStrictPrefix
    <3>2. QED
      BY <2>1, <3>1 DEF AlikeAt
  <2>2. CASE x # p
    <3>1. PICK r \in D : x = Up(r, b, j)
      BY <1>9, <2>2
    <3>2. r \in Path /\ AlikeAt(D, M, r)
      BY <1>1, <1>2, <3>1 DEF KeptTree
    <3>3. CASE r # b
      BY <1>2, <1>3, <1>6, <3>1, <3>2, <3>3, AlikeShift
    <3>4. CASE r = b
      <4>1. Up(b, b, j) = b
        <5>1. Len(b) \in Nat
          BY <1>2, PathIs
        <5>2. QED
          BY <1>2, <5>1, UpStays
      <4>2. Child(b, j) \in E /\ Child(b, j) \in N
        BY <1>0, <1>1
      <4>3. \A k \in Nat : Child(b, k) \in E <=> Child(b, k) \in N
        BY <1>2, <1>3, <1>5, <1>6, <4>2, AlikeShift
      <4>4. QED
        BY <3>1, <3>4, <4>1, <4>3 DEF AlikeAt
    <3>5. QED
      BY <3>3, <3>4
  <2>3. QED
    BY <2>1, <2>2
<1>13. KeptTree(s, N)
  BY <1>3, <1>6, <1>7, <1>10, <1>11, <1>12 DEF KeptTree
<1>14. QED
  BY <1>0, <1>1, <1>7, <1>13 DEF Adds

\* An item and what is below it.
LEMMA FamilyCounts ==
    ASSUME NEW D, IsTree(D), NEW b \in Path, NEW j \in Nat, Child(b, j) \in D
    PROVE  /\ Cardinality(Family(D, Child(b, j))) = Cardinality(Below(D, Child(b, j))) + 1
           /\ Cardinality(Below(D, Child(b, j))) \in Nat
<1>1. PICK p : p = Child(b, j)
  OBVIOUS
<1>2. D \subseteq Path /\ IsFiniteSet(D) /\ p \in D /\ p \in Path
  BY <1>1 DEF IsTree
<1>3. \A q \in Path : IsPrefix(p, q) <=> q = p \/ IsStrictPrefix(p, q)
  BY <1>1, FamilyIs
<1>4. ~IsStrictPrefix(p, p)
  BY DEF IsStrictPrefix
<1>5. Family(D, p) = Below(D, p) \cup {p} /\ p \notin Below(D, p)
  BY <1>2, <1>3, <1>4 DEF Family, Below
<1>6. IsFiniteSet(Below(D, p)) /\ Cardinality(Below(D, p)) \in Nat
  BY <1>2, FS_Subset, FS_CardinalityType DEF Below
<1>7. QED
  BY <1>1, <1>5, <1>6, FS_AddElement

\* remove(), of an item in view.
LEMMA RemoveKeeps ==
    ASSUME NEW sz, NEW M, KeptTree(sz, M), NEW b \in Path, NEW j \in Nat,
           Child(b, j) \in DOMAIN sz,
           NEW N, N = {Down(q, b, j) : q \in {r \in M : ~IsPrefix(Child(b, j), r)}}
    PROVE  /\ KeptTree(RemoveOf(sz, Child(b, j)), N)
           /\ Shift(DOMAIN RemoveOf(sz, Child(b, j)), DOMAIN sz, b, j)
           /\ b \in DOMAIN RemoveOf(sz, Child(b, j))
<1>1. PICK D, A, p, s : /\ D = DOMAIN sz /\ p = Child(b, j) /\ s = RemoveOf(sz, p)
                        /\ A = {Down(q, b, j) : q \in {r \in D : ~IsPrefix(p, r)}}
  OBVIOUS
<1>2. /\ IsTree(D) /\ D \subseteq Path /\ p \in Path /\ p \in D /\ p # << >>
      /\ IsFiniteSet(D) /\ IsTree(M \cup {<< >>}) /\ << >> \notin M
  BY <1>1, ChildIsPath DEF KeptTree, IsTree
<1>3. Shift(A, D, b, j) /\ IsTree(A) /\ b \in A /\ b \in D
  BY <1>1, <1>2, Shrunk
<1>4. A \subseteq Path /\ IsFiniteSet(A)
  BY <1>3 DEF IsTree
<1>5. p \in M
  BY <1>1, <1>2 DEF KeptTree
<1>6. Shift(N, M, b, j) /\ IsTree(N \cup {<< >>}) /\ << >> \notin N
  <2>1. Child(b, j) \in M
    BY <1>1, <1>5
  <2>2. IsTree(M \cup {<< >>}) /\ << >> \notin M
    BY <1>2
  <2>3. N = {Down(q, b, j) : q \in {r \in M : ~IsPrefix(Child(b, j), r)}}
    OBVIOUS
  <2>4. QED
    BY ONLY <2>1, <2>2, <2>3, ModelShrinks, b \in Path, j \in Nat
<1>7. DOMAIN s = A /\ \A q \in A :
          s[q] = LET r == CHOOSE r \in {x \in D : ~IsPrefix(p, x)} : Down(r, b, j) = q
                 IN IF IsStrictPrefix(r, p) THEN sz[r] - (sz[p] + 1) ELSE sz[r]
  BY <1>1 DEF RemoveOf, Down
<1>8. \A q \in A : Up(q, b, j) \in D /\ q \in Path
  BY <1>3, <1>4 DEF Shift
<1>9. ASSUME NEW q \in A PROVE s[q] = Cardinality(Below(A, q))
  <2>1. PICK r \in D : ~IsPrefix(p, r) /\ q = Down(r, b, j)
    BY <1>1
  <2>2. r \in Path /\ q \in Path
    BY <1>2, <1>8
  <2>3. Up(q, b, j) = r
    BY <1>1, <2>1, <2>2, UpOfDown
  <2>4. (CHOOSE x \in {x \in D : ~IsPrefix(p, x)} : Down(x, b, j) = q) = r
    <3>1. ASSUME NEW x \in D, ~IsPrefix(p, x), Down(x, b, j) = q PROVE x = r
      <4>1. x \in Path
        BY <1>2
      <4>2. Up(Down(x, b, j), b, j) = x
        BY <1>1, <3>1, <4>1, UpOfDown
      <4>3. QED
        BY <2>3, <3>1, <4>2
    <3>2. QED
      BY <2>1, <3>1
  <2>5. s[q] = IF IsStrictPrefix(r, p) THEN sz[r] - (sz[p] + 1) ELSE sz[r]
    BY <1>7, <2>4
  <2>6. sz[r] = Cardinality(Below(D, r)) /\ sz[p] = Cardinality(Below(D, p))
    BY <1>1, <1>2, <2>1 DEF KeptTree
  <2>7. Cardinality(Below(D, Up(q, b, j))) =
            Cardinality(Below(A, q))
                + (IF IsStrictPrefix(q, p) THEN Cardinality(Family(D, p)) ELSE 0)
    BY <1>1, <1>2, <1>3, <1>4, <2>2, ShiftCounts
  <2>8. IsStrictPrefix(r, p) <=> IsStrictPrefix(q, p)
    BY <1>1, <2>2, <2>3, UpStays
  <2>9. /\ Cardinality(Family(D, p)) = Cardinality(Below(D, p)) + 1
        /\ Cardinality(Below(D, p)) \in Nat
    BY <1>1, <1>2, FamilyCounts
  <2>10. Cardinality(Below(A, q)) \in Nat
    BY <1>4, FS_Subset, FS_CardinalityType DEF Below
  <2>11. QED
    BY <2>3, <2>5, <2>6, <2>7, <2>8, <2>9, <2>10
<1>10. ASSUME NEW q \in A, q # << >> PROVE q \in N
  <2>1. Up(q, b, j) # << >> /\ Up(q, b, j) \in D
    BY <1>8, <1>10, UpIsPath
  <2>2. Up(q, b, j) \in M
    BY <1>1, <2>1 DEF KeptTree
  <2>3. QED
    BY <1>6, <1>8, <2>2 DEF Shift
<1>11. ASSUME NEW x \in A PROVE AlikeAt(A, N, x)
  <2>1. x \in Path /\ Up(x, b, j) \in D
    BY <1>8
  <2>2. AlikeAt(D, M, Up(x, b, j))
    BY <1>1, <2>1 DEF KeptTree
  <2>3. CASE x # b
    BY <1>3, <1>6, <2>1, <2>2, <2>3, AlikeShift
  <2>4. CASE x = b
    <3>1. AlikeAt(D, M, b)
      BY <1>1, <1>3 DEF KeptTree
    <3>2. \A k \in Nat : Child(b, k) \in D <=> Child(b, k) \in M
      BY <1>1, <1>2, <3>1 DEF AlikeAt
    <3>3. Child(b, j) \in D /\ Child(b, j) \in M
      BY <1>1, <1>2, <1>5
    <3>4. \A k \in Nat : Child(b, k) \in A <=> Child(b, k) \in N
      BY <1>3, <1>6, <3>2, <3>3, AlikeShift
    <3>5. QED
      BY <2>4, <3>4 DEF AlikeAt
  <2>5. QED
    BY <2>3, <2>4
<1>12. KeptTree(s, N)
  BY <1>3, <1>6, <1>7, <1>9, <1>10, <1>11 DEF KeptTree
<1>13. QED
  BY <1>1, <1>3, <1>7, <1>12

-----------------------------------------------------------------------------
(* The steps *)

\* The invariant.
TreeInv == KeptTree(size, model) /\ AtIndex(DOMAIN size, iter, iterIndex)

\* begin() in this state, so that it can be said of the next one.
BeginOK ==
    IsTree(DOMAIN size) =>
        \/ begin = end
        \/ (begin \in DOMAIN size \ {<< >>} /\ Before(DOMAIN size \ {<< >>}, begin) = {})

\* In the state after a step too.
LEMMA BeginIsOK == BeginOK
BY BeginIs, VisibleAre DEF BeginOK

\* The invariant holds at the beginning.
LEMMA InitKeeps ==
    ASSUME Init
    PROVE  TreeInv
<1>1. size = [p \in {<< >>} |-> 0] /\ model = {} /\ iter = << >> /\ iterIndex \in Nat
  BY TreeViewAssumption DEF Init, end
<1>2. DOMAIN size = {<< >>} /\ size[<< >>] = 0
  BY <1>1
<1>3. << >> \in Path
  BY DEF Path
<1>4. PICK D : D = {<< >>}
  OBVIOUS
<1>5. \A k \in Nat : Child(<< >>, k) \notin D
  BY <1>3, <1>4, ChildIsPath
<1>6. Kids(D, << >>, 0)
  BY <1>5 DEF Kids
<1>7. IsTree(D)
  <2>1. IsFiniteSet(D)
    BY <1>4, FS_Singleton
  <2>2. QED
    BY <1>3, <1>4, <1>6, <2>1 DEF IsTree
<1>8. Below(D, << >>) = {}
  BY <1>4 DEF Below, IsStrictPrefix
<1>9. Cardinality(Below(D, << >>)) = 0
  BY <1>8, FS_EmptySet
<1>10. AlikeAt(D, {}, << >>)
  BY <1>5 DEF AlikeAt
<1>11. {} \cup {<< >>} = D
  BY <1>4
<1>12. KeptTree(size, model)
  BY <1>1, <1>2, <1>4, <1>7, <1>9, <1>10, <1>11 DEF KeptTree
<1>13. AtIndex(DOMAIN size, iter, iterIndex)
  BY <1>1, <1>3 DEF AtIndex
<1>14. QED
  BY <1>12, <1>13 DEF TreeInv

\* What the steps use of it.
LEMMA InvIs ==
    ASSUME TreeInv
    PROVE  /\ IsTree(DOMAIN size) /\ visible = DOMAIN size \ {<< >>}
           /\ DOMAIN size \subseteq Path /\ << >> \in DOMAIN size
           /\ IsFiniteSet(visible) /\ visible \subseteq model
           /\ iter \in visible \cup {end} /\ iter \in Path /\ iterIndex \in Nat
           /\ iter # end => iterIndex = Index(iter)
           /\ \A q : Index(q) = Cardinality(Before(visible, q)) /\ Index(q) \in Nat
<1>1. IsTree(DOMAIN size) /\ DOMAIN size \ {<< >>} \subseteq model
  BY DEF TreeInv, KeptTree
<1>2. visible = DOMAIN size \ {<< >>} /\ IsFiniteSet(visible)
  BY <1>1, VisibleAre
<1>3. DOMAIN size \subseteq Path /\ << >> \in DOMAIN size
  BY <1>1 DEF IsTree
<1>4. \A q : Index(q) = Cardinality(Before(visible, q)) /\ Index(q) \in Nat
  BY <1>1, IndexIs
<1>5. /\ iter \in Path /\ iterIndex \in Nat
      /\ iter # << >> => iter \in DOMAIN size
                         /\ iterIndex = Cardinality(Before(DOMAIN size \ {<< >>}, iter))
  BY DEF TreeInv, AtIndex
<1>6. QED
  BY <1>1, <1>2, <1>3, <1>4, <1>5 DEF end

\* iterForIndex() puts the iterator on the item of the index, or at the end.
LEMMA IterForIndexKeeps ==
    ASSUME TreeInv, NEW k \in Nat, iterForIndex(k), UNCHANGED <<model, size>>
    PROVE  TreeInv'
<1>1. /\ IsTree(DOMAIN size) /\ visible = DOMAIN size \ {<< >>}
      /\ DOMAIN size \subseteq Path /\ << >> \in DOMAIN size
      /\ iter \in visible \cup {end} /\ iterIndex \in Nat
      /\ iter # end => iterIndex = Index(iter)
      /\ \A q : Index(q) = Cardinality(Before(visible, q)) /\ Index(q) \in Nat
  BY InvIs
<1>2. iter' = end \/ (iter' \in visible /\ Index(iter') = k)
  <2>1. CASE iter = end
    <3>1. iter' = Advanced(begin, k)
      BY <2>1 DEF iterForIndex
    <3>2. begin = end \/ (begin \in visible /\ Before(visible, begin) = {})
      BY <1>1, BeginIsOK DEF BeginOK
    <3>3. Reaches(begin, k, Advanced(begin, k))
      BY <1>1, <3>2, AdvancedIs
    <3>4. PICK r : r = Advanced(begin, k)
      OBVIOUS
    <3>5. r = end \/ (r \in visible /\ begin \in visible /\ Index(r) = Index(begin) + k)
      BY <3>3, <3>4 DEF Reaches
    <3>6. begin \in visible => Index(begin) = 0
      <4>1. ASSUME begin \in visible PROVE Index(begin) = 0
        <5>1. begin # end
          BY <1>1, <4>1 DEF end
        <5>2. Before(visible, begin) = {}
          BY <3>2, <5>1
        <5>3. QED
          BY <1>1, <5>2, FS_EmptySet
      <4>2. QED
        BY <4>1
    <3>7. QED
      BY <3>1, <3>4, <3>5, <3>6
  <2>2. CASE iter # end
    <3>1. iter' = Advanced(iter, k - iterIndex)
      BY <2>2 DEF iterForIndex
    <3>2. Reaches(iter, k - iterIndex, Advanced(iter, k - iterIndex))
      BY <1>1, AdvancedIs
    <3>3. PICK r : r = Advanced(iter, k - iterIndex)
      OBVIOUS
    <3>4. r = end \/ (r \in visible /\ Index(r) = Index(iter) + (k - iterIndex))
      BY <3>2, <3>3 DEF Reaches
    <3>5. QED
      BY <1>1, <2>2, <3>1, <3>3, <3>4
  <2>3. QED
    BY <2>1, <2>2
<1>3. PICK i : i = iter'
  OBVIOUS
<1>4. AtIndex(DOMAIN size, i, k)
  BY <1>1, <1>2, <1>3 DEF AtIndex, end
<1>5. iterIndex' = k
  BY DEF iterForIndex
<1>6. QED
  BY <1>3, <1>4, <1>5 DEF TreeInv

\* The sizes are reset and the iterator is moved with them.
LEMMA ListCountsKeeps ==
    ASSUME TreeInv, ListCounts
    PROVE  TreeInv'
<1>1. /\ DOMAIN size \subseteq Path /\ << >> \in DOMAIN size
      /\ IsTree(model \cup {<< >>}) /\ << >> \notin model /\ KeptTree(size, model)
  BY InvIs DEF TreeInv, KeptTree
<1>2. count(<< >>) \in Nat /\ Kids(model, << >>, count(<< >>))
  BY <1>1, ModelIs DEF count
<1>3. size' = ResetOf(size, << >>, count(<< >>)) /\ model' = model
  BY TheMethods DEF ListCounts
<1>4. KeptTree(size', model')
  BY <1>1, <1>2, <1>3, ResetKeeps
<1>5. IsTree(DOMAIN size')
  BY <1>4 DEF KeptTree
<1>6. BeginOK'
  BY BeginIsOK, PTL
<1>7. PICK i, E : i = iter' /\ E = DOMAIN size'
  OBVIOUS
<1>8. i = begin' /\ iterIndex' = 0
  BY <1>7 DEF ListCounts
<1>9. i = << >> \/ (i \in E \ {<< >>} /\ Before(E \ {<< >>}, i) = {})
  BY <1>5, <1>6, <1>7, <1>8 DEF BeginOK, end
<1>10. AtIndex(E, i, 0)
  <2>1. i \in Path
    BY <1>5, <1>7, <1>9 DEF IsTree
  <2>2. Cardinality({}) = 0
    BY FS_EmptySet
  <2>3. QED
    BY <1>9, <2>1, <2>2 DEF AtIndex
<1>11. QED
  BY <1>4, <1>7, <1>8, <1>10 DEF TreeInv

\* Nothing is in view, and the iterator at the end.
LEMMA DataSetChangedKeeps ==
    ASSUME TreeInv, notifyDataSetChanged
    PROVE  TreeInv'
<1>1. /\ DOMAIN size \subseteq Path /\ << >> \in DOMAIN size /\ KeptTree(size, model)
  BY InvIs DEF TreeInv, KeptTree
<1>2. PICK s, N : s = size' /\ N = model'
  OBVIOUS
<1>3. s = ResetOf(size, << >>, 0) /\ N \in {{}, model}
  BY <1>2, TheMethods DEF notifyDataSetChanged
<1>4. KeptTree(s, model) /\ DOMAIN s = Replaced(DOMAIN size, << >>, 0)
  BY <1>1, <1>3, ResetKeeps
<1>5. DOMAIN s = {<< >>}
  <2>1. \A q \in DOMAIN size : IsStrictPrefix(<< >>, q) <=> q # << >>
    <3>1. ASSUME NEW q \in DOMAIN size PROVE IsStrictPrefix(<< >>, q) <=> q # << >>
      <4>1. q \in Path /\ << >> \in Path /\ Len(<< >>) = 0 /\ Len(q) \in Nat
            /\ (q = << >> <=> Len(q) = 0)
        BY <1>1, PathIs DEF Path
      <4>2. IsStrictPrefix(<< >>, q) <=> 0 < Len(q) /\ Same(<< >>, q, 0)
        BY <4>1, PrefixIs
      <4>3. QED
        BY <4>1, <4>2 DEF Same
    <3>2. QED
      BY <3>1
  <2>2. QED
    BY <1>1, <1>4, <2>1 DEF Replaced
<1>6. KeptTree(s, {})
  <2>1. IsTree(DOMAIN s)
    BY <1>4 DEF KeptTree
  <2>2. {} \cup {<< >>} = DOMAIN s
    BY <1>5
  <2>3. AlikeAt(DOMAIN s, {}, << >>)
    <3>0. << >> \in Path
      BY DEF Path
    <3>1. \A k \in Nat : Child(<< >>, k) \notin {<< >>}
      BY <3>0, ChildIsPath
    <3>2. QED
      BY <1>5, <3>1 DEF AlikeAt
  <2>4. QED
    BY <1>4, <1>5, <2>1, <2>2, <2>3 DEF KeptTree
<1>7. KeptTree(s, N)
  BY <1>3, <1>4, <1>6
<1>8. AtIndex(DOMAIN s, << >>, 0)
  BY DEF AtIndex, Path
<1>9. QED
  BY <1>2, <1>7, <1>8 DEF TreeInv, notifyDataSetChanged, end

\* What the steps use of an item in view.
LEMMA ItemsAre ==
    ASSUME TreeInv, NEW p \in visible
    PROVE  /\ p \in Path /\ p # << >> /\ p \in DOMAIN size /\ p \in model
           /\ Parent(p) \in DOMAIN size /\ Parent(p) \in Path /\ Last(p) \in Nat
           /\ p = Child(Parent(p), Last(p))
           /\ Sibling(p, 1) = Child(Parent(p), Last(p) + 1) /\ Sibling(p, 1) \in Path
           /\ size[p] = Cardinality(Below(DOMAIN size, p)) /\ size[p] \in Nat
           /\ ~Less(p, p) /\ ~IsStrictPrefix(p, p)
<1>1. /\ IsTree(DOMAIN size) /\ visible = DOMAIN size \ {<< >>}
      /\ DOMAIN size \subseteq Path /\ visible \subseteq model
  BY InvIs
<1>2. p \in Path /\ p # << >> /\ p \in DOMAIN size /\ p \in model
  BY <1>1
<1>3. Parent(p) \in DOMAIN size /\ Parent(p) \in Path
  BY <1>1, <1>2 DEF IsTree
<1>4. Last(p) \in Nat /\ p = Child(Parent(p), Last(p))
  BY <1>2, ParentIs
<1>5. Sibling(p, 1) = Child(Parent(p), Last(p) + 1)
  BY <1>2, <1>4, SiblingIs
<1>6. Sibling(p, 1) \in Path
  BY <1>3, <1>4, <1>5, ChildIsPath
<1>7. size[p] = Cardinality(Below(DOMAIN size, p))
  BY <1>2 DEF TreeInv, KeptTree
<1>8. Cardinality(Below(DOMAIN size, p)) \in Nat
  BY <1>1, FS_Subset, FS_CardinalityType DEF IsTree, Below
<1>9. ~Less(p, p)
  BY <1>2, LessIsStrict
<1>10. ~IsStrictPrefix(p, p)
  BY DEF IsStrictPrefix
<1>11. QED
  BY <1>2, <1>3, <1>4, <1>5, <1>6, <1>7, <1>8, <1>9, <1>10

\* collapse(): the iterator leaves what goes, or its index falls by as much.
LEMMA CollapseKeeps ==
    ASSUME TreeInv, NEW p \in visible, collapse(p)
    PROVE  TreeInv'
<1>1. /\ IsTree(DOMAIN size) /\ visible = DOMAIN size \ {<< >>}
      /\ DOMAIN size \subseteq Path
      /\ iter \in visible \cup {end} /\ iter \in Path /\ iterIndex \in Nat
      /\ iter # end => iterIndex = Index(iter)
      /\ \A q : Index(q) = Cardinality(Before(visible, q)) /\ Index(q) \in Nat
  BY InvIs
<1>2. /\ p \in Path /\ p \in DOMAIN size /\ Parent(p) \in Path /\ Last(p) \in Nat
      /\ p = Child(Parent(p), Last(p)) /\ Sibling(p, 1) = Child(Parent(p), Last(p) + 1)
      /\ size[p] = Cardinality(Below(DOMAIN size, p)) /\ size[p] \in Nat
      /\ ~Less(p, p) /\ ~IsStrictPrefix(p, p)
  BY ItemsAre
<1>3. size' = ResetOf(size, p, 0) /\ model' = model
  BY TheMethods DEF collapse
<1>4. KeptTree(ResetOf(size, p, 0), model)
      /\ DOMAIN ResetOf(size, p, 0) = Replaced(DOMAIN size, p, 0)
  BY <1>2, ResetKeeps DEF TreeInv
<1>5. PICK D, E, V, W : /\ D = DOMAIN size /\ E = Replaced(D, p, 0)
                        /\ V = D \ {<< >>} /\ W = E \ {<< >>}
  OBVIOUS
<1>6. ASSUME NEW q \in D, ~IsStrictPrefix(p, q)
      PROVE  /\ q \in E
             /\ ~Less(p, q) => Before(W, q) = Before(V, q)
             /\ Less(p, q) =>
                    Cardinality(Before(W, q)) =
                           Cardinality(Before(V, q)) - Cardinality(Below(D, p)) + 0
             /\ Less(p, q) => Cardinality(Below(D, p)) <= Cardinality(Before(V, q))
  <2>1. IsTree(D) /\ p \in D /\ 0 \in Nat /\ E = Replaced(D, p, 0)
    BY <1>1, <1>2, <1>5
  <2>2. QED
    BY <1>5, <1>6, <2>1, ReplacedIndexes
<1>7. AtIndex(E, iter', iterIndex')
  <2>1. CASE iter = end
    <3>1. ~Less(p, iter)
      BY <1>2, <2>1, NothingBeforeEnd DEF end
    <3>2. iter' = end /\ iterIndex' = iterIndex
      BY <2>1, <3>1 DEF collapse
    <3>3. QED
      BY <1>1, <2>1, <3>2 DEF AtIndex, end
  <2>2. CASE iter # end /\ ~Less(p, iter)
    <3>1. iter' = iter /\ iterIndex' = iterIndex
      BY <2>2 DEF collapse
    <3>2. ~IsStrictPrefix(p, iter)
      BY <2>2 DEF Less
    <3>3. iter \in D
      BY <1>1, <1>5, <2>2
    <3>4. iter \in E /\ Before(W, iter) = Before(V, iter)
      BY <1>6, <2>2, <3>2, <3>3
    <3>5. iterIndex = Cardinality(Before(V, iter))
      BY <1>1, <1>5, <2>2
    <3>6. QED
      BY <1>1, <1>5, <3>1, <3>4, <3>5 DEF AtIndex
  <2>3. CASE iter # end /\ Less(p, iter)
    <3>1. iter \in visible /\ ~Less(iter, p) /\ iterIndex = Index(iter)
      BY <1>1, <1>2, <2>3, LessIsStrict
    <3>2. Left(p, size[p]) =
              IF Less(iter, Sibling(p, 1))
              THEN [iter |-> p, iterIndex |-> iterIndex - (Index(iter) - Index(p))]
              ELSE [iter |-> iter, iterIndex |-> iterIndex - size[p]]
      BY <1>1, <3>1, LeftIs
    <3>3. iter' = Left(p, size[p]).iter /\ iterIndex' = Left(p, size[p]).iterIndex
      BY <2>3 DEF collapse
    <3>4. CASE Less(iter, Sibling(p, 1))
      <4>1. iter' = p /\ iterIndex' = iterIndex - (Index(iter) - Index(p))
        BY <3>2, <3>3, <3>4
      <4>2. iterIndex' = Index(p) /\ Index(p) \in Nat
        BY <1>1, <3>1, <4>1
      <4>3. p \in E /\ Before(W, p) = Before(V, p)
        BY <1>2, <1>5, <1>6
      <4>4. QED
        BY <1>1, <1>2, <1>5, <4>1, <4>2, <4>3 DEF AtIndex
    <3>5. CASE ~Less(iter, Sibling(p, 1))
      <4>1. iter' = iter /\ iterIndex' = iterIndex - size[p]
        BY <3>2, <3>3, <3>5
      <4>2. ~IsPrefix(p, iter)
        BY <1>1, <1>2, <3>5, FamilyIs
      <4>3. ~IsStrictPrefix(p, iter) /\ iter \in D
        BY <1>1, <1>5, <3>1, <4>2 DEF IsStrictPrefix
      <4>4. /\ iter \in E
            /\ Cardinality(Before(W, iter)) =
                   Cardinality(Before(V, iter)) - Cardinality(Below(D, p)) + 0
            /\ Cardinality(Below(D, p)) <= Cardinality(Before(V, iter))
        BY <1>6, <2>3, <4>3
      <4>5. iterIndex = Cardinality(Before(V, iter)) /\ size[p] = Cardinality(Below(D, p))
        BY <1>1, <1>2, <1>5, <3>1
      <4>6. iterIndex' = Cardinality(Before(W, iter)) /\ iterIndex' \in Nat
        BY <1>1, <1>2, <4>1, <4>4, <4>5
      <4>7. QED
        BY <1>1, <1>5, <4>1, <4>4, <4>6 DEF AtIndex
    <3>6. QED
      BY <3>4, <3>5
  <2>4. QED
    BY <2>1, <2>2, <2>3
<1>8. KeptTree(size', model')
  BY <1>3, <1>4
<1>9. AtIndex(DOMAIN size', iter', iterIndex')
  BY <1>3, <1>4, <1>5, <1>7
<1>10. QED
  BY <1>8, <1>9 DEF TreeInv

\* uncollapse(): nothing was below, so no item is lost.
LEMMA UncollapseKeeps ==
    ASSUME TreeInv, NEW p \in visible, uncollapse(p)
    PROVE  TreeInv'
<1>1. /\ IsTree(DOMAIN size) /\ visible = DOMAIN size \ {<< >>}
      /\ DOMAIN size \subseteq Path
      /\ iter \in visible \cup {end} /\ iter \in Path /\ iterIndex \in Nat
      /\ iter # end => iterIndex = Index(iter)
      /\ \A q : Index(q) = Cardinality(Before(visible, q)) /\ Index(q) \in Nat
  BY InvIs
<1>2. p \in Path /\ p \in DOMAIN size /\ p \in model
  BY ItemsAre
<1>3. count(p) \in Nat /\ Kids(model, p, count(p))
  <2>1. IsTree(model \cup {<< >>}) /\ << >> \notin model
    BY DEF TreeInv, KeptTree
  <2>2. QED
    BY <1>2, <2>1, ModelIs DEF count
<1>4. size' = ResetOf(size, p, count(p)) /\ model' = model
  BY TheMethods DEF uncollapse
<1>5. KeptTree(ResetOf(size, p, count(p)), model)
      /\ DOMAIN ResetOf(size, p, count(p)) = Replaced(DOMAIN size, p, count(p))
  BY <1>2, <1>3, ResetKeeps DEF TreeInv
<1>6. Below(DOMAIN size, p) = {} /\ \A q \in DOMAIN size : ~IsStrictPrefix(p, q)
  <2>1. numChildren(p) = 0 /\ Kids(DOMAIN size, p, numChildren(p))
    BY <1>1, <1>2, VisibleAre DEF uncollapse
  <2>2. \A k \in Nat : Child(p, k) \notin DOMAIN size
    BY <2>1 DEF Kids
  <2>3. QED
    BY <1>1, <1>2, <2>2, NoneBelow
<1>7. PICK D, E, V, W, n : /\ D = DOMAIN size /\ n = count(p) /\ E = Replaced(D, p, n)
                           /\ V = D \ {<< >>} /\ W = E \ {<< >>}
  OBVIOUS
<1>8. iter' = iter
      /\ iterIndex' = IF Less(p, iter) THEN iterIndex + n ELSE iterIndex
  BY <1>7 DEF uncollapse
<1>9. AtIndex(E, iter, iterIndex')
  <2>1. CASE iter = end
    BY <1>1, <1>3, <1>7, <1>8, <2>1 DEF AtIndex, end
  <2>2. CASE iter # end
    <3>1. iter \in D /\ ~IsStrictPrefix(p, iter) /\ iterIndex = Cardinality(Before(V, iter))
      BY <1>1, <1>6, <1>7, <2>2
    <3>2. Cardinality(Below(D, p)) = 0
      BY <1>6, <1>7, FS_EmptySet
    <3>3. /\ iter \in E
          /\ ~Less(p, iter) => Before(W, iter) = Before(V, iter)
          /\ Less(p, iter) =>
                 Cardinality(Before(W, iter)) =
                        Cardinality(Before(V, iter)) - Cardinality(Below(D, p)) + n
      BY <1>1, <1>2, <1>3, <1>7, <3>1, ReplacedIndexes
    <3>4. iterIndex' = Cardinality(Before(W, iter)) /\ iterIndex' \in Nat
      BY <1>1, <1>3, <1>7, <1>8, <3>1, <3>2, <3>3
    <3>5. QED
      BY <1>1, <1>7, <3>3, <3>4 DEF AtIndex
  <2>3. QED
    BY <2>1, <2>2
<1>10. KeptTree(size', model')
  BY <1>4, <1>5
<1>11. AtIndex(DOMAIN size', iter', iterIndex')
  BY <1>4, <1>5, <1>7, <1>8, <1>9
<1>12. QED
  BY <1>10, <1>11 DEF TreeInv

\* Without the root, which does not move.
LEMMA ShiftOfItems ==
    ASSUME NEW b \in Path, NEW j \in Nat, NEW A, NEW B, Shift(A, B, b, j)
    PROVE  /\ Shift(A \ {<< >>}, B \ {<< >>}, b, j)
           /\ Family(B \ {<< >>}, Child(b, j)) = Family(B, Child(b, j))
<1>1. A \subseteq Path /\ B \subseteq Path
  BY DEF Shift
<1>2. \A q \in Path : Up(q, b, j) \in B \ {<< >>} <=> q \in A \ {<< >>}
  <2>1. ASSUME NEW q \in Path
        PROVE  Up(q, b, j) \in B \ {<< >>} <=> q \in A \ {<< >>}
    <3>1. Up(q, b, j) = << >> <=> q = << >>
      BY UpIsPath
    <3>2. Up(q, b, j) \in B <=> q \in A
      BY DEF Shift
    <3>3. QED
      BY <3>1, <3>2
  <2>2. QED
    BY <2>1
<1>3. ~IsPrefix(Child(b, j), << >>)
  <2>1. Child(b, j) \in Path /\ Len(Child(b, j)) = Len(b) + 1 /\ Len(b) \in Nat
    BY ChildIsPath
  <2>2. << >> \in Path /\ Len(<< >>) = 0
    BY DEF Path
  <2>3. IsPrefix(Child(b, j), << >>) => Len(Child(b, j)) <= Len(<< >>)
    BY <2>1, <2>2, PrefixIs
  <2>4. QED
    BY <2>1, <2>2, <2>3
<1>4. Family(B \ {<< >>}, Child(b, j)) = Family(B, Child(b, j))
  BY <1>3 DEF Family
<1>5. QED
  BY <1>1, <1>2, <1>4 DEF Shift

\* pos() gets to the path if the parent is in view, and otherwise to a path
\* whose parent shows none of its items.
LEMMA PosIs ==
    ASSUME TreeInv, NEW b \in model \cup {<< >>}, NEW j \in Nat
    PROVE  /\ b \in DOMAIN size => pos(Child(b, j)) = Child(b, j)
           /\ b \notin DOMAIN size =>
                  numChildren(Parent(pos(Child(b, j)))) = 0
<1>1. /\ IsTree(DOMAIN size) /\ visible = DOMAIN size \ {<< >>}
      /\ DOMAIN size \subseteq Path /\ << >> \in DOMAIN size
  BY InvIs
<1>2. IsTree(model \cup {<< >>}) /\ << >> \notin model
  BY DEF TreeInv, KeptTree
<1>3. b \in Path
  BY <1>2 DEF IsTree
<1>4. PICK p, l : p = Child(b, j) /\ l = Len(b)
  OBVIOUS
<1>5. p \in Path /\ Len(p) = l + 1 /\ l \in Nat /\ Parent(p) = b
      /\ DOMAIN p = 1 .. l + 1 /\ IsPrefix(b, p)
  BY <1>3, <1>4, ChildIsPath, ChildIsBelow, PathIs DEF IsStrictPrefix
<1> DEFINE I == {n \in DOMAIN p : Part(p, n) \notin visible} \cup {l + 1}
<1>6. pos(p) = Part(p, Min(I))
  BY <1>5 DEF pos, Part
<1>7. PICK m \in I : \A i \in I : m <= i
  <2>1. I \in SUBSET Nat /\ I # {}
    BY <1>5
  <2> HIDE DEF I
  <2>2. QED
    BY <2>1, LeastOf
<1>8. Min(I) = m
  BY <1>5, <1>7 DEF Min
<1>9. pos(p) = Part(p, m) /\ m \in 1 .. l + 1
  BY <1>5, <1>6, <1>8
<1>10. Part(p, l) = b
  BY <1>3, <1>4, <1>5, PrefixIsPart
<1>11. ASSUME NEW n \in 0 .. l PROVE Part(p, n) = Part(b, n)
  <2>1. Part(p, n) \in Path /\ Len(Part(p, n)) = n
        /\ \A i \in 1 .. n : Part(p, n)[i] = p[i]
    BY <1>5, PartIs DEF Part
  <2>2. Part(b, n) \in Path /\ Len(Part(b, n)) = n
        /\ \A i \in 1 .. n : Part(b, n)[i] = b[i]
    BY <1>3, <1>4, PartIs DEF Part
  <2>3. \A i \in 1 .. l : b[i] = p[i]
    BY <1>3, <1>4, <1>5, PrefixIs DEF Same
  <2>4. QED
    BY <1>5, <2>1, <2>2, <2>3, SamePath
<1>12. ASSUME b \in DOMAIN size PROVE pos(p) = p
  <2>1. m = l + 1
    <3>1. ASSUME m # l + 1 PROVE FALSE
      <4>1. m \in 0 .. l /\ m \in 1 .. Len(p) /\ Part(p, m) \notin visible
        BY <1>5, <1>7, <1>9, <3>1
      <4>2. Part(p, m) \in DOMAIN size
        BY <1>1, <1>4, <1>11, <1>12, <4>1, PartsAreIn
      <4>3. Part(p, m) # << >>
        BY <1>5, <4>1, PartOf
      <4>4. QED
        BY <1>1, <4>1, <4>2, <4>3
    <3>2. QED
      BY <3>1
  <2>2. QED
    BY <1>5, <1>9, <2>1, WholePart
<1>13. ASSUME b \notin DOMAIN size PROVE numChildren(Parent(pos(p))) = 0
  <2>1. b # << >> /\ b \in model
    BY <1>1, <1>13
  <2>2. l \in I /\ l # 0
    <3>1. l # 0
      BY <1>3, <1>4, <2>1, PathIs
    <3>2. QED
      BY <1>1, <1>5, <1>10, <1>13, <3>1
  <2>3. m <= l
    BY <1>7, <2>2
  <2>4. PICK a, n : n = m - 1 /\ a = Part(p, n)
    OBVIOUS
  <2>5. m \in 0 .. l /\ m \in 1 .. Len(p) /\ n \in 0 .. l /\ n < m
    BY <1>5, <1>9, <2>3, <2>4
  <2>6. /\ Part(p, m) = Child(a, p[m]) /\ p[m] \in Nat /\ a \in Path
        /\ Parent(Part(p, m)) = a /\ Part(p, m) # << >>
    BY <1>5, <2>4, <2>5, PartOf
  <2>7. Part(p, m) \notin DOMAIN size
    BY <1>1, <1>5, <1>7, <2>5, <2>6
  <2>8. a \in DOMAIN size
    <3>1. CASE n = 0
      BY <1>1, <1>5, <2>4, <3>1, WholePart
    <3>2. CASE n # 0
      <4>1. n \in DOMAIN p /\ n \notin I
        BY <1>5, <1>7, <2>5, <3>2
      <4>2. QED
        BY <1>1, <2>4, <4>1
    <3>3. QED
      BY <3>1, <3>2
  <2>9. Part(p, m) \in model
    <3>1. Part(b, m) \in model \cup {<< >>}
      BY <1>2, <1>4, <2>5, PartsAreIn
    <3>2. QED
      BY <1>11, <2>5, <2>6, <3>1
  <2>10. AlikeAt(DOMAIN size, model, a)
    BY <2>8 DEF TreeInv, KeptTree
  <2>11. Child(a, 0) \notin DOMAIN size
    BY <2>6, <2>7, <2>9, <2>10 DEF AlikeAt
  <2>12. numChildren(a) \in Nat /\ Kids(DOMAIN size, a, numChildren(a))
    BY <1>1, <2>8, VisibleAre
  <2>13. numChildren(a) = 0
    BY <2>11, <2>12 DEF Kids
  <2>14. QED
    BY <1>9, <2>6, <2>13
<1>14. QED
  BY <1>4, <1>12, <1>13

\* An item is added, in view or not.
LEMMA AddItemKeeps ==
    ASSUME TreeInv, NEW b \in model \cup {<< >>}, NEW j \in Nat, j <= count(b),
           AddItem(Child(b, j))
    PROVE  TreeInv'
<1>1. /\ IsTree(DOMAIN size) /\ visible = DOMAIN size \ {<< >>}
      /\ DOMAIN size \subseteq Path /\ << >> \in DOMAIN size
      /\ iter \in visible \cup {end} /\ iter \in Path /\ iterIndex \in Nat
      /\ iter # end => iterIndex = Index(iter)
      /\ \A q : Index(q) = Cardinality(Before(visible, q)) /\ Index(q) \in Nat
      /\ IsFiniteSet(visible)
  BY InvIs
<1>2. IsTree(model \cup {<< >>}) /\ << >> \notin model
  BY DEF TreeInv, KeptTree
<1>3. b \in Path
  BY <1>2 DEF IsTree
<1>4. PICK p, N : p = Child(b, j) /\ N = Ups(model, b, j) \cup {p}
  OBVIOUS
<1>5. p \in Path /\ p # << >> /\ Parent(p) = b /\ Last(p) = j
  BY <1>3, <1>4, ChildIsPath
<1>6. model' = N
  BY <1>4 DEF AddItem, Ups, Up
<1>7. j <= Cardinality(ChildrenIn(model, b))
  BY DEF count
<1>8. Shift(model, N, b, j) /\ IsTree(N \cup {<< >>}) /\ << >> \notin N
  BY <1>2, <1>4, <1>7, ModelGrows
<1>9. AtIndex(DOMAIN size, iter, iterIndex)
  BY DEF TreeInv
<1>10. ASSUME \A k \in Nat : Child(b, k) \notin DOMAIN size
       PROVE  KeptTree(size, N)
  <2>1. KeptTree(size, model)
    BY DEF TreeInv
  <2>2. QED
    BY <1>3, <1>8, <1>10, <2>1, HiddenKeeps
<1>11. CASE b \notin DOMAIN size
  <2>1. numChildren(Parent(pos(p))) = 0
    BY <1>4, <1>11, PosIs
  <2>2. UNCHANGED <<size, iter, iterIndex>>
    BY <1>4, <2>1 DEF AddItem, notifyItemAdded
  <2>3. ASSUME NEW k \in Nat, Child(b, k) \in DOMAIN size PROVE FALSE
    <3>1. Child(b, k) # << >> /\ Parent(Child(b, k)) = b
      BY <1>3, ChildIsPath
    <3>2. QED
      BY <1>1, <1>11, <2>3, <3>1 DEF IsTree
  <2>4. KeptTree(size, N)
    BY <1>10, <2>3
  <2>5. QED
    BY <1>6, <1>9, <2>2, <2>4 DEF TreeInv
<1>12. CASE b \in DOMAIN size
  <2>1. pos(p) = p
    BY <1>4, <1>12, PosIs
  <2>2. PICK n : n = numChildren(b)
    OBVIOUS
  <2>3. n \in Nat /\ Kids(DOMAIN size, b, n)
    BY <1>1, <1>12, <2>2, VisibleAre
  <2>4. CASE n = 0
    <3>1. UNCHANGED <<size, iter, iterIndex>>
      BY <1>4, <1>5, <2>1, <2>2, <2>4 DEF AddItem, notifyItemAdded
    <3>2. KeptTree(size, N)
      BY <1>10, <2>3, <2>4 DEF Kids
    <3>3. QED
      BY <1>6, <1>9, <3>1, <3>2 DEF TreeInv
  <2>5. CASE n # 0
    <3>1. j <= n
      <4>1. AlikeAt(DOMAIN size, model, b)
        BY <1>12 DEF TreeInv, KeptTree
      <4>2. Child(b, 0) \in DOMAIN size
        BY <2>3, <2>5 DEF Kids
      <4>3. Kids(model, b, n)
        BY <2>3, <4>1, <4>2 DEF AlikeAt, Kids
      <4>4. model \subseteq Path
        BY <1>2 DEF IsTree
      <4>5. Cardinality(ChildrenIn(model, b)) = n
        BY <1>3, <2>3, <4>3, <4>4, KidsAreCounted
      <4>6. QED
        BY <1>7, <4>5
    <3>2. /\ iterIndex' = IF iter = p \/ Less(p, iter) THEN iterIndex + 1 ELSE iterIndex
          /\ size' = AddOf(size, p)
          /\ iter' = Up(iter, b, j)
      <4>1. ~(Last(p) > numChildren(Parent(p)) \/ numChildren(Parent(p)) = 0)
        BY <1>5, <2>2, <2>3, <2>5, <3>1
      <4>2. /\ iterIndex' = IF iter = p \/ Less(p, iter) THEN iterIndex + 1 ELSE iterIndex
            /\ size' = add(p)
            /\ iter' = correctIteratorAfterAddition(iter, p)
        BY <1>4, <2>1, <4>1 DEF AddItem, notifyItemAdded
      <4>3. QED
        BY <1>4, <4>2, TheMethods DEF correctIteratorAfterAddition, Up
    <3>3. PICK D, E, V, W : /\ D = DOMAIN size /\ E = Ups(D, b, j) \cup {p}
                            /\ V = D \ {<< >>} /\ W = E \ {<< >>}
      OBVIOUS
    <3>4. KeptTree(AddOf(size, p), N) /\ DOMAIN AddOf(size, p) = E
      <4>1. KeptTree(size, model)
        BY DEF TreeInv
      <4>2. CanAdd(size, model, b, n, j)
        BY <1>12, <2>3, <2>5, <3>1, <4>1 DEF CanAdd
      <4>3. Adds(size, model, b, j)
        BY <4>2, AddKeeps
      <4>4. QED
        BY <1>4, <3>3, <4>3 DEF Adds
    <3>5. Shift(V, W, b, j) /\ Family(W, p) = {p} /\ IsFiniteSet(W)
      <4>1. Shift(D, E, b, j) /\ Family(E, p) = {p} /\ IsTree(E)
        BY <1>1, <1>4, <1>12, <2>3, <3>1, <3>3, Grown
      <4>2. Shift(V, W, b, j) /\ Family(W, p) = Family(E, p)
        BY <1>3, <1>4, <3>3, <4>1, ShiftOfItems
      <4>3. IsFiniteSet(W)
        BY <3>3, <4>1, FS_Subset DEF IsTree
      <4>4. QED
        BY <4>1, <4>2, <4>3
    <3>6. AtIndex(E, iter', iterIndex')
      <4>1. CASE iter = end
        <5>1. ~Less(p, iter) /\ iter # p
          BY <1>5, <4>1, NothingBeforeEnd DEF end
        <5>2. iter' = << >>
          BY <1>1, <1>3, <3>2, <4>1, UpIsPath DEF end
        <5>3. << >> \in Path
          BY <1>1
        <5>4. QED
          BY <1>1, <3>2, <5>1, <5>2, <5>3 DEF AtIndex
      <4>2. CASE iter # end
        <5>1. PICK i : i = iter
          OBVIOUS
        <5>2. i \in Path /\ i \in V /\ iterIndex = Cardinality(Before(V, i))
          BY <1>1, <3>3, <4>2, <5>1
        <5>3. iter = p \/ Less(p, iter) <=> ~Less(i, p)
          BY <1>5, <5>1, <5>2, LessIsTotal, LessIsStrict
        <5>4. Cardinality(Before(W, Up(i, b, j))) =
                  Cardinality(Before(V, i))
                      + (IF Less(i, Child(b, j))
                         THEN 0 ELSE Cardinality(Family(W, Child(b, j))))
          <6>1. IsFiniteSet(V)
            BY <1>1, <3>3
          <6>2. QED
            BY <1>3, <3>5, <5>2, <6>1, ShiftCounts
        <5>5. Cardinality(Family(W, p)) = 1
          BY <3>5, FS_Singleton
        <5>6. iterIndex' = Cardinality(Before(W, Up(i, b, j))) /\ iterIndex' \in Nat
          BY <1>1, <1>4, <3>2, <5>2, <5>3, <5>4, <5>5
        <5>7. Up(i, b, j) \in Path /\ Up(i, b, j) \in E
          BY <1>3, <3>3, <5>2, UpIsPath DEF Ups
        <5>8. QED
          BY <3>2, <3>3, <5>1, <5>6, <5>7 DEF AtIndex
      <4>3. QED
        BY <4>1, <4>2
    <3>7. KeptTree(size', model')
      BY <1>6, <3>2, <3>4
    <3>8. AtIndex(DOMAIN size', iter', iterIndex')
      BY <3>2, <3>4, <3>6
    <3>9. QED
      BY <3>7, <3>8 DEF TreeInv
  <2>6. QED
    BY <2>4, <2>5
<1>13. QED
  BY <1>11, <1>12

\* correctIteratorAfterDeletion() by the function of its loop.
LEMMA DeletionIs ==
    ASSUME NEW p, NEW i
    PROVE  \E f : /\ IsUpper(f, DOMAIN remove(p))
                  /\ correctIteratorAfterDeletion(i, p) =
                         f[IF IsPrefix(p, i) THEN p ELSE Moved(i, p, -1)]
<1> DEFINE f == CHOOSE f : IsUpper(f, DOMAIN remove(p))
<1>1. IsUpper(f, DOMAIN remove(p))
  BY UpperExists
<1>2. correctIteratorAfterDeletion(i, p) =
          f[IF IsPrefix(p, i) THEN p ELSE Moved(i, p, -1)]
  BY DEF correctIteratorAfterDeletion, IsUpper
<1> HIDE DEF f
<1>3. QED
  BY <1>1, <1>2

\* After the item at p is gone, an iterator that was not on it or below it is
\* on its item still, and one that was is on the next item that is left.
MovedOn(f, D, A, U, V, b, j) ==
    /\ f[Down(<< >>, b, j)] = << >>
    /\ \A q \in V : ~IsPrefix(Child(b, j), q) =>
           /\ f[Down(q, b, j)] \in A
           /\ Cardinality(Before(U, f[Down(q, b, j)])) =
                  Cardinality(Before(V, q))
                     - (IF Less(q, Child(b, j)) THEN 0
                        ELSE Cardinality(Family(D, Child(b, j))))
    /\ \/ f[Child(b, j)] = << >>
       \/ /\ f[Child(b, j)] \in A
          /\ Cardinality(Before(U, f[Child(b, j)])) =
                 Cardinality(Before(V, Child(b, j)))

LEMMA DeletionKeeps ==
    ASSUME NEW D, IsTree(D), NEW b \in Path, NEW j \in Nat, Child(b, j) \in D,
           NEW A, IsTree(A), Shift(A, D, b, j), b \in A,
           NEW U, U = A \ {<< >>}, NEW V, V = D \ {<< >>},
           NEW f, IsUpper(f, A)
    PROVE  MovedOn(f, D, A, U, V, b, j)
<1>1. PICK p, s : p = Child(b, j) /\ s = Child(b, j + 1)
  OBVIOUS
<1>2. /\ p \in Path /\ s \in Path /\ << >> \in Path /\ << >> \in A
      /\ D \subseteq Path /\ A \subseteq Path
      /\ IsFiniteSet(U) /\ IsFiniteSet(V) /\ V \subseteq Path
  <2>1. IsFiniteSet(A) /\ IsFiniteSet(D) /\ D \subseteq Path /\ A \subseteq Path
        /\ << >> \in A
    BY DEF IsTree
  <2>2. IsFiniteSet(U) /\ IsFiniteSet(V)
    BY <2>1, FS_Subset
  <2>3. p \in Path /\ s \in Path
    BY <1>1, ChildIsPath
  <2>4. QED
    BY <2>1, <2>2, <2>3
<1>3. Shift(U, V, b, j) /\ Family(V, p) = Family(D, p)
  BY <1>1, ShiftOfItems
<1>4. PICK c : c = Cardinality(Family(D, p))
  OBVIOUS
<1>5. c \in Nat /\ IsFiniteSet(Family(V, p))
  <2>1. IsFiniteSet(Family(V, p))
    BY <1>2, FS_Subset DEF Family
  <2>2. QED
    BY <1>3, <1>4, <2>1, FS_CardinalityType
<1>6. ASSUME NEW q \in Path
      PROVE  Cardinality(Before(V, Up(q, b, j))) =
                 Cardinality(Before(U, q)) + (IF Less(q, p) THEN 0 ELSE c)
  <2>1. Cardinality(Before(V, Up(q, b, j))) =
            Cardinality(Before(U, q))
                + (IF Less(q, Child(b, j))
                   THEN 0 ELSE Cardinality(Family(V, Child(b, j))))
    BY <1>2, <1>3, ShiftCounts
  <2>2. QED
    BY <1>1, <1>3, <1>4, <2>1
<1>0. Landing(f, A, U)
  BY UpperIs
<1>7. \A q \in A : f[q] = q
  BY <1>0 DEF Landing
<1>8. ASSUME NEW q
      PROVE  Cardinality(Before(U, q)) \in Nat /\ Cardinality(Before(V, q)) \in Nat
  BY <1>2, FS_Subset, FS_CardinalityType DEF Before
<1>9. f[Down(<< >>, b, j)] = << >>
  <2>1. Up(<< >>, b, j) = << >>
    BY <1>2, UpIsPath
  <2>2. Down(<< >>, b, j) = << >>
    BY <1>2, <2>1, DownOfUp
  <2>3. QED
    BY <1>2, <1>7, <2>2
<1>10. ASSUME NEW q \in V, ~IsPrefix(p, q)
       PROVE  /\ f[Down(q, b, j)] \in A
              /\ Cardinality(Before(U, f[Down(q, b, j)])) =
                     Cardinality(Before(V, q)) - (IF Less(q, p) THEN 0 ELSE c)
  <2>1. PICK r \in Path : r = Down(q, b, j) /\ Up(r, b, j) = q
    BY <1>1, <1>2, <1>10, UpOfDown
  <2>2. r \in A
    BY <2>1 DEF Shift
  <2>3. f[r] = r
    BY <1>7, <2>2
  <2>4. Less(q, p) <=> Less(r, p)
    BY <1>1, <2>1, UpStays
  <2>5. Cardinality(Before(V, q)) =
            Cardinality(Before(U, r)) + (IF Less(r, p) THEN 0 ELSE c)
    BY <1>6, <2>1
  <2>6. Cardinality(Before(U, r)) \in Nat /\ Cardinality(Before(V, q)) \in Nat
    BY <1>8
  <2>7. Cardinality(Before(U, r)) =
            Cardinality(Before(V, q)) - (IF Less(q, p) THEN 0 ELSE c)
    BY <1>5, <2>4, <2>5, <2>6
  <2>8. QED
    BY <2>1, <2>2, <2>3, <2>7
<1>11. Cardinality(Before(U, p)) = Cardinality(Before(V, p))
  <2>1. Up(p, b, j) = s /\ ~Less(p, p)
    BY <1>1, <1>2, UpStays, LessIsStrict
  <2>2. Cardinality(Before(V, s)) = Cardinality(Before(U, p)) + c
    BY <1>2, <1>6, <2>1
  <2>3. Before(V, s) = Before(V, p) \cup Family(V, p)
    BY <1>1, <1>2, NextSibling DEF Before, Family
  <2>4. Before(V, p) \cap Family(V, p) = {}
    <3>1. ASSUME NEW q \in V, Less(q, p), IsPrefix(p, q) PROVE FALSE
      <4>1. q = p \/ Less(p, q)
        BY <1>1, <1>2, <3>1, FamilyIs
      <4>2. QED
        BY <1>2, <3>1, <4>1, LessIsStrict
    <3>2. QED
      BY <3>1 DEF Before, Family
  <2>5. IsFiniteSet(Before(V, p))
    BY <1>2, FS_Subset DEF Before
  <2>6. Cardinality(Before(V, s)) = Cardinality(Before(V, p)) + Cardinality(Family(V, p))
    BY <1>5, <2>3, <2>4, <2>5, Disjoint
  <2>7. Cardinality(Before(V, p)) \in Nat /\ Cardinality(Before(U, p)) \in Nat
    BY <1>8
  <2>8. QED
    BY <1>3, <1>4, <1>5, <2>2, <2>6, <2>7
<1>12. \/ f[p] = << >>
       \/ f[p] \in A /\ Cardinality(Before(U, f[p])) = Cardinality(Before(V, p))
  <2>1. \/ f[Child(b, j)] = end
        \/ /\ f[Child(b, j)] \in U
           /\ Before(U, f[Child(b, j)]) = Before(U, Child(b, j))
    BY <1>0 DEF Landing
  <2>2. f[p] = << >> \/ (f[p] \in A /\ Before(U, f[p]) = Before(U, p))
    BY <1>1, <2>1 DEF end
  <2>3. QED
    BY <1>11, <2>2
<1>13. QED
  BY <1>1, <1>4, <1>9, <1>10, <1>12 DEF MovedOn

\* What RemoveKeeps says of p's removal, and DeletionKeeps of the iterator.
Removes(sz, M, N, b, j) ==
    /\ KeptTree(RemoveOf(sz, Child(b, j)), N)
    /\ Shift(DOMAIN RemoveOf(sz, Child(b, j)), DOMAIN sz, b, j)
    /\ b \in DOMAIN RemoveOf(sz, Child(b, j))

\* What notifyItemRemoved() does to the sizes.
LEMMA RemovesIt ==
    ASSUME TreeInv, NEW p \in visible,
           NEW N, N = {Moved(q, p, -1) : q \in {r \in model : ~IsPrefix(p, r)}}
    PROVE  Removes(size, model, N, Parent(p), Last(p))
<1>1. PICK b \in Path, j \in Nat : b = Parent(p) /\ j = Last(p) /\ p = Child(b, j)
  BY ItemsAre
<1>2. KeptTree(size, model) /\ Child(b, j) \in DOMAIN size
  BY <1>1, ItemsAre DEF TreeInv
<1>3. N = {Down(q, b, j) : q \in {r \in model : ~IsPrefix(Child(b, j), r)}}
  BY <1>1 DEF Down
<1>4. /\ KeptTree(RemoveOf(size, Child(b, j)), N)
      /\ Shift(DOMAIN RemoveOf(size, Child(b, j)), DOMAIN size, b, j)
      /\ b \in DOMAIN RemoveOf(size, Child(b, j))
  BY ONLY <1>2, <1>3, b \in Path, j \in Nat, RemoveKeeps
<1>5. QED
  BY <1>1, <1>4 DEF Removes

\* The removal of an item that is not in view is not seen.
LEMMA HiddenRemovalKeeps ==
    ASSUME TreeInv, NEW p \in model, p \notin visible,
           NEW N, N = {Moved(q, p, -1) : q \in {r \in model : ~IsPrefix(p, r)}}
    PROVE  KeptTree(size, N)
<1>1. /\ IsTree(DOMAIN size) /\ visible = DOMAIN size \ {<< >>}
      /\ DOMAIN size \subseteq Path
  BY InvIs
<1>2. IsTree(model \cup {<< >>}) /\ << >> \notin model /\ KeptTree(size, model)
  BY DEF TreeInv, KeptTree
<1>3. p \in Path /\ p # << >>
  BY <1>2 DEF IsTree
<1>4. PICK b \in Path, j \in Nat : b = Parent(p) /\ j = Last(p) /\ p = Child(b, j)
  BY <1>3, ParentIs
<1>5. \A k \in Nat : Child(b, k) \notin DOMAIN size
  <2>1. ASSUME NEW k \in Nat, Child(b, k) \in DOMAIN size PROVE FALSE
    <3>1. Child(b, k) # << >> /\ Parent(Child(b, k)) = b
      BY ChildIsPath
    <3>2. b \in DOMAIN size
      BY <1>1, <2>1, <3>1 DEF IsTree
    <3>3. AlikeAt(DOMAIN size, model, b)
      BY <1>2, <3>2 DEF KeptTree
    <3>4. Child(b, j) \in DOMAIN size
      BY <1>4, <2>1, <3>3 DEF AlikeAt
    <3>5. QED
      BY <1>1, <1>3, <1>4, <3>4
  <2>2. QED
    BY <2>1
<1>6. N = {Down(q, b, j) : q \in {r \in model : ~IsPrefix(Child(b, j), r)}}
  BY <1>4 DEF Down
<1>7. Child(b, j) \in model
  BY <1>4
<1>8. Shift(N, model, b, j) /\ IsTree(N \cup {<< >>}) /\ << >> \notin N
  BY ONLY <1>2, <1>6, <1>7, b \in Path, j \in Nat, ModelShrinks
<1>9. QED
  BY <1>2, <1>5, <1>8, HiddenKeeps

\* An item is removed, in view or not.
LEMMA RemoveItemKeeps ==
    ASSUME TreeInv, NEW p \in model, RemoveItem(p)
    PROVE  TreeInv'
<1>1. PICK N : N = {Moved(q, p, -1) : q \in {r \in model : ~IsPrefix(p, r)}}
  OBVIOUS
<1>2. model' = N
  BY <1>1 DEF RemoveItem
<1>3. CASE p \notin visible
  <2>1. UNCHANGED <<size, iter, iterIndex>>
    BY <1>3 DEF RemoveItem
  <2>2. KeptTree(size, N)
    BY <1>1, <1>3, HiddenRemovalKeeps
  <2>3. QED
    BY <1>2, <2>1, <2>2 DEF TreeInv
<1>4. CASE p \in visible
  <2>1. /\ IsTree(DOMAIN size) /\ visible = DOMAIN size \ {<< >>}
        /\ DOMAIN size \subseteq Path
        /\ iter \in visible \cup {end} /\ iter \in Path /\ iterIndex \in Nat
        /\ iter # end => iterIndex = Index(iter)
        /\ \A q : Index(q) = Cardinality(Before(visible, q)) /\ Index(q) \in Nat
    BY InvIs
  <2>2. /\ p \in Path /\ p # << >> /\ p \in DOMAIN size
        /\ size[p] = Cardinality(Below(DOMAIN size, p)) /\ size[p] \in Nat
        /\ ~Less(p, p)
    BY <1>4, ItemsAre
  <2>3. PICK b \in Path, j \in Nat : /\ b = Parent(p) /\ j = Last(p) /\ p = Child(b, j)
                                     /\ Sibling(p, 1) = Child(b, j + 1)
    BY <1>4, ItemsAre
  <2>4. Removes(size, model, N, b, j)
    BY <1>1, <1>4, <2>3, RemovesIt
  <2>5. size' = RemoveOf(size, p)
    BY <1>4, TheMethods DEF RemoveItem, notifyItemRemoved
  <2>6. PICK D, A, U, V : /\ D = DOMAIN size /\ A = DOMAIN RemoveOf(size, p)
                          /\ U = A \ {<< >>} /\ V = D \ {<< >>}
    OBVIOUS
  <2>7. /\ KeptTree(size', model') /\ IsTree(A) /\ Shift(A, D, b, j) /\ b \in A
        /\ A = DOMAIN size' /\ A \subseteq Path /\ << >> \in Path
    <3>1. KeptTree(RemoveOf(size, p), N) /\ Shift(A, D, b, j) /\ b \in A
      BY <2>3, <2>4, <2>6 DEF Removes
    <3>2. IsTree(A) /\ A \subseteq Path
      BY <2>6, <3>1 DEF KeptTree, IsTree
    <3>3. QED
      BY <1>2, <2>5, <2>6, <3>1, <3>2 DEF Path
  <2>8. PICK i, x : /\ iter' = correctIteratorAfterDeletion(i, p) /\ iterIndex' = x
                    /\ iter = p \/ Less(p, iter) =>
                           i = Left(p, size[p] + 1).iter /\ x = Left(p, size[p] + 1).iterIndex
                    /\ ~(iter = p \/ Less(p, iter)) => i = iter /\ x = iterIndex
    BY <1>4 DEF RemoveItem, notifyItemRemoved
  <2>9. PICK f : /\ IsUpper(f, A)
                 /\ iter' = f[IF IsPrefix(p, i) THEN p ELSE Down(i, b, j)]
    <3>1. DOMAIN remove(p) = A
      BY <2>6, TheMethods
    <3>2. \E f : /\ IsUpper(f, DOMAIN remove(p))
                 /\ correctIteratorAfterDeletion(i, p) =
                        f[IF IsPrefix(p, i) THEN p ELSE Moved(i, p, -1)]
      BY DeletionIs
    <3>3. QED
      BY <2>3, <2>8, <3>1, <3>2 DEF Down
  <2>10. PICK c \in Nat : c = Cardinality(Family(D, p)) /\ c = size[p] + 1
    BY <2>1, <2>2, <2>3, <2>6, FamilyCounts
  <2>11. /\ f[Down(<< >>, b, j)] = << >>
         /\ \A q \in V : ~IsPrefix(p, q) =>
                /\ f[Down(q, b, j)] \in A
                /\ Cardinality(Before(U, f[Down(q, b, j)])) =
                       Cardinality(Before(V, q)) - (IF Less(q, p) THEN 0 ELSE c)
         /\ \/ f[p] = << >>
            \/ /\ f[p] \in A
               /\ Cardinality(Before(U, f[p])) = Cardinality(Before(V, p))
    <3>1. IsTree(D) /\ Child(b, j) \in D
      BY <2>1, <2>2, <2>3, <2>6
    <3>2. MovedOn(f, D, A, U, V, b, j)
      BY <2>6, <2>7, <2>9, <3>1, DeletionKeeps
    <3>3. QED
      BY <2>3, <2>10, <3>2 DEF MovedOn
  <2>12. AtIndex(A, iter', iterIndex')
    <3>1. CASE iter = end
      <4>1. ~(iter = p \/ Less(p, iter))
        BY <2>2, <3>1, NothingBeforeEnd DEF end
      <4>2. i = << >> /\ iterIndex' = iterIndex
        BY <2>8, <3>1, <4>1 DEF end
      <4>3. ~IsPrefix(p, << >>)
        BY <2>2, <2>7, <4>1, <3>1, FamilyIs, <2>3 DEF end
      <4>4. iter' = << >>
        BY <2>9, <2>11, <4>2, <4>3
      <4>5. QED
        BY <2>1, <2>7, <4>2, <4>4 DEF AtIndex
    <3>2. CASE iter # end /\ ~(iter = p \/ Less(p, iter))
      <4>1. i = iter /\ iterIndex' = iterIndex
        BY <2>8, <3>2
      <4>2. Less(iter, p) /\ iter \in V /\ iterIndex = Cardinality(Before(V, iter))
        BY <2>1, <2>2, <2>6, <3>2, LessIsTotal
      <4>3. ~IsPrefix(p, iter)
        BY <2>1, <2>3, <3>2, FamilyIs
      <4>4. /\ iter' \in A
            /\ Cardinality(Before(U, iter')) = Cardinality(Before(V, iter)) - 0
        BY <2>9, <2>11, <4>1, <4>2, <4>3
      <4>5. QED
        BY <2>1, <2>6, <2>7, <4>1, <4>2, <4>4 DEF AtIndex
    <3>3. CASE iter # end /\ (iter = p \/ Less(p, iter))
      <4>1. iter \in visible /\ ~Less(iter, p) /\ iterIndex = Index(iter)
        BY <2>1, <2>2, <3>3, LessIsStrict
      <4>2. Left(p, size[p] + 1) =
                IF Less(iter, Sibling(p, 1))
                THEN [iter |-> p, iterIndex |-> iterIndex - (Index(iter) - Index(p))]
                ELSE [iter |-> iter, iterIndex |-> iterIndex - (size[p] + 1)]
        BY <1>4, <2>1, <4>1, LeftIs
      <4>3. i = Left(p, size[p] + 1).iter /\ iterIndex' = Left(p, size[p] + 1).iterIndex
        BY <2>8, <3>3
      <4>4. CASE Less(iter, Sibling(p, 1))
        <5>1. i = p /\ iterIndex' = iterIndex - (Index(iter) - Index(p))
          BY <4>2, <4>3, <4>4
        <5>2. iterIndex' = Index(p) /\ Index(p) \in Nat
          BY <2>1, <4>1, <5>1
        <5>3. IsPrefix(p, p)
          BY <2>2, <2>3, FamilyIs
        <5>4. iter' = f[p]
          BY <2>9, <5>1, <5>3
        <5>5. Index(p) = Cardinality(Before(V, p))
          BY <2>1, <2>6
        <5>6. \/ iter' = << >>
              \/ iter' \in A /\ Cardinality(Before(U, iter')) = iterIndex'
          BY <2>11, <5>2, <5>4, <5>5
        <5>7. QED
          BY <2>6, <2>7, <5>2, <5>6 DEF AtIndex
      <4>5. CASE ~Less(iter, Sibling(p, 1))
        <5>1. i = iter /\ iterIndex' = iterIndex - (size[p] + 1)
          BY <4>2, <4>3, <4>5
        <5>2. ~IsPrefix(p, iter)
          BY <2>1, <2>3, <4>5, FamilyIs
        <5>3. iter \in V /\ iterIndex = Cardinality(Before(V, iter))
          BY <2>1, <2>6, <4>1
        <5>4. /\ iter' \in A
              /\ Cardinality(Before(U, iter')) = Cardinality(Before(V, iter)) - c
          BY <2>9, <2>11, <4>1, <5>1, <5>2, <5>3
        <5>5. iterIndex' = Cardinality(Before(U, iter'))
          BY <2>10, <5>1, <5>3, <5>4
        <5>6. iterIndex' \in Nat
          <6>1. IsFiniteSet(U)
            BY <2>6, <2>7, FS_Subset DEF IsTree
          <6>2. Cardinality(Before(U, iter')) \in Nat
            BY <6>1, FS_Subset, FS_CardinalityType DEF Before
          <6>3. QED
            BY <5>5, <6>2
        <5>7. QED
          BY <2>6, <2>7, <5>4, <5>5, <5>6 DEF AtIndex
      <4>6. QED
        BY <4>4, <4>5
    <3>4. QED
      BY <3>1, <3>2, <3>3
  <2>13. QED
    BY <2>7, <2>12 DEF TreeInv
<1>5. QED
  BY <1>3, <1>4

-----------------------------------------------------------------------------
(* The theorems *)

\* Every step keeps the invariant.
LEMMA NextKeeps ==
    ASSUME TreeInv, [Next]_vars
    PROVE  TreeInv'
<1>1. CASE UNCHANGED vars
  BY <1>1 DEF vars, TreeInv
<1>2. CASE ListCounts
  BY <1>2, ListCountsKeeps
<1>3. ASSUME NEW k \in 0 .. MaxItems, getWidget(k) \/ recycle(k) PROVE TreeInv'
  <2>1. k \in Nat /\ iterForIndex(k) /\ UNCHANGED <<model, size>>
    BY <1>3, TreeViewAssumption DEF getWidget, recycle
  <2>2. QED
    BY <2>1, IterForIndexKeeps
<1>4. ASSUME NEW p \in visible, collapse(p) \/ uncollapse(p) PROVE TreeInv'
  BY <1>4, CollapseKeeps, UncollapseKeeps
<1>5. IsTree(model \cup {<< >>}) /\ << >> \notin model
  BY DEF TreeInv, KeptTree
<1>6. ASSUME NEW p \in model \cup {<< >>}, AddItem(Append(p, count(p))) PROVE TreeInv'
  <2>1. count(p) \in Nat /\ count(p) <= count(p)
    <3>1. Cardinality(ChildrenIn(model, p)) \in Nat
      BY <1>5, ModelIs
    <3>2. QED
      BY <3>1 DEF count
  <2>2. AddItem(Child(p, count(p)))
    BY <1>6 DEF Child
  <2>3. QED
    BY <2>1, <2>2, AddItemKeeps
<1>7. ASSUME NEW p \in model, AddItem(p) PROVE TreeInv'
  <2>1. p \in Path /\ p # << >>
    BY <1>5 DEF IsTree
  <2>2. PICK b \in Path, j \in Nat : b = Parent(p) /\ p = Child(b, j)
    BY <2>1, ParentIs
  <2>3. b \in model \cup {<< >>}
    BY <1>5, <2>1, <2>2 DEF IsTree
  <2>4. count(b) \in Nat /\ Kids(model, b, count(b))
    BY <1>5, <2>3, ModelIs DEF count
  <2>5. j <= count(b)
    BY <2>2, <2>4 DEF Kids
  <2>6. QED
    BY <1>7, <2>2, <2>3, <2>5, AddItemKeeps
<1>8. ASSUME NEW p \in model, RemoveItem(p) PROVE TreeInv'
  BY <1>8, RemoveItemKeeps
<1>9. CASE notifyDataSetChanged
  BY <1>9, DataSetChangedKeeps
<1>10. QED
  BY <1>1, <1>2, <1>3, <1>4, <1>6, <1>7, <1>8, <1>9 DEF Next

\* So it holds in every state.
LEMMA TreeInvHolds == Spec => []TreeInv
<1>1. Init => TreeInv
  BY InitKeeps
<1>2. TreeInv /\ [Next]_vars => TreeInv'
  BY NextKeeps
<1>3. QED
  BY <1>1, <1>2, PTL DEF Spec

\* The variables keep their types: paths, and numbers that do not fall below 0.
THEOREM TreeTypeCorrect == Spec => []TypeOK
<1>1. TreeInv => TypeOK
  <2> SUFFICES ASSUME TreeInv PROVE TypeOK
    OBVIOUS
  <2>2. /\ IsTree(DOMAIN size) /\ DOMAIN size \subseteq Path /\ << >> \in DOMAIN size
        /\ iter \in Path /\ iterIndex \in Nat
    BY InvIs
  <2>3. model \subseteq Path
    BY DEF TreeInv, KeptTree, IsTree
  <2>4. ASSUME NEW p \in DOMAIN size PROVE size[p] \in Nat
    <3>1. size[p] = Cardinality(Below(DOMAIN size, p))
      BY DEF TreeInv, KeptTree
    <3>2. Cardinality(Below(DOMAIN size, p)) \in Nat
      BY <2>2, FS_Subset, FS_CardinalityType DEF IsTree, Below
    <3>3. QED
      BY <3>1, <3>2
  <2>5. QED
    BY <2>2, <2>3, <2>4 DEF TypeOK
<1>2. QED
  BY <1>1, TreeInvHolds, PTL

\* The size that each node keeps is the number of items in view below it,
\* whatever is collapsed, uncollapsed, added and removed.
THEOREM SizesAreRight == Spec => []SizesCount
<1>1. TreeInv => SizesCount
  <2> SUFFICES ASSUME TreeInv, NEW p \in DOMAIN size
               PROVE  size[p] = Cardinality({q \in visible : IsStrictPrefix(p, q)})
    BY DEF SizesCount
  <2>2. visible = DOMAIN size \ {<< >>} /\ p \in Path
    BY InvIs
  <2>3. ~IsStrictPrefix(p, << >>)
    <3>1. << >> \in Path /\ Len(<< >>) = 0 /\ Len(p) \in Nat
      BY <2>2, PathIs DEF Path
    <3>2. QED
      BY <2>2, <3>1, PrefixIs
  <2>4. {q \in visible : IsStrictPrefix(p, q)} = Below(DOMAIN size, p)
    BY <2>2, <2>3 DEF Below
  <2>5. size[p] = Cardinality(Below(DOMAIN size, p))
    BY DEF TreeInv, KeptTree
  <2>6. QED
    BY <2>4, <2>5
<1>2. QED
  BY <1>1, TreeInvHolds, PTL

\* Below each item in view none or all of the program's items are in view.
THEOREM SubtreesAreWhole == Spec => []AllOrNone
<1>1. TreeInv => AllOrNone
  <2> SUFFICES ASSUME TreeInv, NEW p \in DOMAIN size
               PROVE  ChildrenIn(visible, p) \in {{}, ChildrenIn(model, p)}
    BY DEF AllOrNone
  <2>2. visible = DOMAIN size \ {<< >>} /\ p \in Path /\ visible \subseteq Path
    BY InvIs
  <2>3. model \subseteq Path /\ AlikeAt(DOMAIN size, model, p)
    BY DEF TreeInv, KeptTree, IsTree
  <2>4. \A k \in Nat : Child(p, k) \in DOMAIN size <=> Child(p, k) \in visible
    BY <2>2, ChildIsPath
  <2>5. /\ ChildrenIn(visible, p) = {q \in visible : \E k \in Nat : q = Child(p, k)}
        /\ ChildrenIn(model, p) = {q \in model : \E k \in Nat : q = Child(p, k)}
    BY <2>2, <2>3, ChildrenAre
  <2>6. CASE \A k \in Nat : Child(p, k) \notin visible
    <3>1. ChildrenIn(visible, p) = {}
      BY <2>5, <2>6
    <3>2. QED
      BY <3>1
  <2>7. CASE \A k \in Nat : Child(p, k) \in visible <=> Child(p, k) \in model
    <3>1. ChildrenIn(visible, p) = ChildrenIn(model, p)
      BY <2>5, <2>7
    <3>2. QED
      BY <3>1
  <2>8. QED
    BY <2>3, <2>4, <2>6, <2>7 DEF AlikeAt
<1>2. QED
  BY <1>1, TreeInvHolds, PTL

\* The iterator that iterForIndex() starts from is on an item in view, and
\* iterIndex is the index of that item.
THEOREM IteratorIsAtIndex == Spec => []IterAtIndex
<1>1. TreeInv => IterAtIndex
  BY InvIs DEF IterAtIndex
<1>2. QED
  BY <1>1, TreeInvHolds, PTL

\* getWidget() gets to an item for every index below count(), from wherever the
\* iterator was left.
THEOREM ItemsAreFound == Spec => FindsItem
<1>1. ASSUME TreeInv, NEW k \in 0 .. MaxItems, getWidget(k) PROVE iter' # end
  <2>1. /\ IsTree(DOMAIN size) /\ visible = DOMAIN size \ {<< >>}
        /\ DOMAIN size \subseteq Path /\ << >> \in DOMAIN size
        /\ iter \in visible \cup {end} /\ iterIndex \in Nat /\ IsFiniteSet(visible)
        /\ iter # end => iterIndex = Index(iter)
        /\ \A q : Index(q) = Cardinality(Before(visible, q)) /\ Index(q) \in Nat
    BY <1>1, InvIs
  <2>2. k \in Nat /\ k < Cardinality(visible)
    <3>1. size[<< >>] = Cardinality(Below(DOMAIN size, << >>))
      BY <1>1, <2>1 DEF TreeInv, KeptTree
    <3>2. \A q \in DOMAIN size : IsStrictPrefix(<< >>, q) <=> q # << >>
      <4>1. ASSUME NEW q \in DOMAIN size
            PROVE  IsStrictPrefix(<< >>, q) <=> q # << >>
        <5>1. /\ q \in Path /\ << >> \in Path /\ Len(<< >>) = 0 /\ Len(q) \in Nat
              /\ q = << >> <=> Len(q) = 0
          BY <2>1, PathIs DEF Path
        <5>2. IsStrictPrefix(<< >>, q) <=> 0 < Len(q) /\ Same(<< >>, q, 0)
          BY <5>1, PrefixIs
        <5>3. QED
          BY <5>1, <5>2 DEF Same
      <4>2. QED
        BY <4>1
    <3>3. Below(DOMAIN size, << >>) = visible
      BY <2>1, <3>2 DEF Below
    <3>4. QED
      BY <1>1, <3>1, <3>3, TreeViewAssumption DEF getWidget
  <2>3. CASE iter = end
    <3>1. iter' = Advanced(begin, k)
      BY <1>1, <2>3 DEF getWidget, iterForIndex
    <3>2. /\ begin = end => visible = {}
          /\ begin # end => begin \in visible /\ Before(visible, begin) = {}
      <4>1. \/ begin = end /\ visible = {}
            \/ begin \in visible /\ Before(visible, begin) = {}
        BY <2>1, BeginIs
      <4>2. end \notin visible
        BY <2>1 DEF end
      <4>3. QED
        BY <4>1, <4>2
    <3>3. begin \in visible /\ Index(begin) = 0
      <4>1. visible # {}
        BY <2>2, FS_EmptySet
      <4>2. QED
        BY <2>1, <3>2, <4>1, FS_EmptySet
    <3>4. Reaches(begin, k, Advanced(begin, k))
      BY <2>1, <2>2, <3>3, AdvancedIs
    <3>5. QED
      BY <2>2, <3>1, <3>3, <3>4 DEF Reaches
  <2>4. CASE iter # end
    <3>1. iter' = Advanced(iter, k - iterIndex)
      BY <1>1, <2>4 DEF getWidget, iterForIndex
    <3>2. Reaches(iter, k - iterIndex, Advanced(iter, k - iterIndex))
      <4>1. k - iterIndex \in Int
        BY <2>1, <2>2
      <4>2. QED
        BY <2>1, <4>1, AdvancedIs
    <3>3. Index(iter) + (k - iterIndex) = k
      BY <2>1, <2>2, <2>4
    <3>4. QED
      BY <2>1, <2>2, <2>4, <3>1, <3>2, <3>3 DEF Reaches
  <2>5. QED
    BY <2>3, <2>4
<1>2. TreeInv /\ [Next]_vars => [\A k \in 0 .. MaxItems : getWidget(k) => iter' # end]_vars
  BY <1>1
<1>3. QED
  BY <1>2, TreeInvHolds, PTL DEF Spec, FindsItem

=============================================================================

--------------------------- MODULE ResourceProofs ---------------------------
(***************************************************************************)
(* Names are shared: as long as a resource lives its name designates it.   *)
(*                                                                         *)
(* The inductive invariant is Sound: beside the property, what the map     *)
(* designates has the name and the type it is designated by, or is gone.   *)
(* Within a load, a resource that is made is not in the map yet: Sound has *)
(* it for all objects but that one, and a load within the load must not    *)
(* take the name of the outer one.                                         *)
(*                                                                         *)
(* Caches have one: Listed says that what was rendered, and lives, is in   *)
(* the cache of its parent under its key, and no two are there under one   *)
(* key.  A death then erases an entry that is its own.  Images that were   *)
(* asked for their natural size are excepted (see the README).             *)
(*                                                                         *)
(* Names are found where the include trees say: Finds relates a name to    *)
(* the last pack of a list that describes it, LastIs to the last file of a *)
(* list the tree of which decides it.  Files are ranked, so that all that  *)
(* is defined along the includes has the value its definition gives it.    *)
(***************************************************************************)
EXTENDS ResourceManager, SequenceTheorems, FiniteSetTheorems,
        WellFoundedInduction, TLAPS

\* Induction over a set of naturals.
LEMMA Induction ==
    ASSUME NEW S, 0 \in S, \A n \in Nat : n \in S => n + 1 \in S
    PROVE  Nat \subseteq S
<1> SUFFICES ASSUME NEW k \in Nat, k \notin S PROVE FALSE
  OBVIOUS
<1> DEFINE T == {n \in Nat : n \notin S}
           R == OpToRel(<, Nat)
<1>1. T \subseteq Nat /\ T # {}
  OBVIOUS
<1>2. IsWellFoundedOn(R, Nat)
  BY NatLessThanWellFounded
<1>3. \A x, y \in Nat : y < x => <<y, x>> \in R
  BY DEF OpToRel
<1> HIDE DEF T, R
<1>4. PICK m \in T : \A y \in T : ~(<<y, m>> \in R)
  BY <1>1, <1>2, WFMin
<1>5. m \in Nat /\ m \notin S
  BY <1>4 DEF T
<1>6. m - 1 \in Nat /\ m - 1 < m
  BY <1>5
<1>7. m - 1 \notin T
  BY <1>3, <1>4, <1>5, <1>6
<1>8. m - 1 \in S
  BY <1>6, <1>7 DEF T
<1>9. QED
  BY <1>5, <1>6, <1>8

\* A set of numbers up to n has a greatest one.
LEMMA MaxProperties ==
    ASSUME NEW n \in Nat, NEW I \in SUBSET (1 .. n), I # {}
    PROVE  Max(I) \in I /\ \A i \in I : Max(I) >= i
<1> DEFINE S == {m \in Nat : \A J \in SUBSET (1 .. m) :
                     J # {} => \E k \in J : \A i \in J : k >= i}
<1>1. 0 \in S
  <2>1. 1 .. 0 = {}
    OBVIOUS
  <2>2. \A J \in SUBSET (1 .. 0) : J = {}
    BY <2>1
  <2>3. QED
    BY <2>2
<1>2. ASSUME NEW m \in Nat, m \in S PROVE m + 1 \in S
  <2> SUFFICES ASSUME NEW J \in SUBSET (1 .. m + 1), J # {}
               PROVE  \E k \in J : \A i \in J : k >= i
    OBVIOUS
  <2>1. CASE m + 1 \in J
    BY <2>1
  <2>2. CASE m + 1 \notin J
    <3>1. J \in SUBSET (1 .. m)
      BY <2>2
    <3>2. QED
      BY <1>2, <3>1
  <2>3. QED
    BY <2>1, <2>2
<1> HIDE DEF S
<1>3. n \in S
  BY <1>1, <1>2, Induction
<1>4. \E k \in I : \A i \in I : k >= i
  BY <1>3 DEF S
<1>5. QED
  BY <1>4 DEF Max

-----------------------------------------------------------------------------
(* The order of the includes *)

\* Files can be ranked: what a file includes has a lower rank than the file.
Ranks(rank, n, F) ==
    /\ rank \in [F -> 0 .. n]
    /\ \A f \in F : \A g \in Range(Includes[f]) \cap Files :
           g \in F /\ rank[g] < rank[f]

LEMMA FilesHaveRanks == \E n \in Nat : \E rank : Ranks(rank, n, Files)
<1> DEFINE S == {n \in Nat : n <= Cardinality(Files) =>
                     \E F \in SUBSET Files :
                         Cardinality(F) = n /\ \E rank : Ranks(rank, n, F)}
<1>1. 0 \in S
  <2>1. Cardinality({}) = 0
    BY FS_EmptySet
  <2>2. Ranks([f \in {} |-> 0], 0, {})
    BY DEF Ranks
  <2>3. QED
    BY <2>1, <2>2
<1>2. ASSUME NEW n \in Nat, n \in S PROVE n + 1 \in S
  <2> SUFFICES ASSUME n + 1 <= Cardinality(Files)
               PROVE  \E F \in SUBSET Files :
                          /\ Cardinality(F) = n + 1
                          /\ \E rank : Ranks(rank, n + 1, F)
    OBVIOUS
  <2>0. IsFiniteSet(Files) /\ Cardinality(Files) \in Nat
    BY ResourceAssumption, FS_CardinalityType
  <2>1. PICK F \in SUBSET Files : /\ Cardinality(F) = n
                                  /\ \E rank : Ranks(rank, n, F)
    BY <1>2, <2>0
  <2>2. PICK rank : Ranks(rank, n, F)
    BY <2>1
  <2>3. Files \ F # {}
    <3>1. F # Files
      BY <2>0, <2>1
    <3>2. QED
      BY <3>1
  <2>4. PICK f \in Files \ F : Range(Includes[f]) \cap (Files \ F) = {}
    BY <2>3, ResourceAssumption
  <2> DEFINE G == F \cup {f}
             r == [g \in G |-> IF g = f THEN n + 1 ELSE rank[g]]
  <2>5. Cardinality(G) = n + 1
    <3>1. IsFiniteSet(F)
      BY <2>0, FS_Subset
    <3>2. QED
      BY <2>1, <2>4, <3>1, FS_AddElement
  <2>6. r \in [G -> 0 .. n + 1]
    BY <2>2 DEF Ranks
  <2>7. ASSUME NEW g \in G, NEW h \in Range(Includes[g]) \cap Files
        PROVE  h \in G /\ r[h] < r[g]
    <3>1. CASE g = f
      <4>1. h \in F /\ h # f
        BY <2>4, <2>7, <3>1
      <4>2. rank[h] \in 0 .. n
        BY <2>2, <4>1 DEF Ranks
      <4>3. r[h] = rank[h] /\ r[g] = n + 1
        BY <3>1, <4>1
      <4>4. QED
        BY <4>1, <4>2, <4>3
    <3>2. CASE g # f
      <4>1. g \in F
        BY <3>2
      <4>2. h \in F /\ rank[h] < rank[g]
        BY <2>2, <2>7, <4>1 DEF Ranks
      <4>3. r[h] = rank[h] /\ r[g] = rank[g]
        BY <2>4, <3>2, <4>1, <4>2
      <4>4. QED
        BY <4>2, <4>3
    <3>3. QED
      BY <3>1, <3>2
  <2> HIDE DEF r
  <2>8. Ranks(r, n + 1, G)
    BY <2>6, <2>7 DEF Ranks
  <2>9. QED
    BY <2>5, <2>8
<1> HIDE DEF S
<1>3. IsFiniteSet(Files) /\ Cardinality(Files) \in Nat
  BY ResourceAssumption, FS_CardinalityType
<1>4. Cardinality(Files) \in S
  BY <1>1, <1>2, <1>3, Induction
<1>5. PICK F \in SUBSET Files :
          /\ Cardinality(F) = Cardinality(Files)
          /\ \E rank : Ranks(rank, Cardinality(Files), F)
  BY <1>3, <1>4 DEF S
<1>6. F = Files
  BY <1>3, <1>5, FS_Subset
<1>7. QED
  BY <1>3, <1>5, <1>6

LEMMA IncludesAreListed ==
    ASSUME NEW f \in Files
    PROVE  /\ Len(Includes[f]) \in Nat
           /\ DOMAIN Includes[f] = 1 .. Len(Includes[f])
           /\ \A k \in DOMAIN Includes[f] :
                  Includes[f][k] \in Range(Includes[f])
<1>1. PICK S : Includes[f] \in Seq(S)
  BY ResourceAssumption
<1>2. QED
  BY <1>1 DEF Range

-----------------------------------------------------------------------------
(* The packs of a file *)

\* The definition of MountedBy, when M is what the files that are included
\* mount: one more include, all of them, and the file.
Nothing == [packs |-> << >>, threw |-> FALSE]

Include(M, done, g) ==
    IF done.threw THEN done
    ELSE IF g \notin Files THEN [done EXCEPT !.threw = TRUE]
    ELSE [packs |-> done.packs \o M[g].packs, threw |-> M[g].threw]

Included(M, s) ==
    FoldLeft(LAMBDA done, g : Include(M, done, g), Nothing, s)

Mount(M, f) ==
    IF Included(M, Includes[f]).threw THEN Included(M, Includes[f])
    ELSE [Included(M, Includes[f]) EXCEPT !.packs = Includer(@, f)]

Mounts(M) == M = [f \in Files |-> Mount(M, f)]

LEMMA MountedByIs == MountedBy = CHOOSE M : Mounts(M)
BY DEF MountedBy, Mounts, Mount, Included, Include, Nothing

\* The function that FoldLeft defines and takes a value of.
Folds(h, M, s, S) ==
    h[S] = IF S = {} THEN Nothing
           ELSE Include(M, h[S \ {Max(S)}], s[Max(S)])

LEMMA FoldExists ==
    ASSUME NEW M, NEW n \in Nat, NEW s, DOMAIN s = 1 .. n
    PROVE  \E h : /\ h = [S \in SUBSET (1 .. n) |-> h[S]]
                  /\ \A S \in SUBSET (1 .. n) : Folds(h, M, s, S)
<1> DEFINE D == SUBSET (1 .. n)
           T == {m \in Nat : \E h : \A S \in D :
                     Cardinality(S) <= m => Folds(h, M, s, S)}
<1>0. ASSUME NEW S \in D
      PROVE  /\ IsFiniteSet(S) /\ Cardinality(S) \in Nat /\ Cardinality(S) <= n
             /\ S # {} => /\ Max(S) \in S /\ S \ {Max(S)} \in D
                          /\ Cardinality(S \ {Max(S)}) = Cardinality(S) - 1
             /\ Cardinality(S) = 0 => S = {}
  <2>0. IsFiniteSet(1 .. n) /\ Cardinality(1 .. n) = IF 1 > n THEN 0 ELSE n - 1 + 1
    BY FS_Interval
  <2>1. Cardinality(1 .. n) = n
    BY <2>0
  <2>2. IsFiniteSet(S) /\ Cardinality(S) <= n
    <3>1. IsFiniteSet(S) /\ Cardinality(S) <= Cardinality(1 .. n)
      BY ONLY <2>0, FS_Subset, S \in SUBSET (1 .. n)
    <3>2. QED
      BY <2>1, <3>1
  <2>3. Cardinality(S) \in Nat /\ (Cardinality(S) = 0 => S = {})
    BY <2>2, FS_CardinalityType, FS_EmptySet
  <2>4. ASSUME S # {}
        PROVE  /\ Max(S) \in S /\ S \ {Max(S)} \in D
               /\ Cardinality(S \ {Max(S)}) = Cardinality(S) - 1
    <3>1. Max(S) \in S
      BY <2>4, MaxProperties
    <3>2. QED
      BY <2>2, <3>1, FS_RemoveElement
  <2>5. QED
    BY <2>2, <2>3, <2>4
<1>1. 0 \in T
  <2> DEFINE h == [S \in D |-> Nothing]
  <2>1. ASSUME NEW S \in D, Cardinality(S) <= 0 PROVE Folds(h, M, s, S)
    <3>1. Cardinality(S) \in Nat /\ (Cardinality(S) = 0 => S = {})
      BY <1>0
    <3>2. S = {}
      BY <2>1, <3>1
    <3>3. QED
      BY <3>2 DEF Folds
  <2> HIDE DEF h
  <2>2. QED
    BY <2>1
<1>2. ASSUME NEW m \in Nat, m \in T PROVE m + 1 \in T
  <2>1. PICK g : \A S \in D : Cardinality(S) <= m => Folds(g, M, s, S)
    BY <1>2
  <2> DEFINE h == [S \in D |-> IF S = {} THEN Nothing
                               ELSE Include(M, g[S \ {Max(S)}], s[Max(S)])]
  <2>2. ASSUME NEW S \in D, Cardinality(S) <= m PROVE h[S] = g[S]
    BY <2>1, <2>2 DEF Folds
  <2>3. ASSUME NEW S \in D
        PROVE  h[S] = IF S = {} THEN Nothing
                      ELSE Include(M, g[S \ {Max(S)}], s[Max(S)])
    OBVIOUS
  <2> HIDE DEF h
  <2>4. ASSUME NEW S \in D, Cardinality(S) <= m + 1 PROVE Folds(h, M, s, S)
    <3>1. CASE S = {}
      BY <2>3, <3>1 DEF Folds
    <3>2. CASE S # {}
      <4>1. /\ S \ {Max(S)} \in D
            /\ Cardinality(S \ {Max(S)}) = Cardinality(S) - 1
            /\ Cardinality(S) \in Nat
        BY <1>0, <3>2
      <4>2. Cardinality(S \ {Max(S)}) <= m
        BY <2>4, <4>1
      <4>3. h[S \ {Max(S)}] = g[S \ {Max(S)}]
        BY <2>2, <4>1, <4>2
      <4>4. QED
        BY <2>3, <3>2, <4>3 DEF Folds
    <3>3. QED
      BY <3>1, <3>2
  <2>5. QED
    BY <2>4
<1> HIDE DEF T
<1>3. n \in T
  BY <1>1, <1>2, Induction
<1>4. PICK g : \A S \in D : Cardinality(S) <= n => Folds(g, M, s, S)
  BY <1>3 DEF T
<1> DEFINE h == [S \in D |-> g[S]]
<1>5. h = [S \in D |-> h[S]]
  OBVIOUS
<1>6. ASSUME NEW S \in D PROVE Folds(h, M, s, S)
  <2>1. Folds(g, M, s, S) /\ h[S] = g[S]
    BY <1>0, <1>4
  <2>2. S # {} => h[S \ {Max(S)}] = g[S \ {Max(S)}]
    BY <1>0
  <2> HIDE DEF h
  <2>3. QED
    BY <2>1, <2>2 DEF Folds
<1> HIDE DEF h
<1>7. QED
  BY <1>5, <1>6

LEMMA FoldIs ==
    ASSUME NEW M, NEW n \in Nat, NEW s, DOMAIN s = 1 .. n
    PROVE  \E h : /\ \A S \in SUBSET (1 .. n) : Folds(h, M, s, S)
                  /\ Included(M, s) = h[1 .. n]
<1> DEFINE IsFold(h) == h = [S \in SUBSET DOMAIN s |->
                               IF S = {} THEN Nothing
                               ELSE Include(M, h[S \ {Max(S)}], s[Max(S)])]
           h == CHOOSE h : IsFold(h)
<1>1. Included(M, s) = h[DOMAIN s]
  BY DEF Included, FoldLeft, MapThenFoldSet
<1>2. \E g : IsFold(g)
  <2>1. PICK g : /\ g = [S \in SUBSET (1 .. n) |-> g[S]]
                 /\ \A S \in SUBSET (1 .. n) : Folds(g, M, s, S)
    BY FoldExists
  <2>2. IsFold(g)
    BY <2>1 DEF Folds
  <2>3. QED
    BY <2>2
<1>3. IsFold(h)
  BY <1>2
<1> HIDE DEF h
<1>4. \A S \in SUBSET (1 .. n) : Folds(h, M, s, S)
  BY <1>3 DEF Folds
<1>5. QED
  BY <1>1, <1>4

\* What FoldLeft comes to after so many includes.
LEMMA IncludesFollow ==
    ASSUME NEW M, NEW n \in Nat, NEW s, DOMAIN s = 1 .. n
    PROVE  \E R : /\ R[0] = Nothing
                  /\ \A k \in 0 .. n - 1 : R[k + 1] = Include(M, R[k], s[k + 1])
                  /\ Included(M, s) = R[n]
<1>1. PICK h : /\ \A S \in SUBSET (1 .. n) : Folds(h, M, s, S)
               /\ Included(M, s) = h[1 .. n]
  BY FoldIs
<1> DEFINE R == [k \in 0 .. n |-> h[1 .. k]]
<1>2. R[0] = Nothing
  <2>1. 1 .. 0 = {}
    OBVIOUS
  <2>2. Folds(h, M, s, {})
    BY <1>1
  <2>3. QED
    BY <2>1, <2>2 DEF Folds
<1>3. ASSUME NEW k \in 0 .. n - 1
      PROVE  R[k + 1] = Include(M, R[k], s[k + 1])
  <2>1. PICK S \in SUBSET (1 .. n) : S = 1 .. k + 1
    OBVIOUS
  <2>2. S # {} /\ k + 1 \in S
    BY <2>1
  <2>3. Max(S) \in S /\ \A i \in S : Max(S) >= i
    BY <2>2, MaxProperties
  <2>4. Max(S) = k + 1
    BY <2>1, <2>2, <2>3
  <2>5. S \ {k + 1} = 1 .. k
    BY <2>1
  <2>6. h[S] = Include(M, h[1 .. k], s[k + 1])
    BY <1>1, <2>2, <2>4, <2>5 DEF Folds
  <2>7. R[k] = h[1 .. k] /\ R[k + 1] = h[1 .. k + 1]
    OBVIOUS
  <2> HIDE DEF R
  <2>8. QED
    BY <2>1, <2>6, <2>7
<1>4. R[n] = h[1 .. n]
  OBVIOUS
<1> HIDE DEF R
<1>5. QED
  BY <1>1, <1>2, <1>3, <1>4

\* It comes from what the files that are included mount, of nothing else.
LEMMA IncludedAlike ==
    ASSUME NEW M, NEW N, NEW n \in Nat, NEW s, DOMAIN s = 1 .. n,
           \A k \in 1 .. n : s[k] \in Files => M[s[k]] = N[s[k]]
    PROVE  Included(M, s) = Included(N, s)
<1>1. PICK R : /\ R[0] = Nothing
               /\ \A k \in 0 .. n - 1 : R[k + 1] = Include(M, R[k], s[k + 1])
               /\ Included(M, s) = R[n]
  BY IncludesFollow
<1>2. PICK T : /\ T[0] = Nothing
               /\ \A k \in 0 .. n - 1 : T[k + 1] = Include(N, T[k], s[k + 1])
               /\ Included(N, s) = T[n]
  BY IncludesFollow
<1> DEFINE S == {k \in Nat : k <= n => R[k] = T[k]}
<1>3. 0 \in S
  BY <1>1, <1>2
<1>4. ASSUME NEW k \in Nat, k \in S PROVE k + 1 \in S
  <2> SUFFICES ASSUME k + 1 <= n PROVE R[k + 1] = T[k + 1]
    OBVIOUS
  <2>1. k \in 0 .. n - 1 /\ k + 1 \in 1 .. n /\ R[k] = T[k]
    BY <1>4
  <2>2. R[k + 1] = Include(M, R[k], s[k + 1])
    BY <1>1, <2>1
  <2>3. T[k + 1] = Include(N, R[k], s[k + 1])
    BY <1>2, <2>1
  <2>4. s[k + 1] \in Files => M[s[k + 1]] = N[s[k + 1]]
    BY <2>1
  <2>5. QED
    BY <2>2, <2>3, <2>4 DEF Include
<1> HIDE DEF S
<1>5. n \in S
  BY <1>3, <1>4, Induction
<1>6. QED
  BY <1>1, <1>2, <1>5 DEF S

Mounting == [packs : Seq(Files), threw : BOOLEAN]

\* What is included is a list of files, as what the files mount is.
LEMMA IncludedIsMounting ==
    ASSUME NEW M, NEW n \in Nat, NEW s, DOMAIN s = 1 .. n,
           \A k \in 1 .. n : s[k] \in Files => M[s[k]] \in Mounting
    PROVE  Included(M, s) \in Mounting
<1>1. PICK R : /\ R[0] = Nothing
               /\ \A k \in 0 .. n - 1 : R[k + 1] = Include(M, R[k], s[k + 1])
               /\ Included(M, s) = R[n]
  BY IncludesFollow
<1> DEFINE S == {k \in Nat : k <= n => R[k] \in Mounting}
<1>2. 0 \in S
  <2>1. Nothing \in Mounting
    BY DEF Nothing, Mounting
  <2>2. QED
    BY <1>1, <2>1
<1>3. ASSUME NEW k \in Nat, k \in S PROVE k + 1 \in S
  <2> SUFFICES ASSUME k + 1 <= n PROVE R[k + 1] \in Mounting
    OBVIOUS
  <2>1. k \in 0 .. n - 1 /\ k + 1 \in 1 .. n /\ R[k] \in Mounting
    BY <1>3
  <2>2. R[k + 1] = Include(M, R[k], s[k + 1])
    BY <1>1, <2>1
  <2>3. s[k + 1] \in Files => M[s[k + 1]] \in Mounting
    BY <2>1
  <2>4. CASE R[k].threw
    BY <2>1, <2>2, <2>4 DEF Include
  <2>5. CASE ~R[k].threw /\ s[k + 1] \notin Files
    <3>1. R[k + 1] = [R[k] EXCEPT !.threw = TRUE]
      BY <2>2, <2>5 DEF Include
    <3>2. QED
      BY <2>1, <3>1 DEF Mounting
  <2>6. CASE ~R[k].threw /\ s[k + 1] \in Files
    <3>1. R[k + 1] = [packs |-> R[k].packs \o M[s[k + 1]].packs,
                      threw |-> M[s[k + 1]].threw]
      BY <2>2, <2>6 DEF Include
    <3>2. QED
      BY <2>1, <2>3, <2>6, <3>1 DEF Mounting
  <2>7. QED
    BY <2>4, <2>5, <2>6
<1> HIDE DEF S
<1>4. n \in S
  BY <1>2, <1>3, Induction
<1>5. QED
  BY <1>1, <1>4 DEF S

LEMMA MountIsMounting ==
    ASSUME NEW M, NEW f \in Files,
           \A k \in DOMAIN Includes[f] :
               Includes[f][k] \in Files => M[Includes[f][k]] \in Mounting
    PROVE  Mount(M, f) \in Mounting
<1>1. Included(M, Includes[f]) \in Mounting
  BY IncludesAreListed, IncludedIsMounting
<1>2. \A p \in Seq(Files) : Includer(p, f) \in Seq(Files)
  BY DEF Includer
<1>3. QED
  BY <1>1, <1>2 DEF Mount, Mounting

-----------------------------------------------------------------------------
(* Functions that are defined along the includes *)

\* A definition that looks no further than at what a file includes has a
\* function it holds of.
LEMMA DefinedAlongIncludes ==
    ASSUME NEW V, V # {}, NEW G \in [[Files -> V] -> [Files -> V]],
           \A g, h \in [Files -> V] : \A f \in Files :
               (\A e \in Range(Includes[f]) \cap Files : g[e] = h[e])
               => G[g][f] = G[h][f]
    PROVE  \E g \in [Files -> V] : g = G[g]
<1>1. PICK n \in Nat : \E rank : Ranks(rank, n, Files)
  BY FilesHaveRanks
<1>2. PICK rank : Ranks(rank, n, Files)
  BY <1>1
<1> DEFINE S == {m \in Nat : \E g \in [Files -> V] :
                     \A f \in Files : rank[f] < m => g[f] = G[g][f]}
<1>3. \A f \in Files : rank[f] \in Nat /\ rank[f] <= n
  BY <1>2 DEF Ranks
<1>4. 0 \in S
  <2>1. PICK v \in V : TRUE
    OBVIOUS
  <2>2. PICK g \in [Files -> V] : g = [f \in Files |-> v]
    BY <2>1
  <2>3. \A f \in Files : ~(rank[f] < 0)
    BY <1>3
  <2>4. QED
    BY <2>2, <2>3
<1>5. ASSUME NEW m \in Nat, m \in S PROVE m + 1 \in S
  <2>1. PICK g \in [Files -> V] : \A f \in Files : rank[f] < m => g[f] = G[g][f]
    BY <1>5
  <2>2. G[g] \in [Files -> V]
    OBVIOUS
  <2>3. ASSUME NEW f \in Files, rank[f] < m + 1 PROVE G[g][f] = G[G[g]][f]
    <3>1. ASSUME NEW e \in Range(Includes[f]) \cap Files PROVE g[e] = G[g][e]
      <4>1. rank[e] < rank[f]
        BY <1>2 DEF Ranks
      <4>2. rank[e] < m
        BY <1>3, <2>3, <4>1
      <4>3. QED
        BY <2>1, <4>2
    <3>2. QED
      BY <2>2, <3>1
  <2>4. QED
    BY <2>2, <2>3
<1> HIDE DEF S
<1>6. n + 1 \in S
  BY <1>4, <1>5, Induction
<1>7. PICK g \in [Files -> V] : \A f \in Files : rank[f] < n + 1 => g[f] = G[g][f]
  BY <1>6 DEF S
<1>8. \A f \in Files : g[f] = G[g][f]
  BY <1>3, <1>7
<1>9. G[g] \in [Files -> V]
  OBVIOUS
<1>10. QED
  BY <1>8, <1>9

LEMMA MountedByMounts == Mounts(MountedBy)
<1> DEFINE G == [g \in [Files -> Mounting] |-> [f \in Files |-> Mount(g, f)]]
<1>1. Nothing \in Mounting
  BY DEF Nothing, Mounting
<1>2. G \in [[Files -> Mounting] -> [Files -> Mounting]]
  <2>1. ASSUME NEW g \in [Files -> Mounting], NEW f \in Files
        PROVE  Mount(g, f) \in Mounting
    BY MountIsMounting
  <2>2. QED
    BY <2>1
<1>3. ASSUME NEW g \in [Files -> Mounting], NEW h \in [Files -> Mounting],
             NEW f \in Files,
             \A e \in Range(Includes[f]) \cap Files : g[e] = h[e]
      PROVE  G[g][f] = G[h][f]
  <2>1. Included(g, Includes[f]) = Included(h, Includes[f])
    BY <1>3, IncludesAreListed, IncludedAlike
  <2>2. QED
    BY <2>1 DEF Mount
<1>4. \A g \in [Files -> Mounting] : G[g] = [f \in Files |-> Mount(g, f)]
  OBVIOUS
<1> HIDE DEF G
<1>5. PICK g \in [Files -> Mounting] : g = G[g]
  BY <1>1, <1>2, <1>3, DefinedAlongIncludes
<1>6. Mounts(g)
  BY <1>4, <1>5 DEF Mounts
<1>7. QED
  BY <1>6, MountedByIs

\* The definition of Complete.
Completes(C) ==
    C = [f \in Files |-> \A k \in DOMAIN Includes[f] :
                            Includes[f][k] \in Files /\ C[Includes[f][k]]]

LEMMA CompleteCompletes == Completes(Complete)
<1> DEFINE G == [g \in [Files -> BOOLEAN] |->
                    [f \in Files |-> \A k \in DOMAIN Includes[f] :
                        Includes[f][k] \in Files /\ g[Includes[f][k]]]]
<1>1. G \in [[Files -> BOOLEAN] -> [Files -> BOOLEAN]]
  OBVIOUS
<1>2. ASSUME NEW g \in [Files -> BOOLEAN], NEW h \in [Files -> BOOLEAN],
             NEW f \in Files,
             \A e \in Range(Includes[f]) \cap Files : g[e] = h[e]
      PROVE  G[g][f] = G[h][f]
  <2>1. \A k \in DOMAIN Includes[f] :
            Includes[f][k] \in Files => g[Includes[f][k]] = h[Includes[f][k]]
    BY <1>2, IncludesAreListed
  <2>2. (\A k \in DOMAIN Includes[f] :
            Includes[f][k] \in Files /\ g[Includes[f][k]])
        <=> \A k \in DOMAIN Includes[f] :
                Includes[f][k] \in Files /\ h[Includes[f][k]]
    BY <2>1
  <2>3. QED
    BY <2>2
<1>3. \A g \in [Files -> BOOLEAN] : G[g] =
          [f \in Files |-> \A k \in DOMAIN Includes[f] :
                            Includes[f][k] \in Files /\ g[Includes[f][k]]]
  OBVIOUS
<1> HIDE DEF G
<1>4. PICK g \in [Files -> BOOLEAN] : g = G[g]
  BY <1>1, <1>2, DefinedAlongIncludes
<1>5. Completes(g)
  BY <1>3, <1>4 DEF Completes
<1>6. Complete = CHOOSE C : Completes(C)
  BY DEF Complete, Completes
<1>7. QED
  BY <1>5, <1>6

\* The definition of Deciding.
ReadOf(f) == {k \in DOMAIN Includes[f] :
                 /\ Includes[f][k] \in Files
                 /\ \A j \in 1 .. k - 1 :
                        Includes[f][j] \in Files /\ Complete[Includes[f][j]]}

HitsOf(D, f) == {k \in ReadOf(f) : D[Includes[f][k]] # None}

Decided(D, name, f) ==
    IF Complete[f] /\ name \in DOMAIN Described[f] THEN f
    ELSE IF HitsOf(D, f) = {} THEN None
    ELSE D[Includes[f][Max(HitsOf(D, f))]]

Decides(D, name) == D = [f \in Files |-> Decided(D, name, f)]

LEMMA HitIsRead ==
    ASSUME NEW D, NEW f \in Files, HitsOf(D, f) # {}
    PROVE  Max(HitsOf(D, f)) \in HitsOf(D, f)
<1>1. HitsOf(D, f) \in SUBSET (1 .. Len(Includes[f]))
  BY IncludesAreListed DEF HitsOf, ReadOf
<1>2. QED
  BY <1>1, IncludesAreListed, MaxProperties

LEMMA DecidingDecides == ASSUME NEW name PROVE Decides(Deciding(name), name)
<1> DEFINE V == Files \cup {None}
           G == [g \in [Files -> V] |-> [f \in Files |-> Decided(g, name, f)]]
<1>1. G \in [[Files -> V] -> [Files -> V]]
  <2>1. ASSUME NEW g \in [Files -> V], NEW f \in Files
        PROVE  Decided(g, name, f) \in V
    <3>1. CASE HitsOf(g, f) = {}
      BY <3>1 DEF Decided
    <3>2. CASE HitsOf(g, f) # {}
      <4>1. Includes[f][Max(HitsOf(g, f))] \in Files
        BY <3>2, HitIsRead DEF HitsOf, ReadOf
      <4>2. QED
        BY <4>1 DEF Decided
    <3>3. QED
      BY <3>1, <3>2
  <2>2. QED
    BY <2>1
<1>2. ASSUME NEW g \in [Files -> V], NEW h \in [Files -> V],
             NEW f \in Files,
             \A e \in Range(Includes[f]) \cap Files : g[e] = h[e]
      PROVE  G[g][f] = G[h][f]
  <2>1. \A k \in ReadOf(f) : g[Includes[f][k]] = h[Includes[f][k]]
    BY <1>2, IncludesAreListed DEF ReadOf
  <2>2. HitsOf(g, f) = HitsOf(h, f)
    BY <2>1 DEF HitsOf
  <2>3. Decided(g, name, f) = Decided(h, name, f)
    <3>1. CASE HitsOf(g, f) = {}
      BY <2>2, <3>1 DEF Decided
    <3>2. CASE HitsOf(g, f) # {}
      <4>1. Max(HitsOf(g, f)) \in ReadOf(f)
        BY <3>2, HitIsRead DEF HitsOf
      <4>2. QED
        BY <2>1, <2>2, <4>1 DEF Decided
    <3>3. QED
      BY <3>1, <3>2
  <2>4. QED
    BY <2>3
<1>3. \A g \in [Files -> V] : G[g] = [f \in Files |-> Decided(g, name, f)]
  OBVIOUS
<1> HIDE DEF G
<1>4. PICK g \in [Files -> V] : g = G[g]
  <2>1. V # {}
    OBVIOUS
  <2> HIDE DEF V
  <2>2. QED
    BY <1>1, <1>2, <2>1, DefinedAlongIncludes
<1>5. Decides(g, name)
  BY <1>3, <1>4 DEF Decides
<1>6. Deciding(name) = CHOOSE D : Decides(D, name)
  BY DEF Deciding, Decides, Decided, HitsOf, ReadOf
<1>7. QED
  BY <1>5, <1>6

-----------------------------------------------------------------------------
(* The last of a list *)

\* x is what D says of the last place of I in s, or None when I has none.
LastIs(x, D, s, I) ==
    IF I = {} THEN x = None
    ELSE \E k \in I : x = D[s[k]] /\ \A i \in I : i <= k

Hits(D, s) == {k \in DOMAIN s : D[s[k]] # None}

Saying(name, p) == {k \in DOMAIN p : name \in DOMAIN Described[p[k]]}

\* The last file of list p that describes the name is x; None is no file.
Finds(x, name, p) ==
    IF x = None THEN Saying(name, p) = {}
    ELSE \E k \in Saying(name, p) :
             p[k] = x /\ \A i \in Saying(name, p) : i <= k

LEMMA FindsInBoth ==
    ASSUME NEW name, NEW p \in Seq(Files), NEW q \in Seq(Files),
           NEW x, NEW y, Finds(x, name, p), Finds(y, name, q)
    PROVE  Finds(IF y = None THEN x ELSE y, name, p \o q)
<1> DEFINE P == Saying(name, p)
           Q == Saying(name, q)
           B == Saying(name, p \o q)
<1>1. PICK m \in Nat, n \in Nat : m = Len(p) /\ n = Len(q)
  OBVIOUS
<1>2. /\ DOMAIN p = 1 .. m /\ DOMAIN q = 1 .. n
      /\ DOMAIN (p \o q) = 1 .. m + n
      /\ \A k \in 1 .. m : (p \o q)[k] = p[k]
      /\ \A k \in 1 .. n : (p \o q)[m + k] = q[k]
  BY <1>1
<1>3. P \subseteq 1 .. m /\ Q \subseteq 1 .. n /\ B \subseteq 1 .. m + n
  BY <1>2 DEF Saying
<1>4. \A k \in 1 .. m : k \in B <=> k \in P
  BY <1>2 DEF Saying
<1>5. \A k \in 1 .. n : m + k \in B <=> k \in Q
  BY <1>2 DEF Saying
<1>6. ASSUME NEW k \in B, k > m PROVE k - m \in Q
  <2>1. k - m \in 1 .. n /\ m + (k - m) = k
    BY <1>3, <1>6
  <2>2. QED
    BY <1>5, <2>1
<1>7. CASE y = None
  <2>1. Q = {}
    BY <1>7 DEF Finds
  <2>2. \A k \in B : k <= m
    BY <1>3, <1>6, <2>1
  <2>3. \A k : k \in B <=> k \in P
    BY <1>3, <1>4, <2>2
  <2>4. CASE x = None
    <3>1. P = {}
      BY <2>4 DEF Finds
    <3>2. B = {}
      BY <2>3, <3>1
    <3>3. QED
      BY <1>7, <2>4, <3>2 DEF Finds
  <2>5. CASE x # None
    <3>1. PICK k \in P : p[k] = x /\ \A i \in P : i <= k
      BY <2>5 DEF Finds
    <3>2. k \in B /\ (p \o q)[k] = x /\ \A i \in B : i <= k
      BY <1>2, <1>3, <2>3, <3>1
    <3>3. QED
      BY <1>7, <2>5, <3>2 DEF Finds
  <2>6. QED
    BY <2>4, <2>5
<1>8. CASE y # None
  <2>1. PICK k \in Q : q[k] = y /\ \A i \in Q : i <= k
    BY <1>8 DEF Finds
  <2>2. m + k \in B /\ (p \o q)[m + k] = y
    BY <1>2, <1>3, <1>5, <2>1
  <2>3. ASSUME NEW i \in B PROVE i <= m + k
    <3>1. CASE i > m
      <4>1. i - m <= k
        BY <1>6, <2>1, <3>1
      <4>2. i \in Nat /\ k \in Nat
        BY <1>3
      <4>3. QED
        BY <4>1, <4>2
    <3>2. CASE ~(i > m)
      BY <1>3, <3>2
    <3>3. QED
      BY <3>1, <3>2
  <2> HIDE DEF B
  <2>4. QED
    BY <1>8, <2>2, <2>3 DEF Finds, B
<1>9. QED
  BY <1>7, <1>8

\* The file itself comes last.
LEMMA FindsIncluder ==
    ASSUME NEW name, NEW p \in Seq(Files), NEW f \in Files, NEW x,
           Finds(x, name, p)
    PROVE  Finds(IF name \in DOMAIN Described[f] THEN f ELSE x, name,
                 Includer(p, f))
<1>1. CASE DOMAIN Described[f] = {}
  BY <1>1 DEF Includer
<1>2. CASE DOMAIN Described[f] # {}
  <2>1. Includer(p, f) = p \o <<f>>
    BY <1>2 DEF Includer
  <2>2. <<f>> \in Seq(Files) /\ DOMAIN <<f>> = {1} /\ <<f>>[1] = f
    OBVIOUS
  <2>3. CASE name \in DOMAIN Described[f]
    <3>1. Saying(name, <<f>>) = {1}
      BY <2>2, <2>3 DEF Saying
    <3>2. f # None
      BY ResourceAssumption
    <3>3. Finds(f, name, <<f>>)
      BY <2>2, <3>1, <3>2 DEF Finds
    <3>4. QED
      BY <2>1, <2>2, <2>3, <3>2, <3>3, FindsInBoth
  <2>4. CASE name \notin DOMAIN Described[f]
    <3>1. Saying(name, <<f>>) = {}
      BY <2>2, <2>4 DEF Saying
    <3>2. Finds(None, name, <<f>>)
      BY <3>1 DEF Finds
    <3>3. QED
      BY <2>1, <2>2, <2>4, <3>2, FindsInBoth
  <2>5. QED
    BY <2>3, <2>4
<1>3. QED
  BY <1>1, <1>2

\* One more place that is later than those of I.
LEMMA LastOfMore ==
    ASSUME NEW D, NEW s, NEW m \in Nat, NEW I \in SUBSET (1 .. m),
           NEW J \in SUBSET (1 .. m + 1), NEW x, LastIs(x, D, s, I),
           J = I \cup {k \in {m + 1} : D[s[k]] # None}
    PROVE  LastIs(IF D[s[m + 1]] = None THEN x ELSE D[s[m + 1]], D, s, J)
<1>1. CASE D[s[m + 1]] = None
  <2>1. J = I
    BY <1>1
  <2>2. QED
    BY <1>1, <2>1
<1>2. CASE D[s[m + 1]] # None
  <2>1. m + 1 \in J /\ \A i \in J : i <= m + 1
    BY <1>2
  <2>2. QED
    BY <1>2, <2>1 DEF LastIs
<1>3. QED
  BY <1>1, <1>2

LEMMA LastIsMax ==
    ASSUME NEW D, NEW s, NEW n \in Nat, NEW I \in SUBSET (1 .. n), NEW x,
           LastIs(x, D, s, I)
    PROVE  x = IF I = {} THEN None ELSE D[s[Max(I)]]
<1>1. CASE I = {}
  BY <1>1 DEF LastIs
<1>2. CASE I # {}
  <2>1. PICK k \in I : x = D[s[k]] /\ \A i \in I : i <= k
    BY <1>2 DEF LastIs
  <2>2. Max(I) \in I /\ \A i \in I : Max(I) >= i
    BY <1>2, MaxProperties
  <2>3. PICK m \in Nat : m = Max(I)
    <3>1. Max(I) \in 1 .. n
      BY <2>2
    <3>2. QED
      BY <3>1
  <2>4. m <= k /\ m >= k /\ k \in Nat
    BY <2>1, <2>2, <2>3
  <2>5. m = k
    BY <2>4
  <2>6. QED
    BY <1>2, <2>1, <2>3, <2>5
<1>3. QED
  BY <1>1, <1>2

-----------------------------------------------------------------------------
(* What a file mounts *)

\* The packs that a file mounts are found as its include tree says.
FileMounts(name, f) ==
    /\ MountedBy[f] \in Mounting
    /\ MountedBy[f].threw <=> ~Complete[f]
    /\ Finds(Deciding(name)[f], name, MountedBy[f].packs)

\* The places before k that are read and decide.
HitsUpTo(D, f, k) == {j \in HitsOf(D, f) : j <= k}

LEMMA FileMountsItsTree ==
    ASSUME NEW name, NEW f \in Files,
           \A e \in Range(Includes[f]) \cap Files : FileMounts(name, e)
    PROVE  FileMounts(name, f)
<1> DEFINE D == Deciding(name)
           s == Includes[f]
           Readable(j) == s[j] \in Files /\ Complete[s[j]]
<1>1. PICK n \in Nat : n = Len(s)
  BY IncludesAreListed
<1>2. DOMAIN s = 1 .. n /\ \A k \in 1 .. n : s[k] \in Range(s)
  BY <1>1, IncludesAreListed
<1>3. Mounts(MountedBy) /\ Completes(Complete) /\ Decides(D, name)
  BY MountedByMounts, CompleteCompletes, DecidingDecides
<1>4. PICK R : /\ R[0] = Nothing
               /\ \A k \in 0 .. n - 1 :
                      R[k + 1] = Include(MountedBy, R[k], s[k + 1])
               /\ Included(MountedBy, s) = R[n]
  BY <1>2, IncludesFollow
<1> DEFINE H(k) == HitsUpTo(D, f, k)
           Follows(k) ==
               /\ R[k] \in Mounting
               /\ R[k].threw <=> ~(\A j \in 1 .. k : Readable(j))
               /\ \E x : LastIs(x, D, s, H(k)) /\ Finds(x, name, R[k].packs)
           S == {k \in Nat : k <= n => Follows(k)}
<1>5. \A k \in Nat : k <= n => H(k) \in SUBSET (1 .. k)
  BY <1>2 DEF HitsUpTo, HitsOf, ReadOf
<1>6. 0 \in S
  <2>1. H(0) = {}
    <3>1. H(0) \in SUBSET (1 .. 0) /\ 1 .. 0 = {}
      BY <1>5
    <3>2. QED
      BY <3>1
  <2>2. Nothing \in Mounting /\ ~Nothing.threw
    BY DEF Nothing, Mounting
  <2>3. Saying(name, Nothing.packs) = {}
    BY DEF Saying, Nothing
  <2>4. LastIs(None, D, s, H(0)) /\ Finds(None, name, Nothing.packs)
    BY <2>1, <2>3 DEF LastIs, Finds
  <2>5. 1 .. 0 = {}
    OBVIOUS
  <2> HIDE DEF H, D
  <2>6. QED
    BY <1>4, <2>2, <2>4, <2>5
<1>7. ASSUME NEW k \in Nat, k \in S PROVE k + 1 \in S
  <2> SUFFICES ASSUME k + 1 <= n PROVE Follows(k + 1)
    OBVIOUS
  <2>1. k \in 0 .. n - 1 /\ k + 1 \in 1 .. n /\ Follows(k)
    BY <1>7
  <2>2. PICK x : LastIs(x, D, s, H(k)) /\ Finds(x, name, R[k].packs)
    BY <2>1
  <2> DEFINE g == s[k + 1]
  <2>3. R[k + 1] = Include(MountedBy, R[k], g)
    BY <1>4, <2>1
  <2>4. (\A j \in 1 .. k + 1 : Readable(j))
        <=> (\A j \in 1 .. k : Readable(j)) /\ Readable(k + 1)
    <3>1. 1 .. k + 1 = (1 .. k) \cup {k + 1}
      OBVIOUS
    <3> HIDE DEF Readable
    <3>2. QED
      BY <3>1
  <2>5. k + 1 \in ReadOf(f) <=> g \in Files /\ \A j \in 1 .. k : Readable(j)
    <3>1. k + 1 - 1 = k
      OBVIOUS
    <3>2. QED
      BY <1>2, <2>1, <3>1 DEF ReadOf
  <2>6. k + 1 \notin ReadOf(f) => H(k + 1) = H(k)
    BY <1>2 DEF HitsUpTo, HitsOf, ReadOf
  <2>7. k + 1 \in ReadOf(f) =>
            H(k + 1) = H(k) \cup {j \in {k + 1} : D[s[j]] # None}
    BY <1>2 DEF HitsUpTo, HitsOf, ReadOf
  <2>8. H(k) \in SUBSET (1 .. k) /\ H(k + 1) \in SUBSET (1 .. k + 1)
    BY <1>5, <2>1
  <2> HIDE DEF H, D, Readable
  <2>9. R[k] \in Mounting
        /\ (R[k].threw <=> ~(\A j \in 1 .. k : Readable(j)))
    BY <2>1
  <2>10. CASE R[k].threw
    <3>1. R[k + 1] = R[k]
      BY <2>3, <2>10 DEF Include
    <3>2. H(k + 1) = H(k)
      BY <2>5, <2>6, <2>9, <2>10
    <3>3. R[k + 1].threw <=> ~(\A j \in 1 .. k + 1 : Readable(j))
      BY <2>4, <2>9, <2>10, <3>1
    <3>4. QED
      BY <2>2, <2>9, <3>1, <3>2, <3>3
  <2>11. CASE ~R[k].threw /\ g \notin Files
    <3>1. R[k + 1] = [R[k] EXCEPT !.threw = TRUE]
      BY <2>3, <2>11 DEF Include
    <3>2. /\ R[k + 1] \in Mounting /\ R[k + 1].threw
          /\ R[k + 1].packs = R[k].packs
      BY <2>9, <3>1 DEF Mounting
    <3>3. H(k + 1) = H(k)
      BY <2>5, <2>6, <2>11
    <3>4. ~Readable(k + 1)
      BY <2>11 DEF Readable
    <3>5. QED
      BY <2>2, <2>4, <3>2, <3>3, <3>4
  <2>12. CASE ~R[k].threw /\ g \in Files
    <3>1. FileMounts(name, g)
      BY <1>2, <2>1, <2>12
    <3>2. R[k + 1] = [packs |-> R[k].packs \o MountedBy[g].packs,
                      threw |-> MountedBy[g].threw]
      BY <2>3, <2>12 DEF Include
    <3>3. /\ MountedBy[g] \in Mounting
          /\ MountedBy[g].threw <=> ~Complete[g]
          /\ Finds(D[g], name, MountedBy[g].packs)
      BY <3>1 DEF FileMounts, D
    <3>4. R[k].packs \in Seq(Files) /\ MountedBy[g].packs \in Seq(Files)
      BY <2>9, <3>3 DEF Mounting
    <3>5. R[k + 1] \in Mounting
      BY <3>2, <3>3, <3>4 DEF Mounting
    <3>6. R[k + 1].threw <=> ~Complete[g]
      BY <3>2, <3>3
    <3>7. Readable(k + 1) <=> Complete[g]
      BY <2>12 DEF Readable
    <3>8. R[k + 1].threw <=> ~(\A j \in 1 .. k + 1 : Readable(j))
      BY <2>4, <2>9, <2>12, <3>6, <3>7
    <3> DEFINE y == IF D[g] = None THEN x ELSE D[g]
    <3>9. Finds(y, name, R[k + 1].packs)
      BY <2>2, <3>2, <3>3, <3>4, FindsInBoth
    <3>10. H(k + 1) = H(k) \cup {j \in {k + 1} : D[s[j]] # None}
      BY <2>5, <2>7, <2>9, <2>12
    <3>11. LastIs(y, D, s, H(k + 1))
      BY <2>2, <2>8, <3>10, LastOfMore
    <3> HIDE DEF y
    <3>12. QED
      BY <3>5, <3>8, <3>9, <3>11
  <2>13. QED
    BY <2>10, <2>11, <2>12
<1> HIDE DEF S
<1>8. n \in S
  BY <1>6, <1>7, Induction
<1>9. Follows(n)
  BY <1>8 DEF S
<1>10. PICK x : LastIs(x, D, s, H(n)) /\ Finds(x, name, R[n].packs)
  BY <1>9
<1>11. H(n) = HitsOf(D, f) /\ HitsOf(D, f) \in SUBSET (1 .. n)
  BY <1>2 DEF HitsUpTo, HitsOf, ReadOf
<1>12. x = IF HitsOf(D, f) = {} THEN None ELSE D[s[Max(HitsOf(D, f))]]
  <2> HIDE DEF D, H, s
  <2>1. QED
    BY <1>10, <1>11, LastIsMax
<1>13. Complete[f] <=> \A j \in 1 .. n : Readable(j)
  BY <1>2, <1>3 DEF Completes
<1>14. D[f] = IF Complete[f] /\ name \in DOMAIN Described[f] THEN f ELSE x
  <2>1. D[f] = Decided(D, name, f)
    BY <1>3 DEF Decides
  <2> HIDE DEF D
  <2>2. QED
    BY <1>12, <2>1 DEF Decided
<1>15. MountedBy[f] = IF R[n].threw THEN R[n]
                      ELSE [R[n] EXCEPT !.packs = Includer(@, f)]
  <2>1. MountedBy[f] = Mount(MountedBy, f)
    BY <1>3 DEF Mounts
  <2>2. QED
    BY <1>4, <2>1 DEF Mount
<1>16. /\ R[n] \in Mounting
       /\ R[n].threw <=> ~(\A j \in 1 .. n : Readable(j))
  BY <1>9
<1> HIDE DEF D, s, H, Readable, Follows
<1>17. CASE R[n].threw
  <2>1. MountedBy[f] = R[n] /\ ~Complete[f] /\ D[f] = x
    BY <1>13, <1>14, <1>15, <1>16, <1>17
  <2>2. QED
    BY <1>10, <1>16, <1>17, <2>1 DEF FileMounts, D
<1>18. CASE ~R[n].threw
  <2>1. Complete[f]
    BY <1>13, <1>16, <1>18
  <2>2. MountedBy[f] = [R[n] EXCEPT !.packs = Includer(R[n].packs, f)]
    BY <1>15, <1>18
  <2>3. R[n].packs \in Seq(Files)
    BY <1>16 DEF Mounting
  <2>4. Includer(R[n].packs, f) \in Seq(Files)
    BY <2>3 DEF Includer
  <2>5. /\ MountedBy[f] \in Mounting /\ ~MountedBy[f].threw
        /\ MountedBy[f].packs = Includer(R[n].packs, f)
    BY <1>16, <1>18, <2>2, <2>4 DEF Mounting
  <2>6. Finds(D[f], name, Includer(R[n].packs, f))
    BY <1>10, <1>14, <2>1, <2>3, FindsIncluder
  <2>7. QED
    BY <2>1, <2>5, <2>6 DEF FileMounts, D
<1>19. QED
  BY <1>17, <1>18

LEMMA FilesMountTheirTrees ==
    ASSUME NEW name, NEW f \in Files PROVE FileMounts(name, f)
<1>1. PICK n \in Nat : \E rank : Ranks(rank, n, Files)
  BY FilesHaveRanks
<1>2. PICK rank : Ranks(rank, n, Files)
  BY <1>1
<1> DEFINE S == {m \in Nat : \A e \in Files : rank[e] < m => FileMounts(name, e)}
<1>3. \A e \in Files : rank[e] \in Nat /\ rank[e] <= n
  BY <1>2 DEF Ranks
<1>4. 0 \in S
  <2>1. \A e \in Files : ~(rank[e] < 0)
    BY <1>3
  <2>2. QED
    BY <2>1
<1>5. ASSUME NEW m \in Nat, m \in S PROVE m + 1 \in S
  <2> SUFFICES ASSUME NEW e \in Files, rank[e] < m + 1
               PROVE  FileMounts(name, e)
    OBVIOUS
  <2>1. ASSUME NEW g \in Range(Includes[e]) \cap Files
        PROVE  FileMounts(name, g)
    <3>1. rank[g] < rank[e]
      BY <1>2 DEF Ranks
    <3>2. rank[g] < m
      BY <1>3, <3>1
    <3>3. QED
      BY <1>5, <3>2
  <2>2. QED
    BY <2>1, FileMountsItsTree
<1> HIDE DEF S
<1>6. n + 1 \in S
  BY <1>4, <1>5, Induction
<1>7. rank[f] < n + 1
  BY <1>3
<1>8. QED
  BY <1>6, <1>7 DEF S

-----------------------------------------------------------------------------
(* Objects *)

IsObject(o) ==
    o = [kind |-> o.kind, name |-> o.name, refs |-> o.refs, svg |-> o.svg,
         cache |-> o.cache, parent |-> o.parent, key |-> o.key,
         natural |-> o.natural]

IsLoading(s) == s = [heap |-> s.heap, map |-> s.map, result |-> s.result]

Designated(o, i, map) ==
    o.name # None => /\ o.name \in Names /\ o.name \in DOMAIN map
                     /\ map[o.name] = i
                     /\ o.kind = TypeOf[o.name]

Designates(n, h, map) ==
    map[n] # None => map[n] \in DOMAIN h /\ h[map[n]].name = n

\* All objects but the one that is new are designated by their names.
Sound(h, map, new) ==
    /\ None \notin DOMAIN h
    /\ \A i \in DOMAIN h : IsObject(h[i])
    /\ \A i \in DOMAIN h : i # new => Designated(h[i], i, map)
    /\ \A n \in DOMAIN map : Designates(n, h, map)

Right(s) == IsLoading(s) /\ (Bounded(s.heap) => Sound(s.heap, s.map, None))

\* A step from s to t: what is within bounds was so, names are added that
\* have one of the types.
Leads(s, t, types) ==
    /\ Bounded(t.heap) => Bounded(s.heap)
    /\ \A n \in DOMAIN t.map :
           n \in DOMAIN s.map \/ (n \in Names /\ TypeOf[n] \in types)

\* T::load() has made a resource of that name, or thrown.
Made(s, name, type) ==
    /\ IsLoading(s)
    /\ Bounded(s.heap) =>
           /\ Sound(s.heap, s.map, s.result)
           /\ s.result # None => /\ s.result \in DOMAIN s.heap
                                 /\ s.heap[s.result].name = name
                                 /\ s.heap[s.result].kind = type

-----------------------------------------------------------------------------
(* Objects *)

LEMMA PlainObject ==
    ASSUME NEW kind, NEW name, NEW refs
    PROVE  /\ IsObject(Object(kind, name, refs))
           /\ Object(kind, name, refs).kind = kind
           /\ Object(kind, name, refs).name = name
           /\ Object(kind, name, refs).refs = refs
           /\ Object(kind, name, refs).parent = None
BY DEF IsObject, Object

LEMMA ImageObject ==
    ASSUME NEW o, IsObject(o), NEW x
    PROVE  /\ IsObject([o EXCEPT !.svg = x])
           /\ [o EXCEPT !.svg = x].name = o.name
           /\ [o EXCEPT !.svg = x].kind = o.kind
           /\ [o EXCEPT !.svg = x].parent = o.parent
<1>1. PICK k, n, r, v, c, p, e, w :
          o = [kind |-> k, name |-> n, refs |-> r, svg |-> v, cache |-> c,
               parent |-> p, key |-> e, natural |-> w]
  BY DEF IsObject
<1>2. PICK q : q = [kind |-> k, name |-> n, refs |-> r, svg |-> x,
                    cache |-> c, parent |-> p, key |-> e, natural |-> w]
  OBVIOUS
<1>3. [o EXCEPT !.svg = x] = q
  BY <1>1, <1>2
<1>4. IsObject(q) /\ q.name = n /\ q.kind = k /\ q.parent = p
  BY <1>2 DEF IsObject
<1> QED
  BY <1>1, <1>3, <1>4

\* The changes of an object that its textures and matrices make.
WithCache(o, c) == [o EXCEPT !.cache = c]
WithNatural(o, w) == [o EXCEPT !.natural = w]
Left(o, c, p) == [o EXCEPT !.cache = c, !.parent = p]
Child(o, p, e) == [o EXCEPT !.parent = p, !.key = e]

\* They leave the name and the type alone.
LEMMA ChangedObject ==
    ASSUME NEW o, IsObject(o), NEW c, NEW w
    PROVE  /\ IsObject(WithCache(o, c))
           /\ WithCache(o, c).kind = o.kind
           /\ WithCache(o, c).name = o.name
           /\ WithCache(o, c).refs = o.refs
           /\ WithCache(o, c).cache = c
           /\ WithCache(o, c).parent = o.parent
           /\ WithCache(o, c).key = o.key
           /\ WithCache(o, c).natural = o.natural
           /\ IsObject(WithNatural(o, w))
           /\ WithNatural(o, w).kind = o.kind
           /\ WithNatural(o, w).name = o.name
           /\ WithNatural(o, w).refs = o.refs
           /\ WithNatural(o, w).cache = o.cache
           /\ WithNatural(o, w).parent = o.parent
           /\ WithNatural(o, w).key = o.key
           /\ WithNatural(o, w).natural = w
<1>1. PICK k, n, r, v, c0, p, e, w0 :
          o = [kind |-> k, name |-> n, refs |-> r, svg |-> v, cache |-> c0,
               parent |-> p, key |-> e, natural |-> w0]
  BY DEF IsObject
<1>2. WithCache(o, c) =
          [kind |-> k, name |-> n, refs |-> r, svg |-> v, cache |-> c,
           parent |-> p, key |-> e, natural |-> w0]
  BY <1>1 DEF WithCache
<1>3. WithNatural(o, w) =
          [kind |-> k, name |-> n, refs |-> r, svg |-> v, cache |-> c0,
           parent |-> p, key |-> e, natural |-> w]
  BY <1>1 DEF WithNatural
<1> QED
  BY <1>1, <1>2, <1>3 DEF IsObject

LEMMA SurvivorObject ==
    ASSUME NEW o, IsObject(o), NEW c, NEW p
    PROVE  /\ IsObject(Left(o, c, p))
           /\ Left(o, c, p).kind = o.kind
           /\ Left(o, c, p).name = o.name
           /\ Left(o, c, p).refs = o.refs
           /\ Left(o, c, p).cache = c
           /\ Left(o, c, p).parent = p
           /\ Left(o, c, p).key = o.key
           /\ Left(o, c, p).natural = o.natural
<1>1. PICK k, n, r, v, c0, p0, e, w :
          o = [kind |-> k, name |-> n, refs |-> r, svg |-> v, cache |-> c0,
               parent |-> p0, key |-> e, natural |-> w]
  BY DEF IsObject
<1>2. PICK m : m = [o EXCEPT !.cache = c]
  OBVIOUS
<1>3. m = [kind |-> k, name |-> n, refs |-> r, svg |-> v, cache |-> c,
           parent |-> p0, key |-> e, natural |-> w]
  BY <1>1, <1>2
<1>4. Left(o, c, p) = [m EXCEPT !.parent = p]
  BY <1>2 DEF Left
<1>5. Left(o, c, p) =
          [kind |-> k, name |-> n, refs |-> r, svg |-> v, cache |-> c,
           parent |-> p, key |-> e, natural |-> w]
  BY <1>3, <1>4
<1> QED
  BY <1>1, <1>5 DEF IsObject

LEMMA OffspringObject ==
    ASSUME NEW o, IsObject(o), NEW p, NEW e
    PROVE  /\ IsObject(Child(o, p, e))
           /\ Child(o, p, e).kind = o.kind
           /\ Child(o, p, e).name = o.name
           /\ Child(o, p, e).refs = o.refs
           /\ Child(o, p, e).parent = p
           /\ Child(o, p, e).key = e
<1>1. PICK k, n, r, v, c, p0, e0, w :
          o = [kind |-> k, name |-> n, refs |-> r, svg |-> v, cache |-> c,
               parent |-> p0, key |-> e0, natural |-> w]
  BY DEF IsObject
<1>2. PICK m : m = [o EXCEPT !.parent = p]
  OBVIOUS
<1>3. m = [kind |-> k, name |-> n, refs |-> r, svg |-> v, cache |-> c,
           parent |-> p, key |-> e0, natural |-> w]
  BY <1>1, <1>2
<1>4. Child(o, p, e) = [m EXCEPT !.key = e]
  BY <1>2 DEF Child
<1>5. Child(o, p, e) =
          [kind |-> k, name |-> n, refs |-> r, svg |-> v, cache |-> c,
           parent |-> p, key |-> e, natural |-> w]
  BY <1>3, <1>4
<1> QED
  BY <1>1, <1>5 DEF IsObject

LEMMA NewObject ==
    ASSUME NEW s, IsLoading(s), NEW o
    PROVE  /\ IsLoading(New(s, o))
           /\ New(s, o).map = s.map
           /\ New(s, o).result # None
           /\ DOMAIN New(s, o).heap = DOMAIN s.heap \cup {New(s, o).result}
           /\ New(s, o).heap[New(s, o).result] = o
           /\ \A i \in DOMAIN s.heap :
                  i # New(s, o).result => New(s, o).heap[i] = s.heap[i]
           /\ Bounded(New(s, o).heap) =>
                  Bounded(s.heap) /\ New(s, o).result \notin DOMAIN s.heap
<1>1. PICK id : id = Fresh(s.heap)
  OBVIOUS
<1>2. PICK h : h = With(s.heap, id, o)
  OBVIOUS
<1>3. New(s, o) = [s EXCEPT !.heap = h, !.result = id]
  BY <1>1, <1>2 DEF New
<1>4. New(s, o) = [heap |-> h, map |-> s.map, result |-> id]
  BY <1>3 DEF IsLoading
<1>5. id \in Ids \/ id = Beyond
  BY <1>1 DEF Fresh
<1>6. id # None
  BY <1>5, ResourceAssumption
<1>7. DOMAIN h = DOMAIN s.heap \cup {id} /\ h[id] = o
  BY <1>2 DEF With
<1>8. \A i \in DOMAIN s.heap : i # id => h[i] = s.heap[i]
  BY <1>2 DEF With
<1>9. Bounded(h) => Bounded(s.heap) /\ id # Beyond
  BY <1>7 DEF Bounded
<1>10. id # Beyond => id \notin DOMAIN s.heap
  BY <1>1 DEF Fresh
<1>11. IsLoading(New(s, o))
  BY <1>4 DEF IsLoading
<1> QED
  BY <1>4, <1>6, <1>7, <1>8, <1>9, <1>10, <1>11

\* A new object that has no name, or the name that is not in the map yet.
LEMMA NewIsSound ==
    ASSUME NEW s, Right(s), NEW o, IsObject(o)
    PROVE  /\ Bounded(New(s, o).heap) =>
                  Sound(New(s, o).heap, New(s, o).map, New(s, o).result)
           /\ o.name = None => Right(New(s, o))
           /\ Leads(s, New(s, o), {})
<1> DEFINE t == New(s, o)
<1>1. IsLoading(s)
  BY DEF Right
<1>2. /\ IsLoading(t) /\ t.map = s.map /\ t.result # None
      /\ DOMAIN t.heap = DOMAIN s.heap \cup {t.result}
      /\ t.heap[t.result] = o
      /\ \A i \in DOMAIN s.heap : i # t.result => t.heap[i] = s.heap[i]
      /\ Bounded(t.heap) => Bounded(s.heap) /\ t.result \notin DOMAIN s.heap
  BY <1>1, NewObject
<1> HIDE DEF t
<1>3. ASSUME Bounded(t.heap) PROVE Sound(t.heap, t.map, t.result)
  <2>1. Sound(s.heap, s.map, None) /\ t.result \notin DOMAIN s.heap
    BY <1>2, <1>3 DEF Right
  <2>2. None \notin DOMAIN t.heap
    BY <1>2, <2>1 DEF Sound
  <2>3. \A i \in DOMAIN t.heap : IsObject(t.heap[i])
    BY <1>2, <2>1 DEF Sound
  <2>4. ASSUME NEW i \in DOMAIN t.heap, i # t.result
        PROVE  Designated(t.heap[i], i, t.map)
    <3>1. i \in DOMAIN s.heap /\ t.heap[i] = s.heap[i] /\ i # None
      BY <1>2, <2>1, <2>4 DEF Sound
    <3> QED
      BY <1>2, <2>1, <3>1 DEF Sound
  <2>5. ASSUME NEW n \in DOMAIN t.map
        PROVE  Designates(n, t.heap, t.map)
    <3>1. Designates(n, s.heap, s.map)
      BY <1>2, <2>1 DEF Sound
    <3> QED
      BY <1>2, <2>1, <3>1 DEF Designates
  <2> QED
    BY <2>2, <2>3, <2>4, <2>5 DEF Sound
<1>4. ASSUME o.name = None PROVE Right(t)
  <2>1. Sound(t.heap, t.map, t.result) => Sound(t.heap, t.map, None)
    BY <1>2, <1>4 DEF Sound, Designated
  <2> QED
    BY <1>2, <1>3, <2>1 DEF Right
<1>5. Leads(s, t, {})
  BY <1>2 DEF Leads
<1> QED
  BY <1>3, <1>4, <1>5 DEF t

-----------------------------------------------------------------------------
(* The map *)

LEMMA AddedIsRight ==
    ASSUME NEW s, NEW name \in Names, Made(s, name, TypeOf[name]),
           Bounded(s.heap) => name \notin DOMAIN s.map
    PROVE  /\ Right(addResource(s, name))
           /\ Leads(s, addResource(s, name), {TypeOf[name]})
<1> DEFINE t == addResource(s, name)
<1>1. CASE s.result = None
  <2>1. t = s
    BY <1>1 DEF addResource
  <2> QED
    BY <1>1, <2>1 DEF Right, Leads, Made
<1>2. CASE s.result # None
  <2>1. PICK r : r = s.result
    OBVIOUS
  <2>2. PICK map : map = IF name \in DOMAIN s.map THEN s.map
                         ELSE With(s.map, name, r)
    OBVIOUS
  <2>3. s = [heap |-> s.heap, map |-> s.map, result |-> r]
    BY <2>1 DEF Made, IsLoading
  <2>4. t = [heap |-> s.heap, map |-> map, result |-> r]
    BY <1>2, <2>1, <2>2, <2>3 DEF addResource
  <2>5. IsLoading(t) /\ t.heap = s.heap /\ t.map = map
    BY <2>4 DEF IsLoading
  <2>6. DOMAIN map \subseteq DOMAIN s.map \cup {name}
    BY <2>2 DEF With
  <2>7. ASSUME Bounded(s.heap) PROVE Sound(s.heap, map, None)
    <3>1. /\ Sound(s.heap, s.map, r) /\ r \in DOMAIN s.heap
          /\ s.heap[r].name = name /\ s.heap[r].kind = TypeOf[name]
          /\ name \notin DOMAIN s.map
      BY <1>2, <2>1, <2>7 DEF Made
    <3>2. /\ DOMAIN map = DOMAIN s.map \cup {name} /\ map[name] = r
          /\ \A n \in DOMAIN s.map : map[n] = s.map[n]
      BY <2>2, <3>1 DEF With
    <3>3. ASSUME NEW i \in DOMAIN s.heap PROVE Designated(s.heap[i], i, map)
      <4>1. CASE i = r
        BY <3>1, <3>2, <4>1 DEF Designated
      <4>2. CASE i # r
        BY <3>1, <3>2, <4>2 DEF Sound, Designated
      <4> QED
        BY <4>1, <4>2
    <3>4. ASSUME NEW n \in DOMAIN map PROVE Designates(n, s.heap, map)
      <4>1. CASE n = name
        BY <3>1, <3>2, <4>1 DEF Designates
      <4>2. CASE n # name
        BY <3>1, <3>2, <4>2 DEF Sound, Designates
      <4> QED
        BY <4>1, <4>2
    <3> QED
      BY <3>1, <3>3, <3>4 DEF Sound
  <2> QED
    BY <2>5, <2>6, <2>7 DEF Right, Leads
<1> QED
  BY <1>1, <1>2

\* What the map has not, or only as the name of a resource that is gone, is
\* not in the way.
LEMMA CleanedIsRight ==
    ASSUME NEW s, Right(s), NEW name \in Names
    PROVE  /\ Right(Cleaned(s, name))
           /\ Leads(s, Cleaned(s, name), {})
           /\ findResourceInResMap(s, name, TypeOf[name]) = None =>
                  (Bounded(Cleaned(s, name).heap) =>
                       name \notin DOMAIN Cleaned(s, name).map)
<1> DEFINE t == Cleaned(s, name)
           gone == name \in DOMAIN s.map /\ s.map[name] = None
<1>1. CASE ~gone
  <2>1. t = s
    BY <1>1 DEF Cleaned
  <2>2. ASSUME findResourceInResMap(s, name, TypeOf[name]) = None,
               Bounded(s.heap), name \in DOMAIN s.map
        PROVE  FALSE
    <3>1. Sound(s.heap, s.map, None) /\ s.map[name] # None
      BY <1>1, <2>2 DEF Right
    <3>2. s.map[name] \in DOMAIN s.heap /\ s.heap[s.map[name]].name = name
      BY <2>2, <3>1 DEF Sound, Designates
    <3>3. s.heap[s.map[name]].kind = TypeOf[name]
      BY <3>1, <3>2, ResourceAssumption DEF Sound, Designated
    <3> QED
      BY <2>2, <3>1, <3>2, <3>3 DEF findResourceInResMap
  <2> QED
    BY <2>1, <2>2 DEF Leads
<1>2. CASE gone
  <2>1. PICK map : map = Only(s.map, DOMAIN s.map \ {name})
    OBVIOUS
  <2>2. t = [heap |-> s.heap, map |-> map, result |-> s.result]
    BY <1>2, <2>1 DEF Cleaned, Right, IsLoading
  <2>3. IsLoading(t) /\ t.heap = s.heap /\ t.map = map
    BY <2>2 DEF IsLoading
  <2>4. /\ DOMAIN map = DOMAIN s.map \ {name}
        /\ \A n \in DOMAIN map : map[n] = s.map[n]
    BY <2>1 DEF Only
  <2>5. ASSUME Bounded(s.heap) PROVE Sound(s.heap, map, None)
    <3>1. Sound(s.heap, s.map, None)
      BY <2>5 DEF Right
    <3>2. ASSUME NEW i \in DOMAIN s.heap PROVE Designated(s.heap[i], i, map)
      <4>1. Designated(s.heap[i], i, s.map) /\ i # None
        BY <3>1 DEF Sound
      <4> QED
        BY <1>2, <2>4, <4>1 DEF Designated
    <3>3. ASSUME NEW n \in DOMAIN map PROVE Designates(n, s.heap, map)
      BY <2>4, <3>1 DEF Sound, Designates
    <3> QED
      BY <3>1, <3>2, <3>3 DEF Sound
  <2> QED
    BY <2>3, <2>4, <2>5 DEF Right, Leads
<1> QED
  BY <1>1, <1>2

LEMMA FoundIsRight ==
    ASSUME NEW s, Right(s), NEW x
    PROVE  /\ Right([s EXCEPT !.result = x])
           /\ Leads(s, [s EXCEPT !.result = x], {})
<1>1. [s EXCEPT !.result = x] = [heap |-> s.heap, map |-> s.map, result |-> x]
  BY DEF Right, IsLoading
<1> QED
  BY <1>1 DEF Right, IsLoading, Leads

-----------------------------------------------------------------------------
(* Loading *)

LEMMA DescriptionIsRight ==
    ASSUME packs \in Seq(Files), NEW name, Describing(name) # {},
           NEW d, d = findResourceInScript(name)
    PROVE  /\ d.name = name /\ name \in Names
           /\ d.ref # None => d.ref \in Names
           /\ d.ref # None /\ TypeOf[name] = "image" =>
                  TypeOf[d.ref] = "texture"
           /\ d.ref # None /\ TypeOf[name] = "cursor" =>
                  TypeOf[d.ref] = "image"
<1>1. Describing(name) \in SUBSET (1 .. Len(packs)) /\ Len(packs) \in Nat
  BY DEF Describing
<1>2. PICK k : k = Max(Describing(name))
  OBVIOUS
<1>3. k \in Describing(name)
  BY <1>1, <1>2, MaxProperties
<1>4. packs[k] \in Files /\ name \in DOMAIN Described[packs[k]]
  BY <1>1, <1>3 DEF Describing
<1>5. d.name = name /\ d.ref = Described[packs[k]][name].ref
  BY <1>2 DEF findResourceInScript
<1> QED
  BY <1>4, <1>5, ResourceAssumption

LEMMA FinishIsMade ==
    ASSUME NEW s, Right(s), NEW d, NEW o, IsObject(o)
    PROVE  /\ Made(Finish(s, d, o), o.name, o.kind)
           /\ o.name = None => Right(Finish(s, d, o))
           /\ Leads(s, Finish(s, d, o), {})
<1>1. CASE d.broken
  <2>1. Finish(s, d, o) = [s EXCEPT !.result = None]
    BY <1>1 DEF Finish
  <2>2. /\ Right([s EXCEPT !.result = None])
        /\ Leads(s, [s EXCEPT !.result = None], {})
        /\ [s EXCEPT !.result = None].result = None
    BY FoundIsRight DEF Right, IsLoading
  <2> QED
    BY <2>1, <2>2 DEF Made, Right
<1>2. CASE ~d.broken
  <2>1. Finish(s, d, o) = New(s, o)
    BY <1>2 DEF Finish
  <2>2. /\ IsLoading(New(s, o))
        /\ New(s, o).result \in DOMAIN New(s, o).heap
        /\ New(s, o).heap[New(s, o).result] = o
    BY NewObject DEF Right
  <2>3. /\ Bounded(New(s, o).heap) =>
               Sound(New(s, o).heap, New(s, o).map, New(s, o).result)
        /\ o.name = None => Right(New(s, o))
        /\ Leads(s, New(s, o), {})
    BY NewIsSound
  <2> QED
    BY <2>1, <2>2, <2>3 DEF Made
<1> QED
  BY <1>1, <1>2

LEMMA LeadsOn ==
    ASSUME NEW s, NEW t, NEW u, NEW S, NEW T,
           Leads(s, t, S), Leads(t, u, T)
    PROVE  Leads(s, u, S \cup T)
BY DEF Leads

\* load(), with m for what T::load() makes: it is of a type that the loads in
\* it are not.
LEMMA LoadIsRight ==
    ASSUME NEW s, Right(s), NEW name \in Names, NEW types,
           TypeOf[name] \notin types,
           NEW m, Describing(name) # {} =>
                      /\ Made(m, name, TypeOf[name])
                      /\ Leads(Cleaned(s, name), m, types),
           NEW r,
           r = IF findResourceInResMap(s, name, TypeOf[name]) # None
               THEN [s EXCEPT !.result =
                         findResourceInResMap(s, name, TypeOf[name])]
               ELSE IF Describing(name) = {}
               THEN [Cleaned(s, name) EXCEPT !.result = None]
               ELSE addResource(m, name)
    PROVE  Right(r) /\ Leads(s, r, types \cup {TypeOf[name]})
<1>1. CASE findResourceInResMap(s, name, TypeOf[name]) # None
  <2>1. Right(r) /\ Leads(s, r, {})
    BY <1>1, FoundIsRight
  <2> QED
    BY <2>1 DEF Leads
<1>2. CASE /\ findResourceInResMap(s, name, TypeOf[name]) = None
           /\ Describing(name) = {}
  <2>1. Right(Cleaned(s, name)) /\ Leads(s, Cleaned(s, name), {})
    BY CleanedIsRight
  <2>2. Right(r) /\ Leads(Cleaned(s, name), r, {})
    BY <1>2, <2>1, FoundIsRight
  <2> QED
    BY <2>1, <2>2 DEF Leads
<1>3. CASE /\ findResourceInResMap(s, name, TypeOf[name]) = None
           /\ Describing(name) # {}
  <2>1. /\ Leads(s, Cleaned(s, name), {})
        /\ Bounded(Cleaned(s, name).heap) =>
               name \notin DOMAIN Cleaned(s, name).map
    BY <1>3, CleanedIsRight
  <2>2. Bounded(m.heap) => name \notin DOMAIN m.map
    BY <1>3, <2>1 DEF Leads
  <2>3. Right(r) /\ Leads(m, r, {TypeOf[name]})
    BY <1>3, <2>2, AddedIsRight
  <2> QED
    BY <1>3, <2>1, <2>3, LeadsOn DEF Leads
<1> QED
  BY <1>1, <1>2, <1>3

LEMMA TextureIsRight ==
    ASSUME packs \in Seq(Files), NEW s, Right(s),
           NEW name \in Names, TypeOf[name] = "texture"
    PROVE  /\ Right(LoadTexture(s, name))
           /\ Leads(s, LoadTexture(s, name), {"texture"})
<1>1. PICK d : d = findResourceInScript(name)
  OBVIOUS
<1>2. PICK m : m = MakeTexture(Cleaned(s, name), d)
  OBVIOUS
<1>3. ASSUME Describing(name) # {}
      PROVE  /\ Made(m, name, TypeOf[name])
             /\ Leads(Cleaned(s, name), m, {})
  <2>1. d.name = name
    BY <1>1, <1>3, DescriptionIsRight
  <2>2. Right(Cleaned(s, name))
    BY CleanedIsRight
  <2>3. PICK o : o = Object("texture", d.name, {})
    OBVIOUS
  <2>4. IsObject(o) /\ o.kind = "texture" /\ o.name = d.name
    BY <2>3, PlainObject
  <2>5. m = Finish(Cleaned(s, name), d, o)
    BY <1>2, <2>3 DEF MakeTexture
  <2> QED
    BY <2>1, <2>2, <2>4, <2>5, FinishIsMade
<1>4. PICK r : r = LoadTexture(s, name)
  OBVIOUS
<1>5. r = IF findResourceInResMap(s, name, TypeOf[name]) # None
          THEN [s EXCEPT !.result =
                    findResourceInResMap(s, name, TypeOf[name])]
          ELSE IF Describing(name) = {}
          THEN [Cleaned(s, name) EXCEPT !.result = None]
          ELSE addResource(m, name)
  BY <1>1, <1>2, <1>4, Zenon DEF LoadTexture, Load
<1>6. Right(r) /\ Leads(s, r, {} \cup {TypeOf[name]})
  BY <1>3, <1>5, LoadIsRight
<1> QED
  BY <1>4, <1>6

LEMMA ImageIsRight ==
    ASSUME packs \in Seq(Files), NEW s, Right(s),
           NEW name \in Names, TypeOf[name] = "image"
    PROVE  /\ Right(LoadImage(s, name))
           /\ Leads(s, LoadImage(s, name), {"texture", "image"})
<1>1. PICK d : d = findResourceInScript(name)
  OBVIOUS
<1>2. PICK m : m = MakeImage(Cleaned(s, name), d)
  OBVIOUS
<1>3. ASSUME Describing(name) # {}
      PROVE  /\ Made(m, name, TypeOf[name])
             /\ Leads(Cleaned(s, name), m, {"texture"})
  <2>1. /\ d.name = name
        /\ d.ref # None => d.ref \in Names /\ TypeOf[d.ref] = "texture"
    BY <1>1, <1>3, DescriptionIsRight
  <2>2. PICK c : c = Cleaned(s, name)
    OBVIOUS
  <2>3. Right(c)
    BY <2>2, CleanedIsRight
  <2>4. PICK t : t = LoadTexture(c, d.ref)
    OBVIOUS
  <2>5. m = IF d.ref = None
            THEN Finish(c, d, [Object("image", d.name, {}) EXCEPT
                                   !.svg = d.svg])
            ELSE IF t.result = None THEN t
            ELSE Finish(t, d, Object("image", d.name, {t.result}))
    BY <1>2, <2>2, <2>4, Zenon DEF MakeImage
  <2>6. CASE d.ref = None
    <3>1. PICK o : o = [Object("image", d.name, {}) EXCEPT !.svg = d.svg]
      OBVIOUS
    <3>2. IsObject(o) /\ o.kind = "image" /\ o.name = d.name
      <4>1. PICK k, n, e, v : /\ k = "image" /\ n = d.name
                              /\ e = {} /\ v = d.svg
        OBVIOUS
      <4>2. PICK q : q = Object(k, n, e)
        OBVIOUS
      <4>3. o = [q EXCEPT !.svg = v]
        BY <3>1, <4>1, <4>2, Zenon
      <4>4. IsObject(q) /\ q.kind = k /\ q.name = n
        BY <4>2, PlainObject
      <4> QED
        BY <4>1, <4>3, <4>4, ImageObject
    <3>3. m = Finish(c, d, o)
      BY <2>5, <2>6, <3>1
    <3>4. Made(m, o.name, o.kind) /\ Leads(c, m, {})
      BY <2>3, <3>2, <3>3, FinishIsMade
    <3> QED
      BY <2>1, <2>2, <3>2, <3>4 DEF Leads
  <2>7. CASE d.ref # None
    <3>1. Right(t) /\ Leads(c, t, {"texture"})
      BY <2>1, <2>3, <2>4, <2>7, TextureIsRight
    <3>2. CASE t.result = None
      <4>1. m = t
        BY <2>5, <2>7, <3>2
      <4> QED
        BY <2>2, <3>1, <3>2, <4>1 DEF Made, Right
    <3>3. CASE t.result # None
      <4>1. PICK o : o = Object("image", d.name, {t.result})
        OBVIOUS
      <4>2. IsObject(o) /\ o.kind = "image" /\ o.name = d.name
        BY <4>1, PlainObject
      <4>3. m = Finish(t, d, o)
        BY <2>5, <2>7, <3>3, <4>1
      <4>4. Made(m, o.name, o.kind) /\ Leads(t, m, {})
        BY <3>1, <4>2, <4>3, FinishIsMade
      <4> QED
        BY <2>1, <2>2, <3>1, <4>2, <4>4 DEF Leads
    <3> QED
      BY <3>2, <3>3
  <2> QED
    BY <2>6, <2>7
<1>4. PICK r : r = LoadImage(s, name)
  OBVIOUS
<1>5. r = IF findResourceInResMap(s, name, TypeOf[name]) # None
          THEN [s EXCEPT !.result =
                    findResourceInResMap(s, name, TypeOf[name])]
          ELSE IF Describing(name) = {}
          THEN [Cleaned(s, name) EXCEPT !.result = None]
          ELSE addResource(m, name)
  BY <1>1, <1>2, <1>4, Zenon DEF LoadImage, Load
<1>6. PICK types : types = {"texture"}
  OBVIOUS
<1>7. Right(r) /\ Leads(s, r, types \cup {TypeOf[name]})
  <2>1. TypeOf[name] \notin types
    BY <1>6
  <2>2. Describing(name) # {} => /\ Made(m, name, TypeOf[name])
                                 /\ Leads(Cleaned(s, name), m, types)
    BY <1>3, <1>6
  <2> QED
    BY <1>5, <2>1, <2>2, LoadIsRight
<1>8. types \cup {TypeOf[name]} = {"texture", "image"}
  BY <1>6
<1> QED
  BY <1>4, <1>7, <1>8

LEMMA CursorIsRight ==
    ASSUME packs \in Seq(Files), NEW s, Right(s),
           NEW name \in Names, TypeOf[name] = "cursor"
    PROVE  Right(LoadCursor(s, name)) /\ Leads(s, LoadCursor(s, name), Types)
<1>1. PICK d : d = findResourceInScript(name)
  OBVIOUS
<1>2. PICK m : m = MakeCursor(Cleaned(s, name), d)
  OBVIOUS
<1>3. PICK types : types = {"texture", "image"}
  OBVIOUS
<1>4. ASSUME Describing(name) # {}
      PROVE  /\ Made(m, name, TypeOf[name])
             /\ Leads(Cleaned(s, name), m, types)
  <2>1. /\ d.name = name
        /\ d.ref # None => d.ref \in Names /\ TypeOf[d.ref] = "image"
    BY <1>1, <1>4, DescriptionIsRight
  <2>2. PICK c : c = Cleaned(s, name)
    OBVIOUS
  <2>3. Right(c)
    BY <2>2, CleanedIsRight
  <2>4. PICK t : t = LoadImage(c, d.ref)
    OBVIOUS
  <2>5. m = IF d.ref = None THEN [c EXCEPT !.result = None]
            ELSE IF t.result = None THEN t
            ELSE Finish(t, d, Object("cursor", d.name, {t.result}))
    BY <1>2, <2>2, <2>4, Zenon DEF MakeCursor
  <2>6. CASE d.ref = None
    <3>1. Right(m) /\ Leads(c, m, {})
      BY <2>3, <2>5, <2>6, FoundIsRight
    <3>2. m.result = None
      BY <2>3, <2>5, <2>6 DEF Right, IsLoading
    <3> QED
      BY <2>2, <3>1, <3>2 DEF Made, Right, Leads
  <2>7. CASE d.ref # None /\ t.result = None
    <3>1. Right(t) /\ Leads(c, t, types)
      BY <1>3, <2>1, <2>3, <2>4, <2>7, ImageIsRight
    <3>2. m = t
      BY <2>5, <2>7
    <3> QED
      BY <2>2, <2>7, <3>1, <3>2 DEF Made, Right
  <2>8. CASE d.ref # None /\ t.result # None
    <3>0. Right(t) /\ Leads(c, t, types)
      BY <1>3, <2>1, <2>3, <2>4, <2>8, ImageIsRight
    <3>1. PICK o : o = Object("cursor", d.name, {t.result})
      OBVIOUS
    <3>2. IsObject(o) /\ o.kind = "cursor" /\ o.name = d.name
      BY <3>1, PlainObject
    <3>3. m = Finish(t, d, o)
      BY <2>5, <2>8, <3>1
    <3>4. Made(m, o.name, o.kind) /\ Leads(t, m, {})
      BY <3>0, <3>2, <3>3, FinishIsMade
    <3> QED
      BY <2>1, <2>2, <3>0, <3>2, <3>4 DEF Leads
  <2> QED
    BY <2>6, <2>7, <2>8
<1>5. PICK r : r = LoadCursor(s, name)
  OBVIOUS
<1>6. r = IF findResourceInResMap(s, name, TypeOf[name]) # None
          THEN [s EXCEPT !.result =
                    findResourceInResMap(s, name, TypeOf[name])]
          ELSE IF Describing(name) = {}
          THEN [Cleaned(s, name) EXCEPT !.result = None]
          ELSE addResource(m, name)
  BY <1>1, <1>2, <1>5, Zenon DEF LoadCursor, Load
<1>7. TypeOf[name] \notin types
  BY <1>3
<1>8. Right(r) /\ Leads(s, r, types \cup {TypeOf[name]})
  BY <1>4, <1>6, <1>7, LoadIsRight
<1>9. types \cup {TypeOf[name]} \subseteq Types
  BY <1>3 DEF Types
<1> QED
  BY <1>5, <1>8, <1>9 DEF Leads

LEMMA NinePatchIsRight ==
    ASSUME packs \in Seq(Files), NEW s, Right(s),
           NEW name \in Names, TypeOf[name] = "ninepatch"
    PROVE  /\ Right(LoadNinePatch(s, name))
           /\ Leads(s, LoadNinePatch(s, name), Types)
<1>1. PICK d : d = findResourceInScript(name)
  OBVIOUS
<1>2. PICK m : m = MakeNinePatch(Cleaned(s, name), d)
  OBVIOUS
<1>3. ASSUME Describing(name) # {}
      PROVE  /\ Made(m, name, TypeOf[name])
             /\ Leads(Cleaned(s, name), m, {})
  <2>1. d.name = name
    BY <1>1, <1>3, DescriptionIsRight
  <2>2. PICK c : c = Cleaned(s, name)
    OBVIOUS
  <2>3. Right(c)
    BY <2>2, CleanedIsRight
  <2>4. PICK i : i = [Object("image", None, {}) EXCEPT !.svg = d.svg]
    OBVIOUS
  <2>5. IsObject(i) /\ i.name = None
    <3>1. PICK k, n, e, v : k = "image" /\ n = None /\ e = {} /\ v = d.svg
      OBVIOUS
    <3>2. PICK q : q = Object(k, n, e)
      OBVIOUS
    <3>3. i = [q EXCEPT !.svg = v]
      BY <2>4, <3>1, <3>2, Zenon
    <3>4. IsObject(q) /\ q.name = n
      BY <3>2, PlainObject
    <3> QED
      BY <3>1, <3>3, <3>4, ImageObject
  <2>6. PICK t : t = Finish(c, d, i)
    OBVIOUS
  <2>7. Right(t) /\ Leads(c, t, {})
    BY <2>3, <2>5, <2>6, FinishIsMade
  <2>8. PICK o : o = Object("ninepatch", d.name, {t.result})
    OBVIOUS
  <2>9. IsObject(o) /\ o.kind = "ninepatch" /\ o.name = d.name
    BY <2>8, PlainObject
  <2>10. m = IF t.result = None THEN t ELSE New(t, o)
    BY <1>2, <2>2, <2>4, <2>6, <2>8, Zenon DEF MakeNinePatch
  <2>11. CASE t.result = None
    BY <2>2, <2>7, <2>10, <2>11 DEF Made, Right
  <2>12. CASE t.result # None
    <3>1. m = New(t, o)
      BY <2>10, <2>12
    <3>2. IsLoading(m) /\ m.result \in DOMAIN m.heap /\ m.heap[m.result] = o
      BY <2>7, <3>1, NewObject DEF Right
    <3>3. /\ Bounded(m.heap) => Sound(m.heap, m.map, m.result)
          /\ Leads(t, m, {})
      BY <2>7, <2>9, <3>1, NewIsSound
    <3> QED
      BY <2>1, <2>2, <2>7, <2>9, <3>2, <3>3 DEF Made, Leads
  <2> QED
    BY <2>11, <2>12
<1>4. PICK r : r = LoadNinePatch(s, name)
  OBVIOUS
<1>5. r = IF findResourceInResMap(s, name, TypeOf[name]) # None
          THEN [s EXCEPT !.result =
                    findResourceInResMap(s, name, TypeOf[name])]
          ELSE IF Describing(name) = {}
          THEN [Cleaned(s, name) EXCEPT !.result = None]
          ELSE addResource(m, name)
  BY <1>1, <1>2, <1>4, Zenon DEF LoadNinePatch, Load
<1>6. Right(r) /\ Leads(s, r, {} \cup {TypeOf[name]})
  BY <1>3, <1>5, LoadIsRight
<1>7. {} \cup {TypeOf[name]} \subseteq Types
  BY DEF Types
<1> QED
  BY <1>4, <1>6, <1>7 DEF Leads

LEMMA LoadAsIsRight ==
    ASSUME packs \in Seq(Files), Right(Loading), NEW name \in Names
    PROVE  Right(LoadAs(name))
<1>1. CASE TypeOf[name] = "texture"
  BY <1>1, TextureIsRight DEF LoadAs
<1>2. CASE TypeOf[name] = "image"
  BY <1>2, ImageIsRight DEF LoadAs
<1>3. CASE TypeOf[name] = "cursor"
  BY <1>3, CursorIsRight DEF LoadAs
<1>4. CASE TypeOf[name] = "ninepatch"
  BY <1>4, NinePatchIsRight DEF LoadAs
<1>5. TypeOf[name] \in Types
  BY ResourceAssumption
<1> QED
  BY <1>1, <1>2, <1>3, <1>4, <1>5 DEF Types

-----------------------------------------------------------------------------
(* Textures and matrices *)

LEMMA ChangedIsRight ==
    ASSUME NEW s, Right(s), NEW i \in DOMAIN s.heap, NEW o,
           Bounded(s.heap) => /\ IsObject(o)
                              /\ o.name = s.heap[i].name
                              /\ o.kind = s.heap[i].kind
    PROVE  /\ Right(Changed(s, i, o))
           /\ DOMAIN Changed(s, i, o).heap = DOMAIN s.heap
           /\ Changed(s, i, o).map = s.map
<1>1. PICK h : h = With(s.heap, i, o)
  OBVIOUS
<1>2. Changed(s, i, o) = [heap |-> h, map |-> s.map, result |-> s.result]
  BY <1>1 DEF Changed, Right, IsLoading
<1>3. /\ DOMAIN h = DOMAIN s.heap /\ h[i] = o
      /\ \A j \in DOMAIN h : j # i => h[j] = s.heap[j]
  BY <1>1 DEF With
<1>4. ASSUME Bounded(h) PROVE Sound(h, s.map, None)
  <2>1. Bounded(s.heap) /\ Sound(s.heap, s.map, None)
    BY <1>3, <1>4 DEF Bounded, Right
  <2>2. \A j \in DOMAIN h : /\ IsObject(h[j])
                            /\ h[j].name = s.heap[j].name
                            /\ h[j].kind = s.heap[j].kind
    BY <1>3, <2>1 DEF Sound
  <2>3. ASSUME NEW j \in DOMAIN h PROVE Designated(h[j], j, s.map)
    <3>1. Designated(s.heap[j], j, s.map)
      BY <1>3, <2>1 DEF Sound
    <3> QED
      BY <2>2, <3>1 DEF Designated
  <2>4. ASSUME NEW n \in DOMAIN s.map PROVE Designates(n, h, s.map)
    <3>1. Designates(n, s.heap, s.map)
      BY <2>1 DEF Sound
    <3> QED
      BY <1>3, <2>2, <3>1 DEF Designates
  <2> QED
    BY <1>3, <2>1, <2>2, <2>3, <2>4 DEF Sound
<1>5. IsLoading(Changed(s, i, o))
  BY <1>2 DEF IsLoading
<1> QED
  BY <1>2, <1>3, <1>4, <1>5 DEF Right

LEMMA OffspringIsRight ==
    ASSUME NEW s, Right(s), NEW i \in DOMAIN s.heap, NEW key,
           NEW o, IsObject(o), o.name = None
    PROVE  /\ Right(Offspring(s, i, key, o))
           /\ DOMAIN s.heap \subseteq DOMAIN Offspring(s, i, key, o).heap
           /\ Offspring(s, i, key, o).map = s.map
<1>1. PICK p : p = Child(o, i, key)
  OBVIOUS
<1>2. IsObject(p) /\ p.name = None
  BY <1>1, OffspringObject
<1>3. PICK t : t = New(s, p)
  OBVIOUS
<1>4. Right(t)
  BY <1>2, <1>3, NewIsSound
<1>5. DOMAIN t.heap = DOMAIN s.heap \cup {t.result} /\ t.map = s.map
  BY <1>3, NewObject DEF Right
<1>6. PICK cache : cache = With(t.heap[i].cache, key, t.result)
  OBVIOUS
<1>7. PICK q : q = t.heap[i]
  OBVIOUS
<1>8. PICK c : c = WithCache(q, cache)
  OBVIOUS
<1>9. Offspring(s, i, key, o) = Changed(t, i, c)
  BY <1>1, <1>3, <1>6, <1>7, <1>8 DEF Offspring, Child, WithCache
<1>10. Bounded(t.heap) => IsObject(c) /\ c.name = q.name /\ c.kind = q.kind
  <2>1. Bounded(t.heap) => IsObject(q)
    BY <1>4, <1>5, <1>7 DEF Right, Sound
  <2> QED
    BY <1>8, <2>1, ChangedObject
<1>11. /\ Right(Changed(t, i, c))
       /\ DOMAIN Changed(t, i, c).heap = DOMAIN t.heap
       /\ Changed(t, i, c).map = t.map
  BY <1>4, <1>5, <1>7, <1>10, ChangedIsRight
<1> QED
  BY <1>5, <1>9, <1>11

LEMMA TextureOfImageIsRight ==
    ASSUME NEW s, Right(s), NEW i \in DOMAIN s.heap, NEW request
    PROVE  /\ Right(Texture(s, i, request))
           /\ DOMAIN s.heap \subseteq DOMAIN Texture(s, i, request).heap
           /\ Texture(s, i, request).map = s.map
<1>1. PICK size : size = IF request = Natural THEN NaturalSize ELSE request
  OBVIOUS
<1>2. PICK q, w : q = s.heap[i] /\ w = (q.natural \/ request = Natural)
  OBVIOUS
<1>3. PICK a : a = WithNatural(q, w)
  OBVIOUS
<1>4. PICK t : t = Changed(s, i, a)
  OBVIOUS
<1>5. PICK o : o = Object("quad", None, {})
  OBVIOUS
<1>6. Texture(s, i, request) =
          IF ~s.heap[i].svg
          THEN [s EXCEPT !.result = i]
          ELSE IF Cached(s, i, request) # None
          THEN [s EXCEPT !.result = Cached(s, i, request)]
          ELSE Offspring(t, i, size, o)
  BY <1>1, <1>2, <1>3, <1>4, <1>5 DEF Texture, WithNatural
<1>7. \A x : /\ Right([s EXCEPT !.result = x])
             /\ [s EXCEPT !.result = x].heap = s.heap
             /\ [s EXCEPT !.result = x].map = s.map
  BY FoundIsRight DEF Right, IsLoading
<1>8. Right(t) /\ DOMAIN t.heap = DOMAIN s.heap /\ t.map = s.map
  <2>1. Bounded(s.heap) => IsObject(q)
    BY <1>2 DEF Right, Sound
  <2>2. Bounded(s.heap) => IsObject(a) /\ a.name = q.name /\ a.kind = q.kind
    BY <1>3, <2>1, ChangedObject
  <2> QED
    BY <1>2, <1>4, <2>2, ChangedIsRight
<1>9. IsObject(o) /\ o.name = None
  BY <1>5, PlainObject
<1>10. /\ Right(Offspring(t, i, size, o))
       /\ DOMAIN t.heap \subseteq DOMAIN Offspring(t, i, size, o).heap
       /\ Offspring(t, i, size, o).map = t.map
  BY <1>8, <1>9, OffspringIsRight
<1> QED
  BY <1>6, <1>7, <1>8, <1>10

LEMMA MatrixIsRight ==
    ASSUME NEW s, Right(s), NEW n \in DOMAIN s.heap,
           NEW image \in DOMAIN s.heap, NEW scale
    PROVE  /\ Right(Matrix(s, n, image, scale))
           /\ Matrix(s, n, image, scale).map = s.map
<1>1. PICK t : t = Texture(s, image, SizeAt[scale])
  OBVIOUS
<1>2. Right(t) /\ DOMAIN s.heap \subseteq DOMAIN t.heap /\ t.map = s.map
  BY <1>1, TextureOfImageIsRight
<1>3. PICK o : o = Object("matrix", None, {t.result})
  OBVIOUS
<1>4. Matrix(s, n, image, scale) =
          IF Cached(s, n, scale) # None
          THEN [s EXCEPT !.result = Cached(s, n, scale)]
          ELSE Offspring(t, n, scale, o)
  BY <1>1, <1>3 DEF Matrix
<1>5. \A x : /\ Right([s EXCEPT !.result = x])
             /\ [s EXCEPT !.result = x].map = s.map
  BY FoundIsRight DEF Right, IsLoading
<1>6. IsObject(o) /\ o.name = None
  BY <1>3, PlainObject
<1>7. /\ Right(Offspring(t, n, scale, o))
      /\ Offspring(t, n, scale, o).map = t.map
  BY <1>2, <1>6, OffspringIsRight
<1> QED
  BY <1>2, <1>4, <1>5, <1>7

-----------------------------------------------------------------------------
(* What is not held goes *)

LEMMA SurvivorsAreSound ==
    ASSUME NEW h, NEW map, Sound(h, map, None), NEW S, Collect(h, map, S)
    PROVE  Sound(heap', resMap', None) /\ DOMAIN heap' \subseteq DOMAIN h
<1>1. PICK alive : alive = Kept(h, S) \cap DOMAIN h
  OBVIOUS
<1>2. /\ heap' = Survivors(h, alive)
      /\ resMap' = [name \in DOMAIN map |-> Weak(map[name], alive)]
  BY <1>1 DEF Collect
<1>3. alive \subseteq DOMAIN h /\ DOMAIN heap' = alive
  BY <1>1, <1>2 DEF Survivors
<1>4. ASSUME NEW i \in alive
      PROVE  /\ IsObject(heap'[i])
             /\ heap'[i].name = h[i].name
             /\ heap'[i].kind = h[i].kind
  <2>1. PICK o, c, p : /\ o = h[i]
                       /\ c = Only(o.cache,
                                   DOMAIN o.cache \ Erased(h, i, alive))
                       /\ p = Weak(o.parent, alive)
    OBVIOUS
  <2>2. heap'[i] = Left(o, c, p)
    BY <1>2, <2>1 DEF Survivors, Left
  <2>3. IsObject(o)
    BY <1>3, <2>1 DEF Sound
  <2> QED
    BY <2>1, <2>2, <2>3, SurvivorObject
<1>5. ASSUME NEW i \in alive PROVE Designated(heap'[i], i, resMap')
  <2>1. Designated(h[i], i, map)
    BY <1>3 DEF Sound
  <2> QED
    BY <1>2, <1>4, <2>1 DEF Designated, Weak
<1>6. ASSUME NEW n \in DOMAIN resMap' PROVE Designates(n, heap', resMap')
  <2>1. n \in DOMAIN map /\ resMap'[n] = Weak(map[n], alive)
    BY <1>2
  <2>2. Designates(n, h, map)
    BY <2>1 DEF Sound
  <2> QED
    BY <1>3, <1>4, <2>1, <2>2 DEF Designates, Weak
<1> QED
  BY <1>3, <1>4, <1>5, <1>6 DEF Sound

-----------------------------------------------------------------------------
(* The theorem *)

Inv ==
    /\ packs \in Seq(Files)
    /\ Bounded(heap)
    /\ Sound(heap, resMap, None)

LEMMA LoadingIsRight ==
    ASSUME Inv
    PROVE  /\ Right(Loading) /\ Loading.heap = heap /\ Loading.map = resMap
BY DEF Inv, Loading, Right, IsLoading

LEMMA GetKeepsInv ==
    ASSUME Inv, NEW s, Right(s), s.map = resMap, Get(s)
    PROVE  Inv'
<1>1. Bounded(s.heap) /\ Sound(s.heap, resMap, None)
  BY DEF Get, Right
<1>2. heap' = s.heap /\ resMap' = resMap /\ packs' = packs
  BY DEF Get
<1> QED
  BY <1>1, <1>2 DEF Inv

LEMMA CollectKeepsInv ==
    ASSUME NEW h, NEW map, Bounded(h), Sound(h, map, None), NEW S,
           Collect(h, map, S), packs' = packs, Inv
    PROVE  Inv'
<1>1. Sound(heap', resMap', None) /\ DOMAIN heap' \subseteq DOMAIN h
  BY SurvivorsAreSound
<1>2. Bounded(heap')
  BY <1>1 DEF Bounded
<1> QED
  BY <1>1, <1>2 DEF Inv

LEMMA StepKeepsInv ==
    ASSUME Inv, [Next]_vars
    PROVE  Inv'
<1>1. Right(Loading) /\ Loading.heap = heap /\ Loading.map = resMap
  BY LoadingIsRight
<1>2. ASSUME NEW f \in Mounted, mountResPack(f) PROVE Inv'
  <2>1. f \in Files
    BY ResourceAssumption
  <2>2. MountedBy[f].packs \in Seq(Files)
    BY <2>1, FilesMountTheirTrees DEF FileMounts, Mounting
  <2>3. packs' \in Seq(Files)
    BY <1>2, <2>2 DEF mountResPack, Inv
  <2> QED
    BY <1>2, <2>3 DEF mountResPack, Inv
<1>3. ASSUME NEW name \in Loads, load(name) PROVE Inv'
  <2>1. PICK s : s = LoadAs(name)
    OBVIOUS
  <2>2. name \in Names /\ packs \in Seq(Files)
    BY ResourceAssumption DEF Inv
  <2>3. Right(s)
    BY <1>1, <2>1, <2>2, LoadAsIsRight
  <2>4. /\ Bounded(s.heap) /\ Collect(s.heap, s.map, held')
        /\ packs' = packs
    BY <1>3, <2>1, Zenon DEF load
  <2> QED
    BY <2>3, <2>4, CollectKeepsInv DEF Right
<1>4. ASSUME NEW i \in DOMAIN heap, NEW request, getTexture(i, request)
      PROVE  Inv'
  <2>1. PICK s : s = Texture(Loading, i, request)
    OBVIOUS
  <2>2. Right(s) /\ s.map = resMap
    BY <1>1, <2>1, TextureOfImageIsRight
  <2>3. Get(s)
    BY <1>4, <2>1 DEF getTexture
  <2> QED
    BY <2>2, <2>3, GetKeepsInv
<1>5. ASSUME NEW n \in DOMAIN heap, NEW scale, getMatrix(n, scale)
      PROVE  Inv'
  <2>1. PICK image \in heap[n].refs \cap DOMAIN heap :
            Get(Matrix(Loading, n, image, scale))
    BY <1>5 DEF getMatrix
  <2>2. PICK s : s = Matrix(Loading, n, image, scale)
    OBVIOUS
  <2>3. Right(s) /\ s.map = resMap
    BY <1>1, <2>1, <2>2, MatrixIsRight
  <2> QED
    BY <2>1, <2>2, <2>3, GetKeepsInv
<1>6. ASSUME NEW i \in held, Release(i) PROVE Inv'
  BY <1>6, CollectKeepsInv DEF Release, Inv
<1>7. CASE UNCHANGED vars
  BY <1>7 DEF vars, Inv, Bounded, Sound
<1> QED
  BY <1>2, <1>3, <1>4, <1>5, <1>6, <1>7 DEF Next

\* As long as a resource lives, the program gets it whenever it loads its
\* name: getTexture(), getMatrix(), loads that throw and what dies between
\* them leave the map of the manager right (ResourceManager.hpp:110-130).
THEOREM NamesAreShared ==
    Spec => []OneOfAName
<1>1. Init => Inv
  <2>1. << >> \in Seq(Files) /\ DOMAIN << >> = {}
    OBVIOUS
  <2> QED
    BY <2>1 DEF Init, Inv, Bounded, Sound
<1>2. Inv /\ [Next]_vars => Inv'
  BY StepKeepsInv
<1>3. Inv => OneOfAName
  BY DEF Inv, Sound, Designated, OneOfAName, Resources
<1> QED
  BY <1>1, <1>2, <1>3, PTL DEF Spec

-----------------------------------------------------------------------------
(* One texture of a size *)

\* The cache of its parent designates a texture or matrix, so that a second
\* one with its key is not made and its key is not erased before it dies; a
\* parent that was asked for its natural size made some it does not designate.
InCache(h, i) ==
    LET p == h[i].parent
    IN p # None => /\ p \in DOMAIN h
                   /\ \/ h[p].natural
                      \/ /\ h[i].key \in DOMAIN h[p].cache
                         /\ h[p].cache[h[i].key] = i

\* The image of a nine-patch is an object other than the nine-patch: what is
\* rendered for the matrix leaves the cache of the nine-patch alone.
Apart(h, i) == h[i].kind = "ninepatch" => i \notin h[i].refs

Listed(h) == \A i \in DOMAIN h : InCache(h, i) /\ Apart(h, i)

\* What loads do to a heap: there are objects more, which no cache is for.
Adds(h, g) ==
    /\ DOMAIN h \subseteq DOMAIN g
    /\ \A i \in DOMAIN h : g[i] = h[i]
    /\ \A i \in DOMAIN g \ DOMAIN h : g[i].parent = None /\ Apart(g, i)

Grows(s, t) ==
    /\ IsLoading(t)
    /\ Bounded(t.heap) => Bounded(s.heap) /\ Adds(s.heap, t.heap)

LEMMA AddsKeepsListed ==
    ASSUME NEW h, NEW g, Adds(h, g), Listed(h)
    PROVE  Listed(g)
<1>1. ASSUME NEW i \in DOMAIN h PROVE InCache(g, i) /\ Apart(g, i)
  <2>1. InCache(h, i) /\ Apart(h, i) /\ g[i] = h[i]
    BY DEF Listed, Adds
  <2>2. \A p \in DOMAIN h : p \in DOMAIN g /\ g[p] = h[p]
    BY DEF Adds
  <2> QED
    BY <2>1, <2>2 DEF InCache, Apart
<1>2. ASSUME NEW i \in DOMAIN g \ DOMAIN h PROVE InCache(g, i) /\ Apart(g, i)
  BY DEF Adds, InCache
<1> QED
  BY <1>1, <1>2 DEF Listed

LEMMA GrowsOn ==
    ASSUME NEW s, NEW t, NEW u, Grows(s, t), Grows(t, u)
    PROVE  Grows(s, u)
<1>1. ASSUME Bounded(u.heap) PROVE Adds(s.heap, u.heap)
  <2>1. Adds(s.heap, t.heap) /\ Adds(t.heap, u.heap)
    BY <1>1 DEF Grows
  <2>2. \A i \in DOMAIN t.heap \ DOMAIN s.heap : Apart(u.heap, i)
    BY <2>1 DEF Adds, Apart
  <2> QED
    BY <2>1, <2>2 DEF Adds
<1> QED
  BY <1>1 DEF Grows

LEMMA SameHeapGrows ==
    ASSUME NEW s, NEW t, IsLoading(t), t.heap = s.heap
    PROVE  Grows(s, t)
BY DEF Grows, Adds

LEMMA NewGrows ==
    ASSUME NEW s, IsLoading(s), NEW o, o.parent = None,
           o.kind = "ninepatch" => o.refs \subseteq DOMAIN s.heap
    PROVE  Grows(s, New(s, o))
<1>1. PICK t : t = New(s, o)
  OBVIOUS
<1>2. /\ IsLoading(t)
      /\ DOMAIN t.heap = DOMAIN s.heap \cup {t.result}
      /\ t.heap[t.result] = o
      /\ \A i \in DOMAIN s.heap : i # t.result => t.heap[i] = s.heap[i]
      /\ Bounded(t.heap) => Bounded(s.heap) /\ t.result \notin DOMAIN s.heap
  BY <1>1, NewObject
<1>3. ASSUME Bounded(t.heap) PROVE Adds(s.heap, t.heap)
  BY <1>2, <1>3 DEF Adds, Apart
<1> QED
  BY <1>1, <1>2, <1>3 DEF Grows

LEMMA FoundGrows ==
    ASSUME NEW s, IsLoading(s), NEW x
    PROVE  /\ Grows(s, [s EXCEPT !.result = x])
           /\ [s EXCEPT !.result = x].heap = s.heap
           /\ [s EXCEPT !.result = x].result = x
<1>1. [s EXCEPT !.result = x] = [heap |-> s.heap, map |-> s.map, result |-> x]
  BY DEF IsLoading
<1> QED
  BY <1>1, SameHeapGrows DEF IsLoading

LEMMA FinishGrows ==
    ASSUME NEW s, IsLoading(s), NEW d, NEW o, o.parent = None,
           o.kind # "ninepatch"
    PROVE  /\ Grows(s, Finish(s, d, o))
           /\ Finish(s, d, o).result # None =>
                  Finish(s, d, o).result \in DOMAIN Finish(s, d, o).heap
<1>1. CASE d.broken
  BY <1>1, FoundGrows DEF Finish
<1>2. CASE ~d.broken
  <2>1. Finish(s, d, o) = New(s, o)
    BY <1>2 DEF Finish
  <2> QED
    BY <2>1, NewGrows, NewObject
<1> QED
  BY <1>1, <1>2

LEMMA CleanedGrows ==
    ASSUME NEW s, IsLoading(s), NEW name
    PROVE  Grows(s, Cleaned(s, name))
<1>1. PICK map : map = Only(s.map, DOMAIN s.map \ {name})
  OBVIOUS
<1>2. \/ Cleaned(s, name) = s
      \/ Cleaned(s, name) = [heap |-> s.heap, map |-> map, result |-> s.result]
  BY <1>1 DEF Cleaned, IsLoading
<1> QED
  BY <1>2, SameHeapGrows DEF IsLoading

LEMMA AddedGrows ==
    ASSUME NEW s, IsLoading(s), NEW name
    PROVE  Grows(s, addResource(s, name))
<1>1. PICK map : map = With(s.map, name, s.result)
  OBVIOUS
<1>2. \/ addResource(s, name) = s
      \/ addResource(s, name) =
             [heap |-> s.heap, map |-> map, result |-> s.result]
  BY <1>1 DEF addResource, IsLoading
<1> QED
  BY <1>2, SameHeapGrows DEF IsLoading

\* load(), with m for what T::load() makes.
LEMMA LoadGrows ==
    ASSUME NEW s, IsLoading(s), NEW name, NEW type,
           NEW m, Grows(Cleaned(s, name), m),
           NEW r,
           r = IF findResourceInResMap(s, name, type) # None
               THEN [s EXCEPT !.result = findResourceInResMap(s, name, type)]
               ELSE IF Describing(name) = {}
               THEN [Cleaned(s, name) EXCEPT !.result = None]
               ELSE addResource(m, name)
    PROVE  Grows(s, r)
<1>1. PICK c : c = Cleaned(s, name)
  OBVIOUS
<1>2. Grows(s, c) /\ IsLoading(c) /\ Grows(c, m) /\ IsLoading(m)
  BY <1>1, CleanedGrows DEF Grows
<1>3. Grows(c, [c EXCEPT !.result = None])
  BY <1>2, FoundGrows
<1>4. Grows(m, addResource(m, name))
  BY <1>2, AddedGrows
<1>5. \A x : Grows(s, [s EXCEPT !.result = x])
  BY FoundGrows
<1>6. \/ \E x : r = [s EXCEPT !.result = x]
      \/ r = [c EXCEPT !.result = None]
      \/ r = addResource(m, name)
  BY <1>1
<1>7. Grows(s, m)
  BY <1>1, <1>2, GrowsOn
<1>8. Grows(s, [c EXCEPT !.result = None]) /\ Grows(s, addResource(m, name))
  BY <1>2, <1>3, <1>4, <1>7, GrowsOn
<1> QED
  BY <1>5, <1>6, <1>8

LEMMA TextureGrows ==
    ASSUME NEW s, IsLoading(s), NEW name
    PROVE  Grows(s, LoadTexture(s, name))
<1>1. PICK d, c, m, r : /\ d = findResourceInScript(name)
                        /\ c = Cleaned(s, name)
                        /\ m = MakeTexture(c, d)
                        /\ r = LoadTexture(s, name)
  OBVIOUS
<1>2. IsLoading(c)
  BY <1>1, CleanedGrows DEF Grows
<1>3. PICK o : o = Object("texture", d.name, {})
  OBVIOUS
<1>4. o.parent = None /\ o.kind # "ninepatch"
  BY <1>3, PlainObject
<1>5. m = Finish(c, d, o)
  BY <1>1, <1>3 DEF MakeTexture
<1>6. Grows(c, m)
  BY <1>2, <1>4, <1>5, FinishGrows
<1>7. r = IF findResourceInResMap(s, name, "texture") # None
          THEN [s EXCEPT !.result = findResourceInResMap(s, name, "texture")]
          ELSE IF Describing(name) = {}
          THEN [Cleaned(s, name) EXCEPT !.result = None]
          ELSE addResource(m, name)
  BY <1>1, Zenon DEF LoadTexture, Load
<1> QED
  BY <1>1, <1>6, <1>7, LoadGrows

\* An image of a file.
LEMMA FileObject ==
    ASSUME NEW name, NEW svg
    PROVE  \E o : /\ o = [Object("image", name, {}) EXCEPT !.svg = svg]
                  /\ o.parent = None /\ o.kind # "ninepatch"
<1>1. PICK q : q = Object("image", name, {})
  OBVIOUS
<1>2. IsObject(q) /\ q.kind = "image" /\ q.parent = None
  BY <1>1, PlainObject
<1>3. PICK o : o = [q EXCEPT !.svg = svg]
  OBVIOUS
<1>4. o.kind = "image" /\ o.parent = None
  BY <1>2, <1>3, ImageObject
<1>5. o = [Object("image", name, {}) EXCEPT !.svg = svg]
  BY <1>1, <1>3
<1> QED
  BY <1>4, <1>5

LEMMA ImageGrows ==
    ASSUME NEW s, IsLoading(s), NEW name
    PROVE  Grows(s, LoadImage(s, name))
<1>1. PICK d, c, m, r : /\ d = findResourceInScript(name)
                        /\ c = Cleaned(s, name)
                        /\ m = MakeImage(c, d)
                        /\ r = LoadImage(s, name)
  OBVIOUS
<1>2. IsLoading(c)
  BY <1>1, CleanedGrows DEF Grows
<1>3. PICK t : t = LoadTexture(c, d.ref)
  OBVIOUS
<1>4. Grows(c, t) /\ IsLoading(t)
  BY <1>2, <1>3, TextureGrows DEF Grows
<1>5. PICK o : /\ o = [Object("image", d.name, {}) EXCEPT !.svg = d.svg]
               /\ o.parent = None /\ o.kind # "ninepatch"
  <2>1. PICK n, v : n = d.name /\ v = d.svg
    OBVIOUS
  <2> QED
    BY <2>1, FileObject
<1>6. PICK p : p = Object("image", d.name, {t.result})
  OBVIOUS
<1>7. p.parent = None /\ p.kind # "ninepatch"
  BY <1>6, PlainObject
<1>8. m = IF d.ref = None THEN Finish(c, d, o)
          ELSE IF t.result = None THEN t ELSE Finish(t, d, p)
  BY <1>1, <1>3, <1>5, <1>6, Zenon DEF MakeImage
<1>9. Grows(c, Finish(c, d, o))
  BY <1>2, <1>5, FinishGrows
<1>10. Grows(c, Finish(t, d, p))
  <2>1. Grows(t, Finish(t, d, p))
    BY <1>4, <1>7, FinishGrows
  <2> QED
    BY <1>4, <2>1, GrowsOn
<1>11. Grows(c, m)
  BY <1>4, <1>8, <1>9, <1>10
<1>12. r = IF findResourceInResMap(s, name, "image") # None
           THEN [s EXCEPT !.result = findResourceInResMap(s, name, "image")]
           ELSE IF Describing(name) = {}
           THEN [Cleaned(s, name) EXCEPT !.result = None]
           ELSE addResource(m, name)
  BY <1>1, Zenon DEF LoadImage, Load
<1> QED
  BY <1>1, <1>11, <1>12, LoadGrows

LEMMA CursorGrows ==
    ASSUME NEW s, IsLoading(s), NEW name
    PROVE  Grows(s, LoadCursor(s, name))
<1>1. PICK d, c, m, r : /\ d = findResourceInScript(name)
                        /\ c = Cleaned(s, name)
                        /\ m = MakeCursor(c, d)
                        /\ r = LoadCursor(s, name)
  OBVIOUS
<1>2. IsLoading(c)
  BY <1>1, CleanedGrows DEF Grows
<1>3. PICK t : t = LoadImage(c, d.ref)
  OBVIOUS
<1>4. Grows(c, t) /\ IsLoading(t)
  BY <1>2, <1>3, ImageGrows DEF Grows
<1>5. PICK p : p = Object("cursor", d.name, {t.result})
  OBVIOUS
<1>6. p.parent = None /\ p.kind # "ninepatch"
  BY <1>5, PlainObject
<1>7. m = IF d.ref = None THEN [c EXCEPT !.result = None]
          ELSE IF t.result = None THEN t ELSE Finish(t, d, p)
  BY <1>1, <1>3, <1>5, Zenon DEF MakeCursor
<1>8. Grows(c, [c EXCEPT !.result = None])
  BY <1>2, FoundGrows
<1>9. Grows(c, Finish(t, d, p))
  <2>1. Grows(t, Finish(t, d, p))
    BY <1>4, <1>6, FinishGrows
  <2> QED
    BY <1>4, <2>1, GrowsOn
<1>10. Grows(c, m)
  BY <1>4, <1>7, <1>8, <1>9
<1>11. r = IF findResourceInResMap(s, name, "cursor") # None
           THEN [s EXCEPT !.result = findResourceInResMap(s, name, "cursor")]
           ELSE IF Describing(name) = {}
           THEN [Cleaned(s, name) EXCEPT !.result = None]
           ELSE addResource(m, name)
  BY <1>1, Zenon DEF LoadCursor, Load
<1> QED
  BY <1>1, <1>10, <1>11, LoadGrows

LEMMA NinePatchGrows ==
    ASSUME NEW s, IsLoading(s), NEW name
    PROVE  Grows(s, LoadNinePatch(s, name))
<1>1. PICK d, c, m, r : /\ d = findResourceInScript(name)
                        /\ c = Cleaned(s, name)
                        /\ m = MakeNinePatch(c, d)
                        /\ r = LoadNinePatch(s, name)
  OBVIOUS
<1>2. IsLoading(c)
  BY <1>1, CleanedGrows DEF Grows
<1>3. PICK o : /\ o = [Object("image", None, {}) EXCEPT !.svg = d.svg]
               /\ o.parent = None /\ o.kind # "ninepatch"
  <2>1. PICK n, v : n = None /\ v = d.svg
    OBVIOUS
  <2> QED
    BY <2>1, FileObject
<1>4. PICK t : t = Finish(c, d, o)
  OBVIOUS
<1>5. /\ Grows(c, t) /\ IsLoading(t)
      /\ t.result # None => t.result \in DOMAIN t.heap
  BY <1>2, <1>3, <1>4, FinishGrows DEF Grows
<1>6. PICK p : p = Object("ninepatch", d.name, {t.result})
  OBVIOUS
<1>7. p.parent = None /\ p.refs = {t.result}
  BY <1>6, PlainObject
<1>8. m = IF t.result = None THEN t ELSE New(t, p)
  BY <1>1, <1>3, <1>4, <1>6, Zenon DEF MakeNinePatch
<1>9. t.result # None => Grows(t, New(t, p))
  BY <1>5, <1>7, NewGrows
<1>10. Grows(c, m)
  BY <1>5, <1>8, <1>9, GrowsOn
<1>11. r = IF findResourceInResMap(s, name, "ninepatch") # None
           THEN [s EXCEPT !.result = findResourceInResMap(s, name, "ninepatch")]
           ELSE IF Describing(name) = {}
           THEN [Cleaned(s, name) EXCEPT !.result = None]
           ELSE addResource(m, name)
  BY <1>1, Zenon DEF LoadNinePatch, Load
<1> QED
  BY <1>1, <1>10, <1>11, LoadGrows

LEMMA LoadAsGrows ==
    ASSUME NEW s, s = Loading, IsLoading(s), NEW name \in Names
    PROVE  Grows(s, LoadAs(name))
<1>1. CASE TypeOf[name] = "texture"
  BY <1>1, TextureGrows DEF LoadAs
<1>2. CASE TypeOf[name] = "image"
  BY <1>2, ImageGrows DEF LoadAs
<1>3. CASE TypeOf[name] = "cursor"
  BY <1>3, CursorGrows DEF LoadAs
<1>4. CASE TypeOf[name] = "ninepatch"
  BY <1>4, NinePatchGrows DEF LoadAs
<1>5. TypeOf[name] \in Types
  BY ResourceAssumption
<1> QED
  BY <1>1, <1>2, <1>3, <1>4, <1>5 DEF Types

Orderly(s) ==
    /\ IsLoading(s)
    /\ Bounded(s.heap) => /\ None \notin DOMAIN s.heap
                          /\ \A i \in DOMAIN s.heap : IsObject(s.heap[i])
                          /\ Listed(s.heap)

\* From s to t: i may be changed and objects added.
Spares(s, t, i) ==
    /\ DOMAIN s.heap \subseteq DOMAIN t.heap
    /\ Bounded(t.heap) =>
        /\ Bounded(s.heap)
        /\ \A j \in DOMAIN s.heap : j # i => t.heap[j] = s.heap[j]

\* Only what is not in the cache of i is made and put into it.
LEMMA OffspringIsOrderly ==
    ASSUME NEW s, Orderly(s), NEW i \in DOMAIN s.heap, NEW key,
           NEW o, IsObject(o), o.kind # "ninepatch",
           Bounded(s.heap) => s.heap[i].natural \/ Cached(s, i, key) = None
    PROVE  /\ Orderly(Offspring(s, i, key, o))
           /\ Spares(s, Offspring(s, i, key, o), i)
<1>1. PICK p : /\ p = Child(o, i, key) /\ IsObject(p)
               /\ p.kind = o.kind /\ p.parent = i /\ p.key = key
  BY OffspringObject
<1>2. PICK t : t = New(s, p)
  OBVIOUS
<1>3. PICK id : id = t.result
  OBVIOUS
<1>4. /\ IsLoading(t) /\ DOMAIN t.heap = DOMAIN s.heap \cup {id}
      /\ id # None /\ t.heap[id] = p
      /\ \A j \in DOMAIN s.heap : j # id => t.heap[j] = s.heap[j]
      /\ Bounded(t.heap) => Bounded(s.heap) /\ id \notin DOMAIN s.heap
  BY <1>2, <1>3, NewObject DEF Orderly
<1>5. PICK q, c : q = t.heap[i] /\ c = With(q.cache, key, id)
  OBVIOUS
<1>6. PICK e : e = WithCache(q, c)
  OBVIOUS
<1>7. PICK h : h = With(t.heap, i, e)
  OBVIOUS
<1>8. PICK u : u = Offspring(s, i, key, o)
  OBVIOUS
<1>9. u = [t EXCEPT !.heap = h]
  BY <1>1, <1>2, <1>3, <1>5, <1>6, <1>7, <1>8
     DEF Offspring, Changed, Child, WithCache
<1>10. u = [heap |-> h, map |-> t.map, result |-> t.result]
  BY <1>4, <1>9 DEF IsLoading
<1>11. IsLoading(u) /\ u.heap = h
  BY <1>10 DEF IsLoading
<1>12. /\ DOMAIN h = DOMAIN t.heap /\ h[i] = e
       /\ \A j \in DOMAIN h : j # i => h[j] = t.heap[j]
  BY <1>4, <1>7 DEF With
<1>13. ASSUME Bounded(h)
       PROVE  /\ None \notin DOMAIN h
              /\ \A j \in DOMAIN h : IsObject(h[j])
              /\ Listed(h)
              /\ Bounded(s.heap)
              /\ \A j \in DOMAIN s.heap : j # i => h[j] = s.heap[j]
  <2>1. Bounded(s.heap) /\ id \notin DOMAIN s.heap
    BY <1>4, <1>12, <1>13 DEF Bounded
  <2>2. /\ None \notin DOMAIN s.heap
        /\ \A j \in DOMAIN s.heap : IsObject(s.heap[j])
        /\ Listed(s.heap)
    BY <2>1 DEF Orderly
  <2>3. q = s.heap[i] /\ IsObject(q) /\ i # id
    BY <1>4, <1>5, <2>1, <2>2
  <2>4. /\ IsObject(e) /\ e.kind = q.kind /\ e.cache = c
        /\ e.natural = q.natural /\ e.parent = q.parent /\ e.key = q.key
        /\ e.refs = q.refs
    BY <1>6, <2>3, ChangedObject
  <2>5. /\ DOMAIN c = DOMAIN q.cache \cup {key} /\ c[key] = id
        /\ \A k \in DOMAIN q.cache : k # key => c[k] = q.cache[k]
    BY <1>5 DEF With
  <2>6. \A j \in DOMAIN s.heap :
            /\ j \in DOMAIN h /\ IsObject(h[j])
            /\ h[j].kind = s.heap[j].kind /\ h[j].refs = s.heap[j].refs
            /\ h[j].parent = s.heap[j].parent /\ h[j].key = s.heap[j].key
            /\ h[j].natural = s.heap[j].natural
            /\ j # i => h[j] = s.heap[j]
    BY <1>4, <1>12, <2>1, <2>2, <2>3, <2>4
  <2>7. h[id] = p /\ DOMAIN h = DOMAIN s.heap \cup {id}
    BY <1>4, <1>12, <2>3
  <2>8. ASSUME NEW j \in DOMAIN s.heap PROVE InCache(h, j) /\ Apart(h, j)
    <3>1. InCache(s.heap, j) /\ Apart(s.heap, j)
      BY <2>2 DEF Listed
    <3>2. Apart(h, j)
      BY <2>6, <3>1 DEF Apart
    <3>3. CASE s.heap[j].parent # i
      <4>1. PICK r, k : r = s.heap[j].parent /\ k = s.heap[j].key
        OBVIOUS
      <4>2. r # None => /\ r \in DOMAIN s.heap
                        /\ \/ s.heap[r].natural
                           \/ /\ k \in DOMAIN s.heap[r].cache
                              /\ s.heap[r].cache[k] = j
        BY <3>1, <4>1 DEF InCache
      <4>3. r # None => r \in DOMAIN h /\ h[r] = s.heap[r]
        BY <2>6, <3>3, <4>1, <4>2
      <4>4. h[j].parent = r /\ h[j].key = k
        BY <2>6, <4>1
      <4>5. InCache(h, j)
        BY <4>2, <4>3, <4>4 DEF InCache
      <4> QED
        BY <3>2, <4>5
    <3>4. CASE s.heap[j].parent = i
      <4>1. CASE q.natural
        <5>1. h[j].parent = i /\ i \in DOMAIN h /\ h[i].natural
          BY <1>12, <2>4, <2>6, <3>4, <4>1
        <5> QED
          BY <3>2, <5>1 DEF InCache
      <4>2. CASE ~q.natural
        <5>1. Cached(s, i, key) = None
          BY <2>1, <2>3, <4>2
        <5>2. i # None
          BY <2>2
        <5>3. /\ s.heap[j].key \in DOMAIN q.cache
              /\ q.cache[s.heap[j].key] = j
          BY <2>3, <3>1, <3>4, <4>2, <5>2 DEF InCache
        <5>4. j # None
          BY <2>2
        <5>5. s.heap[j].key # key
          BY <2>3, <5>1, <5>3, <5>4 DEF Cached
        <5> QED
          BY <1>12, <2>3, <2>4, <2>5, <2>6, <3>2, <3>4, <5>3, <5>5 DEF InCache
      <4> QED
        BY <3>2, <4>1, <4>2
    <3> QED
      BY <3>2, <3>3, <3>4
  <2>9. InCache(h, id) /\ Apart(h, id)
    BY <1>1, <1>12, <2>3, <2>4, <2>5, <2>6, <2>7 DEF InCache, Apart
  <2> QED
    BY <1>1, <1>4, <2>1, <2>2, <2>6, <2>7, <2>8, <2>9 DEF Listed
<1> QED
  BY <1>4, <1>8, <1>11, <1>12, <1>13 DEF Orderly, Spares

LEMMA FoundIsOrderly ==
    ASSUME NEW s, Orderly(s), NEW x, NEW i
    PROVE  /\ Orderly([s EXCEPT !.result = x])
           /\ Spares(s, [s EXCEPT !.result = x], i)
<1>1. PICK t : t = [s EXCEPT !.result = x]
  OBVIOUS
<1>2. t.heap = s.heap /\ IsLoading(t)
  BY <1>1, FoundGrows DEF Orderly, Grows
<1> QED
  BY <1>1, <1>2 DEF Orderly, Spares

\* An image that is asked for its natural size.
WasNatural(s, i, request) == s.heap[i].natural \/ request = Natural

LEMMA AskedIsOrderly ==
    ASSUME NEW s, Orderly(s), NEW i \in DOMAIN s.heap, NEW request,
           NEW w, w = WasNatural(s, i, request),
           NEW t, t = Changed(s, i, WithNatural(s.heap[i], w))
    PROVE  /\ Orderly(t) /\ Spares(s, t, i)
           /\ DOMAIN t.heap = DOMAIN s.heap
           /\ Bounded(s.heap) => /\ t.heap[i].natural = w
                                 /\ t.heap[i].cache = s.heap[i].cache
<1>1. PICK q, e : q = s.heap[i] /\ e = WithNatural(q, w)
  OBVIOUS
<1>2. PICK h : h = With(s.heap, i, e)
  OBVIOUS
<1>3. t = [heap |-> h, map |-> s.map, result |-> s.result]
  BY <1>1, <1>2 DEF Changed, Orderly, IsLoading
<1>4. IsLoading(t) /\ t.heap = h
  BY <1>3 DEF IsLoading
<1>5. /\ DOMAIN h = DOMAIN s.heap /\ h[i] = e
      /\ \A j \in DOMAIN h : j # i => h[j] = s.heap[j]
  BY <1>2 DEF With
<1>6. ASSUME Bounded(h)
      PROVE  /\ Bounded(s.heap) /\ None \notin DOMAIN h
             /\ \A j \in DOMAIN h : IsObject(h[j])
             /\ Listed(h) /\ e.natural = w /\ e.cache = q.cache
  <2>1. Bounded(s.heap)
    BY <1>5, <1>6 DEF Bounded
  <2>2. /\ None \notin DOMAIN s.heap
        /\ \A j \in DOMAIN s.heap : IsObject(s.heap[j])
        /\ Listed(s.heap)
    BY <2>1 DEF Orderly
  <2>3. IsObject(q)
    BY <1>1, <2>2
  <2>4. /\ IsObject(e) /\ e.kind = q.kind /\ e.cache = q.cache
        /\ e.natural = w /\ e.parent = q.parent /\ e.key = q.key
        /\ e.refs = q.refs
    BY <1>1, <2>3, ChangedObject
  <2>5. \A j \in DOMAIN s.heap :
            /\ IsObject(h[j])
            /\ h[j].kind = s.heap[j].kind /\ h[j].refs = s.heap[j].refs
            /\ h[j].parent = s.heap[j].parent /\ h[j].key = s.heap[j].key
            /\ h[j].cache = s.heap[j].cache
            /\ s.heap[j].natural => h[j].natural
    BY <1>1, <1>5, <2>2, <2>4 DEF WasNatural
  <2>6. ASSUME NEW j \in DOMAIN h PROVE InCache(h, j) /\ Apart(h, j)
    <3>1. InCache(s.heap, j) /\ Apart(s.heap, j) /\ j \in DOMAIN s.heap
      BY <1>5, <2>2 DEF Listed
    <3>2. Apart(h, j)
      BY <2>5, <3>1 DEF Apart
    <3>3. PICK r, k : r = s.heap[j].parent /\ k = s.heap[j].key
      OBVIOUS
    <3>4. r # None => /\ r \in DOMAIN s.heap
                      /\ \/ s.heap[r].natural
                         \/ /\ k \in DOMAIN s.heap[r].cache
                            /\ s.heap[r].cache[k] = j
      BY <3>1, <3>3 DEF InCache
    <3>5. h[j].parent = r /\ h[j].key = k
      BY <2>5, <3>1, <3>3
    <3>6. r # None => /\ r \in DOMAIN h
                      /\ h[r].cache = s.heap[r].cache
                      /\ s.heap[r].natural => h[r].natural
      BY <1>5, <2>5, <3>4
    <3>7. InCache(h, j)
      BY <3>4, <3>5, <3>6 DEF InCache
    <3> QED
      BY <3>2, <3>7
  <2> QED
    BY <1>5, <2>1, <2>2, <2>4, <2>5, <2>6 DEF Listed
<1>7. Bounded(s.heap) => Bounded(h)
  BY <1>5 DEF Bounded
<1> QED
  BY <1>1, <1>4, <1>5, <1>6, <1>7 DEF Orderly, Spares

LEMMA TextureIsOrderly ==
    ASSUME NEW s, Orderly(s), NEW i \in DOMAIN s.heap, NEW request
    PROVE  /\ Orderly(Texture(s, i, request))
           /\ Spares(s, Texture(s, i, request), i)
<1>1. PICK size : size = IF request = Natural THEN NaturalSize ELSE request
  OBVIOUS
<1>2. PICK w : w = WasNatural(s, i, request)
  OBVIOUS
<1>3. PICK t : t = Changed(s, i, WithNatural(s.heap[i], w))
  OBVIOUS
<1>4. PICK o : o = Object("quad", None, {})
  OBVIOUS
<1>5. Texture(s, i, request) =
          IF ~s.heap[i].svg
          THEN [s EXCEPT !.result = i]
          ELSE IF Cached(s, i, request) # None
          THEN [s EXCEPT !.result = Cached(s, i, request)]
          ELSE Offspring(t, i, size, o)
  BY <1>1, <1>2, <1>3, <1>4 DEF Texture, WithNatural, WasNatural
<1>6. \A x : /\ Orderly([s EXCEPT !.result = x])
             /\ Spares(s, [s EXCEPT !.result = x], i)
  BY FoundIsOrderly
<1>7. /\ Orderly(t) /\ Spares(s, t, i) /\ DOMAIN t.heap = DOMAIN s.heap
      /\ Bounded(s.heap) => /\ t.heap[i].natural = w
                            /\ t.heap[i].cache = s.heap[i].cache
  BY <1>2, <1>3, AskedIsOrderly
<1>8. IsObject(o) /\ o.kind # "ninepatch"
  BY <1>4, PlainObject
<1>9. ASSUME Cached(s, i, request) = None
      PROVE  /\ Orderly(Offspring(t, i, size, o))
             /\ Spares(s, Offspring(t, i, size, o), i)
  <2>1. ASSUME Bounded(t.heap)
        PROVE  t.heap[i].natural \/ Cached(t, i, size) = None
    <3>1. Bounded(s.heap)
      BY <1>7, <2>1 DEF Spares
    <3>2. Cached(t, i, size) = Cached(s, i, size)
      BY <1>7, <3>1 DEF Cached
    <3>3. request # Natural => size = request
      BY <1>1
    <3>4. request = Natural => t.heap[i].natural
      BY <1>2, <1>7, <3>1 DEF WasNatural
    <3> QED
      BY <1>9, <3>2, <3>3, <3>4
  <2>2. PICK u : u = Offspring(t, i, size, o)
    OBVIOUS
  <2>3. Orderly(u) /\ Spares(t, u, i)
    BY <1>7, <1>8, <2>1, <2>2, OffspringIsOrderly
  <2>4. Spares(s, u, i)
    BY <1>7, <2>3 DEF Spares
  <2> QED
    BY <2>2, <2>3, <2>4
<1> QED
  BY <1>5, <1>6, <1>9

LEMMA MatrixIsOrderly ==
    ASSUME NEW s, Orderly(s), NEW n \in DOMAIN s.heap,
           NEW image \in DOMAIN s.heap, image # n, NEW scale
    PROVE  Orderly(Matrix(s, n, image, scale))
<1>1. PICK t : t = Texture(s, image, SizeAt[scale])
  OBVIOUS
<1>2. Orderly(t) /\ Spares(s, t, image)
  BY <1>1, TextureIsOrderly
<1>3. PICK o : o = Object("matrix", None, {t.result})
  OBVIOUS
<1>4. Matrix(s, n, image, scale) =
          IF Cached(s, n, scale) # None
          THEN [s EXCEPT !.result = Cached(s, n, scale)]
          ELSE Offspring(t, n, scale, o)
  BY <1>1, <1>3 DEF Matrix
<1>5. \A x : Orderly([s EXCEPT !.result = x])
  BY FoundIsOrderly
<1>6. IsObject(o) /\ o.kind # "ninepatch"
  BY <1>3, PlainObject
<1>7. ASSUME Cached(s, n, scale) = None
      PROVE  Orderly(Offspring(t, n, scale, o))
  <2>1. n \in DOMAIN t.heap
    BY <1>2 DEF Spares
  <2>2. Bounded(t.heap) => Cached(t, n, scale) = None
    BY <1>2, <1>7 DEF Spares, Cached
  <2> QED
    BY <1>2, <1>6, <2>1, <2>2, OffspringIsOrderly
<1> QED
  BY <1>4, <1>5, <1>7

\* A texture or matrix that dies erases its own key only.
LEMMA SurvivorsAreListed ==
    ASSUME NEW h, NEW map, Sound(h, map, None), Listed(h), NEW S,
           Collect(h, map, S)
    PROVE  Listed(heap')
<1>1. PICK alive : alive = Kept(h, S) \cap DOMAIN h
  OBVIOUS
<1>2. heap' = Survivors(h, alive)
  BY <1>1 DEF Collect
<1>3. PICK g : g = heap'
  OBVIOUS
<1>4. /\ alive \subseteq DOMAIN h /\ DOMAIN g = alive
      /\ None \notin DOMAIN h
      /\ \A i \in DOMAIN h : IsObject(h[i])
  BY <1>1, <1>2, <1>3 DEF Survivors, Sound
<1>5. ASSUME NEW i \in alive
      PROVE  /\ g[i].kind = h[i].kind /\ g[i].refs = h[i].refs
             /\ g[i].key = h[i].key /\ g[i].natural = h[i].natural
             /\ g[i].parent = Weak(h[i].parent, alive)
             /\ g[i].cache = Only(h[i].cache,
                                  DOMAIN h[i].cache \ Erased(h, i, alive))
  <2>1. PICK o, c, p : /\ o = h[i]
                       /\ c = Only(o.cache,
                                   DOMAIN o.cache \ Erased(h, i, alive))
                       /\ p = Weak(o.parent, alive)
    OBVIOUS
  <2>2. g[i] = Left(o, c, p)
    BY <1>2, <1>3, <2>1 DEF Survivors, Left
  <2>3. IsObject(o)
    BY <1>4, <2>1
  <2> QED
    BY <2>1, <2>2, <2>3, SurvivorObject
<1>6. ASSUME NEW i \in alive PROVE InCache(g, i) /\ Apart(g, i)
  <2>1. InCache(h, i) /\ Apart(h, i) /\ i \in DOMAIN h
    BY <1>4 DEF Listed
  <2>2. Apart(g, i)
    BY <1>5, <2>1 DEF Apart
  <2>3. PICK p, k : p = h[i].parent /\ k = h[i].key
    OBVIOUS
  <2>4. g[i].key = k /\ g[i].parent = Weak(p, alive)
    BY <1>5, <2>3
  <2>5. CASE p \notin alive
    <3>1. g[i].parent = None
      BY <2>4, <2>5 DEF Weak
    <3> QED
      BY <2>2, <3>1 DEF InCache
  <2>6. CASE p \in alive
    <3>1. /\ g[i].parent = p /\ p \in DOMAIN g /\ p # None
          /\ g[p].natural = h[p].natural
          /\ g[p].cache = Only(h[p].cache,
                               DOMAIN h[p].cache \ Erased(h, p, alive))
      BY <1>4, <1>5, <2>4, <2>6 DEF Weak
    <3>2. CASE h[p].natural
      BY <2>2, <3>1, <3>2 DEF InCache
    <3>3. CASE ~h[p].natural
      <4>1. k \in DOMAIN h[p].cache /\ h[p].cache[k] = i
        BY <2>1, <2>3, <3>1, <3>3 DEF InCache
      <4>2. k \notin Erased(h, p, alive)
        <5>1. SUFFICES ASSUME k \in Erased(h, p, alive) PROVE FALSE
          OBVIOUS
        <5>2. PICK d \in DOMAIN h \ alive : h[d].parent = p /\ h[d].key = k
          BY <5>1 DEF Erased
        <5>3. InCache(h, d)
          BY DEF Listed
        <5>4. h[p].cache[k] = d
          BY <3>1, <3>3, <5>2, <5>3 DEF InCache
        <5> QED
          BY <4>1, <5>4
      <4>3. k \in DOMAIN g[p].cache /\ g[p].cache[k] = i
        BY <3>1, <4>1, <4>2 DEF Only
      <4> QED
        BY <2>2, <2>4, <3>1, <4>3 DEF InCache
    <3> QED
      BY <3>2, <3>3
  <2> QED
    BY <2>5, <2>6
<1> QED
  BY <1>3, <1>4, <1>6 DEF Listed

CacheInv == Inv /\ Listed(heap)

LEMMA StepKeepsListed ==
    ASSUME Inv, Listed(heap), [Next]_vars
    PROVE  Listed(heap')
<1>1. PICK s : s = Loading
  OBVIOUS
<1>2. Right(s) /\ s.heap = heap /\ s.map = resMap /\ IsLoading(s)
  BY <1>1, LoadingIsRight DEF Right
<1>3. Orderly(s)
  BY <1>2 DEF Orderly, Right, Sound
<1>4. ASSUME NEW f \in Mounted, mountResPack(f) PROVE Listed(heap')
  BY <1>4 DEF mountResPack
<1>5. ASSUME NEW name \in Loads, load(name) PROVE Listed(heap')
  <2>1. name \in Names /\ packs \in Seq(Files)
    BY ResourceAssumption DEF Inv
  <2>2. PICK t : t = LoadAs(name)
    OBVIOUS
  <2>3. Right(t) /\ Grows(s, t)
    BY <1>1, <1>2, <2>1, <2>2, LoadAsIsRight, LoadAsGrows
  <2>4. Bounded(t.heap) /\ Collect(t.heap, t.map, held')
    BY <1>5, <2>2, Zenon DEF load
  <2>5. Sound(t.heap, t.map, None) /\ Adds(s.heap, t.heap)
    BY <2>3, <2>4 DEF Right, Grows
  <2>6. Listed(t.heap)
    BY <1>2, <2>5, AddsKeepsListed
  <2> QED
    BY <2>4, <2>5, <2>6, SurvivorsAreListed
<1>6. ASSUME NEW i \in DOMAIN heap, NEW request, getTexture(i, request)
      PROVE  Listed(heap')
  <2>1. PICK t : t = Texture(s, i, request)
    OBVIOUS
  <2>2. Orderly(t)
    BY <1>2, <1>3, <2>1, TextureIsOrderly
  <2> QED
    BY <1>1, <1>6, <2>1, <2>2 DEF getTexture, Get, Orderly
<1>7. ASSUME NEW n \in DOMAIN heap, NEW scale, getMatrix(n, scale)
      PROVE  Listed(heap')
  <2>1. PICK image \in heap[n].refs \cap DOMAIN heap :
            Get(Matrix(Loading, n, image, scale))
    BY <1>7 DEF getMatrix
  <2>2. image # n
    BY <1>7, <2>1 DEF getMatrix, Listed, Apart
  <2>3. PICK t : t = Matrix(s, n, image, scale)
    OBVIOUS
  <2>4. Orderly(t)
    BY <1>2, <1>3, <2>1, <2>2, <2>3, MatrixIsOrderly
  <2> QED
    BY <1>1, <2>1, <2>3, <2>4 DEF Get, Orderly
<1>8. ASSUME NEW i \in held, Release(i) PROVE Listed(heap')
  BY <1>8, SurvivorsAreListed DEF Release, Inv
<1>9. CASE UNCHANGED vars
  BY <1>9 DEF vars
<1> QED
  BY <1>4, <1>5, <1>6, <1>7, <1>8, <1>9 DEF Next

\* An image has one texture of a size and a nine-patch one matrix of a scale:
\* what is rendered is found in the cache as long as it lives, whatever dies,
\* is made or throws in between (ResImage.cpp:89-137, ResNinePatch.cpp:54-99).
THEOREM CachesHaveOne ==
    Spec => []RendersOnce
<1>1. Init => CacheInv
  <2>1. << >> \in Seq(Files) /\ DOMAIN << >> = {}
    OBVIOUS
  <2> QED
    BY <2>1 DEF Init, CacheInv, Inv, Bounded, Sound, Listed
<1>2. CacheInv /\ [Next]_vars => CacheInv'
  BY StepKeepsInv, StepKeepsListed DEF CacheInv
<1>3. CacheInv => RendersOnce
  <2>1. SUFFICES ASSUME Inv, Listed(heap),
                        NEW i \in DOMAIN heap, NEW j \in DOMAIN heap,
                        heap[i].parent # None,
                        heap[j].parent = heap[i].parent,
                        heap[j].key = heap[i].key,
                        ~heap[heap[i].parent].natural
                 PROVE  i = j
    BY DEF CacheInv, RendersOnce
  <2>2. PICK p, k : p = heap[i].parent /\ k = heap[i].key
    OBVIOUS
  <2>3. InCache(heap, i) /\ InCache(heap, j)
    BY <2>1 DEF Listed
  <2>4. heap[p].cache[k] = i /\ heap[p].cache[k] = j
    BY <2>1, <2>2, <2>3 DEF InCache
  <2> QED
    BY <2>4
<1> QED
  BY <1>1, <1>2, <1>3, PTL DEF Spec

-----------------------------------------------------------------------------
(* Names are found *)

FindsName(name) ==
    \E x : /\ LastIs(x, Deciding(name), mounts, Hits(Deciding(name), mounts))
           /\ Finds(x, name, packs)

FindsInv ==
    /\ packs \in Seq(Files)
    /\ mounts \in Seq(Files)
    /\ \A name \in UNION {DOMAIN Described[f] : f \in Files} : FindsName(name)

LEMMA InitFinds == Init => FindsInv
<1> SUFFICES ASSUME Init PROVE FindsInv
  OBVIOUS
<1>1. packs = << >> /\ mounts = << >>
  BY DEF Init
<1>2. ASSUME NEW name PROVE FindsName(name)
  <2>1. Hits(Deciding(name), mounts) = {}
    BY <1>1 DEF Hits
  <2>2. Saying(name, packs) = {}
    BY <1>1 DEF Saying
  <2>3. QED
    BY <2>1, <2>2 DEF FindsName, LastIs, Finds
<1>3. QED
  BY <1>1, <1>2 DEF FindsInv

LEMMA MountFinds ==
    ASSUME FindsInv, NEW f \in Mounted, mountResPack(f)
    PROVE  FindsInv'
<1>1. f \in Files /\ packs \in Seq(Files) /\ mounts \in Seq(Files)
  BY ResourceAssumption DEF FindsInv
<1>2. packs' = packs \o MountedBy[f].packs /\ mounts' = Append(mounts, f)
  BY DEF mountResPack
<1>3. MountedBy[f].packs \in Seq(Files)
  BY <1>1, FilesMountTheirTrees DEF FileMounts, Mounting
<1>4. packs' \in Seq(Files) /\ mounts' \in Seq(Files)
  BY <1>1, <1>2, <1>3
<1>5. ASSUME NEW name \in UNION {DOMAIN Described[g] : g \in Files}
      PROVE  FindsName(name)'
  <2>1. PICK D : D = Deciding(name)
    OBVIOUS
  <2>2. PICK x : LastIs(x, D, mounts, Hits(D, mounts)) /\ Finds(x, name, packs)
    BY <2>1 DEF FindsInv, FindsName
  <2>3. Finds(D[f], name, MountedBy[f].packs)
    BY <1>1, <2>1, FilesMountTheirTrees DEF FileMounts
  <2> DEFINE y == IF D[f] = None THEN x ELSE D[f]
  <2>4. Finds(y, name, packs')
    BY <1>1, <1>2, <1>3, <2>2, <2>3, FindsInBoth
  <2>0. PICK s : s = mounts'
    OBVIOUS
  <2>5. PICK m \in Nat : m = Len(mounts)
    BY <1>1
  <2>6. /\ DOMAIN mounts = 1 .. m /\ DOMAIN s = 1 .. m + 1
        /\ \A k \in 1 .. m : s[k] = mounts[k]
        /\ s[m + 1] = f
    BY <1>1, <1>2, <2>0, <2>5
  <2> DEFINE I == Hits(D, mounts)
             J == Hits(D, s)
  <2>7. I \in SUBSET (1 .. m) /\ J \in SUBSET (1 .. m + 1)
    BY <2>6 DEF Hits
  <2>8. J = I \cup {k \in {m + 1} : D[s[k]] # None}
    BY <2>6 DEF Hits
  <2>9. LastIs(x, D, s, I)
    <3>1. \A k \in I : s[k] = mounts[k]
      BY <2>6, <2>7
    <3> HIDE DEF I
    <3>2. QED
      BY <2>2, <3>1 DEF LastIs, I
  <2>10. LastIs(y, D, s, J)
    <3> HIDE DEF I, J
    <3>1. LastIs(IF D[s[m + 1]] = None THEN x ELSE D[s[m + 1]], D, s, J)
      BY <2>7, <2>8, <2>9, LastOfMore
    <3>2. QED
      BY <2>6, <3>1
  <2>11. Hits(D, mounts') = J
    BY <2>0
  <2> HIDE DEF y, J
  <2>12. LastIs(y, D, mounts', Hits(D, mounts'))
    BY <2>0, <2>10, <2>11
  <2>13. QED
    BY <2>1, <2>4, <2>12 DEF FindsName
<1>6. QED
  BY <1>4, <1>5 DEF FindsInv

LEMMA StepFinds == FindsInv /\ [Next]_vars => FindsInv'
<1> SUFFICES ASSUME FindsInv, [Next]_vars PROVE FindsInv'
  OBVIOUS
<1>1. ASSUME packs' = packs, mounts' = mounts PROVE FindsInv'
  BY <1>1 DEF FindsInv, FindsName
<1>2. ASSUME NEW f \in Mounted, mountResPack(f) PROVE FindsInv'
  BY <1>2, MountFinds
<1>3. ASSUME NEW name, load(name) PROVE FindsInv'
  BY <1>1, <1>3 DEF load
<1>4. ASSUME NEW i, NEW request, getTexture(i, request) PROVE FindsInv'
  BY <1>1, <1>4 DEF getTexture, Get
<1>5. ASSUME NEW n, NEW scale, getMatrix(n, scale) PROVE FindsInv'
  BY <1>1, <1>5 DEF getMatrix, Get
<1>6. ASSUME NEW i, Release(i) PROVE FindsInv'
  BY <1>1, <1>6 DEF Release
<1>7. CASE UNCHANGED vars
  BY <1>1, <1>7 DEF vars
<1>8. QED
  BY <1>2, <1>3, <1>4, <1>5, <1>6, <1>7 DEF Next

LEMMA InvFinds == FindsInv => FindsByPrecedence
<1> SUFFICES ASSUME FindsInv,
                    NEW name \in UNION {DOMAIN Described[f] : f \in Files}
             PROVE  LET deciding == Deciding(name)
                        trees == {k \in DOMAIN mounts : deciding[mounts[k]] # None}
                        describing == Describing(name)
                    IN IF trees = {} THEN describing = {}
                       ELSE /\ describing # {}
                            /\ packs[Max(describing)] = deciding[mounts[Max(trees)]]
  BY DEF FindsByPrecedence
<1>1. PICK D : D = Deciding(name)
  OBVIOUS
<1> DEFINE T == Hits(D, mounts)
           P == Describing(name)
<1>2. PICK x : LastIs(x, D, mounts, T) /\ Finds(x, name, packs)
  BY <1>1 DEF FindsInv, FindsName
<1>3. P = Saying(name, packs)
  BY DEF Describing, Saying
<1>4. PICK m \in Nat, n \in Nat : m = Len(mounts) /\ n = Len(packs)
  BY DEF FindsInv
<1>5. T \in SUBSET (1 .. m) /\ P \in SUBSET (1 .. n)
  BY <1>3, <1>4 DEF FindsInv, Hits, Saying
<1>6. \A k \in T : D[mounts[k]] # None
  BY DEF Hits
<1>7. T = {k \in DOMAIN mounts : Deciding(name)[mounts[k]] # None}
  BY <1>1 DEF Hits
<1> HIDE DEF T, P
<1>8. CASE T = {}
  <2>1. P = {}
    BY <1>2, <1>3, <1>8 DEF LastIs, Finds
  <2>2. QED
    BY <1>7, <1>8, <2>1 DEF P
<1>9. CASE T # {}
  <2>1. x = D[mounts[Max(T)]]
    BY <1>2, <1>5, <1>9, LastIsMax
  <2>2. Max(T) \in T
    BY <1>5, <1>9, MaxProperties
  <2>3. x # None
    BY <1>6, <2>1, <2>2
  <2>4. PICK k \in P : packs[k] = x /\ \A i \in P : i <= k
    BY <1>2, <1>3, <2>3 DEF Finds
  <2>5. Max(P) \in P /\ \A i \in P : Max(P) >= i
    BY <1>5, <2>4, MaxProperties
  <2>6. PICK j \in Nat : j = Max(P)
    BY <1>5, <2>5
  <2>7. j <= k /\ j >= k /\ k \in Nat
    BY <1>5, <2>4, <2>5, <2>6
  <2>8. j = k
    BY <2>7
  <2>9. P # {} /\ packs[Max(P)] = D[mounts[Max(T)]]
    BY <2>1, <2>4, <2>6, <2>8
  <2>10. QED
    BY <1>1, <1>7, <1>9, <2>9 DEF P
<1>10. QED
  BY <1>8, <1>9

\* A name is found in the file that the include trees of the files that the
\* program mounted designate: the includer before what it includes, the later
\* include before the earlier, the newest mount before the older, and nothing
\* of a file that could not be included after the include that threw, though
\* the manager has a list of packs only (ResourceManager.cpp:18-70).
THEOREM NamesAreFound == Spec => []FindsByPrecedence
<1>1. Init => FindsInv
  BY InitFinds
<1>2. FindsInv /\ [Next]_vars => FindsInv'
  BY StepFinds
<1>3. FindsInv => FindsByPrecedence
  BY InvFinds
<1>4. QED
  BY <1>1, <1>2, <1>3, PTL DEF Spec
=============================================================================

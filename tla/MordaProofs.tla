---------------------------- MODULE MordaProofs -----------------------------
(***************************************************************************)
(* Proofs about the two parts that the class Morda keeps, for every value  *)
(* of their constants: the Updater and the focused widget.                 *)
(*                                                                         *)
(* Updater: for every set of objects, every clock modulus and every timing *)
(* bound.                                                                  *)
(*                                                                         *)
(* Focus: Morda and the widgets agree about who is focused at any time,    *)
(* and between events exactly the focused TextInput blinks, for any tree   *)
(* of widgets and any depth of nested calls, as long as no user code acts  *)
(* in the onFocusChanged() of a widget that loses the focus.               *)
(***************************************************************************)
EXTENDS Updater, Focus, SequencesExt, SequenceTheorems, WellFoundedInduction,
        TLAPS

-----------------------------------------------------------------------------
(* What the operators of SequencesExt do to a sequence, index by index *)

\* A non-empty set of naturals has a least element, and Min is that element.
LEMMA MinProperties ==
    ASSUME NEW I \in SUBSET Nat, I # {}
    PROVE  Min(I) \in I /\ \A j \in I : Min(I) <= j
<1>1. PICK m \in I : \A j \in I : ~(<<j, m>> \in OpToRel(<, Nat))
  BY WFMin, NatLessThanWellFounded
<1>2. \A j \in I : ~(j < m)
  BY <1>1, Zenon DEF OpToRel
<1>3. \A j \in I : m <= j
  BY <1>2
<1>4. QED
  BY <1>3 DEF Min

LEMMA InsertAtProperties ==
    ASSUME NEW S, NEW s \in Seq(S), NEW i \in 1 .. Len(s) + 1, NEW e \in S
    PROVE  /\ InsertAt(s, i, e) \in Seq(S)
           /\ Len(InsertAt(s, i, e)) = Len(s) + 1
           /\ \A j \in 1 .. Len(s) + 1 :
                  InsertAt(s, i, e)[j] = IF j < i THEN s[j]
                                         ELSE IF j = i THEN e ELSE s[j - 1]
<1> DEFINE front == SubSeq(s, 1, i - 1)
           rest  == SubSeq(s, i, Len(s))
<1>1. /\ front \in Seq(S) /\ Len(front) = i - 1
      /\ \A j \in 1 .. i - 1 : front[j] = s[j]
  BY SubSeqProperties
<1>2. /\ rest \in Seq(S) /\ Len(rest) = Len(s) - i + 1
      /\ \A j \in 1 .. Len(s) - i + 1 : rest[j] = s[i + j - 1]
  BY SubSeqProperties
<1>3. <<e>> \in Seq(S) /\ Len(<<e>>) = 1 /\ <<e>>[1] = e
  OBVIOUS
<1> HIDE DEF front, rest
<1> DEFINE begin == front \o <<e>>
<1>4. /\ begin \in Seq(S)
      /\ Len(begin) = i
      /\ \A j \in 1 .. i : begin[j] = IF j < i THEN s[j] ELSE e
  BY <1>1, <1>3, ConcatProperties
<1> HIDE DEF begin
<1>5. /\ begin \o rest \in Seq(S)
      /\ Len(begin \o rest) = Len(s) + 1
      /\ \A j \in 1 .. Len(s) + 1 :
             (begin \o rest)[j] = IF j <= i THEN begin[j] ELSE rest[j - i]
  <2>1. /\ begin \o rest \in Seq(S)
        /\ Len(begin \o rest) = Len(begin) + Len(rest)
        /\ \A j \in 1 .. Len(begin) + Len(rest) :
               (begin \o rest)[j] =
                   IF j <= Len(begin) THEN begin[j] ELSE rest[j - Len(begin)]
    BY <1>2, <1>4, ConcatProperties
  <2>2. Len(begin) = i /\ Len(begin) + Len(rest) = Len(s) + 1
    BY <1>2, <1>4, LenProperties
  <2>3. QED
    BY <2>1, <2>2
<1>6. InsertAt(s, i, e) = begin \o rest
  BY DEF InsertAt, begin, front, rest
<1>7. ASSUME NEW j \in 1 .. Len(s) + 1
      PROVE  InsertAt(s, i, e)[j] = IF j < i THEN s[j]
                                    ELSE IF j = i THEN e ELSE s[j - 1]
  <2>1. CASE j <= i
    BY <1>4, <1>5, <1>6, <2>1
  <2>2. CASE j > i
    <3>1. rest[j - i] = s[i + (j - i) - 1]
      BY <1>2, <2>2, LenProperties
    <3>2. i + (j - i) - 1 = j - 1
      BY LenProperties
    <3>3. QED
      BY <1>5, <1>6, <2>2, <3>1, <3>2
  <2>3. QED
    BY <2>1, <2>2
<1>8. QED
  BY <1>5, <1>6, <1>7

LEMMA RemoveAtProperties ==
    ASSUME NEW S, NEW s \in Seq(S), NEW i \in 1 .. Len(s)
    PROVE  /\ RemoveAt(s, i) \in Seq(S)
           /\ Len(RemoveAt(s, i)) = Len(s) - 1
           /\ \A j \in 1 .. Len(s) - 1 :
                  RemoveAt(s, i)[j] = IF j < i THEN s[j] ELSE s[j + 1]
<1> DEFINE front == SubSeq(s, 1, i - 1)
           rest  == SubSeq(s, i + 1, Len(s))
<1>1. /\ front \in Seq(S) /\ Len(front) = i - 1
      /\ \A j \in 1 .. i - 1 : front[j] = s[j]
  BY SubSeqProperties
<1>2. /\ rest \in Seq(S) /\ Len(rest) = Len(s) - i
      /\ \A j \in 1 .. Len(s) - i : rest[j] = s[i + j]
  BY SubSeqProperties
<1> HIDE DEF front, rest
<1>3. /\ front \o rest \in Seq(S)
      /\ Len(front \o rest) = Len(front) + Len(rest)
      /\ \A j \in 1 .. Len(front) + Len(rest) :
             (front \o rest)[j] = IF j <= Len(front) THEN front[j]
                                  ELSE rest[j - Len(front)]
  BY <1>1, <1>2, ConcatProperties
<1>4. Len(front) = i - 1 /\ Len(front) + Len(rest) = Len(s) - 1
  BY <1>1, <1>2, LenProperties
<1>5. RemoveAt(s, i) = front \o rest
  BY DEF RemoveAt, front, rest
<1>6. ASSUME NEW j \in 1 .. Len(s) - 1
      PROVE  RemoveAt(s, i)[j] = IF j < i THEN s[j] ELSE s[j + 1]
  <2>1. CASE j < i
    BY <1>1, <1>3, <1>4, <1>5, <2>1
  <2>2. CASE j >= i
    <3>1. rest[j - (i - 1)] = s[i + (j - (i - 1))]
      BY <1>2, <2>2, LenProperties
    <3>2. i + (j - (i - 1)) = j + 1
      BY LenProperties
    <3>3. QED
      BY <1>3, <1>4, <1>5, <2>2, <3>1, <3>2
  <2>3. QED
    BY <2>1, <2>2
<1>7. QED
  BY <1>3, <1>4, <1>5, <1>6

\* RemoveFirst removes the first of the places where e occurs.
LEMMA RemoveFirstProperties ==
    ASSUME NEW S, NEW s \in Seq(S), NEW e, \E i \in 1 .. Len(s) : s[i] = e
    PROVE  \E i \in 1 .. Len(s) : s[i] = e /\ RemoveFirst(s, e) = RemoveAt(s, i)
<1> DEFINE places == {i \in 1 .. Len(s) : s[i] = e}
<1>1. Min(places) \in places
  <2>1. places \in SUBSET Nat /\ places # {}
    OBVIOUS
  <2> HIDE DEF places
  <2>2. QED
    BY <2>1, MinProperties
<1>2. SelectInSeq(s, LAMBDA v : v = e) = Min(places)
  BY DEF SelectInSeq
<1>3. RemoveFirst(s, e) = RemoveAt(s, Min(places))
  BY <1>2 DEF RemoveFirst
<1>4. QED
  BY <1>1, <1>3

LEMMA TailProperties ==
    ASSUME NEW S, NEW s \in Seq(S), s # << >>
    PROVE  /\ Len(s) \in Nat \ {0}
           /\ Head(s) = s[1] /\ Head(s) \in S
           /\ Tail(s) \in Seq(S) /\ Len(Tail(s)) = Len(s) - 1
           /\ \A i \in 1 .. Len(s) - 1 : Tail(s)[i] = s[i + 1]
BY HeadTailProperties, EmptySeq

-----------------------------------------------------------------------------
(* Sequences used as sets: what an operation does to the set of elements of  *)
(* a sequence in which no element occurs twice.                              *)

LEMMA ConsSet ==
    ASSUME NEW S, NEW s \in Seq(S), NEW e \in S
    PROVE  /\ <<e>> \o s \in Seq(S)
           /\ ToSet(<<e>> \o s) = ToSet(s) \cup {e}
           /\ IsInjective(s) /\ e \notin ToSet(s) => IsInjective(<<e>> \o s)
<1> DEFINE r == <<e>> \o s
<1>1. /\ r \in Seq(S) /\ Len(r) = Len(s) + 1 /\ Len(s) \in Nat
      /\ \A i \in 1 .. Len(r) : r[i] = IF i = 1 THEN e ELSE s[i - 1]
  <2>1. <<e>> \in Seq(S) /\ Len(<<e>>) = 1 /\ <<e>>[1] = e
    OBVIOUS
  <2>2. QED
    BY <2>1, ConcatProperties, LenProperties
<1>2. DOMAIN r = 1 .. Len(r) /\ DOMAIN s = 1 .. Len(s)
  BY <1>1, LenProperties
<1> HIDE DEF r
<1>3. r[1] = e /\ \A i \in 1 .. Len(s) : r[i + 1] = s[i] /\ i + 1 \in 1 .. Len(r)
  BY <1>1
<1>4. ToSet(r) = ToSet(s) \cup {e}
  <2>1. ASSUME NEW x \in ToSet(r)
        PROVE  x \in ToSet(s) \cup {e}
    BY <1>1, <1>2 DEF ToSet
  <2>2. ASSUME NEW x \in ToSet(s)
        PROVE  x \in ToSet(r)
    BY <1>2, <1>3 DEF ToSet
  <2>3. e \in ToSet(r)
    BY <1>1, <1>2, <1>3 DEF ToSet
  <2>4. QED
    BY <2>1, <2>2, <2>3
<1>5. ASSUME IsInjective(s), e \notin ToSet(s),
             NEW a \in 1 .. Len(r), NEW b \in 1 .. Len(r), r[a] = r[b]
      PROVE  a = b
  <2>1. \A i \in 1 .. Len(s) : s[i] # e
    BY <1>2, <1>5 DEF ToSet
  <2>2. \A c \in 1 .. Len(r) : c # 1 => c - 1 \in 1 .. Len(s) /\ r[c] = s[c - 1]
    BY <1>1
  <2>3. a = 1 <=> b = 1
    BY <1>3, <1>5, <2>1, <2>2
  <2>4. a # 1 /\ b # 1 => a - 1 = b - 1
    BY <1>2, <1>5, <2>2 DEF IsInjective
  <2>5. QED
    BY <2>3, <2>4
<1>6. QED
  BY <1>1, <1>2, <1>4, <1>5 DEF r, IsInjective

LEMMA AppendSet ==
    ASSUME NEW S, NEW s \in Seq(S), NEW e \in S
    PROVE  /\ Append(s, e) \in Seq(S)
           /\ ToSet(Append(s, e)) = ToSet(s) \cup {e}
           /\ IsInjective(s) /\ e \notin ToSet(s) => IsInjective(Append(s, e))
<1> DEFINE r == Append(s, e)
<1>1. /\ r \in Seq(S) /\ Len(r) = Len(s) + 1 /\ Len(s) \in Nat
      /\ \A i \in 1 .. Len(s) : r[i] = s[i]
      /\ r[Len(s) + 1] = e
  BY AppendProperties, LenProperties
<1>2. DOMAIN r = 1 .. Len(s) + 1 /\ DOMAIN s = 1 .. Len(s)
  BY <1>1, LenProperties
<1> HIDE DEF r
<1>3. ToSet(r) = ToSet(s) \cup {e}
  <2>1. ASSUME NEW x \in ToSet(r)
        PROVE  x \in ToSet(s) \cup {e}
    BY <1>1, <1>2 DEF ToSet
  <2>2. ASSUME NEW x \in ToSet(s)
        PROVE  x \in ToSet(r)
    BY <1>1, <1>2 DEF ToSet
  <2>3. e \in ToSet(r)
    BY <1>1, <1>2 DEF ToSet
  <2>4. QED
    BY <2>1, <2>2, <2>3
<1>4. IsInjective(s) /\ e \notin ToSet(s) => IsInjective(r)
  BY <1>1, <1>2 DEF IsInjective, ToSet
<1>5. QED
  BY <1>1, <1>3, <1>4 DEF r

LEMMA RemoveAtSet ==
    ASSUME NEW S, NEW s \in Seq(S), NEW i \in 1 .. Len(s), IsInjective(s)
    PROVE  /\ RemoveAt(s, i) \in Seq(S)
           /\ ToSet(RemoveAt(s, i)) = ToSet(s) \ {s[i]}
           /\ IsInjective(RemoveAt(s, i))
<1> DEFINE r == RemoveAt(s, i)
<1>1. /\ r \in Seq(S) /\ Len(r) = Len(s) - 1 /\ Len(s) \in Nat
      /\ \A j \in 1 .. Len(r) : r[j] = IF j < i THEN s[j] ELSE s[j + 1]
  BY RemoveAtProperties, LenProperties
<1>2. DOMAIN r = 1 .. Len(r) /\ DOMAIN s = 1 .. Len(s)
  BY <1>1, LenProperties
<1> HIDE DEF r
<1>3. \A j \in 1 .. Len(s) : j # i => \E n \in 1 .. Len(r) : r[n] = s[j]
  <2>1. \A j \in 1 .. Len(s) : j < i => j \in 1 .. Len(r) /\ r[j] = s[j]
    BY <1>1
  <2>2. \A j \in 1 .. Len(s) : j > i => j - 1 \in 1 .. Len(r) /\ r[j - 1] = s[j]
    BY <1>1
  <2>3. TAKE j \in 1 .. Len(s)
  <2>4. HAVE j # i
  <2>5. CASE j < i
    BY <2>1, <2>5
  <2>6. CASE j > i
    BY <2>2, <2>6
  <2>7. QED
    BY <1>1, <2>4, <2>5, <2>6
<1>4. ToSet(r) = ToSet(s) \ {s[i]}
  <2>1. ASSUME NEW x \in ToSet(r)
        PROVE  x \in ToSet(s) \ {s[i]}
    BY <1>1, <1>2 DEF ToSet, IsInjective
  <2>2. ASSUME NEW x \in ToSet(s) \ {s[i]}
        PROVE  x \in ToSet(r)
    BY <1>2, <1>3 DEF ToSet
  <2>3. QED
    BY <2>1, <2>2
<1>5. IsInjective(r)
  <2> DEFINE old(n) == IF n < i THEN n ELSE n + 1
  <2>1. \A n \in 1 .. Len(r) : old(n) \in 1 .. Len(s) /\ r[n] = s[old(n)]
    BY <1>1
  <2>2. \A m, n \in 1 .. Len(r) : old(m) = old(n) => m = n
    BY <1>1
  <2> HIDE DEF old
  <2>3. QED
    BY <1>2, <2>1, <2>2 DEF IsInjective
<1>6. QED
  BY <1>1, <1>4, <1>5 DEF r

LEMMA RemoveFirstSet ==
    ASSUME NEW S, NEW s \in Seq(S), NEW e \in ToSet(s), IsInjective(s)
    PROVE  /\ RemoveFirst(s, e) \in Seq(S)
           /\ ToSet(RemoveFirst(s, e)) = ToSet(s) \ {e}
           /\ IsInjective(RemoveFirst(s, e))
<1>1. \E i \in 1 .. Len(s) : s[i] = e
  BY LenProperties DEF ToSet
<1>2. PICK i \in 1 .. Len(s) : s[i] = e /\ RemoveFirst(s, e) = RemoveAt(s, i)
  BY <1>1, RemoveFirstProperties
<1>3. QED
  BY <1>2, RemoveAtSet

LEMMA TailSet ==
    ASSUME NEW S, NEW s \in Seq(S), s # << >>, IsInjective(s)
    PROVE  /\ Tail(s) \in Seq(S)
           /\ Head(s) \in ToSet(s) /\ Head(s) \in S
           /\ ToSet(Tail(s)) = ToSet(s) \ {Head(s)}
           /\ IsInjective(Tail(s))
<1>1. /\ Len(s) \in Nat \ {0} /\ Head(s) = s[1] /\ Head(s) \in S
      /\ Tail(s) \in Seq(S) /\ Len(Tail(s)) = Len(s) - 1
      /\ \A i \in 1 .. Len(s) - 1 : Tail(s)[i] = s[i + 1]
  BY TailProperties
<1>2. /\ RemoveAt(s, 1) \in Seq(S) /\ Len(RemoveAt(s, 1)) = Len(s) - 1
      /\ \A i \in 1 .. Len(s) - 1 : RemoveAt(s, 1)[i] = s[i + 1]
  <2>1. 1 \in 1 .. Len(s)
    BY <1>1
  <2>2. /\ RemoveAt(s, 1) \in Seq(S) /\ Len(RemoveAt(s, 1)) = Len(s) - 1
        /\ \A i \in 1 .. Len(s) - 1 :
               RemoveAt(s, 1)[i] = IF i < 1 THEN s[i] ELSE s[i + 1]
    BY <2>1, RemoveAtProperties
  <2>3. QED
    BY <2>2
<1>3. Tail(s) = RemoveAt(s, 1)
  BY <1>1, <1>2, SeqEqual
<1>4. ToSet(RemoveAt(s, 1)) = ToSet(s) \ {s[1]} /\ IsInjective(RemoveAt(s, 1))
  BY <1>1, RemoveAtSet
<1>5. Head(s) \in ToSet(s)
  BY <1>1, LenProperties DEF ToSet
<1>6. QED
  BY <1>1, <1>3, <1>4, <1>5

-----------------------------------------------------------------------------
(* Queues, one operation at a time *)

SortedQueue(q) == \A i, j \in 1 .. Len(q) : i < j => q[i].endAt <= q[j].endAt
Distinct(q) == \A i, j \in 1 .. Len(q) : q[i].of = q[j].of => i = j

\* What is left of a queue after one of its nodes is gone.
IsWithout(r, q, u) ==
    /\ r \in Seq(Entry)
    /\ \A j \in 1 .. Len(r) : \E i \in 1 .. Len(q) : r[j] = q[i]
    /\ SortedQueue(q) => SortedQueue(r)
    /\ Distinct(q) => /\ Distinct(r)
                      /\ ObjectsIn(r) = ObjectsIn(q) \ {u}

LEMMA RemoveEntry ==
    ASSUME NEW q \in Seq(Entry), NEW p \in 1 .. Len(q)
    PROVE  IsWithout(RemoveAt(q, p), q, q[p].of)
<1> DEFINE r == RemoveAt(q, p)
           old(j) == IF j < p THEN j ELSE j + 1
<1>1. /\ r \in Seq(Entry) /\ Len(r) = Len(q) - 1 /\ Len(q) \in Nat
      /\ \A j \in 1 .. Len(r) : r[j] = IF j < p THEN q[j] ELSE q[j + 1]
  BY RemoveAtProperties, LenProperties
<1> HIDE DEF r
<1>2. \A j \in 1 .. Len(r) : old(j) \in 1 .. Len(q) /\ old(j) # p /\ r[j] = q[old(j)]
  BY <1>1
<1>3. \A i, j \in 1 .. Len(r) : i < j => old(i) < old(j)
  BY <1>1
<1>4. \A i \in 1 .. Len(q) : i # p => \E j \in 1 .. Len(r) : r[j] = q[i]
  <2>1. SUFFICES ASSUME NEW i \in 1 .. Len(q), i # p
                 PROVE  \E j \in 1 .. Len(r) : r[j] = q[i]
    OBVIOUS
  <2>2. CASE i < p
    <3>1. i \in 1 .. Len(r) /\ r[i] = q[i]
      BY <1>1, <2>2
    <3>2. QED
      BY <3>1
  <2>3. CASE i > p
    <3>1. i - 1 \in 1 .. Len(r) /\ r[i - 1] = q[i]
      BY <1>1, <2>3
    <3>2. QED
      BY <3>1
  <2>4. QED
    BY <2>1, <2>2, <2>3
<1>5. SortedQueue(q) => SortedQueue(r)
  BY <1>2, <1>3 DEF SortedQueue
<1>6. Distinct(q) => Distinct(r)
  <2>1. \A i, j \in 1 .. Len(r) : old(i) = old(j) => i = j
    BY <1>1
  <2>2. QED
    BY <1>2, <2>1 DEF Distinct
<1>7. Distinct(q) => ObjectsIn(r) = ObjectsIn(q) \ {q[p].of}
  <2>1. DOMAIN q = 1 .. Len(q) /\ DOMAIN r = 1 .. Len(r)
    BY <1>1, LenProperties
  <2>2. ASSUME Distinct(q), NEW x \in ObjectsIn(r)
        PROVE  x \in ObjectsIn(q) \ {q[p].of}
    <3>1. PICK j \in 1 .. Len(r) : x = r[j].of
      BY <2>1, <2>2 DEF ObjectsIn
    <3>2. old(j) \in 1 .. Len(q) /\ x = q[old(j)].of /\ old(j) # p
      BY <1>2, <3>1
    <3>3. QED
      BY <2>1, <2>2, <3>2 DEF ObjectsIn, Distinct
  <2>3. ASSUME NEW x \in ObjectsIn(q) \ {q[p].of}
        PROVE  x \in ObjectsIn(r)
    <3>1. PICK i \in 1 .. Len(q) : x = q[i].of
      BY <2>1 DEF ObjectsIn
    <3>2. PICK j \in 1 .. Len(r) : r[j] = q[i]
      BY <1>4, <2>3, <3>1
    <3>3. QED
      BY <2>1, <3>1, <3>2 DEF ObjectsIn
  <2>4. QED
    BY <2>2, <2>3
<1>8. \A j \in 1 .. Len(r) : \E i \in 1 .. Len(q) : r[j] = q[i]
  BY <1>2
<1>9. QED
  BY <1>1, <1>5, <1>6, <1>7, <1>8 DEF IsWithout, r

LEMMA TailEntry ==
    ASSUME NEW q \in Seq(Entry), q # << >>
    PROVE  IsWithout(Tail(q), q, Head(q).of)
<1>1. Len(q) \in Nat \ {0} /\ Head(q) = q[1]
  BY TailProperties
<1>2. /\ RemoveAt(q, 1) \in Seq(Entry)
      /\ Len(RemoveAt(q, 1)) = Len(q) - 1
      /\ \A j \in 1 .. Len(q) - 1 : RemoveAt(q, 1)[j] = q[j + 1]
  BY <1>1, RemoveAtProperties
<1>3. /\ Tail(q) \in Seq(Entry) /\ Len(Tail(q)) = Len(q) - 1
      /\ \A j \in 1 .. Len(q) - 1 : Tail(q)[j] = q[j + 1]
  BY TailProperties
<1>4. Tail(q) = RemoveAt(q, 1)
  BY <1>1, <1>2, <1>3, SeqEqual
<1>5. IsWithout(RemoveAt(q, 1), q, q[1].of)
  BY <1>1, RemoveEntry
<1>6. QED
  BY <1>1, <1>4, <1>5

\* insertPair() keeps a queue sorted and adds exactly the new node.
LEMMA InsertEntry ==
    ASSUME UpdaterAssumption, NEW q \in Seq(Entry), NEW e \in Entry
    PROVE  LET r == insertPair(q, e) IN
           /\ r \in Seq(Entry) /\ r # << >>
           /\ \A j \in 1 .. Len(r) : r[j] = e \/ \E i \in 1 .. Len(q) : r[j] = q[i]
           /\ ObjectsIn(r) = ObjectsIn(q) \cup {e.of}
           /\ SortedQueue(q) => SortedQueue(r)
           /\ Distinct(q) /\ e.of \notin ObjectsIn(q) => Distinct(r)
<1> DEFINE p == insertPosition(q, e.endAt)
           r == insertPair(q, e)
<1>1. /\ Len(q) \in Nat /\ DOMAIN q = 1 .. Len(q)
      /\ \A i \in 1 .. Len(q) : q[i] \in Entry /\ q[i].endAt \in Int
      /\ e.endAt \in Int
  <2>1. Len(q) \in Nat /\ DOMAIN q = 1 .. Len(q)
    BY LenProperties
  <2>2. \A i \in 1 .. Len(q) : q[i] \in Entry
    BY ElementOfSeq
  <2>3. \A d \in Entry : d.endAt \in Int
    BY DEF Entry, Ticks, UpdaterAssumption
  <2>4. QED
    BY <2>1, <2>2, <2>3
<1>2. /\ p \in 1 .. Len(q) + 1
      /\ SortedQueue(q) =>
             /\ \A i \in 1 .. Len(q) : i < p => q[i].endAt <= e.endAt
             /\ \A i \in 1 .. Len(q) : i >= p => q[i].endAt >= e.endAt
  <2>1. CASE q = << >> \/ Last(q).endAt <= e.endAt
    <3>1. p = Len(q) + 1
      BY <2>1 DEF insertPosition
    <3>2. ASSUME SortedQueue(q), NEW i \in 1 .. Len(q)
          PROVE  q[i].endAt <= e.endAt
      <4>1. q # << >>
        BY <1>1, <3>2
      <4>2. q[Len(q)].endAt <= e.endAt /\ Len(q) \in 1 .. Len(q)
        BY <1>1, <2>1, <4>1, <3>2 DEF Last
      <4>3. q[i].endAt <= q[Len(q)].endAt
        BY <1>1, <3>2, <4>2 DEF SortedQueue
      <4>4. QED
        BY <1>1, <4>2, <4>3
    <3>3. QED
      BY <1>1, <3>1, <3>2
  <2>2. CASE ~(q = << >> \/ Last(q).endAt <= e.endAt)
    <3> DEFINE later == {i \in DOMAIN q : q[i].endAt >= e.endAt}
    <3>1. p = Min(later)
      BY <2>2 DEF insertPosition
    <3>2. Len(q) \in later
      BY <1>1, <2>2, EmptySeq DEF Last
    <3>3. later \in SUBSET Nat /\ later # {}
      BY <1>1, <3>2
    <3>4. p \in later /\ \A j \in later : p <= j
      <4> HIDE DEF later, p
      <4>1. QED
        BY <3>1, <3>3, MinProperties
    <3>5. \A i \in 1 .. Len(q) : i < p => ~(q[i].endAt >= e.endAt)
      BY <1>1, <3>4
    <3>6. ASSUME SortedQueue(q), NEW i \in 1 .. Len(q), i >= p
          PROVE  q[i].endAt >= e.endAt
      <4>1. p \in 1 .. Len(q) /\ q[p].endAt >= e.endAt
        BY <1>1, <3>4
      <4>2. i = p \/ q[p].endAt <= q[i].endAt
        BY <1>1, <3>6, <4>1 DEF SortedQueue
      <4>3. QED
        BY <1>1, <4>1, <4>2
    <3>7. QED
      BY <1>1, <3>4, <3>5, <3>6
  <2>3. QED
    BY <2>1, <2>2
<1> HIDE DEF p
<1>3. /\ r \in Seq(Entry) /\ Len(r) = Len(q) + 1
      /\ \A j \in 1 .. Len(r) : r[j] = IF j < p THEN q[j]
                                       ELSE IF j = p THEN e ELSE q[j - 1]
  <2>1. r = InsertAt(q, p, e)
    BY DEF insertPair, p
  <2> HIDE DEF r
  <2>2. p \in 1 .. Len(q) + 1
    BY <1>2
  <2>3. /\ InsertAt(q, p, e) \in Seq(Entry)
        /\ Len(InsertAt(q, p, e)) = Len(q) + 1
        /\ \A j \in 1 .. Len(q) + 1 :
               InsertAt(q, p, e)[j] = IF j < p THEN q[j]
                                      ELSE IF j = p THEN e ELSE q[j - 1]
    BY <2>2, InsertAtProperties
  <2>4. QED
    BY <2>1, <2>3, Zenon
<1> HIDE DEF r
<1>4. /\ r[p] = e /\ p \in 1 .. Len(r)
      /\ \A i \in 1 .. Len(q) : i < p => r[i] = q[i] /\ i \in 1 .. Len(r)
      /\ \A i \in 1 .. Len(q) : i >= p => r[i + 1] = q[i] /\ i + 1 \in 1 .. Len(r)
  BY <1>1, <1>2, <1>3
<1>5. \A j \in 1 .. Len(r) : r[j] = e \/ \E i \in 1 .. Len(q) : r[j] = q[i]
  <2>1. SUFFICES ASSUME NEW j \in 1 .. Len(r), j # p
                 PROVE  \E i \in 1 .. Len(q) : r[j] = q[i]
    BY <1>4
  <2>2. CASE j < p
    BY <1>1, <1>2, <1>3, <2>2
  <2>3. CASE j > p
    <3>1. j - 1 \in 1 .. Len(q) /\ r[j] = q[j - 1]
      BY <1>1, <1>2, <1>3, <2>3
    <3>2. QED
      BY <3>1
  <2>4. QED
    BY <1>1, <1>2, <2>1, <2>2, <2>3
<1>6. ObjectsIn(r) = ObjectsIn(q) \cup {e.of}
  <2>1. DOMAIN r = 1 .. Len(r)
    BY <1>3, LenProperties
  <2>2. ASSUME NEW i \in 1 .. Len(q)
        PROVE  \E j \in 1 .. Len(r) : r[j] = q[i]
    <3>1. i < p \/ i >= p
      BY <1>2, LenProperties
    <3>2. CASE i < p
      BY <1>4, <3>2, Zenon
    <3>3. CASE i >= p
      BY <1>4, <3>3, Zenon
    <3>4. QED
      BY <3>1, <3>2, <3>3
  <2>3. ASSUME NEW x \in ObjectsIn(r)
        PROVE  x \in ObjectsIn(q) \cup {e.of}
    <3>1. PICK j \in 1 .. Len(r) : x = r[j].of
      BY <2>1 DEF ObjectsIn
    <3>2. QED
      BY <1>1, <1>5, <3>1 DEF ObjectsIn
  <2>4. ASSUME NEW x \in ObjectsIn(q) \cup {e.of}
        PROVE  x \in ObjectsIn(r)
    <3>1. CASE x = e.of
      BY <1>4, <2>1, <3>1 DEF ObjectsIn
    <3>2. CASE x \in ObjectsIn(q)
      <4>1. PICK i \in 1 .. Len(q) : x = q[i].of
        BY <1>1, <3>2 DEF ObjectsIn
      <4>2. QED
        BY <2>1, <2>2, <4>1 DEF ObjectsIn
    <3>3. QED
      BY <2>4, <3>1, <3>2
  <2>5. QED
    BY <2>3, <2>4
<1>7. ASSUME SortedQueue(q), NEW i \in 1 .. Len(r), NEW j \in 1 .. Len(r), i < j
      PROVE  r[i].endAt <= r[j].endAt
  <2>1. CASE j < p
    BY <1>1, <1>2, <1>3, <1>7, <2>1 DEF SortedQueue
  <2>2. CASE j = p
    BY <1>1, <1>2, <1>3, <1>7, <2>2
  <2>3. CASE j > p /\ i < p
    <3>1. r[i] = q[i] /\ r[j] = q[j - 1] /\ i \in 1 .. Len(q) /\ j - 1 \in 1 .. Len(q)
      BY <1>1, <1>2, <1>3, <1>7, <2>3
    <3>2. q[i].endAt <= e.endAt /\ e.endAt <= q[j - 1].endAt
      BY <1>1, <1>2, <1>7, <2>3, <3>1
    <3>3. QED
      BY <1>1, <3>1, <3>2
  <2>4. CASE j > p /\ i = p
    <3>1. r[i] = e /\ r[j] = q[j - 1] /\ j - 1 \in 1 .. Len(q) /\ j - 1 >= p
      BY <1>1, <1>2, <1>3, <1>7, <2>4
    <3>2. QED
      BY <1>1, <1>2, <1>7, <3>1
  <2>5. CASE j > p /\ i > p
    <3>1. /\ r[i] = q[i - 1] /\ r[j] = q[j - 1]
          /\ i - 1 \in 1 .. Len(q) /\ j - 1 \in 1 .. Len(q) /\ i - 1 < j - 1
      BY <1>1, <1>2, <1>3, <1>7, <2>5
    <3>2. QED
      BY <1>7, <3>1 DEF SortedQueue
  <2>6. QED
    BY <1>1, <1>2, <1>3, <2>1, <2>2, <2>3, <2>4, <2>5
<1>8. ASSUME Distinct(q), e.of \notin ObjectsIn(q),
             NEW i \in 1 .. Len(r), NEW j \in 1 .. Len(r), r[i].of = r[j].of
      PROVE  i = j
  <2>1. \A n \in 1 .. Len(q) : q[n].of # e.of
    BY <1>1, <1>8 DEF ObjectsIn
  <2> DEFINE old(n) == IF n < p THEN n ELSE n - 1
  <2>2. \A n \in 1 .. Len(r) : n # p => old(n) \in 1 .. Len(q) /\ r[n] = q[old(n)]
    BY <1>1, <1>2, <1>3
  <2>3. \A m, n \in 1 .. Len(r) : m # p /\ n # p /\ old(m) = old(n) => m = n
    BY <1>1, <1>2, <1>3
  <2> HIDE DEF old
  <2>4. i = p <=> j = p
    BY <1>4, <1>8, <2>1, <2>2
  <2>5. QED
    BY <1>8, <2>2, <2>3, <2>4 DEF Distinct
<1>9. r # << >>
  BY <1>1, <1>3, EmptySeq
<1>10. QED
  BY <1>3, <1>5, <1>6, <1>7, <1>8, <1>9 DEF SortedQueue, Distinct, r

\* Erasing through u->iter removes a node of u, when there is one.
LEMMA EraseEntry ==
    ASSUME NEW q \in Seq(Entry), NEW u \in ObjectsIn(q),
           \A i \in 1 .. Len(q) : q[i].current
    PROVE  IsWithout(EraseIter(q, u), q, u)
<1> DEFINE places == {i \in 1 .. Len(q) : q[i].of = u /\ q[i].current}
<1>1. Len(q) \in Nat /\ DOMAIN q = 1 .. Len(q)
  BY LenProperties
<1>2. places \in SUBSET Nat /\ places # {}
  BY <1>1 DEF ObjectsIn
<1>3. EraseIter(q, u) = RemoveAt(q, Min(places))
  BY <1>2 DEF EraseIter, RemoveFirstMatch, SelectInSeq
<1>4. Min(places) \in places
  <2> HIDE DEF places
  <2>1. QED
    BY <1>2, MinProperties
<1>5. QED
  BY <1>3, <1>4, RemoveEntry

-----------------------------------------------------------------------------
(* Types *)

LEMMA ModulusRange ==
    ASSUME UpdaterAssumption, NEW t \in Int
    PROVE  t % Modulus \in Ticks
BY DEF UpdaterAssumption, Ticks

LEMMA MinusRange ==
    ASSUME UpdaterAssumption, NEW t \in Ticks, NEW s \in Ticks
    PROVE  Minus(t, s) \in Ticks
<1>1. t - s \in Int
  BY DEF Ticks, UpdaterAssumption
<1>2. QED
  BY <1>1, ModulusRange DEF Minus

LEMMA QueueTypes ==
    ASSUME TypeOK
    PROVE  /\ inactiveQueue \in Queues
           /\ \A k \in Queues : queues[k] \in Seq(Entry)
BY DEF TypeOK, inactiveQueue, Queues

LEMMA TypeInit == UpdaterAssumption /\ Init => TypeOK
BY EmptySeq DEF UpdaterAssumption, Init, TypeOK, Ticks, Phases, Queues

LEMMA ForgetType ==
    ASSUME NEW q \in Seq(Entry), NEW u
    PROVE  Forget(q, u) \in Seq(Entry)
<1>1. Len(q) \in Nat /\ DOMAIN q = 1 .. Len(q)
  BY LenProperties
<1>2. \A i \in 1 .. Len(q) : q[i] \in Entry
  BY ElementOfSeq
<1>3. \A i \in 1 .. Len(q) : [q[i] EXCEPT !.current = @ /\ q[i].of # u] \in Entry
  BY <1>2 DEF Entry
<1>4. QED
  BY <1>1, <1>3 DEF Forget

LEMMA popFrontType ==
    ASSUME UpdaterAssumption, TypeOK, popFront, queues[activeQueue] # << >>
    PROVE  TypeOK'
<1>1. activeQueue \in Queues /\ queues[activeQueue] \in Seq(Entry)
  BY DEF TypeOK
<1>2. /\ Tail(queues[activeQueue]) \in Seq(Entry)
      /\ Head(queues[activeQueue]).of \in Updateables
  <2>1. /\ Tail(queues[activeQueue]) \in Seq(Entry)
        /\ Head(queues[activeQueue]) \in Entry
    BY <1>1, TailProperties
  <2>2. QED
    BY <2>1 DEF Entry
<1>3. queues' \in [Queues -> Seq(Entry)]
  BY <1>1, <1>2 DEF TypeOK, popFront
<1>4. /\ running' \in Updateables \cup {NoUpdateable}
      /\ queue' \in [Updateables -> Queues \cup {0}]
  BY <1>2 DEF TypeOK, popFront
<1>5. QED
  BY <1>3, <1>4 DEF TypeOK, popFront, clockVars

LEMMA TypeStep == UpdaterAssumption /\ TypeOK /\ [Next]_vars => TypeOK'
<1> SUFFICES ASSUME UpdaterAssumption, TypeOK, [Next]_vars
             PROVE  TypeOK'
  OBVIOUS
<1> USE DEF TypeOK
<1>1. ASSUME NEW u \in Updateables, NEW period \in Periods, startUpdating(u, period)
      PROVE  TypeOK'
  <2>1. toAdd' \in Seq(Updateables)
    BY <1>1, ConcatProperties DEF startUpdating
  <2>2. QED
    BY <1>1, <2>1 DEF startUpdating, UpdaterAssumption
<1>2. ASSUME NEW u \in Updateables, stopUpdating(u)
      PROVE  TypeOK'
  <2>1. CASE queue[u] # 0
    <3>1. queue[u] \in Queues /\ queues[queue[u]] \in Seq(Entry)
      BY <2>1
    <3>2. EraseIter(queues[queue[u]], u) \in Seq(Entry)
      <4> DEFINE q == queues[queue[u]]
                 places == {i \in 1 .. Len(q) : q[i].of = u /\ q[i].current}
      <4>1. CASE places = {}
        <5>1. ~ \E i \in 1 .. Len(q) : q[i].of = u /\ q[i].current
          BY <4>1
        <5>2. EraseIter(q, u) = q
          BY <5>1 DEF EraseIter, RemoveFirstMatch
        <5>3. QED
          BY <3>1, <5>2
      <4>2. CASE places # {}
        <5>1. EraseIter(q, u) = RemoveAt(q, Min(places))
          BY <4>2 DEF EraseIter, RemoveFirstMatch, SelectInSeq
        <5>2. Min(places) \in 1 .. Len(q)
          <6>1. places \in SUBSET Nat /\ places \subseteq 1 .. Len(q)
            OBVIOUS
          <6> HIDE DEF places
          <6>2. QED
            BY <4>2, <6>1, MinProperties
        <5>3. QED
          BY <3>1, <5>1, <5>2, RemoveAtProperties
      <4>3. QED
        BY <4>1, <4>2
    <3>3. queues' \in [Queues -> Seq(Entry)]
      BY <1>2, <2>1, <3>1, <3>2 DEF stopUpdating
    <3>4. QED
      BY <1>2, <2>1, <3>3 DEF stopUpdating, clockVars
  <2>2. CASE queue[u] = 0
    <3>1. RemoveFirst(toAdd, u) \in Seq(Updateables)
      <4>1. CASE \E i \in 1 .. Len(toAdd) : toAdd[i] = u
        <5>1. PICK i \in 1 .. Len(toAdd) : RemoveFirst(toAdd, u) = RemoveAt(toAdd, i)
          BY <4>1, RemoveFirstProperties
        <5>2. QED
          BY <5>1, RemoveAtProperties
      <4>2. CASE ~ \E i \in 1 .. Len(toAdd) : toAdd[i] = u
        BY <4>2 DEF RemoveFirst
      <4>3. QED
        BY <4>1, <4>2
    <3>2. toAdd' \in Seq(Updateables)
      BY <1>2, <2>2, <3>1 DEF stopUpdating
    <3>3. QED
      BY <1>2, <2>2, <3>2 DEF stopUpdating, clockVars
  <2>3. QED
    BY <2>1, <2>2
<1>3. ASSUME NEW u \in Updateables, Release(u) \/ Create(u)
      PROVE  TypeOK'
  BY <1>3 DEF Release, Create, clockVars, queueVars, objectVars
<1>4. CASE Tick
  <2>1. now' \in Ticks
    <3>1. now + 1 \in Int
      BY DEF Ticks
    <3>2. QED
      BY <1>4, <3>1, ModulusRange DEF Tick
  <2>2. age' \in [Updateables -> Nat] /\ spent' \in Nat
    BY <1>4 DEF Tick
  <2>3. QED
    BY <1>4, <2>1, <2>2 DEF Tick, queueVars, objectVars
<1>5. CASE Wake \/ update \/ AdvanceTime \/ NothingDue
  BY <1>5 DEF Wake, update, AdvanceTime, NothingDue, clockVars, queueVars,
              objectVars, Phases
<1>6. CASE addPending
  <2> DEFINE u == Head(toAdd)
             k == IF endAt(u) < lastUpdatedTimestamp
                  THEN inactiveQueue ELSE activeQueue
             node == [endAt |-> endAt(u), of |-> u, current |-> TRUE]
  <2>1. u \in Updateables /\ Tail(toAdd) \in Seq(Updateables)
    BY <1>6, TailProperties DEF addPending
  <2>2. endAt(u) \in Ticks
    <3>1. startedAt[u] + dt[u] \in Int
      BY <2>1 DEF Ticks
    <3>2. QED
      BY <3>1, ModulusRange DEF endAt
  <2>3. node \in Entry /\ k \in Queues
    BY <2>1, <2>2, QueueTypes DEF Entry
  <2>4. \A j \in Queues : Forget(queues[j], u) \in Seq(Entry)
    BY ForgetType
  <2>5. queues' \in [Queues -> Seq(Entry)]
    <3> HIDE DEF node, u, k
    <3>1. \A j \in Queues : insertPair(Forget(queues[j], u), node) \in Seq(Entry)
      BY <2>3, <2>4, InsertEntry
    <3>2. queues' = [j \in Queues |->
                       IF j = k THEN insertPair(Forget(queues[j], u), node)
                                ELSE Forget(queues[j], u)]
      BY <1>6 DEF addPending, node, u, k
    <3>3. QED
      BY <2>4, <3>1, <3>2
  <2>6. QED
    BY <1>6, <2>1, <2>3, <2>5 DEF addPending, clockVars
<1>7. CASE PopExpired \/ PopDue
  BY <1>7, popFrontType DEF PopExpired, PopDue, IsDue
<1>8. CASE SwapQueues
  BY <1>8, QueueTypes DEF SwapQueues, clockVars, objectVars, Phases
<1>9. CASE UpdateReturns
  <2>1. running \in Updateables
    BY <1>9 DEF UpdateReturns
  <2>2. Minus(now, lastUpdatedTimestamp) \in Nat
    <3>1. Minus(now, lastUpdatedTimestamp) \in Ticks
      BY MinusRange
    <3>2. QED
      BY <3>1 DEF Ticks, UpdaterAssumption
  <2>3. Append(toAdd, running) \in Seq(Updateables)
    BY <2>1, AppendProperties
  <2>4. CASE isUpdating[running]
    <3>1. /\ startedAt' = [startedAt EXCEPT ![running] = lastUpdatedTimestamp]
          /\ age' = [age EXCEPT ![running] = Minus(now, lastUpdatedTimestamp)]
          /\ pendingAddition' = [pendingAddition EXCEPT ![running] = TRUE]
          /\ toAdd' = Append(toAdd, running)
      BY <1>9, <2>4 DEF UpdateReturns
    <3>2. /\ startedAt' \in [Updateables -> Ticks]
          /\ age' \in [Updateables -> Nat]
          /\ pendingAddition' \in [Updateables -> BOOLEAN]
          /\ toAdd' \in Seq(Updateables)
      BY <2>1, <2>2, <2>3, <3>1
    <3>3. QED
      BY <1>9, <3>2 DEF UpdateReturns
  <2>5. CASE ~isUpdating[running]
    BY <1>9, <2>5 DEF UpdateReturns
  <2>6. QED
    BY <2>4, <2>5
<1>10. CASE Return
  <2>1. \A t \in Ticks : WaitFor(t) \in Nat
    <3>1. TAKE t \in Ticks
    <3>2. Minus(t, curTime) \in Ticks /\ Minus(now, curTime) \in Ticks
      BY MinusRange
    <3>3. QED
      BY <3>2 DEF WaitFor, Ticks, UpdaterAssumption
  <2>2. \A k \in Queues : queues[k] # << >> => Head(queues[k]).endAt \in Ticks
    <3>1. \A k \in Queues : queues[k] # << >> => Head(queues[k]) \in Entry
      <4>1. ASSUME NEW k \in Queues, queues[k] # << >>
            PROVE  Head(queues[k]) \in Entry
        <5>1. queues[k] \in Seq(Entry)
          BY DEF TypeOK
        <5>2. QED
          BY <4>1, <5>1, TailProperties
      <4>2. QED
        BY <4>1
    <3>2. QED
      BY <3>1 DEF Entry
  <2>3. sleep' \in Nat
    BY <1>10, <2>1, <2>2, QueueTypes DEF Return, Forever, UpdaterAssumption
  <2>4. QED
    BY <1>10, <2>3 DEF Return, queueVars, objectVars, Phases
<1>11. CASE UNCHANGED vars
  BY <1>11 DEF vars, clockVars, queueVars, objectVars
<1>12. QED
  BY <1>1, <1>2, <1>3, <1>4, <1>5, <1>6, <1>7, <1>8, <1>9, <1>10, <1>11
     DEF Next, UiCode, UpdateLoop

\* Every variable keeps its type: in particular the queues only ever hold
\* well-formed nodes, whatever UI code calls and however the clock moves.
THEOREM TypeCorrect == Spec => []TypeOK
<1>1. Init => TypeOK
  BY TypeInit, UpdaterAssumption
<1>2. TypeOK /\ [Next]_vars => TypeOK'
  BY TypeStep, UpdaterAssumption
<1>3. QED
  BY <1>1, <1>2, PTL DEF Spec

-----------------------------------------------------------------------------
(* The places that know about a subscription agree *)

\* What NodesDesignated says of one queue, in the terms of the lemmas above.
WellPlaced(q, k, designated) ==
    /\ Distinct(q)
    /\ \A i \in 1 .. Len(q) : q[i].current
    /\ \A u \in ObjectsIn(q) : designated[u] = k

LEMMA WellPlacedMeaning ==
    ASSUME NEW q \in Seq(Entry), NEW k, NEW designated
    PROVE  WellPlaced(q, k, designated) <=>
               /\ \A i \in DOMAIN q : q[i].current
               /\ \A i, j \in DOMAIN q : q[i].of = q[j].of => i = j
               /\ \A u \in ObjectsIn(q) : designated[u] = k
BY LenProperties DEF WellPlaced, Distinct

LEMMA ObjectsAreUpdateables ==
    ASSUME NEW q \in Seq(Entry)
    PROVE  ObjectsIn(q) \subseteq Updateables
<1>1. \A i \in DOMAIN q : q[i] \in Entry
  BY LenProperties, ElementOfSeq
<1>2. QED
  BY <1>1 DEF ObjectsIn, Entry

\* A queue that loses the node of u, and nothing else, stays well placed.
LEMMA WithoutIsWellPlaced ==
    ASSUME NEW q \in Seq(Entry), NEW r, NEW u, NEW k, NEW old, NEW new,
           WellPlaced(q, k, old), IsWithout(r, q, u),
           \A v \in ObjectsIn(q) \ {u} : new[v] = old[v]
    PROVE  /\ WellPlaced(r, k, new)
           /\ ObjectsIn(r) = ObjectsIn(q) \ {u}
<1>1. Distinct(r) /\ ObjectsIn(r) = ObjectsIn(q) \ {u}
  BY DEF WellPlaced, IsWithout
<1>2. \A j \in 1 .. Len(r) : r[j].current
  <2>1. TAKE j \in 1 .. Len(r)
  <2>2. PICK i \in 1 .. Len(q) : r[j] = q[i]
    BY DEF IsWithout
  <2>3. QED
    BY <2>2 DEF WellPlaced
<1>3. QED
  BY <1>1, <1>2 DEF WellPlaced

\* Forgetting an object that has no node changes nothing.
LEMMA ForgetUnqueued ==
    ASSUME NEW q \in Seq(Entry), NEW u, u \notin ObjectsIn(q)
    PROVE  Forget(q, u) = q
<1>1. \A i \in DOMAIN q : q[i] \in Entry /\ q[i].of # u
  BY LenProperties, ElementOfSeq DEF ObjectsIn
<1>2. \A i \in DOMAIN q : [q[i] EXCEPT !.current = @ /\ q[i].of # u] = q[i]
  BY <1>1 DEF Entry
<1>3. q = [i \in DOMAIN q |-> q[i]]
  BY LenProperties
<1>4. QED
  BY <1>2, <1>3 DEF Forget

LEMMA popFrontConsistent ==
    ASSUME UpdaterAssumption, TypeOK, TypeOK', ScheduleConsistent, popFront,
           queues[activeQueue] # << >>, running = NoUpdateable
    PROVE  ScheduleConsistent'
<1> DEFINE q == queues[activeQueue]
           u == Head(q).of
<1>1. /\ activeQueue \in Queues
      /\ \A k \in Queues : queues[k] \in Seq(Entry) /\ queues'[k] \in Seq(Entry)
  BY DEF TypeOK
<1>2. \A k \in Queues : WellPlaced(queues[k], k, queue)
  BY <1>1, WellPlacedMeaning DEF ScheduleConsistent, NodesDesignated
<1>3. IsWithout(Tail(q), q, u)
  BY <1>1, TailEntry
<1>4. u \in ObjectsIn(q) /\ u \in Updateables
  <2>1. Len(q) \in Nat \ {0} /\ Head(q) = q[1] /\ DOMAIN q = 1 .. Len(q)
    BY <1>1, TailProperties, LenProperties
  <2>2. u \in ObjectsIn(q)
    BY <2>1 DEF ObjectsIn
  <2>3. QED
    BY <1>1, <2>2, ObjectsAreUpdateables
<1>5. queues'[activeQueue] = Tail(q) /\ \A k \in Queues \ {activeQueue} : queues'[k] = queues[k]
  BY <1>1 DEF popFront, TypeOK
<1>6. \A v \in Updateables \ {u} : queue'[v] = queue[v]
  BY DEF popFront, TypeOK
<1>7. queue[u] = activeQueue
  BY <1>1, <1>2, <1>4 DEF WellPlaced
<1>8. /\ WellPlaced(queues'[activeQueue], activeQueue, queue')
      /\ ObjectsIn(queues'[activeQueue]) = ObjectsIn(q) \ {u}
  <2>1. q \in Seq(Entry) /\ WellPlaced(q, activeQueue, queue)
    BY <1>1, <1>2
  <2>2. \A v \in ObjectsIn(q) \ {u} : queue'[v] = queue[v]
    BY <1>6, <2>1, ObjectsAreUpdateables
  <2> HIDE DEF q, u
  <2>3. WellPlaced(Tail(q), activeQueue, queue') /\ ObjectsIn(Tail(q)) = ObjectsIn(q) \ {u}
    BY <1>3, <2>1, <2>2, WithoutIsWellPlaced
  <2>4. QED
    BY <1>5, <2>3
<1>9. \A k \in Queues : WellPlaced(queues'[k], k, queue')
  <2>1. ASSUME NEW k \in Queues \ {activeQueue}
        PROVE  WellPlaced(queues'[k], k, queue')
    <3>1. queues'[k] = queues[k] /\ WellPlaced(queues[k], k, queue)
      BY <1>2, <1>5
    <3>2. \A v \in ObjectsIn(queues[k]) : v \in Updateables /\ v # u
      BY <1>1, <1>7, <3>1, ObjectsAreUpdateables DEF WellPlaced
    <3>3. QED
      BY <1>6, <3>1, <3>2 DEF WellPlaced
  <2>2. QED
    BY <1>8, <2>1
<1>10. NodesDesignated'
  <2>1. IsInjective(toAdd)'
    BY DEF ScheduleConsistent, NodesDesignated, popFront
  <2>2. QED
    BY <1>1, <1>9, <2>1, WellPlacedMeaning DEF NodesDesignated
<1>11. ASSUME NEW v \in Updateables, Alive(v)'
       PROVE  Placed(v)'
  <2>1. Alive(v)
    BY <1>11 DEF Alive, popFront
  <2>2. Placed(v) /\ NoUpdateable \notin Updateables
    BY <2>1 DEF ScheduleConsistent, UpdaterAssumption
  <2>3. CASE v = u
    <3>1. queue'[v] = 0 /\ running' = v /\ isUpdating[v] /\ ~pendingAddition[v]
      BY <1>1, <1>4, <1>7, <2>1, <2>2, <2>3 DEF popFront, Placed, TypeOK, Queues
    <3>2. QED
      BY <2>2, <3>1 DEF Placed, popFront
  <2>4. CASE v # u
    <3>1. queue'[v] = queue[v] /\ running' # v
      BY <1>6, <2>2, <2>4 DEF popFront
    <3>2. queue[v] # 0 => v \in ObjectsIn(queues'[queue[v]])
      BY <1>5, <1>8, <2>2, <2>4 DEF Placed, TypeOK
    <3>3. QED
      BY <2>2, <3>1, <3>2 DEF Placed, popFront
  <2>5. QED
    BY <2>3, <2>4
<1>12. QED
  BY <1>10, <1>11 DEF ScheduleConsistent

LEMMA ConsistentInit == UpdaterAssumption /\ Init => ScheduleConsistent
BY DEF Init, ScheduleConsistent, NodesDesignated, Placed, IsInjective, ObjectsIn,
       ToSet, Queues, Alive

LEMMA ConsistentStep ==
    ASSUME UpdaterAssumption, RestartInCallback = FALSE,
           TypeOK, TypeOK', ScheduleConsistent, [Next]_vars
    PROVE  ScheduleConsistent'
<1>1. \A k \in Queues : queues[k] \in Seq(Entry) /\ queues'[k] \in Seq(Entry)
  BY DEF TypeOK
<1>2. /\ toAdd \in Seq(Updateables) /\ IsInjective(toAdd)
      /\ \A u \in Updateables : Alive(u) => Placed(u)
  BY DEF TypeOK, ScheduleConsistent, NodesDesignated
<1>3. \A k \in Queues : WellPlaced(queues[k], k, queue)
  BY <1>1, WellPlacedMeaning DEF ScheduleConsistent, NodesDesignated
\* It is enough to look at the queues one by one.
<1>4. (\A k \in Queues : WellPlaced(queues'[k], k, queue')) /\ IsInjective(toAdd')
      => NodesDesignated'
  BY <1>1, WellPlacedMeaning DEF NodesDesignated
<1>5. queue' = queue /\ queues' = queues => \A k \in Queues : WellPlaced(queues'[k], k, queue')
  BY <1>3
<1>6. ASSUME NEW u \in Updateables, NEW period \in Periods, startUpdating(u, period)
      PROVE  ScheduleConsistent'
  <2>1. owned[u] /\ running # u /\ ~isUpdating[u]
    BY <1>6 DEF startUpdating, Callable
  <2>2. Placed(u) /\ u \notin ToSet(toAdd)
    BY <1>2, <2>1 DEF Alive, Placed
  <2>3. ToSet(toAdd') = ToSet(toAdd) \cup {u} /\ IsInjective(toAdd')
    BY <1>2, <1>6, <2>2, ConsSet DEF startUpdating
  <2>4. NodesDesignated'
    BY <1>4, <1>5, <1>6, <2>3 DEF startUpdating
  <2>5. ASSUME NEW v \in Updateables, Alive(v)'
        PROVE  Placed(v)'
    <3>1. CASE v = u
      BY <1>6, <2>1, <2>2, <2>3, <3>1 DEF Placed, startUpdating, TypeOK
    <3>2. CASE v # u
      <4>1. Alive(v)
        BY <1>6, <2>3, <2>5, <3>2 DEF Alive, startUpdating
      <4>2. QED
        BY <1>2, <1>6, <2>3, <3>2, <4>1 DEF Placed, startUpdating, TypeOK
    <3>3. QED
      BY <3>1, <3>2
  <2>6. QED
    BY <2>4, <2>5 DEF ScheduleConsistent
<1>7. ASSUME NEW u \in Updateables, stopUpdating(u)
      PROVE  ScheduleConsistent'
  <2>1. Alive(u) /\ Placed(u)
    BY <1>2, <1>7 DEF stopUpdating, Callable, Alive
  <2>2. CASE queue[u] # 0
    <3> DEFINE k == queue[u]
    <3>1. k \in Queues /\ u \in ObjectsIn(queues[k]) /\ ~pendingAddition[u]
      BY <2>1, <2>2 DEF Placed, TypeOK
    <3>2. /\ queues'[k] = EraseIter(queues[k], u)
          /\ \A j \in Queues \ {k} : queues'[j] = queues[j]
          /\ queue' = [queue EXCEPT ![u] = 0] /\ toAdd' = toAdd
      BY <1>7, <2>2, <3>1 DEF stopUpdating, TypeOK
    <3> HIDE DEF k
    <3>3. IsWithout(queues'[k], queues[k], u)
      BY <1>1, <1>3, <3>1, <3>2, EraseEntry DEF WellPlaced
    <3>4. \A v \in Updateables \ {u} : queue'[v] = queue[v]
      BY <3>2 DEF TypeOK
    <3>5. WellPlaced(queues'[k], k, queue') /\ ObjectsIn(queues'[k]) = ObjectsIn(queues[k]) \ {u}
      <4>1. \A v \in ObjectsIn(queues[k]) \ {u} : queue'[v] = queue[v]
        BY <1>1, <3>1, <3>4, ObjectsAreUpdateables
      <4>2. queues[k] \in Seq(Entry) /\ WellPlaced(queues[k], k, queue)
        BY <1>1, <1>3, <3>1
      <4>3. QED
        BY <3>3, <4>1, <4>2, WithoutIsWellPlaced
    <3>6. ASSUME NEW j \in Queues \ {k}
          PROVE  WellPlaced(queues'[j], j, queue')
      <4>1. \A v \in ObjectsIn(queues[j]) : v \in Updateables /\ v # u
        BY <1>1, <1>3, ObjectsAreUpdateables DEF WellPlaced, k
      <4>2. QED
        BY <1>3, <3>2, <3>4, <4>1 DEF WellPlaced
    <3>7. NodesDesignated'
      BY <1>2, <1>4, <3>2, <3>5, <3>6
    <3>8. ASSUME NEW v \in Updateables, Alive(v)'
          PROVE  Placed(v)'
      <4>1. Placed(v)
        BY <1>2, <1>7, <3>2, <3>8 DEF Alive, stopUpdating
      <4>2. CASE v = u
        <5>1. queue'[v] = 0 /\ ~isUpdating'[v] /\ ~pendingAddition'[v] /\ v \notin ToSet(toAdd')
          BY <1>7, <2>2, <3>1, <3>2, <4>1, <4>2 DEF stopUpdating, TypeOK, Placed
        <5>2. QED
          BY <5>1 DEF Placed
      <4>3. CASE v # u
        <5>1. /\ queue'[v] = queue[v] /\ isUpdating'[v] = isUpdating[v]
              /\ pendingAddition'[v] = pendingAddition[v] /\ running' = running
          BY <1>7, <2>2, <3>4, <4>3 DEF stopUpdating, TypeOK
        <5>2. queue[v] # 0 => v \in ObjectsIn(queues'[queue[v]])
          BY <3>1, <3>2, <3>5, <4>1, <4>3 DEF Placed, TypeOK
        <5>3. QED
          BY <3>2, <4>1, <5>1, <5>2 DEF Placed
      <4>4. QED
        BY <4>2, <4>3
    <3>9. QED
      BY <3>7, <3>8 DEF ScheduleConsistent
  <2>3. CASE queue[u] = 0
    <3>1. /\ IsInjective(toAdd') /\ ToSet(toAdd') = ToSet(toAdd) \ {u}
          /\ pendingAddition' = [pendingAddition EXCEPT ![u] = FALSE]
          /\ queues' = queues /\ queue' = queue /\ running' = running /\ owned' = owned
          /\ isUpdating' = [isUpdating EXCEPT ![u] = FALSE]
      <4>1. CASE pendingAddition[u]
        <5>1. u \in ToSet(toAdd) /\ toAdd' = RemoveFirst(toAdd, u)
          BY <1>7, <2>1, <2>3, <4>1 DEF stopUpdating, Placed
        <5>2. IsInjective(toAdd') /\ ToSet(toAdd') = ToSet(toAdd) \ {u}
          BY <1>2, <5>1, RemoveFirstSet
        <5>3. QED
          BY <1>7, <2>3, <4>1, <5>2 DEF stopUpdating
      <4>2. CASE ~pendingAddition[u]
        <5>1. u \notin ToSet(toAdd) /\ toAdd' = toAdd
          BY <1>7, <2>1, <2>3, <4>2 DEF stopUpdating, Placed
        <5>2. QED
          BY <1>2, <1>7, <2>3, <4>2, <5>1 DEF stopUpdating
      <4>3. QED
        BY <4>1, <4>2
    <3>2. NodesDesignated'
      BY <1>4, <1>5, <3>1
    <3>3. ASSUME NEW v \in Updateables, Alive(v)'
          PROVE  Placed(v)'
      <4>1. Placed(v)
        BY <1>2, <3>1, <3>3 DEF Alive
      <4>2. QED
        BY <2>3, <3>1, <4>1 DEF Placed, TypeOK
    <3>4. QED
      BY <3>2, <3>3 DEF ScheduleConsistent
  <2>4. QED
    BY <2>2, <2>3
<1>8. ASSUME NEW u \in Updateables, Release(u)
      PROVE  ScheduleConsistent'
  <2>1. NodesDesignated'
    BY <1>2, <1>4, <1>5, <1>8 DEF Release, queueVars, objectVars
  <2>2. ASSUME NEW v \in Updateables, Alive(v)'
        PROVE  Placed(v)'
    <3>1. Alive(v)
      BY <1>8, <2>2 DEF Alive, Release, queueVars, TypeOK
    <3>2. QED
      BY <1>2, <1>8, <3>1 DEF Placed, Release, queueVars, objectVars
  <2>3. QED
    BY <2>1, <2>2 DEF ScheduleConsistent
<1>9. ASSUME NEW u \in Updateables, Create(u)
      PROVE  ScheduleConsistent'
  <2>1. \A k \in Queues : u \notin ObjectsIn(queues[k])
    BY <1>9 DEF Create, ObjectsIn
  <2>2. \A k \in Queues : WellPlaced(queues'[k], k, queue')
    <3>1. TAKE k \in Queues
    <3>2. \A v \in ObjectsIn(queues[k]) : queue'[v] = queue[v]
      BY <1>1, <1>9, <2>1, ObjectsAreUpdateables DEF Create, TypeOK
    <3>3. QED
      BY <1>3, <1>9, <3>2 DEF WellPlaced, Create, queueVars
  <2>3. NodesDesignated'
    BY <1>2, <1>4, <1>9, <2>2 DEF Create, queueVars
  <2>4. ASSUME NEW v \in Updateables, Alive(v)'
        PROVE  Placed(v)'
    <3>1. CASE v = u
      <4>1. u \notin ToSet(toAdd) /\ running # u
        BY <1>9 DEF Create, Alive
      <4>2. QED
        BY <1>9, <3>1, <4>1 DEF Placed, Create, TypeOK, queueVars
    <3>2. CASE v # u
      <4>1. Alive(v)
        BY <1>9, <2>4, <3>2 DEF Alive, Create, queueVars, TypeOK
      <4>2. QED
        BY <1>2, <1>9, <3>2, <4>1 DEF Placed, Create, queueVars, TypeOK
    <3>3. QED
      BY <3>1, <3>2
  <2>5. QED
    BY <2>3, <2>4 DEF ScheduleConsistent
<1>10. CASE addPending
  <2> DEFINE u == Head(toAdd)
             k == IF endAt(u) < lastUpdatedTimestamp
                  THEN inactiveQueue ELSE activeQueue
             node == [endAt |-> endAt(u), of |-> u, current |-> TRUE]
  <2>1. /\ u \in ToSet(toAdd) /\ u \in Updateables
        /\ ToSet(toAdd') = ToSet(toAdd) \ {u} /\ IsInjective(toAdd')
    BY <1>2, <1>10, TailSet DEF addPending
  <2>2. k \in Queues /\ 0 \notin Queues
    <3>1. activeQueue \in Queues /\ inactiveQueue \in Queues
      BY QueueTypes DEF TypeOK
    <3>2. 0 \notin Queues
      BY DEF Queues
    <3>3. QED
      BY <3>1, <3>2
  <2>3. Placed(u) /\ queue[u] = 0
    BY <1>2, <2>1 DEF Alive, Placed
  <2>4. \A j \in Queues : u \notin ObjectsIn(queues[j])
    BY <1>3, <2>2, <2>3 DEF WellPlaced
  <2>5. \A j \in Queues : Forget(queues[j], u) = queues[j]
    BY <1>1, <2>4, ForgetUnqueued
  <2>6. /\ queues'[k] = insertPair(queues[k], node)
        /\ \A j \in Queues \ {k} : queues'[j] = queues[j]
        /\ queue' = [queue EXCEPT ![u] = k]
        /\ pendingAddition' = [pendingAddition EXCEPT ![u] = FALSE]
        /\ running' = running /\ owned' = owned /\ isUpdating' = isUpdating
    BY <1>10, <2>2, <2>5 DEF addPending
  <2>7. node \in Entry
    <3>1. startedAt[u] + dt[u] \in Int
      <4> HIDE DEF u
      <4>1. startedAt[u] \in Ticks /\ dt[u] \in Nat
        BY <2>1 DEF TypeOK
      <4>2. QED
        BY <4>1 DEF Ticks, UpdaterAssumption
    <3>2. QED
      BY <2>1, <3>1, ModulusRange DEF endAt, Entry
  <2>8. node.of = u /\ node.current
    OBVIOUS
  <2> HIDE DEF u, k, node
  <2>9. queues[k] \in Seq(Entry) /\ WellPlaced(queues[k], k, queue)
    BY <1>1, <1>3, <2>2
  <2>10. /\ ObjectsIn(queues'[k]) = ObjectsIn(queues[k]) \cup {u}
         /\ Distinct(queues'[k])
         /\ \A j \in 1 .. Len(queues'[k]) :
                \/ queues'[k][j] = node
                \/ \E i \in 1 .. Len(queues[k]) : queues'[k][j] = queues[k][i]
    <3> DEFINE r == insertPair(queues[k], node)
    <3>1. /\ ObjectsIn(r) = ObjectsIn(queues[k]) \cup {node.of}
          /\ \A j \in 1 .. Len(r) :
                 r[j] = node \/ \E i \in 1 .. Len(queues[k]) : r[j] = queues[k][i]
          /\ Distinct(queues[k]) /\ node.of \notin ObjectsIn(queues[k]) => Distinct(r)
      BY <2>7, <2>9, InsertEntry
    <3> HIDE DEF r
    <3>2. queues'[k] = r
      BY <2>6 DEF r
    <3>3. QED
      BY <2>2, <2>4, <2>8, <2>9, <3>1, <3>2 DEF WellPlaced
  <2>11. WellPlaced(queues'[k], k, queue')
    <3>1. \A j \in 1 .. Len(queues'[k]) : queues'[k][j].current
      BY <2>8, <2>9, <2>10 DEF WellPlaced
    <3>2. \A v \in ObjectsIn(queues[k]) \cup {u} : queue'[v] = k
      BY <2>1, <2>6, <2>9, ObjectsAreUpdateables DEF WellPlaced, TypeOK
    <3>3. QED
      BY <2>10, <3>1, <3>2 DEF WellPlaced
  <2>12. \A j \in Queues \ {k} : WellPlaced(queues'[j], j, queue')
    <3>1. TAKE j \in Queues \ {k}
    <3>2. \A v \in ObjectsIn(queues[j]) : queue'[v] = queue[v]
      BY <1>1, <2>4, <2>6, ObjectsAreUpdateables DEF TypeOK
    <3>3. QED
      BY <1>3, <2>6, <3>2 DEF WellPlaced
  <2>13. NodesDesignated'
    BY <1>4, <2>1, <2>11, <2>12
  <2>14. ASSUME NEW v \in Updateables, Alive(v)'
         PROVE  Placed(v)'
    <3>1. Placed(v)
      BY <1>2, <2>1, <2>6, <2>14 DEF Alive
    <3>2. CASE v = u
      <4>1. pendingAddition[u] /\ isUpdating[u] /\ running # u
        BY <2>1, <2>3 DEF Placed
      <4>2. queue'[v] = k /\ ~pendingAddition'[v] /\ isUpdating'[v] /\ running' # v
        BY <2>1, <2>6, <3>2, <4>1 DEF TypeOK
      <4>3. v \in ObjectsIn(queues'[k]) /\ v \notin ToSet(toAdd')
        BY <2>1, <2>10, <3>2
      <4>4. QED
        BY <2>2, <4>2, <4>3 DEF Placed
    <3>3. CASE v # u
      <4>1. queue'[v] = queue[v] /\ pendingAddition'[v] = pendingAddition[v]
        BY <2>6, <3>3 DEF TypeOK
      <4>2. queue[v] # 0 => v \in ObjectsIn(queues'[queue[v]])
        BY <2>6, <2>10, <3>1 DEF Placed, TypeOK
      <4>3. QED
        BY <2>1, <2>6, <3>1, <3>3, <4>1, <4>2 DEF Placed
    <3>4. QED
      BY <3>2, <3>3
  <2>15. QED
    BY <2>13, <2>14 DEF ScheduleConsistent
<1>11. CASE PopExpired \/ PopDue
  BY <1>11, popFrontConsistent DEF PopExpired, PopDue, IsDue
<1>12. CASE UpdateReturns
  <2> DEFINE u == running
  <2>1. u \in Updateables /\ Placed(u)
    BY <1>2, <1>12 DEF UpdateReturns, TypeOK, Alive
  <2>2. queue[u] = 0 /\ ~pendingAddition[u] /\ u \notin ToSet(toAdd)
    BY <2>1 DEF Placed
  <2>3. CASE isUpdating[u]
    <3>1. /\ toAdd' = Append(toAdd, u)
          /\ pendingAddition' = [pendingAddition EXCEPT ![u] = TRUE]
          /\ queue' = queue /\ queues' = queues /\ running' = NoUpdateable
          /\ isUpdating' = isUpdating /\ owned' = owned
      BY <1>12, <2>3 DEF UpdateReturns
    <3>2. ToSet(toAdd') = ToSet(toAdd) \cup {u} /\ IsInjective(toAdd')
      BY <1>2, <2>1, <2>2, <3>1, AppendSet
    <3>3. NodesDesignated'
      BY <1>4, <1>5, <3>1, <3>2
    <3>4. ASSUME NEW v \in Updateables, Alive(v)'
          PROVE  Placed(v)'
      <4>1. Placed(v) /\ running' # v
        BY <1>2, <2>1, <3>1, <3>2, <3>4 DEF Alive, UpdaterAssumption
      <4>2. CASE v = u
        BY <2>2, <2>3, <3>1, <3>2, <4>1, <4>2 DEF Placed, TypeOK
      <4>3. CASE v # u
        BY <3>1, <3>2, <4>1, <4>3 DEF Placed, TypeOK
      <4>4. QED
        BY <4>2, <4>3
    <3>5. QED
      BY <3>3, <3>4 DEF ScheduleConsistent
  <2>4. CASE ~isUpdating[u]
    <3>1. /\ toAdd' = toAdd /\ pendingAddition' = pendingAddition
          /\ queue' = queue /\ queues' = queues /\ running' = NoUpdateable
          /\ isUpdating' = isUpdating /\ owned' = owned
      BY <1>12, <2>4 DEF UpdateReturns
    <3>2. NodesDesignated'
      BY <1>2, <1>4, <1>5, <3>1
    <3>3. ASSUME NEW v \in Updateables, Alive(v)'
          PROVE  Placed(v)'
      <4>1. Placed(v) /\ running' # v
        BY <1>2, <3>1, <3>3 DEF Alive, UpdaterAssumption
      <4>2. v = u => ~isUpdating[v]
        BY <2>4
      <4>3. QED
        BY <3>1, <4>1, <4>2 DEF Placed
    <3>4. QED
      BY <3>2, <3>3 DEF ScheduleConsistent
  <2>5. QED
    BY <2>3, <2>4
<1>13. CASE UNCHANGED <<queues, queue, toAdd, pendingAddition, isUpdating, owned, running>>
  <2>1. NodesDesignated'
    BY <1>2, <1>4, <1>5, <1>13
  <2>2. ASSUME NEW v \in Updateables, Alive(v)'
        PROVE  Placed(v)'
    <3>1. Placed(v)
      BY <1>2, <1>13, <2>2 DEF Alive
    <3>2. QED
      BY <1>13, <3>1 DEF Placed
  <2>3. QED
    BY <2>1, <2>2 DEF ScheduleConsistent
<1>14. CASE Tick \/ Wake \/ update \/ AdvanceTime \/ SwapQueues \/ NothingDue \/ Return \/ UNCHANGED vars
  BY <1>13, <1>14 DEF Tick, Wake, update, AdvanceTime, SwapQueues, NothingDue, Return,
                      vars, clockVars, queueVars, objectVars
<1>15. QED
  BY <1>6, <1>7, <1>8, <1>9, <1>10, <1>11, <1>12, <1>14 DEF Next, UiCode, UpdateLoop

\* As long as no update() method stops and starts its own object, the queues,
\* toAdd and the members of the objects never disagree about who is subscribed.
THEOREM ScheduleIsConsistent ==
    ASSUME RestartInCallback = FALSE
    PROVE  Spec => []ScheduleConsistent
<1>1. Init => ScheduleConsistent
  BY ConsistentInit, UpdaterAssumption
<1>2. TypeOK /\ TypeOK' /\ ScheduleConsistent /\ [Next]_vars => ScheduleConsistent'
  BY ConsistentStep, UpdaterAssumption
<1>3. QED
  BY <1>1, <1>2, TypeCorrect, PTL DEF Spec

\* As long as no update() method stops and starts its own object, update() is
\* called for subscribed objects only: none is called after stopUpdating().
THEOREM StoppedIsNotCalled ==
    ASSUME RestartInCallback = FALSE
    PROVE  Spec => NoUpdateAfterStop
<1>1. ASSUME TypeOK, ScheduleConsistent, Next, NEW u \in Updateables, Called(u)
      PROVE  isUpdating[u]
  <2>1. popFront /\ queues[activeQueue] # << >>
    BY <1>1, UpdaterAssumption DEF Called, Next, UiCode, UpdateLoop, startUpdating,
       stopUpdating, Release, Create, Tick, Wake, update, addPending, AdvanceTime,
       SwapQueues, NothingDue, UpdateReturns, Return, PopExpired, PopDue, IsDue,
       UpdaterAssumption
  <2>2. Head(queues[activeQueue]).of = u /\ Alive(u)
    BY <1>1, <2>1 DEF popFront, Called
  <2>3. activeQueue \in Queues /\ queues[activeQueue] \in Seq(Entry)
    BY <1>1 DEF TypeOK
  <2>4. u \in ObjectsIn(queues[activeQueue])
    BY <2>1, <2>2, <2>3, TailProperties, LenProperties DEF ObjectsIn
  <2>5. queue[u] # 0
    BY <1>1, <2>3, <2>4 DEF ScheduleConsistent, NodesDesignated, Queues
  <2>6. QED
    BY <1>1, <2>2, <2>5 DEF ScheduleConsistent, Placed
<1>2. TypeOK /\ ScheduleConsistent /\ [Next]_vars
      => [\A u \in Updateables : Called(u) => isUpdating[u]]_vars
  BY <1>1
<1>3. QED
  BY <1>2, TypeCorrect, ScheduleIsConsistent, PTL DEF Spec, NoUpdateAfterStop

-----------------------------------------------------------------------------
(* The order of the queues *)

QueuesInOrder == \A k \in Queues : SortedQueue(queues[k])

LEMMA QueuesInOrderMeaning == TypeOK => (QueuesInOrder <=> QueuesSorted)
BY DEF TypeOK, QueuesInOrder, QueuesSorted, SortedQueue, IsSorted

\* What update() knows of the two queues, beyond their order, at each stage.
\* Between two calls everything in the inactive queue is due after the next
\* wrap-around only; after a wrap-around the inactive queue becomes the active
\* one and an empty queue takes its place; once the due entries are gone, the
\* active queue holds later ones only.
QueuesInTime ==
    /\ phase # "expire" =>
           \A i \in DOMAIN queues[inactiveQueue] :
               queues[inactiveQueue][i].endAt < lastUpdatedTimestamp
    /\ phase \in {"expire", "fire", "addAfter"} => curTime = lastUpdatedTimestamp
    /\ phase = "addAfter" =>
           \A i \in DOMAIN queues[activeQueue] :
               queues[activeQueue][i].endAt >= curTime
    /\ phase = "addAfter" => running = NoUpdateable
    /\ running # NoUpdateable => phase \in {"expire", "fire"}

TimingInv == QueuesInOrder /\ QueuesInTime

LEMMA EntryTimes ==
    ASSUME UpdaterAssumption, NEW q \in Seq(Entry)
    PROVE  /\ DOMAIN q = 1 .. Len(q) /\ Len(q) \in Nat
           /\ \A i \in 1 .. Len(q) : q[i].endAt \in Int
<1>1. DOMAIN q = 1 .. Len(q) /\ Len(q) \in Nat
  BY LenProperties
<1>2. \A i \in 1 .. Len(q) : q[i] \in Entry
  BY ElementOfSeq
<1>3. \A d \in Entry : d.endAt \in Int
  BY DEF Entry, Ticks, UpdaterAssumption
<1>4. QED
  BY <1>1, <1>2, <1>3

\* r has no times that q has not, and is in order if q is.
IsThinned(r, q) ==
    /\ r \in Seq(Entry)
    /\ \A j \in 1 .. Len(r) : \E i \in 1 .. Len(q) : r[j].endAt = q[i].endAt
    /\ SortedQueue(q) => SortedQueue(r)

LEMMA SameIsThinned ==
    ASSUME NEW q \in Seq(Entry)
    PROVE  IsThinned(q, q)
BY DEF IsThinned

LEMMA WithoutIsThinned ==
    ASSUME NEW q, NEW r, NEW u, IsWithout(r, q, u)
    PROVE  IsThinned(r, q)
BY DEF IsWithout, IsThinned

LEMMA EraseIsThinned ==
    ASSUME NEW q \in Seq(Entry), NEW u
    PROVE  IsThinned(EraseIter(q, u), q)
<1> DEFINE places == {i \in 1 .. Len(q) : q[i].of = u /\ q[i].current}
<1>1. CASE places = {}
  <2>1. ~ \E i \in 1 .. Len(q) : q[i].of = u /\ q[i].current
    BY <1>1
  <2>2. EraseIter(q, u) = q
    BY <2>1 DEF EraseIter, RemoveFirstMatch
  <2>3. QED
    BY <2>2, SameIsThinned
<1>2. CASE places # {}
  <2>1. EraseIter(q, u) = RemoveAt(q, Min(places))
    BY <1>2 DEF EraseIter, RemoveFirstMatch, SelectInSeq
  <2>2. Min(places) \in 1 .. Len(q)
    <3>1. places \in SUBSET Nat /\ places \subseteq 1 .. Len(q)
      OBVIOUS
    <3> HIDE DEF places
    <3>2. QED
      BY <1>2, <3>1, MinProperties
  <2>3. QED
    BY <2>1, <2>2, RemoveEntry, WithoutIsThinned
<1>3. QED
  BY <1>1, <1>2

LEMMA ForgetIsThinned ==
    ASSUME NEW q \in Seq(Entry), NEW u
    PROVE  IsThinned(Forget(q, u), q)
<1>1. Len(q) \in Nat /\ DOMAIN q = 1 .. Len(q) /\ \A i \in 1 .. Len(q) : q[i] \in Entry
  BY LenProperties, ElementOfSeq
<1>2. Forget(q, u) \in Seq(Entry) /\ Len(Forget(q, u)) = Len(q)
  <2>1. DOMAIN Forget(q, u) = 1 .. Len(q) /\ Forget(q, u) \in Seq(Entry)
    BY <1>1, ForgetType DEF Forget
  <2>2. QED
    BY <1>1, <2>1, LenProperties
<1>3. \A i \in 1 .. Len(q) : Forget(q, u)[i].endAt = q[i].endAt
  BY <1>1 DEF Forget, Entry
<1>4. QED
  BY <1>2, <1>3 DEF IsThinned, SortedQueue

\* Steps that only thin the queues and leave the times alone.
LEMMA ThinnedInTime ==
    ASSUME TypeOK, TypeOK', TimingInv,
           \A k \in Queues : IsThinned(queues'[k], queues[k]),
           UNCHANGED <<phase, curTime, activeQueue, lastUpdatedTimestamp>>,
           running' # NoUpdateable => phase \in {"expire", "fire"}
    PROVE  TimingInv'
<1>1. QueuesInOrder'
  BY DEF TimingInv, QueuesInOrder, IsThinned
<1>2. \A k \in Queues : /\ DOMAIN queues[k] = 1 .. Len(queues[k])
                        /\ DOMAIN queues'[k] = 1 .. Len(queues'[k])
  BY LenProperties DEF TypeOK
<1>3. inactiveQueue \in Queues /\ activeQueue \in Queues /\ inactiveQueue' = inactiveQueue
  BY QueueTypes DEF TypeOK, inactiveQueue
<1>4. \A k \in Queues : \A j \in DOMAIN queues'[k] :
          \E i \in DOMAIN queues[k] : queues'[k][j].endAt = queues[k][i].endAt
  BY <1>2 DEF IsThinned
<1>5. phase # "expire" =>
          \A i \in DOMAIN queues'[inactiveQueue] :
              queues'[inactiveQueue][i].endAt < lastUpdatedTimestamp
  BY <1>3, <1>4 DEF TimingInv, QueuesInTime
<1>6. phase = "addAfter" =>
          \A i \in DOMAIN queues'[activeQueue] :
              queues'[activeQueue][i].endAt >= curTime
  BY <1>3, <1>4 DEF TimingInv, QueuesInTime
<1>7. QueuesInTime'
  BY <1>3, <1>5, <1>6 DEF TimingInv, QueuesInTime
<1>8. QED
  BY <1>1, <1>7 DEF TimingInv

LEMMA popFrontInTime ==
    ASSUME UpdaterAssumption, TypeOK, TypeOK', TimingInv, popFront,
           queues[activeQueue] # << >>, phase \in {"expire", "fire"}
    PROVE  TimingInv'
<1>1. activeQueue \in Queues /\ \A k \in Queues : queues[k] \in Seq(Entry)
  BY DEF TypeOK
<1>2. IsThinned(Tail(queues[activeQueue]), queues[activeQueue])
  BY <1>1, TailEntry, WithoutIsThinned
<1>3. \A k \in Queues : IsThinned(queues'[k], queues[k])
  BY <1>1, <1>2, SameIsThinned DEF popFront, TypeOK
<1>4. QED
  BY <1>3, ThinnedInTime DEF popFront

LEMMA addPendingInTime ==
    ASSUME UpdaterAssumption, TypeOK, TypeOK', TimingInv, addPending
    PROVE  TimingInv'
<1> DEFINE u == Head(toAdd)
           k == IF endAt(u) < lastUpdatedTimestamp
                THEN inactiveQueue ELSE activeQueue
           node == [endAt |-> endAt(u), of |-> u, current |-> TRUE]
<1>1. /\ activeQueue \in Queues /\ inactiveQueue \in Queues /\ k \in Queues
      /\ inactiveQueue # activeQueue /\ inactiveQueue' = inactiveQueue
      /\ activeQueue' = activeQueue
  BY QueueTypes DEF TypeOK, Queues, inactiveQueue, addPending
<1>2. \A j \in Queues : queues[j] \in Seq(Entry) /\ queues'[j] \in Seq(Entry)
  BY DEF TypeOK
<1>3. node \in Entry /\ node.endAt = endAt(u)
  <2>1. u \in Updateables
    BY TailProperties DEF TypeOK, addPending
  <2>2. endAt(u) \in Ticks
    <3> HIDE DEF u
    <3>1. startedAt[u] \in Ticks /\ dt[u] \in Nat
      BY <2>1 DEF TypeOK
    <3>2. startedAt[u] + dt[u] \in Int
      BY <3>1 DEF Ticks, UpdaterAssumption
    <3>3. QED
      BY <3>2, ModulusRange DEF endAt
  <2>3. QED
    BY <2>1, <2>2 DEF Entry
<1>4. queues' = [j \in Queues |->
                   IF j = k THEN insertPair(Forget(queues[j], u), node)
                            ELSE Forget(queues[j], u)]
  BY DEF addPending
<1>5. k = inactiveQueue => node.endAt < lastUpdatedTimestamp
  BY <1>1, <1>3
<1>6. k = activeQueue => node.endAt >= lastUpdatedTimestamp
  <2>1. endAt(u) \in Int /\ lastUpdatedTimestamp \in Int
    BY <1>3 DEF TypeOK, Entry, Ticks, UpdaterAssumption
  <2>2. QED
    BY <1>1, <1>3, <2>1
<1> HIDE DEF u, k, node
<1>7. ASSUME NEW j \in Queues
      PROVE  /\ SortedQueue(queues'[j])
             /\ \A n \in DOMAIN queues'[j] :
                    \/ j = k /\ queues'[j][n].endAt = node.endAt
                    \/ \E i \in DOMAIN queues[j] : queues'[j][n].endAt = queues[j][i].endAt
  <2> DEFINE q == Forget(queues[j], u)
  <2>1. /\ IsThinned(q, queues[j]) /\ q \in Seq(Entry)
        /\ SortedQueue(queues[j]) /\ SortedQueue(q)
    BY <1>2, ForgetIsThinned DEF IsThinned, TimingInv, QueuesInOrder
  <2>2. /\ DOMAIN queues[j] = 1 .. Len(queues[j])
        /\ DOMAIN queues'[j] = 1 .. Len(queues'[j])
    BY <1>2, LenProperties
  <2> HIDE DEF q
  <2>3. CASE j = k
    <3>1. queues'[j] = insertPair(q, node)
      BY <1>4, <2>3 DEF q
    <3>2. /\ SortedQueue(insertPair(q, node))
          /\ \A n \in 1 .. Len(insertPair(q, node)) :
                 \/ insertPair(q, node)[n] = node
                 \/ \E i \in 1 .. Len(q) : insertPair(q, node)[n] = q[i]
      BY <1>3, <2>1, InsertEntry
    <3>3. \A n \in 1 .. Len(queues'[j]) :
              \/ queues'[j][n] = node
              \/ \E i \in 1 .. Len(queues[j]) : queues'[j][n].endAt = queues[j][i].endAt
      BY <2>1, <3>1, <3>2 DEF IsThinned
    <3>4. SortedQueue(queues'[j])
      BY <3>1, <3>2
    <3>5. QED
      BY <2>2, <2>3, <3>3, <3>4
  <2>4. CASE j # k
    <3>1. queues'[j] = q
      BY <1>4, <2>4 DEF q
    <3>2. QED
      BY <2>1, <2>2, <3>1 DEF IsThinned
  <2>5. QED
    BY <2>3, <2>4
<1>8. QueuesInOrder'
  BY <1>7 DEF QueuesInOrder
<1>9. /\ phase' = phase /\ running' = running /\ curTime' = curTime
      /\ lastUpdatedTimestamp' = lastUpdatedTimestamp
      /\ phase \in {"addBefore", "addAfter"}
  BY DEF addPending
<1>10. \A n \in DOMAIN queues'[inactiveQueue] :
           queues'[inactiveQueue][n].endAt < lastUpdatedTimestamp
  <2>1. \A i \in DOMAIN queues[inactiveQueue] :
            queues[inactiveQueue][i].endAt < lastUpdatedTimestamp
    BY <1>9 DEF TimingInv, QueuesInTime
  <2>2. QED
    BY <1>1, <1>5, <1>7, <2>1
<1>11. phase = "addAfter" =>
           \A n \in DOMAIN queues'[activeQueue] :
               queues'[activeQueue][n].endAt >= curTime
  <2>1. phase = "addAfter" =>
            /\ curTime = lastUpdatedTimestamp
            /\ \A i \in DOMAIN queues[activeQueue] :
                   queues[activeQueue][i].endAt >= curTime
    BY DEF TimingInv, QueuesInTime
  <2>2. QED
    BY <1>1, <1>6, <1>7, <2>1
<1>12. QueuesInTime'
  BY <1>1, <1>9, <1>10, <1>11 DEF TimingInv, QueuesInTime
<1>13. QED
  BY <1>8, <1>12 DEF TimingInv

LEMMA TimingInit == Init => TimingInv
<1> SUFFICES ASSUME Init PROVE TimingInv
  OBVIOUS
<1>1. \A k \in Queues : queues[k] = << >>
  BY DEF Init
<1>2. inactiveQueue \in Queues /\ activeQueue \in Queues
  BY DEF Init, Queues, inactiveQueue
<1>3. QED
  BY <1>1, <1>2 DEF Init, TimingInv, QueuesInOrder, QueuesInTime, SortedQueue

LEMMA TimingStep ==
    ASSUME UpdaterAssumption, TypeOK, TypeOK', TimingInv, [Next]_vars
    PROVE  TimingInv'
<1>1. /\ activeQueue \in Queues /\ inactiveQueue \in Queues
      /\ \A k \in Queues : queues[k] \in Seq(Entry) /\ IsThinned(queues[k], queues[k])
  BY QueueTypes, SameIsThinned DEF TypeOK
<1>2. ASSUME NEW u \in Updateables,
             (\E period \in Periods : startUpdating(u, period)) \/ Release(u) \/ Create(u)
      PROVE  TimingInv'
  BY <1>1, <1>2, ThinnedInTime
     DEF startUpdating, Release, Create, queueVars, TimingInv, QueuesInTime
<1>3. ASSUME NEW u \in Updateables, stopUpdating(u)
      PROVE  TimingInv'
  <2>1. \A k \in Queues : IsThinned(EraseIter(queues[k], u), queues[k])
    BY <1>1, EraseIsThinned
  <2>2. \A k \in Queues : queues'[k] = queues[k] \/ queues'[k] = EraseIter(queues[k], u)
    BY <1>3 DEF stopUpdating, TypeOK
  <2>3. \A k \in Queues : IsThinned(queues'[k], queues[k])
    BY <1>1, <2>1, <2>2
  <2>4. QED
    BY <1>3, <2>3, ThinnedInTime DEF stopUpdating, TimingInv, QueuesInTime
<1>4. CASE Tick \/ UpdateReturns \/ UNCHANGED vars
  BY <1>1, <1>4, ThinnedInTime
     DEF Tick, UpdateReturns, vars, queueVars, TimingInv, QueuesInTime
<1>5. CASE Wake \/ update \/ Return
  BY <1>5 DEF Wake, update, Return, queueVars, TimingInv, QueuesInOrder, QueuesInTime,
              inactiveQueue
<1>6. CASE addPending
  BY <1>6, addPendingInTime
<1>7. CASE AdvanceTime
  <2>1. \A i \in DOMAIN queues[inactiveQueue] :
            /\ queues[inactiveQueue][i].endAt \in Int
            /\ queues[inactiveQueue][i].endAt < lastUpdatedTimestamp
    BY <1>1, <1>7, EntryTimes DEF AdvanceTime, TimingInv, QueuesInTime
  <2>2. curTime \in Int /\ lastUpdatedTimestamp \in Int
    BY DEF TypeOK, Ticks, UpdaterAssumption
  <2>3. ~(curTime < lastUpdatedTimestamp) =>
            \A i \in DOMAIN queues[inactiveQueue] :
                queues[inactiveQueue][i].endAt < curTime
    BY <2>1, <2>2
  <2>4. QED
    BY <1>7, <2>3 DEF AdvanceTime, TimingInv, QueuesInOrder, QueuesInTime, inactiveQueue
<1>8. CASE PopExpired \/ PopDue
  BY <1>8, popFrontInTime DEF PopExpired, PopDue, IsDue
<1>9. CASE SwapQueues
  <2>1. inactiveQueue' = activeQueue /\ queues' = queues /\ queues[activeQueue] = << >>
    BY <1>1, <1>9 DEF SwapQueues, inactiveQueue, Queues
  <2>2. QED
    BY <1>9, <2>1 DEF SwapQueues, TimingInv, QueuesInOrder, QueuesInTime
<1>10. CASE NothingDue
  <2>1. \A i \in DOMAIN queues[activeQueue] : queues[activeQueue][i].endAt >= curTime
    <3> DEFINE q == queues[activeQueue]
    <3>1. SUFFICES ASSUME NEW i \in DOMAIN q
                   PROVE  q[i].endAt >= curTime
      OBVIOUS
    <3>2. /\ q \in Seq(Entry) /\ SortedQueue(q)
          /\ DOMAIN q = 1 .. Len(q) /\ Len(q) \in Nat
          /\ \A j \in 1 .. Len(q) : q[j].endAt \in Int
      BY <1>1, EntryTimes DEF TimingInv, QueuesInOrder
    <3>3. q # << >> /\ 1 \in 1 .. Len(q)
      BY <3>1, <3>2
    <3>4. ~(Head(q).endAt <= curTime) /\ Head(q) = q[1]
      BY <1>10, <3>2, <3>3, TailProperties DEF NothingDue, IsDue
    <3>5. i = 1 \/ q[1].endAt <= q[i].endAt
      BY <3>1, <3>2, <3>3 DEF SortedQueue
    <3>6. curTime \in Int
      BY DEF TypeOK, Ticks, UpdaterAssumption
    <3>7. QED
      BY <3>1, <3>2, <3>3, <3>4, <3>5, <3>6
  <2>2. QED
    BY <1>10, <2>1 DEF NothingDue, TimingInv, QueuesInOrder, QueuesInTime, queueVars,
                       inactiveQueue
<1>11. QED
  BY <1>2, <1>3, <1>4, <1>5, <1>6, <1>7, <1>8, <1>9, <1>10 DEF Next, UiCode, UpdateLoop

LEMMA TimingInvariant == Spec => []TimingInv
<1>1. TypeOK /\ TypeOK' /\ TimingInv /\ [Next]_vars => TimingInv'
  BY TimingStep, UpdaterAssumption
<1>2. QED
  BY <1>1, TimingInit, TypeCorrect, PTL DEF Spec

\* Both queues are sorted in every state, also when update() methods restart
\* themselves.
THEOREM QueuesAreSorted == Spec => []QueuesSorted
<1>1. TypeOK /\ TimingInv => QueuesSorted
  BY QueuesInOrderMeaning DEF TimingInv
<1>2. QED
  BY <1>1, TypeCorrect, TimingInvariant, PTL

\* The assertions in update() hold whenever they are evaluated, whatever the
\* clock does: no assumption is made about how long the thread waits.
THEOREM FrontAssertionsHold == Spec => []FrontAssertions
<1>1. TypeOK /\ TimingInv => FrontAssertions
  <2> SUFFICES ASSUME TypeOK, TimingInv, phase = "addAfter"
               PROVE  /\ queues[activeQueue] # << >> =>
                             curTime <= Head(queues[activeQueue]).endAt
                      /\ queues[inactiveQueue] # << >> =>
                             curTime > Head(queues[inactiveQueue]).endAt
    BY DEF FrontAssertions
  <2>1. /\ \A i \in DOMAIN queues[inactiveQueue] :
               queues[inactiveQueue][i].endAt < curTime
        /\ \A i \in DOMAIN queues[activeQueue] :
               queues[activeQueue][i].endAt >= curTime
    BY DEF TimingInv, QueuesInTime
  <2>2. ASSUME NEW k \in Queues, queues[k] # << >>
        PROVE  Head(queues[k]) = queues[k][1] /\ 1 \in DOMAIN queues[k]
               /\ queues[k][1].endAt \in Int
    <3>1. queues[k] \in Seq(Entry)
      BY DEF TypeOK
    <3>2. QED
      BY <2>2, <3>1, TailProperties, EntryTimes, UpdaterAssumption
  <2>3. curTime \in Int /\ activeQueue \in Queues /\ inactiveQueue \in Queues
    BY QueueTypes, UpdaterAssumption DEF TypeOK, Ticks, UpdaterAssumption
  <2>4. QED
    BY <2>1, <2>2, <2>3
<1>2. QED
  BY <1>1, TypeCorrect, TimingInvariant, PTL

-----------------------------------------------------------------------------
(* Real time.  Lag and the ages of periods are what has really passed, and *)
(* so can be compared with each other, as long as neither is a full turn.  *)

Lag == Minus(now, lastUpdatedTimestamp)

\* From the last update until the time t of an entry of queue k comes round.
\* While the queue is emptied after a wrap-around its entries are overdue.
Ahead(k, t) ==
    t - lastUpdatedTimestamp
        + (IF phase = "expire"
           THEN IF k = activeQueue THEN -Modulus ELSE 0
           ELSE IF k = activeQueue THEN 0 ELSE Modulus)

\* How far the last update is behind the clock.
LagBounded(wait) ==
    /\ phase = "waiting" => /\ spent <= Allowance /\ Allowance <= wait
                            /\ Lag <= MaxBusy + spent
    /\ phase # "waiting" => spent <= MaxBusy
    /\ phase \in {"events", "addBefore"} => Lag <= MaxBusy + wait + spent
    /\ phase = "addBefore" => /\ Minus(now, curTime) <= Lag
                              /\ Minus(now, curTime) <= spent
    /\ phase \in {"expire", "fire", "addAfter"} => Lag <= spent

\* An entry is due when the period of its object is over, which is not long
\* ago when update() gets to it.
EntryTimed(k, e, longest) ==
    /\ Ahead(k, e.endAt) <= longest + Lag
    /\ Alive(e.of) =>
           /\ age[e.of] + Ahead(k, e.endAt) = dt[e.of] + Lag
           /\ phase = "waiting" =>
                  age[e.of] + Allowance <= dt[e.of] + Oversleep + spent
           /\ phase \notin {"waiting", "addAfter"} =>
                  age[e.of] <= dt[e.of] + Oversleep + spent

EntriesTimed(longest) ==
    \A k \in Queues : \A e \in ToSet(queues[k]) : EntryTimed(k, e, longest)

\* A pending object was started, or started again, in this turn of the loop.
PendingTimed ==
    /\ phase = "waiting" => toAdd = << >>
    /\ \A u \in ToSet(toAdd) :
           /\ age[u] = Minus(now, startedAt[u])
           /\ age[u] <= Lag /\ age[u] <= spent

RunningTimed ==
    running \in Updateables /\ isUpdating[running] =>
        /\ Lag <= age[running]
        /\ age[running] <= dt[running] + Oversleep + spent

PeriodsBounded(longest) == \A u \in Updateables : dt[u] <= longest

RealTime(longest, wait) ==
    /\ LagBounded(wait)
    /\ EntriesTimed(longest)
    /\ PendingTimed
    /\ RunningTimed
    /\ PeriodsBounded(longest)

-----------------------------------------------------------------------------
(* The clock's arithmetic *)

LEMMA ModulusOf ==
    ASSUME UpdaterAssumption, NEW t \in Int
    PROVE  /\ 0 <= t /\ t < Modulus => t % Modulus = t
           /\ -Modulus <= t /\ t < 0 => t % Modulus = t + Modulus
           /\ Modulus <= t /\ t < 2 * Modulus => t % Modulus = t - Modulus
<1>1. Modulus \in Nat /\ Modulus > 0
  BY DEF UpdaterAssumption
<1>2. ASSUME 0 <= t, t < Modulus
      PROVE  t % Modulus = t
  BY <1>1, <1>2
<1>3. ASSUME -Modulus <= t, t < 0
      PROVE  t % Modulus = t + Modulus
  BY <1>1, <1>3
<1>4. ASSUME Modulus <= t, t < 2 * Modulus
      PROVE  t % Modulus = t - Modulus
  BY <1>1, <1>4
<1>5. QED
  BY <1>2, <1>3, <1>4

LEMMA MinusIs ==
    ASSUME UpdaterAssumption, NEW t \in Ticks, NEW s \in Ticks
    PROVE  /\ Minus(t, s) \in Nat /\ Minus(t, s) < Modulus
           /\ Minus(t, s) = IF s <= t THEN t - s ELSE t - s + Modulus
<1>1. /\ t \in Int /\ s \in Int /\ 0 <= t /\ t < Modulus
      /\ 0 <= s /\ s < Modulus /\ Modulus \in Nat
  BY DEF Ticks, UpdaterAssumption
<1>2. Minus(t, s) = IF s <= t THEN t - s ELSE t - s + Modulus
  BY <1>1, ModulusOf DEF Minus
<1>3. QED
  BY <1>1, <1>2

\* A tick later, a difference is one more, unless the turn is full.
LEMMA MinusLater ==
    ASSUME UpdaterAssumption, NEW t \in Ticks, NEW s \in Ticks,
           Minus(t, s) + 1 < Modulus
    PROVE  /\ (t + 1) % Modulus \in Ticks
           /\ Minus((t + 1) % Modulus, s) = Minus(t, s) + 1
<1>1. /\ t \in Int /\ s \in Int /\ 0 <= t /\ t < Modulus
      /\ 0 <= s /\ s < Modulus /\ Modulus \in Nat
  BY DEF Ticks, UpdaterAssumption
<1>2. (t + 1) % Modulus = IF t + 1 < Modulus THEN t + 1 ELSE 0
  BY <1>1, ModulusOf
<1>3. (t + 1) % Modulus \in Ticks
  BY <1>1, <1>2 DEF Ticks
<1> DEFINE n == (t + 1) % Modulus
<1> HIDE DEF n
<1>4. Minus(n, s) = IF s <= n THEN n - s ELSE n - s + Modulus
  BY <1>3, MinusIs DEF n
<1>5. Minus(t, s) = IF s <= t THEN t - s ELSE t - s + Modulus
  BY MinusIs
<1>6. n = IF t + 1 < Modulus THEN t + 1 ELSE 0
  BY <1>2 DEF n
<1>7. QED
  BY <1>1, <1>3, <1>4, <1>5, <1>6 DEF n

LEMMA OversleepIs ==
    ASSUME UpdaterAssumption
    PROVE  /\ Oversleep \in Nat /\ MaxBusy <= Oversleep
           /\ MinWait <= Oversleep + 1
<1>1. MaxBusy \in Nat /\ MinWait - 1 \in Int
  BY DEF UpdaterAssumption
<1>2. \E m \in {MaxBusy, MinWait - 1} : \A n \in {MaxBusy, MinWait - 1} : m >= n
  BY <1>1
<1>3. /\ Oversleep \in {MaxBusy, MinWait - 1}
      /\ \A n \in {MaxBusy, MinWait - 1} : Oversleep >= n
  BY <1>2 DEF Oversleep, Max
<1>4. MinWait \in Nat
  BY DEF UpdaterAssumption
<1>5. QED
  BY <1>1, <1>3, <1>4

-----------------------------------------------------------------------------
(* What the proofs of all steps use *)

Consistent ==
    UpdaterAssumption /\ TypeOK /\ ScheduleConsistent /\ TimingInv

LEMMA NumbersAre ==
    ASSUME Consistent
    PROVE  /\ Modulus \in Nat /\ Modulus > 0
           /\ now \in Nat /\ now < Modulus
           /\ curTime \in Nat /\ curTime < Modulus
           /\ lastUpdatedTimestamp \in Nat /\ lastUpdatedTimestamp < Modulus
           /\ now \in Ticks /\ curTime \in Ticks /\ lastUpdatedTimestamp \in Ticks
           /\ spent \in Nat /\ sleep \in Nat /\ Allowance \in Nat
           /\ MaxBusy \in Nat /\ MinWait \in Nat /\ MaxIdle \in Nat
           /\ Oversleep \in Nat /\ MaxBusy <= Oversleep
           /\ MinWait <= Oversleep + 1
           /\ \A u \in Updateables : age[u] \in Nat /\ dt[u] \in Nat
           /\ Lag \in Nat /\ Lag < Modulus
           /\ activeQueue \in Queues /\ inactiveQueue \in Queues
           /\ Queues = {activeQueue, inactiveQueue}
           /\ activeQueue # inactiveQueue
<1> USE DEF Consistent
<1>1. Modulus \in Nat /\ Modulus > 0 /\ MaxBusy \in Nat /\ MinWait \in Nat
      /\ MaxIdle \in Nat
  BY DEF UpdaterAssumption
<1>2. now \in Ticks /\ curTime \in Ticks /\ lastUpdatedTimestamp \in Ticks
      /\ spent \in Nat /\ sleep \in Nat
  BY DEF TypeOK
<1>3. \A t \in Ticks : t \in Nat /\ t < Modulus
  BY <1>1 DEF Ticks
<1>4. \A u \in Updateables : age[u] \in Nat /\ dt[u] \in Nat
  BY DEF TypeOK
<1>5. Lag \in Nat /\ Lag < Modulus
  BY <1>2, MinusIs DEF Lag
<1>6. Allowance \in Nat
  BY <1>1, <1>2 DEF Allowance
<1>7. activeQueue \in Queues /\ inactiveQueue \in Queues
      /\ Queues = {activeQueue, inactiveQueue} /\ activeQueue # inactiveQueue
  BY DEF TypeOK, inactiveQueue, Queues
<1>8. QED
  BY <1>1, <1>2, <1>3, <1>4, <1>5, <1>6, <1>7, OversleepIs

\* Whose object is alive, an entry is of a subscribed object that is nowhere
\* else.
LEMMA EntryIs ==
    ASSUME Consistent, NEW k \in Queues, NEW e \in ToSet(queues[k])
    PROVE  /\ e \in Entry /\ e.of \in Updateables /\ e.of \in ObjectsIn(queues[k])
           /\ e.endAt \in Nat /\ e.endAt < Modulus /\ e.endAt \in Ticks
           /\ queue[e.of] = k
           /\ Alive(e.of) => /\ isUpdating[e.of] /\ e.of \notin ToSet(toAdd)
                             /\ running # e.of
<1> USE DEF Consistent
<1>1. queues[k] \in Seq(Entry) /\ DOMAIN queues[k] = 1 .. Len(queues[k])
  BY LenProperties DEF TypeOK
<1>2. PICK i \in 1 .. Len(queues[k]) : e = queues[k][i]
  BY <1>1 DEF ToSet
<1>3. e \in Entry
  BY <1>1, <1>2, ElementOfSeq
<1>4. e.of \in Updateables /\ e.endAt \in Ticks
  BY <1>3 DEF Entry
<1>5. e.endAt \in Nat /\ e.endAt < Modulus
  BY <1>4 DEF Ticks, UpdaterAssumption
<1>6. e.of \in ObjectsIn(queues[k])
  BY <1>1, <1>2 DEF ObjectsIn
<1>7. queue[e.of] = k
  BY <1>6 DEF ScheduleConsistent, NodesDesignated
<1>8. k # 0
  BY DEF Queues
<1>9. Alive(e.of) => Placed(e.of)
  BY <1>4 DEF ScheduleConsistent
<1>10. QED
  BY <1>3, <1>4, <1>5, <1>6, <1>7, <1>8, <1>9 DEF Placed

LEMMA PendingIs ==
    ASSUME Consistent, NEW u \in ToSet(toAdd)
    PROVE  /\ u \in Updateables /\ Alive(u) /\ isUpdating[u] /\ running # u
           /\ startedAt[u] \in Ticks
<1> USE DEF Consistent
<1>1. toAdd \in Seq(Updateables)
  BY DEF TypeOK
<1>2. u \in Updateables
  BY <1>1, LenProperties, ElementOfSeq DEF ToSet
<1>3. Alive(u)
  BY DEF Alive
<1>4. Placed(u)
  BY <1>2, <1>3 DEF ScheduleConsistent
<1>5. startedAt[u] \in Ticks
  BY <1>2 DEF TypeOK
<1>6. QED
  BY <1>2, <1>3, <1>4, <1>5 DEF Placed

\* Once the due entries are gone, no entry is overdue.
LEMMA NothingOverdue ==
    ASSUME Consistent, phase = "addAfter", NEW k \in Queues,
           NEW e \in ToSet(queues[k])
    PROVE  Ahead(k, e.endAt) \in Nat
<1>1. e.endAt \in Nat /\ lastUpdatedTimestamp \in Nat /\ Modulus \in Nat
      /\ lastUpdatedTimestamp < Modulus
  BY EntryIs, NumbersAre
<1>2. k = activeQueue => e.endAt >= lastUpdatedTimestamp
  BY DEF Consistent, TimingInv, QueuesInTime, ToSet
<1>3. QED
  BY <1>1, <1>2 DEF Ahead

\* No subscriber waits much longer than its period.
LEMMA AgeIs ==
    ASSUME Consistent, NEW longest \in Nat, NEW wait \in Nat,
           RealTime(longest, wait), NEW u \in Updateables,
           Alive(u), isUpdating[u]
    PROVE  /\ phase = "waiting" =>
                  age[u] + Allowance <= dt[u] + Oversleep + spent
           /\ phase # "waiting" => age[u] <= dt[u] + Oversleep + spent
<1>1. Placed(u)
  BY DEF Consistent, ScheduleConsistent
<1>2. /\ age[u] \in Nat /\ dt[u] \in Nat /\ Oversleep \in Nat /\ spent \in Nat
      /\ Lag \in Nat
  BY NumbersAre
<1>3. CASE queue[u] # 0
  <2>1. queue[u] \in Queues
    BY <1>3 DEF Consistent, TypeOK
  <2>2. u \in ObjectsIn(queues[queue[u]])
    BY <1>1, <1>3 DEF Placed
  <2>3. PICK e \in ToSet(queues[queue[u]]) : e.of = u
    BY <2>2 DEF ObjectsIn, ToSet
  <2>4. EntryTimed(queue[u], e, longest)
    BY <2>1 DEF RealTime, EntriesTimed
  <2>5. CASE phase # "addAfter"
    BY <2>3, <2>4, <2>5 DEF EntryTimed
  <2>6. CASE phase = "addAfter"
    <3>1. Ahead(queue[u], e.endAt) \in Nat
      BY <2>1, <2>6, NothingOverdue
    <3>2. age[u] + Ahead(queue[u], e.endAt) = dt[u] + Lag
      BY <2>3, <2>4 DEF EntryTimed
    <3>3. Lag <= spent
      BY <2>6 DEF RealTime, LagBounded
    <3>4. QED
      BY <1>2, <2>6, <3>1, <3>2, <3>3
  <2>7. QED
    BY <2>5, <2>6
<1>4. CASE pendingAddition[u]
  <2>1. u \in ToSet(toAdd)
    BY <1>1, <1>4 DEF Placed
  <2>2. toAdd # << >>
    BY <2>1 DEF ToSet
  <2>3. phase # "waiting" /\ age[u] <= spent
    BY <2>1, <2>2 DEF RealTime, PendingTimed
  <2>4. QED
    BY <1>2, <2>3
<1>5. CASE running = u
  <2>1. phase \in {"expire", "fire"}
    BY <1>5 DEF Consistent, TimingInv, QueuesInTime, UpdaterAssumption
  <2>2. age[u] <= dt[u] + Oversleep + spent
    BY <1>5 DEF RealTime, RunningTimed
  <2>3. QED
    BY <2>1, <2>2
<1>6. QED
  BY <1>1, <1>3, <1>4, <1>5 DEF Placed

-----------------------------------------------------------------------------
(* The clock *)

\* While the clock ticks, nothing that is measured is near a full turn.
LEMMA TickFits ==
    ASSUME Consistent, NEW longest \in Nat, NEW wait \in Nat,
           ClockIsSlow(longest, wait), RealTime(longest, wait), Tick
    PROVE  /\ Lag + 1 < Modulus
           /\ phase = "addBefore" => Minus(now, curTime) + 1 < Modulus
           /\ \A u \in ToSet(toAdd) : age[u] + 1 < Modulus
           /\ \A u \in Updateables :
                  Alive(u) /\ isUpdating[u] => age[u] < MaxAge
<1>1. /\ Modulus \in Nat /\ MaxBusy \in Nat /\ spent \in Nat /\ Lag \in Nat
      /\ Oversleep \in Nat /\ Allowance \in Nat /\ MaxAge \in Nat
  BY NumbersAre DEF Consistent, UpdaterAssumption
<1>2. /\ longest + wait + 2 * MaxBusy < Modulus
      /\ longest + Oversleep + MaxBusy <= MaxAge
  BY DEF ClockIsSlow
<1>3. spent < Allowance /\ (phase # "waiting" => spent < MaxBusy)
  BY DEF Tick, Allowance
<1>4. phase \in Phases
  BY DEF Consistent, TypeOK
<1>5. Lag + 1 < Modulus
  <2>1. LagBounded(wait)
    BY DEF RealTime
  <2>2. CASE phase = "waiting"
    BY <1>1, <1>2, <1>3, <2>1, <2>2 DEF LagBounded
  <2>3. CASE phase \in {"events", "addBefore"}
    BY <1>1, <1>2, <1>3, <2>1, <2>3 DEF LagBounded
  <2>4. CASE phase \in {"expire", "fire", "addAfter"}
    BY <1>1, <1>2, <1>3, <2>1, <2>4 DEF LagBounded
  <2>5. QED
    BY <1>4, <2>2, <2>3, <2>4 DEF Phases
<1>6. phase = "addBefore" => Minus(now, curTime) + 1 < Modulus
  <2>1. phase = "addBefore" => Minus(now, curTime) <= Lag
    BY DEF RealTime, LagBounded
  <2>2. Minus(now, curTime) \in Nat
    BY NumbersAre, MinusIs DEF Consistent
  <2>3. QED
    BY <1>1, <1>5, <2>1, <2>2
<1>7. ASSUME NEW u \in ToSet(toAdd)
      PROVE  age[u] + 1 < Modulus
  <2>1. age[u] <= Lag /\ age[u] \in Nat
    BY PendingIs, NumbersAre DEF RealTime, PendingTimed
  <2>2. QED
    BY <1>1, <1>5, <2>1
<1>8. ASSUME NEW u \in Updateables, Alive(u), isUpdating[u]
      PROVE  age[u] < MaxAge
  <2>1. /\ phase = "waiting" =>
               age[u] + Allowance <= dt[u] + Oversleep + spent
        /\ phase # "waiting" => age[u] <= dt[u] + Oversleep + spent
    BY <1>8, AgeIs
  <2>2. dt[u] <= longest
    BY DEF RealTime, PeriodsBounded
  <2>3. age[u] \in Nat /\ dt[u] \in Nat
    BY NumbersAre
  <2>4. QED
    BY <1>1, <1>2, <1>3, <2>1, <2>2, <2>3
<1>9. QED
  BY <1>5, <1>6, <1>7, <1>8

LEMMA TickTimed ==
    ASSUME Consistent, NEW longest \in Nat, NEW wait \in Nat,
           ClockIsSlow(longest, wait), RealTime(longest, wait), Tick
    PROVE  RealTime(longest, wait)'
<1>1. /\ Modulus \in Nat /\ MaxBusy \in Nat /\ spent \in Nat /\ Lag \in Nat
      /\ Oversleep \in Nat /\ Allowance \in Nat /\ MaxAge \in Nat
      /\ \A u \in Updateables : age[u] \in Nat /\ dt[u] \in Nat
  BY NumbersAre DEF Consistent, UpdaterAssumption
<1>2. /\ spent' = spent + 1 /\ now' = (now + 1) % Modulus
      /\ UNCHANGED <<phase, running, curTime, queueVars, objectVars, owned, sleep>>
      /\ spent < Allowance /\ (phase # "waiting" => spent < MaxBusy)
  BY DEF Tick, Allowance
<1>3. Lag' = Lag + 1
  BY <1>2, NumbersAre, MinusLater, TickFits DEF Lag, Consistent, queueVars, Minus
<1>4. \A u \in Updateables : Alive(u) /\ isUpdating[u] => age'[u] = age[u] + 1
  BY TickFits DEF Tick
<1>5. Allowance' = Allowance /\ \A u : Alive(u)' = Alive(u)
  BY <1>2 DEF Allowance, Alive, queueVars
<1>6. LagBounded(wait)'
  <2>1. phase = "addBefore" => Minus(now', curTime) = Minus(now, curTime) + 1
    BY <1>2, NumbersAre, MinusLater, TickFits DEF Consistent
  <2>2. Minus(now, curTime)' = Minus(now', curTime)
    BY <1>2 DEF Minus
  <2>3. Minus(now, curTime) \in Nat
    BY NumbersAre, MinusIs DEF Consistent
  <2>4. QED
    BY <1>1, <1>2, <1>3, <1>5, <2>1, <2>2, <2>3 DEF RealTime, LagBounded
<1>7. ASSUME NEW k \in Queues, NEW e \in ToSet(queues[k])
      PROVE  EntryTimed(k, e, longest)'
  <2>1. EntryTimed(k, e, longest)
    BY DEF RealTime, EntriesTimed
  <2>2. Ahead(k, e.endAt)' = Ahead(k, e.endAt) /\ Ahead(k, e.endAt) \in Int
    BY <1>2, EntryIs, NumbersAre DEF Ahead, queueVars
  <2>3. e.of \in Updateables /\ (Alive(e.of) => isUpdating[e.of])
    BY EntryIs
  <2>4. dt' = dt /\ phase' = phase /\ (Alive(e.of) => age'[e.of] = age[e.of] + 1)
    BY <1>2, <1>4, <2>3 DEF objectVars
  <2>5. QED
    BY <1>1, <1>2, <1>3, <1>5, <2>1, <2>2, <2>3, <2>4 DEF EntryTimed
<1>8. EntriesTimed(longest)'
  BY <1>2, <1>7 DEF EntriesTimed, queueVars
<1>9. PendingTimed'
  <2>1. ASSUME NEW u \in ToSet(toAdd)
        PROVE  /\ age'[u] = Minus(now', startedAt[u])
               /\ age'[u] <= Lag' /\ age'[u] <= spent'
    <3>1. age[u] = Minus(now, startedAt[u]) /\ age[u] <= Lag /\ age[u] <= spent
      BY DEF RealTime, PendingTimed
    <3>2. u \in Updateables /\ age'[u] = age[u] + 1 /\ startedAt[u] \in Ticks
      BY <1>4, PendingIs
    <3>3. Minus(now', startedAt[u]) = Minus(now, startedAt[u]) + 1
      BY <1>2, <3>1, <3>2, NumbersAre, MinusLater, TickFits DEF Consistent
    <3>4. QED
      BY <1>1, <1>2, <1>3, <3>1, <3>2, <3>3
  <2>3. toAdd' = toAdd /\ startedAt' = startedAt /\ phase' = phase
    BY <1>2 DEF queueVars, objectVars
  <2>4. QED
    BY <2>1, <2>3 DEF RealTime, PendingTimed, Minus
<1>10. RunningTimed'
  <2>1. running \in Updateables => Alive(running)
    BY DEF Alive
  <2>2. running' = running /\ isUpdating' = isUpdating /\ dt' = dt
    BY <1>2 DEF objectVars
  <2>3. QED
    BY <1>1, <1>2, <1>3, <1>4, <2>1, <2>2 DEF RealTime, RunningTimed
<1>11. PeriodsBounded(longest)'
  BY <1>2 DEF RealTime, PeriodsBounded, objectVars
<1>12. QED
  BY <1>6, <1>8, <1>9, <1>10, <1>11 DEF RealTime

-----------------------------------------------------------------------------
(* UI code *)

\* Entries that are removed, or whose object dies, are no trouble.
LEMMA FewerEntriesTimed ==
    ASSUME Consistent, NEW longest, EntriesTimed(longest),
           UNCHANGED <<now, spent, phase, lastUpdatedTimestamp, activeQueue, sleep>>,
           \A k \in Queues : ToSet(queues'[k]) \subseteq ToSet(queues[k]),
           \A k \in Queues : \A e \in ToSet(queues'[k]) :
               /\ age'[e.of] = age[e.of] /\ dt'[e.of] = dt[e.of]
               /\ Alive(e.of)' => Alive(e.of)
    PROVE  EntriesTimed(longest)'
<1>1. SUFFICES ASSUME NEW k \in Queues, NEW e \in ToSet(queues'[k])
               PROVE  EntryTimed(k, e, longest)'
  BY DEF EntriesTimed
<1>2. EntryTimed(k, e, longest)
  BY DEF EntriesTimed
<1>3. /\ age'[e.of] = age[e.of] /\ dt'[e.of] = dt[e.of]
      /\ Alive(e.of)' => Alive(e.of)
  BY <1>1
<1>4. Lag' = Lag /\ Ahead(k, e.endAt)' = Ahead(k, e.endAt) /\ Allowance' = Allowance
  BY DEF Lag, Minus, Ahead, Allowance
<1>5. QED
  BY <1>2, <1>3, <1>4 DEF EntryTimed

LEMMA SameLag ==
    ASSUME NEW wait, LagBounded(wait),
           UNCHANGED <<now, spent, phase, curTime, lastUpdatedTimestamp, sleep>>
    PROVE  LagBounded(wait)' /\ Lag' = Lag
BY DEF LagBounded, Lag, Minus, Allowance

LEMMA startUpdatingTimed ==
    ASSUME Consistent, RestartInCallback = FALSE, NEW longest, NEW wait,
           ClockIsSlow(longest, wait), RealTime(longest, wait),
           NEW u \in Updateables, NEW period \in Periods, startUpdating(u, period)
    PROVE  RealTime(longest, wait)'
<1>1. /\ owned[u] /\ Alive(u) /\ ~isUpdating[u] /\ running # u /\ UiCodeRuns
      /\ UNCHANGED <<now, spent, phase, curTime, lastUpdatedTimestamp, sleep,
                     running, queues, activeQueue, owned>>
  BY DEF startUpdating, Callable, Alive
<1>2. /\ ToSet(toAdd') = ToSet(toAdd) \cup {u} /\ u \notin ToSet(toAdd)
      /\ age' = [age EXCEPT ![u] = 0] /\ startedAt' = [startedAt EXCEPT ![u] = now]
      /\ dt' = [dt EXCEPT ![u] = period] /\ isUpdating' = [isUpdating EXCEPT ![u] = TRUE]
  BY <1>1, PendingIs, ConsSet DEF startUpdating, Consistent, TypeOK
<1>3. LagBounded(wait)' /\ Lag' = Lag
  BY <1>1, SameLag DEF RealTime
<1>4. EntriesTimed(longest)'
  <2>1. \A k \in Queues : \A e \in ToSet(queues[k]) : e.of \in Updateables /\ e.of # u
    BY <1>1, EntryIs
  <2>2. \A k \in Queues : \A e \in ToSet(queues'[k]) :
            /\ age'[e.of] = age[e.of] /\ dt'[e.of] = dt[e.of]
            /\ Alive(e.of)' => Alive(e.of)
    BY <1>1, <1>2, <2>1 DEF Alive, Consistent, TypeOK
  <2>3. QED
    BY <1>1, <2>2, FewerEntriesTimed DEF RealTime
<1>5. PendingTimed'
  <2>1. phase # "waiting"
    BY <1>1 DEF UiCodeRuns, Consistent, TimingInv, QueuesInTime
  <2>2. ASSUME NEW v \in ToSet(toAdd) \cup {u}
        PROVE  /\ age'[v] = Minus(now, startedAt'[v])
               /\ age'[v] <= Lag /\ age'[v] <= spent
    <3>1. CASE v = u
      <4>1. age'[v] = 0 /\ startedAt'[v] = now
        BY <1>2, <3>1 DEF Consistent, TypeOK
      <4>2. Minus(now, now) = 0 /\ Lag \in Nat /\ spent \in Nat
        BY NumbersAre, MinusIs DEF Consistent
      <4>3. QED
        BY <4>1, <4>2
    <3>2. CASE v # u
      <4>1. v \in ToSet(toAdd) /\ v \in Updateables
        BY <3>2, PendingIs
      <4>2. age'[v] = age[v] /\ startedAt'[v] = startedAt[v]
        BY <1>2, <3>2, <4>1 DEF Consistent, TypeOK
      <4>3. QED
        BY <4>1, <4>2 DEF RealTime, PendingTimed
    <3>3. QED
      BY <3>1, <3>2
  <2>3. QED
    BY <1>1, <1>2, <1>3, <2>1, <2>2 DEF PendingTimed, Minus
<1>6. RunningTimed'
  BY <1>1, <1>2, <1>3 DEF RealTime, RunningTimed, Consistent, TypeOK
<1>7. PeriodsBounded(longest)'
  BY <1>2 DEF RealTime, PeriodsBounded, ClockIsSlow, Consistent, TypeOK
<1>8. QED
  BY <1>3, <1>4, <1>5, <1>6, <1>7 DEF RealTime

\* Erasing never adds an entry.
LEMMA EraseSubset ==
    ASSUME Consistent, NEW u, stopUpdating(u), NEW k \in Queues
    PROVE  ToSet(queues'[k]) \subseteq ToSet(queues[k])
<1>1. queues[k] \in Seq(Entry)
  BY DEF Consistent, TypeOK
<1>2. queues'[k] = queues[k] \/ queues'[k] = EraseIter(queues[k], u)
  BY DEF stopUpdating, Consistent, TypeOK
<1>3. CASE queues'[k] = EraseIter(queues[k], u)
  <2> DEFINE q == queues[k]
             places == {i \in 1 .. Len(q) : q[i].of = u /\ q[i].current}
  <2>1. CASE places = {}
    <3>1. ~ \E i \in 1 .. Len(q) : q[i].of = u /\ q[i].current
      BY <2>1
    <3>2. EraseIter(q, u) = q
      BY <3>1 DEF EraseIter, RemoveFirstMatch
    <3>3. QED
      BY <1>3, <3>2
  <2>2. CASE places # {}
    <3>1. EraseIter(q, u) = RemoveAt(q, Min(places))
      BY <2>2 DEF EraseIter, RemoveFirstMatch, SelectInSeq
    <3>2. Min(places) \in 1 .. Len(q)
      <4>1. places \in SUBSET Nat /\ places \subseteq 1 .. Len(q)
        OBVIOUS
      <4> HIDE DEF places
      <4>2. QED
        BY <2>2, <4>1, MinProperties
    <3>3. IsWithout(queues'[k], q, q[Min(places)].of)
      BY <1>1, <1>3, <3>1, <3>2, RemoveEntry
    <3>4. QED
      BY <1>1, <3>3, LenProperties DEF IsWithout, ToSet
  <2>3. QED
    BY <2>1, <2>2
<1>4. QED
  BY <1>2, <1>3

LEMMA OtherUiCodeTimed ==
    ASSUME Consistent, NEW longest, NEW wait, RealTime(longest, wait),
           NEW u \in Updateables, stopUpdating(u) \/ Release(u) \/ Create(u)
    PROVE  RealTime(longest, wait)'
<1>1. UNCHANGED <<now, spent, phase, curTime, lastUpdatedTimestamp, sleep,
                  running, activeQueue, age, dt, startedAt>>
  BY DEF stopUpdating, Release, Create, clockVars, queueVars, objectVars
<1>2. ToSet(toAdd') \subseteq ToSet(toAdd) /\ (toAdd = << >> => toAdd' = << >>)
  <2>1. CASE stopUpdating(u)
    <3>1. Alive(u)
      BY <2>1 DEF stopUpdating, Callable, Alive
    <3>2. pendingAddition[u] => u \in ToSet(toAdd)
      BY <3>1 DEF Consistent, ScheduleConsistent, Placed
    <3>3. toAdd' = toAdd \/ (u \in ToSet(toAdd) /\ toAdd' = RemoveFirst(toAdd, u))
      BY <2>1, <3>2 DEF stopUpdating
    <3>4. toAdd \in Seq(Updateables) /\ IsInjective(toAdd)
      BY DEF Consistent, TypeOK, ScheduleConsistent, NodesDesignated
    <3>5. u \in ToSet(toAdd) => ToSet(RemoveFirst(toAdd, u)) = ToSet(toAdd) \ {u}
      BY <3>4, RemoveFirstSet
    <3>6. u \in ToSet(toAdd) => toAdd # << >>
      BY DEF ToSet
    <3>7. QED
      BY <3>3, <3>5, <3>6
  <2>2. QED
    BY <2>1 DEF Release, Create, queueVars
<1>3. LagBounded(wait)' /\ Lag' = Lag
  BY <1>1, SameLag DEF RealTime
<1>4. EntriesTimed(longest)'
  <2>1. \A k \in Queues : ToSet(queues'[k]) \subseteq ToSet(queues[k])
    BY EraseSubset DEF Release, Create, queueVars
  <2>2. \A k \in Queues : \A e \in ToSet(queues'[k]) : Alive(e.of)' => Alive(e.of)
    <3>1. CASE stopUpdating(u) \/ Release(u)
      <4>1. \A v \in Updateables : owned'[v] => owned[v]
        BY <3>1 DEF stopUpdating, Release, Consistent, TypeOK
      <4>2. \A k \in Queues : \A e \in ToSet(queues'[k]) : e.of \in Updateables
        BY <2>1, EntryIs
      <4>3. QED
        BY <1>1, <1>2, <4>1, <4>2 DEF Alive
    <3>2. CASE Create(u)
      <4>1. \A k \in Queues : \A e \in ToSet(queues'[k]) : e.of # u
        BY <3>2 DEF Create, queueVars, ToSet
      <4>2. QED
        BY <1>1, <1>2, <3>2, <4>1 DEF Alive, Create, Consistent, TypeOK
    <3>3. QED
      BY <3>1, <3>2
  <2>3. QED
    BY <1>1, <2>1, <2>2, FewerEntriesTimed DEF RealTime
<1>5. PendingTimed'
  BY <1>1, <1>2, <1>3 DEF RealTime, PendingTimed, Minus
<1>6. RunningTimed'
  <2>1. running \in Updateables /\ isUpdating'[running] => isUpdating[running]
    BY DEF stopUpdating, Release, Create, objectVars, Alive, Consistent, TypeOK
  <2>2. QED
    BY <1>1, <1>3, <2>1 DEF RealTime, RunningTimed
<1>7. PeriodsBounded(longest)'
  BY <1>1 DEF RealTime, PeriodsBounded
<1>8. QED
  BY <1>3, <1>4, <1>5, <1>6, <1>7 DEF RealTime

-----------------------------------------------------------------------------
(* The main loop: steps that touch neither a queue nor the clock *)

LEMMA SameAhead ==
    ASSUME UNCHANGED <<lastUpdatedTimestamp, activeQueue>>,
           (phase = "expire") = (phase' = "expire")
    PROVE  \A k, t : Ahead(k, t)' = Ahead(k, t)
BY DEF Ahead

LEMMA WakeTimed ==
    ASSUME Consistent, NEW longest, NEW wait \in Nat, RealTime(longest, wait), Wake
    PROVE  RealTime(longest, wait)'
<1>1. /\ phase = "waiting" /\ phase' = "events" /\ spent' = 0
      /\ UNCHANGED <<now, lastUpdatedTimestamp, queues, activeQueue, toAdd, age, dt,
                     startedAt, isUpdating, owned, running>>
  BY DEF Wake, queueVars, objectVars
<1>2. /\ spent \in Nat /\ Allowance \in Nat /\ MaxBusy \in Nat /\ Lag \in Nat
      /\ Oversleep \in Nat
  BY NumbersAre
<1>3. /\ spent <= Allowance /\ Allowance <= wait /\ Lag <= MaxBusy + spent
      /\ toAdd = << >> /\ running \notin Updateables
  BY <1>1 DEF RealTime, LagBounded, PendingTimed, Consistent, TimingInv, QueuesInTime,
              UpdaterAssumption
<1>4. Lag' = Lag
  BY <1>1 DEF Lag, Minus
<1>5. LagBounded(wait)'
  BY <1>1, <1>2, <1>3, <1>4 DEF LagBounded
<1>6. ASSUME NEW k \in Queues, NEW e \in ToSet(queues[k])
      PROVE  EntryTimed(k, e, longest)'
  <2>1. EntryTimed(k, e, longest)
    BY DEF RealTime, EntriesTimed
  <2>2. Ahead(k, e.endAt)' = Ahead(k, e.endAt) /\ Alive(e.of)' = Alive(e.of)
    BY <1>1, SameAhead DEF Alive
  <2>3. age[e.of] \in Nat /\ dt[e.of] \in Nat
    BY EntryIs, NumbersAre
  <2>4. Alive(e.of) => age[e.of] <= dt[e.of] + Oversleep
    BY <1>1, <1>2, <1>3, <2>1, <2>3 DEF EntryTimed
  <2>5. QED
    BY <1>1, <1>2, <1>4, <2>1, <2>2, <2>3, <2>4 DEF EntryTimed
<1>7. QED
  BY <1>1, <1>3, <1>5, <1>6 DEF RealTime, EntriesTimed, PendingTimed, RunningTimed,
                               PeriodsBounded, ToSet

LEMMA PhaseTimed ==
    ASSUME Consistent, NEW longest, NEW wait \in Nat, RealTime(longest, wait),
           update \/ NothingDue
    PROVE  RealTime(longest, wait)'
<1>1. /\ UNCHANGED <<now, lastUpdatedTimestamp, queues, activeQueue, toAdd, age, dt,
                     startedAt, isUpdating, owned, running, spent, sleep>>
      /\ phase # "expire" /\ phase' # "expire" /\ phase # "waiting" /\ phase' # "waiting"
      /\ phase # "addAfter"
  BY DEF update, NothingDue, clockVars, queueVars, objectVars
<1>2. Lag' = Lag /\ Lag \in Nat /\ spent \in Nat
  BY <1>1, NumbersAre DEF Lag, Minus
<1>3. LagBounded(wait)'
  <2>1. CASE update
    <3>1. /\ phase = "events" /\ phase' = "addBefore" /\ Minus(now, curTime)' = 0
      BY <2>1, NumbersAre, MinusIs DEF update, Consistent, clockVars, Minus
    <3>2. QED
      BY <1>1, <1>2, <3>1 DEF RealTime, LagBounded
  <2>2. CASE NothingDue
    <3>1. phase = "fire" /\ phase' = "addAfter"
      BY <2>2 DEF NothingDue
    <3>2. QED
      BY <1>1, <1>2, <3>1 DEF RealTime, LagBounded
  <2>3. QED
    BY <2>1, <2>2
<1>4. ASSUME NEW k \in Queues, NEW e \in ToSet(queues[k])
      PROVE  EntryTimed(k, e, longest)'
  <2>1. EntryTimed(k, e, longest)
    BY DEF RealTime, EntriesTimed
  <2>2. Ahead(k, e.endAt)' = Ahead(k, e.endAt) /\ Alive(e.of)' = Alive(e.of)
    BY <1>1, SameAhead DEF Alive
  <2>3. QED
    BY <1>1, <1>2, <2>1, <2>2 DEF EntryTimed
<1>5. PendingTimed'
  BY <1>1, <1>2 DEF RealTime, PendingTimed, Minus
<1>6. RunningTimed'
  BY <1>1, <1>2 DEF RealTime, RunningTimed
<1>7. QED
  BY <1>1, <1>3, <1>4, <1>5, <1>6 DEF RealTime, EntriesTimed, PeriodsBounded

-----------------------------------------------------------------------------
(* addPending() puts an object where its time is that far ahead *)

LEMMA EndIsAhead ==
    ASSUME UpdaterAssumption, NEW t \in Ticks, NEW l \in Ticks, NEW s \in Ticks,
           NEW d \in Nat, Minus(t, s) <= Minus(t, l),
           d + Minus(t, l) - Minus(t, s) < Modulus
    PROVE  LET ahead == d + Minus(t, l) - Minus(t, s) IN
           /\ (s + d) % Modulus \in Ticks
           /\ (s + d) % Modulus = IF (s + d) % Modulus < l
                                  THEN l + ahead - Modulus ELSE l + ahead
<1> DEFINE D == d + Minus(t, l) - Minus(t, s)
<1>1. /\ t \in Int /\ s \in Int /\ 0 <= t /\ t < Modulus
      /\ 0 <= s /\ s < Modulus /\ Modulus \in Nat
      /\ l \in Int /\ 0 <= l /\ l < Modulus
  BY DEF Ticks, UpdaterAssumption
<1>2. /\ Minus(t, s) \in Nat /\ Minus(t, l) \in Nat
      /\ Minus(t, s) = IF s <= t THEN t - s ELSE t - s + Modulus
      /\ Minus(t, l) = IF l <= t THEN t - l ELSE t - l + Modulus
  BY MinusIs
<1>3. s + d = l + D \/ s + d = l + D - Modulus
  BY <1>1, <1>2
<1>4. D \in Nat /\ D < Modulus /\ s + d \in Nat
  BY <1>1, <1>2
<1> HIDE DEF D
<1>5. CASE l + D < Modulus
  <2>1. s + d = l + D
    BY <1>1, <1>3, <1>4, <1>5
  <2>2. (s + d) % Modulus = l + D
    BY <1>1, <1>4, <1>5, <2>1, ModulusOf
  <2>3. QED
    BY <1>1, <1>4, <1>5, <2>2 DEF D, Ticks
<1>6. CASE l + D >= Modulus
  <2>1. (s + d) % Modulus = l + D - Modulus
    <3>1. CASE s + d = l + D
      BY <1>1, <1>4, <1>6, <3>1, ModulusOf
    <3>2. CASE s + d = l + D - Modulus
      BY <1>1, <1>4, <1>6, <3>2, ModulusOf
    <3>3. QED
      BY <1>3, <3>1, <3>2
  <2>2. QED
    BY <1>1, <1>4, <1>6, <2>1 DEF D, Ticks
<1>7. QED
  BY <1>1, <1>4, <1>5, <1>6

LEMMA addPendingAdds ==
    ASSUME Consistent, addPending
    PROVE  \E u \in ToSet(toAdd) :
               LET k == IF endAt(u) < lastUpdatedTimestamp
                        THEN inactiveQueue ELSE activeQueue
               IN /\ ToSet(toAdd') = ToSet(toAdd) \ {u}
                  /\ \A j \in Queues : \A e \in ToSet(queues'[j]) :
                         \/ e \in ToSet(queues[j])
                         \/ j = k /\ e.of = u /\ e.endAt = endAt(u)
<1> DEFINE u == Head(toAdd)
           k == IF endAt(u) < lastUpdatedTimestamp
                THEN inactiveQueue ELSE activeQueue
           node == [endAt |-> endAt(u), of |-> u, current |-> TRUE]
<1>1. u \in ToSet(toAdd) /\ ToSet(toAdd') = ToSet(toAdd) \ {u}
  BY TailSet DEF addPending, Consistent, TypeOK, ScheduleConsistent, NodesDesignated
<1>2. u \in Updateables /\ startedAt[u] \in Ticks /\ Alive(u) /\ pendingAddition[u]
  <2>1. u \in Updateables /\ startedAt[u] \in Ticks /\ Alive(u)
    BY <1>1, PendingIs
  <2>2. QED
    BY <1>1, <2>1 DEF Consistent, ScheduleConsistent, Placed
<1>3. endAt(u) \in Ticks
  <2>1. startedAt[u] + dt[u] \in Int
    BY <1>2, NumbersAre DEF Ticks, Consistent, UpdaterAssumption
  <2>2. QED
    BY <2>1, ModulusRange DEF endAt, Consistent
<1>4. node \in Entry /\ node.of = u /\ node.endAt = endAt(u) /\ k \in Queues
  BY <1>2, <1>3, NumbersAre DEF Entry
<1>5. \A j \in Queues : /\ queues[j] \in Seq(Entry)
                        /\ Forget(queues[j], u) = queues[j]
  <2>1. TAKE j \in Queues
  <2>2. queues[j] \in Seq(Entry)
    BY DEF Consistent, TypeOK
  <2>3. u \notin ObjectsIn(queues[j])
    <3>1. queue[u] = 0 /\ j # 0
      BY <1>2 DEF Consistent, ScheduleConsistent, Placed, Queues
    <3>2. QED
      BY <3>1 DEF Consistent, ScheduleConsistent, NodesDesignated
  <2>4. QED
    BY <2>2, <2>3, ForgetUnqueued
<1>6. queues' = [j \in Queues |->
                   IF j = k THEN insertPair(Forget(queues[j], u), node)
                            ELSE Forget(queues[j], u)]
  BY DEF addPending
<1> HIDE DEF u, k, node
<1>7. ASSUME NEW j \in Queues, NEW e \in ToSet(queues'[j])
      PROVE  e \in ToSet(queues[j]) \/ (j = k /\ e = node)
  <2>1. CASE j # k
    BY <1>5, <1>6, <1>7, <2>1
  <2>2. CASE j = k
    <3>1. queues'[j] = insertPair(queues[j], node)
      BY <1>5, <1>6, <2>2
    <3> DEFINE q == queues[j]
               r == insertPair(q, node)
    <3>2. q \in Seq(Entry)
      BY <1>5
    <3> HIDE DEF q
    <3>3. /\ r \in Seq(Entry)
          /\ \A i \in 1 .. Len(r) : r[i] = node \/ \E h \in 1 .. Len(q) : r[i] = q[h]
      BY <1>4, <3>2, InsertEntry DEF Consistent
    <3> HIDE DEF r
    <3>4. ToSet(r) = {r[i] : i \in 1 .. Len(r)} /\ ToSet(q) = {q[i] : i \in 1 .. Len(q)}
      BY <3>2, <3>3, LenProperties DEF ToSet
    <3>5. e \in ToSet(r)
      BY <1>7, <3>1 DEF r, q
    <3>6. e \in ToSet(q) \/ e = node
      BY <3>3, <3>4, <3>5
    <3>7. QED
      BY <2>2, <3>6 DEF q
  <2>3. QED
    BY <2>1, <2>2
<1>8. QED
  BY <1>1, <1>4, <1>7 DEF k

LEMMA addPendingTimed ==
    ASSUME Consistent, NEW longest \in Nat, NEW wait \in Nat,
           ClockIsSlow(longest, wait), RealTime(longest, wait), addPending
    PROVE  RealTime(longest, wait)'
<1>1. /\ UNCHANGED <<now, lastUpdatedTimestamp, curTime, activeQueue, age, dt, phase,
                     startedAt, isUpdating, owned, running, spent, sleep>>
      /\ phase \in {"addBefore", "addAfter"}
  BY DEF addPending, clockVars
<1>2. PICK u \in ToSet(toAdd) :
          /\ ToSet(toAdd') = ToSet(toAdd) \ {u}
          /\ \A j \in Queues : \A e \in ToSet(queues'[j]) :
                 \/ e \in ToSet(queues[j])
                 \/ /\ j = IF endAt(u) < lastUpdatedTimestamp
                           THEN inactiveQueue ELSE activeQueue
                    /\ e.of = u /\ e.endAt = endAt(u)
  BY addPendingAdds
<1>3. LagBounded(wait)' /\ Lag' = Lag
  BY <1>1, SameLag DEF RealTime
<1>4. \A v : Alive(v)' => Alive(v)
  BY <1>1, <1>2 DEF Alive
<1>5. \A k \in Queues : \A t : Ahead(k, t)' = Ahead(k, t)
  BY <1>1, SameAhead
<1>6. ASSUME NEW k \in Queues, NEW e \in ToSet(queues'[k]), e \in ToSet(queues[k])
      PROVE  EntryTimed(k, e, longest)'
  <2>1. EntryTimed(k, e, longest)
    BY <1>6 DEF RealTime, EntriesTimed
  <2>2. QED
    BY <1>1, <1>3, <1>4, <1>5, <2>1 DEF EntryTimed
<1>7. ASSUME NEW k \in Queues, NEW e \in ToSet(queues'[k]), e.of = u, e.endAt = endAt(u),
             k = IF endAt(u) < lastUpdatedTimestamp THEN inactiveQueue ELSE activeQueue
      PROVE  EntryTimed(k, e, longest)'
  <2>1. /\ u \in Updateables /\ startedAt[u] \in Ticks /\ age[u] \in Nat /\ dt[u] \in Nat
        /\ Lag \in Nat /\ spent \in Nat /\ Oversleep \in Nat /\ MaxBusy \in Nat
        /\ Modulus \in Nat /\ now \in Ticks /\ lastUpdatedTimestamp \in Ticks
        /\ activeQueue # inactiveQueue
    BY PendingIs, NumbersAre
  <2>2. /\ age[u] = Minus(now, startedAt[u]) /\ age[u] <= Lag /\ age[u] <= spent
        /\ dt[u] <= longest
    BY <2>1 DEF RealTime, PendingTimed, PeriodsBounded
  <2>3. Lag <= 2 * MaxBusy + wait
    BY <1>1, <2>1 DEF RealTime, LagBounded
  <2>4. dt[u] + Lag - age[u] < Modulus
    BY <2>1, <2>2, <2>3 DEF ClockIsSlow
  <2>5. /\ endAt(u) \in Ticks
        /\ endAt(u) = IF endAt(u) < lastUpdatedTimestamp
                      THEN lastUpdatedTimestamp + (dt[u] + Lag - age[u]) - Modulus
                      ELSE lastUpdatedTimestamp + (dt[u] + Lag - age[u])
    BY <2>1, <2>2, <2>4, EndIsAhead DEF Lag, endAt, Consistent
  <2>6. Ahead(k, endAt(u)) = dt[u] + Lag - age[u]
    <3>1. endAt(u) \in Int /\ lastUpdatedTimestamp \in Int
      BY <2>1, <2>5 DEF Ticks
    <3>2. QED
      BY <1>1, <1>7, <2>1, <2>5, <3>1 DEF Ahead
  <2>7. QED
    BY <1>1, <1>3, <1>5, <1>7, <2>1, <2>2, <2>6 DEF EntryTimed
<1>8. EntriesTimed(longest)'
  <2>1. SUFFICES ASSUME NEW k \in Queues, NEW e \in ToSet(queues'[k])
                 PROVE  EntryTimed(k, e, longest)'
    BY DEF EntriesTimed
  <2>2. QED
    BY <1>2, <1>6, <1>7
<1>9. PendingTimed'
  BY <1>1, <1>2, <1>3 DEF RealTime, PendingTimed, Minus
<1>10. RunningTimed'
  BY <1>1, <1>3 DEF RealTime, RunningTimed
<1>11. QED
  BY <1>1, <1>3, <1>8, <1>9, <1>10 DEF RealTime, PeriodsBounded

-----------------------------------------------------------------------------
(* The time of the last update moves on, and the queues change roles *)

LEMMA AdvanceTimed ==
    ASSUME Consistent, NEW longest \in Nat, NEW wait \in Nat,
           RealTime(longest, wait), AdvanceTime
    PROVE  RealTime(longest, wait)'
<1>1. /\ UNCHANGED <<now, curTime, queues, activeQueue, toAdd, age, dt,
                     startedAt, isUpdating, owned, running, spent, sleep>>
      /\ phase = "addBefore" /\ toAdd = << >>
      /\ phase' = IF curTime < lastUpdatedTimestamp THEN "expire" ELSE "fire"
      /\ lastUpdatedTimestamp' = curTime
  BY DEF AdvanceTime, clockVars, objectVars
<1>2. /\ Lag \in Nat /\ spent \in Nat /\ MaxBusy \in Nat /\ Modulus \in Nat
      /\ Oversleep \in Nat
      /\ now \in Nat /\ curTime \in Nat /\ lastUpdatedTimestamp \in Nat
  BY NumbersAre
<1>3. Lag' = Minus(now, curTime) /\ Lag' \in Nat /\ Lag' <= Lag /\ Lag' <= spent
      /\ spent <= MaxBusy
  BY <1>1, NumbersAre, MinusIs DEF Lag, Minus, RealTime, LagBounded, Consistent
<1>4. curTime = IF curTime < lastUpdatedTimestamp
                THEN lastUpdatedTimestamp + (Lag - Lag') - Modulus
                ELSE lastUpdatedTimestamp + (Lag - Lag')
  <2>1. Lag' = IF curTime <= now THEN now - curTime ELSE now - curTime + Modulus
    BY <1>3, NumbersAre, MinusIs DEF Consistent
  <2>2. Lag = IF lastUpdatedTimestamp <= now THEN now - lastUpdatedTimestamp
              ELSE now - lastUpdatedTimestamp + Modulus
    BY NumbersAre, MinusIs DEF Consistent, Lag
  <2>3. Lag < Modulus /\ curTime < Modulus /\ now < Modulus /\ lastUpdatedTimestamp < Modulus
    BY NumbersAre
  <2> DEFINE old == Lag
             new == Lag'
  <2>4. old \in Nat /\ new \in Nat /\ new <= old
    BY <1>2, <1>3
  <2> HIDE DEF old, new
  <2>5. QED
    BY <1>2, <2>1, <2>2, <2>3, <2>4 DEF old, new
<1>5. LagBounded(wait)'
  BY <1>1, <1>3 DEF LagBounded
<1>6. ASSUME NEW k \in Queues, NEW e \in ToSet(queues[k])
      PROVE  EntryTimed(k, e, longest)'
  <2>1. EntryTimed(k, e, longest)
    BY DEF RealTime, EntriesTimed
  <2>2. /\ e.endAt \in Nat /\ age[e.of] \in Nat /\ dt[e.of] \in Nat
        /\ activeQueue # inactiveQueue /\ Queues = {activeQueue, inactiveQueue}
    BY EntryIs, NumbersAre
  <2>3. Ahead(k, e.endAt)' = Ahead(k, e.endAt) - (Lag - Lag')
        /\ Ahead(k, e.endAt) \in Int
    <3>1. Ahead(k, e.endAt) = e.endAt - lastUpdatedTimestamp
                                + (IF k = activeQueue THEN 0 ELSE Modulus)
      BY <1>1 DEF Ahead
    <3>2. CASE curTime < lastUpdatedTimestamp
      <4>1. Ahead(k, e.endAt)' = e.endAt - curTime
                                   + (IF k = activeQueue THEN -Modulus ELSE 0)
        BY <1>1, <3>2 DEF Ahead
      <4>2. curTime = lastUpdatedTimestamp + (Lag - Lag') - Modulus
        BY <1>4, <3>2
      <4>3. CASE k = activeQueue
        <5>1. /\ Ahead(k, e.endAt)' = e.endAt - curTime - Modulus
              /\ Ahead(k, e.endAt) = e.endAt - lastUpdatedTimestamp
          BY <1>2, <2>2, <3>1, <4>1, <4>3
        <5>2. QED
          BY <1>2, <1>3, <2>2, <4>2, <5>1
      <4>4. CASE k # activeQueue
        <5>1. /\ Ahead(k, e.endAt)' = e.endAt - curTime
              /\ Ahead(k, e.endAt) = e.endAt - lastUpdatedTimestamp + Modulus
          BY <1>2, <2>2, <3>1, <4>1, <4>4
        <5>2. QED
          BY <1>2, <1>3, <2>2, <4>2, <5>1
      <4>5. QED
        BY <4>3, <4>4
    <3>3. CASE ~(curTime < lastUpdatedTimestamp)
      <4>1. Ahead(k, e.endAt)' = e.endAt - curTime
                                   + (IF k = activeQueue THEN 0 ELSE Modulus)
        BY <1>1, <3>3 DEF Ahead
      <4>2. QED
        BY <1>2, <1>3, <1>4, <2>2, <3>1, <3>3, <4>1
    <3>4. QED
      BY <3>2, <3>3
  <2>4. Alive(e.of)' = Alive(e.of)
    BY <1>1 DEF Alive
  <2>5. Ahead(k, e.endAt)' <= longest + Lag'
    BY <1>2, <1>3, <2>1, <2>3 DEF EntryTimed
  <2>6. ASSUME Alive(e.of)
        PROVE  /\ age[e.of] + Ahead(k, e.endAt)' = dt[e.of] + Lag'
               /\ age[e.of] <= dt[e.of] + Oversleep + spent
    <3>1. /\ age[e.of] + Ahead(k, e.endAt) = dt[e.of] + Lag
          /\ age[e.of] <= dt[e.of] + Oversleep + spent
      BY <1>1, <2>1, <2>6 DEF EntryTimed
    <3>2. QED
      BY <1>2, <1>3, <2>2, <2>3, <3>1
  <2>7. phase' # "waiting"
    BY <1>1
  <2>8. QED
    BY <1>1, <2>4, <2>5, <2>6, <2>7 DEF EntryTimed
<1>7. PendingTimed' /\ RunningTimed'
  <2>1. running = NoUpdateable
    BY <1>1 DEF Consistent, TimingInv, QueuesInTime
  <2>2. QED
    BY <1>1, <2>1 DEF PendingTimed, RunningTimed, ToSet, Consistent, UpdaterAssumption
<1>8. QED
  BY <1>1, <1>5, <1>6, <1>7 DEF RealTime, EntriesTimed, PeriodsBounded

LEMMA SwapTimed ==
    ASSUME Consistent, NEW longest \in Nat, NEW wait \in Nat,
           RealTime(longest, wait), SwapQueues
    PROVE  RealTime(longest, wait)'
<1>1. /\ UNCHANGED <<now, curTime, lastUpdatedTimestamp, queues, toAdd, age, dt,
                     startedAt, isUpdating, owned, running, spent, sleep>>
      /\ phase = "expire" /\ phase' = "fire" /\ queues[activeQueue] = << >>
      /\ activeQueue' = inactiveQueue
  BY DEF SwapQueues, clockVars, objectVars
<1>2. Lag' = Lag
  BY <1>1 DEF Lag, Minus
<1>3. LagBounded(wait)'
  BY <1>1, <1>2 DEF RealTime, LagBounded
<1>4. ASSUME NEW k \in Queues, NEW e \in ToSet(queues[k])
      PROVE  EntryTimed(k, e, longest)'
  <2>1. EntryTimed(k, e, longest)
    BY DEF RealTime, EntriesTimed
  <2>2. k # activeQueue /\ k = inactiveQueue
    BY <1>1, NumbersAre DEF ToSet
  <2>3. Ahead(k, e.endAt)' = Ahead(k, e.endAt)
    BY <1>1, <2>2 DEF Ahead
  <2>4. Alive(e.of)' = Alive(e.of)
    BY <1>1 DEF Alive
  <2>5. QED
    BY <1>1, <1>2, <2>1, <2>3, <2>4 DEF EntryTimed
<1>5. PendingTimed'
  BY <1>1, <1>2 DEF RealTime, PendingTimed, Minus
<1>6. RunningTimed'
  BY <1>1, <1>2 DEF RealTime, RunningTimed
<1>7. QED
  BY <1>1, <1>3, <1>4, <1>5, <1>6 DEF RealTime, EntriesTimed, PeriodsBounded

-----------------------------------------------------------------------------
(* Calls of update() *)

\* What popFront() hands out is due, and its period began before the last update.
LEMMA PoppedIsDue ==
    ASSUME Consistent, NEW longest \in Nat, EntriesTimed(longest),
           PopExpired \/ PopDue, Alive(Head(queues[activeQueue]).of)
    PROVE  LET u == Head(queues[activeQueue]).of IN
           /\ u \in Updateables /\ isUpdating[u]
           /\ dt[u] <= age[u] /\ Lag <= age[u]
           /\ age[u] <= dt[u] + Oversleep + spent
<1> DEFINE e == Head(queues[activeQueue])
<1>1. activeQueue \in Queues /\ queues[activeQueue] \in Seq(Entry)
      /\ queues[activeQueue] # << >>
  BY NumbersAre DEF PopExpired, PopDue, IsDue, Consistent, TypeOK
<1>2. e \in ToSet(queues[activeQueue])
  <2>1. Len(queues[activeQueue]) \in Nat \ {0} /\ e = queues[activeQueue][1]
    BY <1>1, TailProperties
  <2>2. DOMAIN queues[activeQueue] = 1 .. Len(queues[activeQueue])
    BY <1>1, LenProperties
  <2>3. QED
    BY <2>1, <2>2 DEF ToSet
<1>3. PopDue => e.endAt <= curTime
  BY DEF PopDue, IsDue
<1> HIDE DEF e
<1>4. /\ e.of \in Updateables /\ e.endAt \in Nat /\ e.endAt < Modulus
      /\ age[e.of] \in Nat /\ dt[e.of] \in Nat /\ Lag \in Nat
      /\ lastUpdatedTimestamp \in Nat /\ curTime \in Nat /\ Modulus \in Nat
  BY <1>1, <1>2, EntryIs, NumbersAre
<1>5. Alive(e.of) /\ isUpdating[e.of]
  BY <1>1, <1>2, EntryIs DEF e
<1>6. Ahead(activeQueue, e.endAt) \in Int /\ Ahead(activeQueue, e.endAt) <= 0
  <2>1. CASE PopExpired
    BY <1>4, <2>1 DEF PopExpired, Ahead
  <2>2. CASE PopDue
    <3>1. phase = "fire" /\ curTime = lastUpdatedTimestamp
      BY <2>2 DEF PopDue, Consistent, TimingInv, QueuesInTime
    <3>2. QED
      BY <1>3, <1>4, <2>2, <3>1 DEF Ahead
  <2>3. QED
    BY <2>1, <2>2
<1>7. EntryTimed(activeQueue, e, longest) /\ phase \in {"expire", "fire"}
  BY <1>1, <1>2 DEF EntriesTimed, PopExpired, PopDue
<1>8. /\ age[e.of] + Ahead(activeQueue, e.endAt) = dt[e.of] + Lag
      /\ age[e.of] <= dt[e.of] + Oversleep + spent
  BY <1>5, <1>7 DEF EntryTimed
<1>9. dt[e.of] <= age[e.of] /\ Lag <= age[e.of]
  BY <1>4, <1>6, <1>8
<1>10. QED
  BY <1>4, <1>5, <1>8, <1>9 DEF e

LEMMA popFrontTimed ==
    ASSUME Consistent, NEW longest \in Nat, NEW wait \in Nat,
           RealTime(longest, wait), PopExpired \/ PopDue
    PROVE  RealTime(longest, wait)'
<1> DEFINE u == Head(queues[activeQueue]).of
<1>1. /\ UNCHANGED <<now, curTime, lastUpdatedTimestamp, activeQueue, toAdd, age, dt,
                     phase, startedAt, isUpdating, owned, spent, sleep>>
      /\ running = NoUpdateable /\ running' = (IF Alive(u) THEN u ELSE NoUpdateable)
      /\ queues' = [queues EXCEPT ![activeQueue] = Tail(@)]
  BY DEF PopExpired, PopDue, popFront, clockVars
<1>2. LagBounded(wait)' /\ Lag' = Lag
  BY <1>1, SameLag DEF RealTime
<1>3. Alive(u) => /\ u \in Updateables /\ Lag <= age[u]
                  /\ age[u] <= dt[u] + Oversleep + spent
  BY PoppedIsDue DEF RealTime
<1>4. \A k \in Queues : ToSet(queues'[k]) \subseteq ToSet(queues[k])
  <2>1. activeQueue \in Queues /\ queues[activeQueue] \in Seq(Entry)
        /\ queues[activeQueue] # << >>
    BY NumbersAre DEF PopExpired, PopDue, IsDue, Consistent, TypeOK
  <2>2. ToSet(Tail(queues[activeQueue])) \subseteq ToSet(queues[activeQueue])
    <3> DEFINE q == queues[activeQueue]
    <3> HIDE DEF q
    <3>1. q \in Seq(Entry) /\ q # << >>
      BY <2>1 DEF q
    <3>2. IsWithout(Tail(q), q, Head(q).of)
      BY <3>1, TailEntry
    <3>3. ToSet(Tail(q)) \subseteq ToSet(q)
      BY <3>1, <3>2, LenProperties DEF IsWithout, ToSet
    <3>4. QED
      BY <3>3 DEF q
  <2>3. QED
    BY <1>1, <2>1, <2>2 DEF Consistent, TypeOK
<1> HIDE DEF u
<1>5. \A v : Alive(v)' => Alive(v)
  BY <1>1 DEF Alive, Consistent, UpdaterAssumption
<1>6. EntriesTimed(longest)'
  BY <1>1, <1>4, <1>5, FewerEntriesTimed DEF RealTime
<1>7. PendingTimed'
  BY <1>1, <1>2 DEF RealTime, PendingTimed, Minus
<1>8. RunningTimed'
  BY <1>1, <1>2, <1>3 DEF RunningTimed, Consistent, UpdaterAssumption
<1>9. QED
  BY <1>1, <1>2, <1>6, <1>7, <1>8 DEF RealTime, PeriodsBounded

LEMMA UpdateReturnsTimed ==
    ASSUME Consistent, NEW longest \in Nat, NEW wait \in Nat,
           RealTime(longest, wait), UpdateReturns
    PROVE  RealTime(longest, wait)'
<1> DEFINE u == running
<1>1. /\ UNCHANGED <<now, curTime, lastUpdatedTimestamp, queues, activeQueue, dt,
                     phase, isUpdating, owned, spent, sleep>>
      /\ running # NoUpdateable /\ running' = NoUpdateable
  BY DEF UpdateReturns
<1>2. /\ u \in Updateables /\ Alive(u) /\ phase \in {"expire", "fire"}
      /\ toAdd \in Seq(Updateables) /\ IsInjective(toAdd)
  BY <1>1 DEF Consistent, TypeOK, Alive, TimingInv, QueuesInTime,
              ScheduleConsistent, NodesDesignated
<1>3. \/ /\ isUpdating[u] /\ ToSet(toAdd') = ToSet(toAdd) \cup {u}
         /\ age' = [age EXCEPT ![u] = Lag]
         /\ startedAt' = [startedAt EXCEPT ![u] = lastUpdatedTimestamp]
      \/ ToSet(toAdd') = ToSet(toAdd) /\ age' = age /\ startedAt' = startedAt
  <2>1. CASE isUpdating[u]
    <3>1. /\ toAdd' = Append(toAdd, u) /\ age' = [age EXCEPT ![u] = Lag]
          /\ startedAt' = [startedAt EXCEPT ![u] = lastUpdatedTimestamp]
      BY <2>1 DEF UpdateReturns, Lag
    <3>2. ToSet(Append(toAdd, u)) = ToSet(toAdd) \cup {u}
      BY <1>2, AppendSet
    <3>3. QED
      BY <2>1, <3>1, <3>2
  <2>2. CASE ~isUpdating[u]
    BY <2>2 DEF UpdateReturns
  <2>3. QED
    BY <2>1, <2>2
<1>4. LagBounded(wait)' /\ Lag' = Lag /\ Lag \in Nat /\ spent \in Nat
  BY <1>1, SameLag, NumbersAre DEF RealTime
<1>5. \A v \in Updateables : Alive(v)' => Alive(v)
  BY <1>1, <1>2, <1>3 DEF Alive, Consistent, UpdaterAssumption
<1>6. EntriesTimed(longest)'
  <2>1. \A k \in Queues : \A e \in ToSet(queues[k]) : e.of \in Updateables /\ e.of # u
    BY <1>2, EntryIs
  <2>2. \A k \in Queues : \A e \in ToSet(queues'[k]) :
            age'[e.of] = age[e.of] /\ (Alive(e.of)' => Alive(e.of))
    BY <1>1, <1>3, <1>5, <2>1 DEF Consistent, TypeOK
  <2>3. QED
    BY <1>1, <2>2, FewerEntriesTimed DEF RealTime
<1>7. PendingTimed'
  <2>1. ASSUME NEW v \in ToSet(toAdd')
        PROVE  /\ age'[v] = Minus(now, startedAt'[v])
               /\ age'[v] <= Lag /\ age'[v] <= spent
    <3>1. CASE v \in ToSet(toAdd)
      <4>1. v \in Updateables /\ v # u
        BY <3>1, PendingIs
      <4>2. age'[v] = age[v] /\ startedAt'[v] = startedAt[v]
        BY <1>3, <4>1 DEF Consistent, TypeOK
      <4>3. QED
        BY <3>1, <4>2 DEF RealTime, PendingTimed
    <3>2. CASE v \notin ToSet(toAdd)
      <4>1. v = u /\ age'[v] = Lag /\ startedAt'[v] = lastUpdatedTimestamp
        BY <1>2, <1>3, <2>1, <3>2 DEF Consistent, TypeOK
      <4>2. Lag <= spent
        BY <1>2 DEF RealTime, LagBounded
      <4>3. QED
        BY <1>4, <4>1, <4>2 DEF Lag
    <3>3. QED
      BY <3>1, <3>2
  <2>2. phase' # "waiting"
    BY <1>1, <1>2
  <2>3. QED
    BY <1>1, <1>4, <2>1, <2>2 DEF PendingTimed, Minus
<1>8. RunningTimed'
  BY <1>1 DEF RunningTimed, Consistent, UpdaterAssumption
<1>9. QED
  BY <1>1, <1>4, <1>6, <1>7, <1>8 DEF RealTime, PeriodsBounded

-----------------------------------------------------------------------------
(* The wait update() returns *)

\* The front update() looks at is the entry that is due first, and the wait is
\* computed from the time until it is due.
LEMMA FrontIsNearest ==
    ASSUME Consistent, phase = "addAfter", NEW k \in Queues, queues[k] # << >>,
           k = activeQueue \/ queues[activeQueue] = << >>
    PROVE  /\ Head(queues[k]) \in ToSet(queues[k])
           /\ Minus(Head(queues[k]).endAt, curTime) = Ahead(k, Head(queues[k]).endAt)
           /\ \A j \in Queues : \A e \in ToSet(queues[j]) :
                  Ahead(k, Head(queues[k]).endAt) <= Ahead(j, e.endAt)
<1> DEFINE f == Head(queues[k])
<1>1. /\ queues[k] \in Seq(Entry) /\ DOMAIN queues[k] = 1 .. Len(queues[k])
      /\ Len(queues[k]) \in Nat \ {0} /\ f = queues[k][1]
      /\ SortedQueue(queues[k])
  BY TailProperties, LenProperties DEF Consistent, TypeOK, TimingInv, QueuesInOrder
<1>2. f \in ToSet(queues[k])
  BY <1>1 DEF ToSet
<1>3. \A e \in ToSet(queues[k]) : f = e \/ f.endAt <= e.endAt
  <2>1. TAKE e \in ToSet(queues[k])
  <2>2. PICK i \in 1 .. Len(queues[k]) : e = queues[k][i]
    BY <1>1 DEF ToSet
  <2>3. i = 1 \/ (1 < i /\ 1 \in 1 .. Len(queues[k]))
    BY <1>1, <2>2
  <2>4. QED
    BY <1>1, <2>2, <2>3 DEF SortedQueue
<1> HIDE DEF f
<1>4. \A j \in Queues : \A e \in ToSet(queues[j]) :
          /\ e.endAt \in Nat /\ e.endAt < Modulus /\ e.endAt \in Ticks
          /\ j = activeQueue => e.endAt >= lastUpdatedTimestamp
          /\ j # activeQueue => e.endAt < lastUpdatedTimestamp
  <2>1. ASSUME NEW j \in Queues, NEW e \in ToSet(queues[j])
        PROVE  /\ j = activeQueue => e.endAt >= lastUpdatedTimestamp
               /\ j # activeQueue => e.endAt < lastUpdatedTimestamp
    BY NumbersAre DEF ToSet, Consistent, TimingInv, QueuesInTime
  <2>2. QED
    BY <2>1, EntryIs
<1>5. /\ curTime = lastUpdatedTimestamp /\ lastUpdatedTimestamp \in Nat /\ Modulus \in Nat
      /\ lastUpdatedTimestamp < Modulus /\ curTime \in Ticks
  BY NumbersAre DEF Consistent, TimingInv, QueuesInTime
<1>6. /\ f.endAt \in Nat /\ f.endAt < Modulus
      /\ k = activeQueue => f.endAt >= lastUpdatedTimestamp
      /\ k # activeQueue => f.endAt < lastUpdatedTimestamp
  BY <1>2, <1>4
<1>7. Minus(f.endAt, curTime) = Ahead(k, f.endAt)
  <2>1. Minus(f.endAt, curTime) = IF curTime <= f.endAt THEN f.endAt - curTime
                                  ELSE f.endAt - curTime + Modulus
    BY <1>2, <1>4, <1>5, MinusIs DEF Consistent
  <2>2. QED
    BY <1>5, <1>6, <2>1 DEF Ahead
<1>8. ASSUME NEW j \in Queues, NEW e \in ToSet(queues[j])
      PROVE  Ahead(k, f.endAt) <= Ahead(j, e.endAt)
  <2>1. /\ e.endAt \in Nat /\ e.endAt < Modulus
        /\ j = activeQueue => e.endAt >= lastUpdatedTimestamp
        /\ j # activeQueue => e.endAt < lastUpdatedTimestamp
    BY <1>4
  <2>2. CASE j = k
    <3>1. f.endAt <= e.endAt
      BY <1>3, <1>6, <2>2
    <3>2. QED
      BY <1>5, <1>6, <2>1, <2>2, <3>1 DEF Ahead
  <2>3. CASE j # k
    <3>1. k = activeQueue /\ j # activeQueue
      BY <1>8, <2>3, NumbersAre DEF ToSet
    <3>2. QED
      BY <1>5, <1>6, <2>1, <3>1 DEF Ahead
  <2>4. QED
    BY <2>2, <2>3
<1>9. QED
  BY <1>2, <1>7, <1>8 DEF f

\* Whatever update() returns, the thread does not wait longer than that.
LEMMA AllowanceIs ==
    ASSUME Consistent, NEW longest \in Nat, NEW wait \in Nat,
           ClockIsSlow(longest, wait), Return
    PROVE  Allowance' = (IF sleep' = Forever THEN MaxIdle ELSE sleep')
           /\ MaxIdle <= Forever
<1>1. MaxIdle <= Forever
  BY NumbersAre DEF ClockIsSlow, Forever
<1>2. QED
  BY <1>1 DEF Return, Allowance

LEMMA ReturnTimed ==
    ASSUME Consistent, NEW longest \in Nat, NEW wait \in Nat,
           ClockIsSlow(longest, wait), RealTime(longest, wait), Return
    PROVE  RealTime(longest, wait)'
<1>1. /\ UNCHANGED <<now, curTime, lastUpdatedTimestamp, queues, activeQueue, toAdd,
                     age, dt, startedAt, isUpdating, owned, running>>
      /\ phase = "addAfter" /\ phase' = "waiting" /\ toAdd = << >> /\ spent' = 0
      /\ curTime = lastUpdatedTimestamp
  BY DEF Return, queueVars, objectVars, Consistent, TimingInv, QueuesInTime
<1>2. /\ MaxBusy \in Nat /\ MinWait \in Nat /\ MaxIdle \in Nat /\ Lag \in Nat
      /\ Oversleep \in Nat /\ MaxBusy <= Oversleep /\ MinWait <= Oversleep + 1
      /\ spent \in Nat /\ Modulus \in Nat
  BY NumbersAre
<1>3. longest <= wait /\ MinWait <= wait /\ MaxIdle <= wait
  BY DEF ClockIsSlow
<1>4. Lag <= MaxBusy
  <2>1. Lag <= spent /\ spent <= MaxBusy
    BY <1>1 DEF RealTime, LagBounded
  <2>2. QED
    BY <1>2, <2>1
<1>5. Lag' = Lag /\ Minus(now, curTime) = Lag
  BY <1>1 DEF Lag, Minus
<1>6. /\ Allowance' \in Nat /\ Allowance' <= wait
      /\ \A k \in Queues : \A e \in ToSet(queues[k]) :
             Lag + Allowance' <= Ahead(k, e.endAt) + Oversleep
  <2>1. CASE \A k \in Queues : queues[k] = << >>
    <3>1. Allowance' = MaxIdle
      BY <2>1, AllowanceIs, NumbersAre DEF Return
    <3>2. \A k \in Queues : ToSet(queues[k]) = {}
      BY <2>1 DEF ToSet
    <3>3. QED
      BY <1>2, <1>3, <3>1, <3>2
  <2>2. ASSUME NEW k \in Queues, queues[k] # << >>,
               k = activeQueue \/ queues[activeQueue] = << >>
        PROVE  /\ Allowance' \in Nat /\ Allowance' <= wait
               /\ \A j \in Queues : \A e \in ToSet(queues[j]) :
                      Lag + Allowance' <= Ahead(j, e.endAt) + Oversleep
    <3> DEFINE o == Ahead(k, Head(queues[k]).endAt)
               allowed == Allowance'
    <3>1. sleep' = WaitFor(Head(queues[k]).endAt)
      BY <2>2, NumbersAre DEF Return
    <3>2. /\ Head(queues[k]) \in ToSet(queues[k])
          /\ Minus(Head(queues[k]).endAt, curTime) = o
          /\ \A j \in Queues : \A e \in ToSet(queues[j]) : o <= Ahead(j, e.endAt)
      BY <1>1, <2>2, FrontIsNearest
    <3>3. o \in Nat /\ o <= longest + Lag
      <4>1. EntryTimed(k, Head(queues[k]), longest)
        BY <3>2 DEF RealTime, EntriesTimed
      <4>2. QED
        BY <1>1, <3>2, <4>1, NothingOverdue DEF EntryTimed
    <3>4. sleep' = IF Lag >= o THEN 0
                   ELSE IF o - Lag < MinWait THEN MinWait ELSE o - Lag
      BY <1>5, <3>1, <3>2 DEF WaitFor
    <3>5. allowed = (IF sleep' = Forever THEN MaxIdle ELSE sleep') /\ MaxIdle <= Forever
      BY AllowanceIs
    <3> HIDE DEF o, allowed
    <3>6. /\ sleep' \in Nat /\ sleep' <= wait /\ Lag + sleep' <= o + Oversleep
      BY <1>2, <1>3, <1>4, <3>3, <3>4
    <3>7. allowed \in Nat /\ allowed <= sleep' /\ allowed <= wait
      BY <1>2, <1>3, <3>5, <3>6
    <3>8. Lag + allowed <= o + Oversleep
      <4>1. \A l, a, w, x, y \in Nat : a <= w /\ l + w <= x + y => l + a <= x + y
        OBVIOUS
      <4>2. QED
        BY <1>2, <3>3, <3>6, <3>7, <4>1
    <3>9. \A j \in Queues : \A e \in ToSet(queues[j]) : Ahead(j, e.endAt) \in Nat
      BY <1>1, NothingOverdue
    <3>10. \A j \in Queues : \A e \in ToSet(queues[j]) :
               Lag + allowed <= Ahead(j, e.endAt) + Oversleep
      BY <1>2, <3>2, <3>3, <3>7, <3>8, <3>9
    <3>11. QED
      BY <3>7, <3>10 DEF allowed
  <2>3. QED
    BY <2>1, <2>2, NumbersAre
<1>7. LagBounded(wait)'
  BY <1>1, <1>2, <1>4, <1>5, <1>6 DEF LagBounded
<1>8. ASSUME NEW k \in Queues, NEW e \in ToSet(queues[k])
      PROVE  EntryTimed(k, e, longest)'
  <2>1. EntryTimed(k, e, longest) /\ Ahead(k, e.endAt) \in Nat
    BY <1>1, NothingOverdue DEF RealTime, EntriesTimed
  <2>2. Ahead(k, e.endAt)' = Ahead(k, e.endAt) /\ Alive(e.of)' = Alive(e.of)
    BY <1>1, SameAhead DEF Alive
  <2>3. age[e.of] \in Nat /\ dt[e.of] \in Nat
    BY EntryIs, NumbersAre
  <2>4. Lag + Allowance' <= Ahead(k, e.endAt) + Oversleep /\ Allowance' \in Nat
    BY <1>6
  <2>5. Alive(e.of) => age[e.of] + Allowance' <= dt[e.of] + Oversleep
    <3>1. Alive(e.of) => age[e.of] + Ahead(k, e.endAt) = dt[e.of] + Lag
      BY <2>1 DEF EntryTimed
    <3>2. QED
      BY <1>2, <2>1, <2>3, <2>4, <3>1
  <2>6. QED
    BY <1>1, <1>2, <1>5, <2>1, <2>2, <2>3, <2>5 DEF EntryTimed
<1>9. PendingTimed'
  BY <1>1 DEF PendingTimed, ToSet
<1>10. RunningTimed'
  BY <1>1 DEF RunningTimed, Consistent, UpdaterAssumption, TimingInv, QueuesInTime
<1>11. QED
  BY <1>1, <1>7, <1>8, <1>9, <1>10 DEF RealTime, EntriesTimed, PeriodsBounded

-----------------------------------------------------------------------------
(* The invariant *)

LEMMA RealTimeInit ==
    ASSUME UpdaterAssumption, NEW longest \in Nat, NEW wait \in Nat,
           ClockIsSlow(longest, wait), Init
    PROVE  RealTime(longest, wait)
<1>1. /\ now \in Ticks /\ 0 \in Ticks /\ MaxBusy \in Nat
  BY DEF UpdaterAssumption, Init, Ticks
<1>2. Lag = now /\ now <= MaxBusy + wait
  <2>1. lastUpdatedTimestamp = 0 /\ now \in 0 .. MaxBusy + wait
    BY DEF Init, ClockIsSlow
  <2>2. Minus(now, 0) = now
    BY <1>1, <2>1, MinusIs DEF Ticks
  <2>3. QED
    BY <2>1, <2>2 DEF Lag
<1>3. LagBounded(wait)
  BY <1>1, <1>2 DEF LagBounded, Init
<1>4. EntriesTimed(longest) /\ PendingTimed /\ RunningTimed /\ PeriodsBounded(longest)
  BY DEF Init, EntriesTimed, PendingTimed, RunningTimed, PeriodsBounded, ToSet,
         UpdaterAssumption
<1>5. QED
  BY <1>3, <1>4 DEF RealTime

LEMMA RealTimeStep ==
    ASSUME Consistent, RestartInCallback = FALSE, NEW longest \in Nat, NEW wait \in Nat,
           ClockIsSlow(longest, wait), RealTime(longest, wait), [Next]_vars
    PROVE  RealTime(longest, wait)'
<1>1. ASSUME NEW u \in Updateables, NEW period \in Periods, startUpdating(u, period)
      PROVE  RealTime(longest, wait)'
  BY <1>1, startUpdatingTimed
<1>2. ASSUME NEW u \in Updateables, stopUpdating(u) \/ Release(u) \/ Create(u)
      PROVE  RealTime(longest, wait)'
  BY <1>2, OtherUiCodeTimed
<1>3. CASE Tick
  BY <1>3, TickTimed
<1>4. CASE Wake
  BY <1>4, WakeTimed
<1>5. CASE update \/ NothingDue
  BY <1>5, PhaseTimed
<1>6. CASE addPending
  BY <1>6, addPendingTimed
<1>7. CASE AdvanceTime
  BY <1>7, AdvanceTimed
<1>8. CASE PopExpired \/ PopDue
  BY <1>8, popFrontTimed
<1>9. CASE SwapQueues
  BY <1>9, SwapTimed
<1>10. CASE UpdateReturns
  BY <1>10, UpdateReturnsTimed
<1>11. CASE Return
  BY <1>11, ReturnTimed
<1>12. CASE UNCHANGED vars
  <2>1. UNCHANGED <<now, age, spent, phase, running, curTime, queues, activeQueue, toAdd,
                    lastUpdatedTimestamp, isUpdating, dt, startedAt, owned, sleep>>
    BY <1>12 DEF vars, clockVars, queueVars, objectVars
  <2>2. LagBounded(wait)' /\ Lag' = Lag
    BY <2>1, SameLag DEF RealTime
  <2>3. \A u : Alive(u)' => Alive(u)
    BY <2>1 DEF Alive
  <2>4. EntriesTimed(longest)'
    BY <2>1, <2>3, FewerEntriesTimed DEF RealTime
  <2>5. QED
    BY <2>1, <2>2, <2>4 DEF RealTime, PendingTimed, RunningTimed, PeriodsBounded, Minus
<1>13. QED
  BY <1>1, <1>2, <1>3, <1>4, <1>5, <1>6, <1>7, <1>8, <1>9, <1>10, <1>11, <1>12
     DEF Next, UiCode, UpdateLoop

LEMMA ConsistentInvariant ==
    ASSUME RestartInCallback = FALSE
    PROVE  Spec => []Consistent
<1>1. TypeOK /\ ScheduleConsistent /\ TimingInv => Consistent
  BY UpdaterAssumption DEF Consistent
<1>2. QED
  BY <1>1, TypeCorrect, ScheduleIsConsistent, TimingInvariant, PTL

LEMMA RealTimeInvariant ==
    ASSUME RestartInCallback = FALSE, NEW longest \in Nat, NEW wait \in Nat,
           ClockIsSlow(longest, wait)
    PROVE  Spec => []RealTime(longest, wait)
<1>1. Init => RealTime(longest, wait)
  BY RealTimeInit, UpdaterAssumption
<1>2. Consistent /\ RealTime(longest, wait) /\ [Next]_vars => RealTime(longest, wait)'
  BY RealTimeStep
<1>3. QED
  BY <1>1, <1>2, ConsistentInvariant, PTL DEF Spec

\* The wait update() returns is never too long, wrap-around or not: as long as
\* no update() restarts its own object and the clock does not make a full turn
\* between two updates, no period is exceeded by more than the time the thread
\* is busy and what the wait may add.
THEOREM NeverTooLate ==
    ASSUME RestartInCallback = FALSE, NEW longest \in Nat, NEW wait \in Nat,
           ClockIsSlow(longest, wait)
    PROVE  Spec => []NeverLate
<1>1. ASSUME Consistent, RealTime(longest, wait)
      PROVE  NeverLate
  <2>1. SUFFICES ASSUME NEW u \in Updateables, Alive(u), isUpdating[u]
                 PROVE  age[u] <= dt[u] + Oversleep + MaxBusy
    BY DEF NeverLate
  <2>2. /\ phase = "waiting" =>
               age[u] + Allowance <= dt[u] + Oversleep + spent
        /\ phase # "waiting" => age[u] <= dt[u] + Oversleep + spent
    BY <1>1, <2>1, AgeIs
  <2>3. /\ phase = "waiting" => spent <= Allowance
        /\ phase # "waiting" => spent <= MaxBusy
    BY <1>1 DEF RealTime, LagBounded
  <2>4. /\ age[u] \in Nat /\ dt[u] \in Nat /\ Oversleep \in Nat /\ spent \in Nat
        /\ Allowance \in Nat /\ MaxBusy \in Nat
    BY <1>1, NumbersAre
  <2>5. QED
    BY <2>2, <2>3, <2>4
<1>2. QED
  BY <1>1, ConsistentInvariant, RealTimeInvariant, PTL

-----------------------------------------------------------------------------
(* Every step of the scheduler is a step of periodic timers *)

LEMMA OneStatus ==
    ASSUME NEW u \in Updateables,
           \A v \in Updateables \ {u} :
               /\ Alive(v)' <=> Alive(v)
               /\ isUpdating'[v] = isUpdating[v]
               /\ running' = v <=> running = v
    PROVE  Status' = [Status EXCEPT ![u] = Status'[u]]
<1>1. \A v \in Updateables \ {u} : Status'[v] = Status[v]
  BY DEF Status
<1>2. Status = [v \in Updateables |-> Status[v]] /\ Status' = [v \in Updateables |-> Status'[v]]
  BY DEF Status
<1>3. QED
  BY <1>1, <1>2

LEMMA SameStatus ==
    ASSUME NEW u \in Updateables, Status' = [Status EXCEPT ![u] = Status'[u]],
           Status'[u] = Status[u]
    PROVE  Status' = Status
<1>1. Status = [v \in Updateables |-> Status[v]]
  BY DEF Status
<1>2. QED
  BY <1>1

LEMMA StartMaps ==
    ASSUME Consistent, RestartInCallback = FALSE,
           NEW u \in Updateables, NEW period \in Periods, startUpdating(u, period)
    PROVE  Timers!Start(u)
<1>1. /\ Alive(u) /\ Alive(u)' /\ ~isUpdating[u] /\ running # u /\ running' = running
      /\ isUpdating' = [isUpdating EXCEPT ![u] = TRUE] /\ owned' = owned
      /\ age' = [age EXCEPT ![u] = 0] /\ dt' = [dt EXCEPT ![u] = period]
      /\ isUpdating'[u]
  BY DEF startUpdating, Callable, Alive, Consistent, TypeOK
<1>2. ToSet(toAdd') = ToSet(toAdd) \cup {u}
  BY ConsSet DEF startUpdating, Consistent, TypeOK
<1>3. Status' = [Status EXCEPT ![u] = Status'[u]]
  BY <1>1, <1>2, OneStatus DEF Alive, Consistent, TypeOK
<1>4. Status[u] = "off" /\ Status'[u] = "armed"
  BY <1>1 DEF Status
<1>5. QED
  BY <1>1, <1>3, <1>4 DEF Timers!Start

\* A step that can only make u unsubscribed or dead.
LEMMA StopMaps ==
    ASSUME NEW u \in Updateables, Status' = [Status EXCEPT ![u] = Status'[u]],
           Status'[u] \in {Status[u], "off"}, UNCHANGED <<dt, age>>
    PROVE  [Timers!Next]_(Timers!vars)
<1>1. CASE Status'[u] = Status[u]
  BY <1>1, SameStatus DEF Timers!vars
<1>2. CASE Status'[u] # Status[u]
  BY <1>2 DEF Timers!Stop, Timers!Next
<1>3. QED
  BY <1>1, <1>2

LEMMA FireMaps ==
    ASSUME Consistent, NEW longest \in Nat, EntriesTimed(longest), PopExpired \/ PopDue
    PROVE  [Timers!Next]_(Timers!vars)
<1> DEFINE u == Head(queues[activeQueue]).of
<1>1. /\ UNCHANGED <<toAdd, age, dt, isUpdating, owned>>
      /\ running = NoUpdateable /\ NoUpdateable \notin Updateables
      /\ running' = (IF Alive(u) THEN u ELSE NoUpdateable)
  BY DEF PopExpired, PopDue, popFront, clockVars, Consistent, UpdaterAssumption
<1>2. Alive(u) => u \in Updateables /\ isUpdating[u] /\ dt[u] <= age[u]
  BY PoppedIsDue
<1> HIDE DEF u
<1>3. CASE Alive(u)
  <2>1. Status' = [Status EXCEPT ![u] = Status'[u]]
    BY <1>1, <1>2, <1>3, OneStatus DEF Alive
  <2>2. Status[u] = "armed" /\ Status'[u] = "firing"
    BY <1>1, <1>2, <1>3 DEF Status, Alive
  <2>3. \A v \in Updateables : Status[v] # "firing"
    BY <1>1 DEF Status
  <2>4. age[u] >= dt[u]
    BY <1>2, <1>3, NumbersAre
  <2>5. Timers!Fire(u)
    BY <1>1, <2>1, <2>2, <2>3, <2>4 DEF Timers!Fire
  <2>6. QED
    BY <1>2, <1>3, <2>5 DEF Timers!Next
<1>4. CASE ~Alive(u)
  BY <1>1, <1>4 DEF Timers!vars, Status, Alive
<1>5. QED
  BY <1>3, <1>4

LEMMA RearmMaps ==
    ASSUME Consistent, RunningTimed, UpdateReturns
    PROVE  [Timers!Next]_(Timers!vars)
<1> DEFINE u == running
<1>1. /\ u \in Updateables /\ running' = NoUpdateable /\ NoUpdateable \notin Updateables
      /\ UNCHANGED <<dt, isUpdating, owned>> /\ Alive(u)
      /\ age[u] \in Nat /\ Lag \in Nat /\ toAdd \in Seq(Updateables)
  BY NumbersAre DEF UpdateReturns, Consistent, TypeOK, UpdaterAssumption, Alive
<1>2. CASE isUpdating[u]
  <2>1. age' = [age EXCEPT ![u] = Lag] /\ toAdd' = Append(toAdd, u)
    BY <1>2 DEF UpdateReturns, Lag
  <2>2. ToSet(toAdd') = ToSet(toAdd) \cup {u}
    BY <1>1, <2>1, AppendSet
  <2>3. Status' = [Status EXCEPT ![u] = Status'[u]]
    BY <1>1, <2>2, OneStatus DEF Alive
  <2>4. Status[u] = "firing" /\ Status'[u] = "armed"
    BY <1>1, <1>2, <2>2 DEF Status, Alive
  <2>5. Lag \in 0 .. age[u]
    BY <1>1, <1>2 DEF RunningTimed
  <2>6. Timers!Rearm(u)
    BY <1>1, <2>1, <2>3, <2>4, <2>5 DEF Timers!Rearm
  <2>7. QED
    BY <1>1, <2>6 DEF Timers!Next
<1>3. CASE ~isUpdating[u]
  <2>1. age' = age /\ toAdd' = toAdd
    BY <1>3 DEF UpdateReturns
  <2>2. Status' = [Status EXCEPT ![u] = Status'[u]]
    BY <1>1, <2>1, OneStatus DEF Alive
  <2>3. Status'[u] = Status[u]
    BY <1>1, <1>3 DEF Status
  <2>4. QED
    BY <1>1, <2>1, <2>2, <2>3, StopMaps
<1>4. QED
  BY <1>2, <1>3

LEMMA AdvanceMaps ==
    ASSUME Consistent, NEW longest \in Nat, NEW wait \in Nat,
           ClockIsSlow(longest, wait), RealTime(longest, wait), Tick
    PROVE  Timers!Advance
<1>1. UNCHANGED <<toAdd, dt, isUpdating, owned, running>>
  BY DEF Tick, queueVars, objectVars
<1>2. age' = [u \in Updateables |-> IF Status[u] = "off" THEN 0 ELSE age[u] + 1]
  BY TickFits DEF Tick, Status
<1>3. QED
  BY <1>1, <1>2 DEF Timers!Advance, Status, Alive

LEMMA StepMaps ==
    ASSUME Consistent, RestartInCallback = FALSE, NEW longest \in Nat, NEW wait \in Nat,
           ClockIsSlow(longest, wait), RealTime(longest, wait), [Next]_vars
    PROVE  [Timers!Next]_(Timers!vars)
<1>1. ASSUME NEW u \in Updateables, NEW period \in Periods, startUpdating(u, period)
      PROVE  [Timers!Next]_(Timers!vars)
  BY <1>1, StartMaps DEF Timers!Next
<1>2. ASSUME NEW u \in Updateables, stopUpdating(u)
      PROVE  [Timers!Next]_(Timers!vars)
  <2>1. /\ UNCHANGED <<running, owned, dt, age>> /\ Alive(u)
        /\ isUpdating' = [isUpdating EXCEPT ![u] = FALSE]
    BY <1>2 DEF stopUpdating, clockVars, Callable, Alive
  <2>2. ToSet(toAdd') \subseteq ToSet(toAdd) /\ ToSet(toAdd) \ {u} \subseteq ToSet(toAdd')
    <3>1. pendingAddition[u] => u \in ToSet(toAdd)
      BY <2>1 DEF Consistent, ScheduleConsistent, Placed
    <3>2. toAdd' = toAdd \/ (u \in ToSet(toAdd) /\ toAdd' = RemoveFirst(toAdd, u))
      BY <1>2, <3>1 DEF stopUpdating
    <3>3. toAdd \in Seq(Updateables) /\ IsInjective(toAdd)
      BY DEF Consistent, TypeOK, ScheduleConsistent, NodesDesignated
    <3>4. u \in ToSet(toAdd) => ToSet(RemoveFirst(toAdd, u)) = ToSet(toAdd) \ {u}
      BY <3>3, RemoveFirstSet
    <3>5. QED
      BY <3>2, <3>4
  <2>3. Status' = [Status EXCEPT ![u] = Status'[u]]
    BY <2>1, <2>2, OneStatus DEF Alive, Consistent, TypeOK
  <2>4. Status'[u] = "off"
    BY <2>1 DEF Status, Consistent, TypeOK
  <2>5. QED
    BY <2>1, <2>3, <2>4, StopMaps
<1>3. ASSUME NEW u \in Updateables, Release(u)
      PROVE  [Timers!Next]_(Timers!vars)
  <2>1. /\ UNCHANGED <<running, toAdd, dt, age, isUpdating>> /\ owned[u]
        /\ owned' = [owned EXCEPT ![u] = FALSE]
    BY <1>3 DEF Release, clockVars, queueVars, objectVars
  <2>2. Status' = [Status EXCEPT ![u] = Status'[u]]
    BY <2>1, OneStatus DEF Alive, Consistent, TypeOK
  <2>3. Status'[u] \in {Status[u], "off"}
    BY <2>1 DEF Status, Alive
  <2>4. QED
    BY <2>1, <2>2, <2>3, StopMaps
<1>4. ASSUME NEW u \in Updateables, Create(u)
      PROVE  [Timers!Next]_(Timers!vars)
  <2>1. /\ UNCHANGED <<running, toAdd, dt, age>> /\ ~Alive(u)
        /\ owned' = [owned EXCEPT ![u] = TRUE]
        /\ isUpdating' = [isUpdating EXCEPT ![u] = FALSE]
    BY <1>4 DEF Create, clockVars, queueVars
  <2>2. Status' = [Status EXCEPT ![u] = Status'[u]]
    BY <2>1, OneStatus DEF Alive, Consistent, TypeOK
  <2>3. Status'[u] = "off"
    BY <2>1 DEF Status, Consistent, TypeOK
  <2>4. QED
    BY <2>1, <2>2, <2>3, StopMaps
<1>5. CASE Tick
  BY <1>5, AdvanceMaps DEF Timers!Next
<1>6. CASE addPending
  <2>1. UNCHANGED <<running, dt, age, isUpdating, owned>>
    BY <1>6 DEF addPending, clockVars
  <2>2. PICK u \in ToSet(toAdd) : ToSet(toAdd') = ToSet(toAdd) \ {u}
    BY <1>6, addPendingAdds
  <2>3. u \in Updateables
    BY PendingIs
  <2>4. Status' = [Status EXCEPT ![u] = Status'[u]]
    BY <2>1, <2>2, <2>3, OneStatus DEF Alive
  <2>5. Status'[u] \in {Status[u], "off"}
    BY <2>1, <2>2, <2>3 DEF Status, Alive
  <2>6. QED
    BY <2>1, <2>3, <2>4, <2>5, StopMaps
<1>7. CASE PopExpired \/ PopDue
  BY <1>7, FireMaps DEF RealTime
<1>8. CASE UpdateReturns
  BY <1>8, RearmMaps DEF RealTime
<1>9. CASE UNCHANGED <<running, toAdd, dt, age, isUpdating, owned>>
  BY <1>9 DEF Timers!vars, Status, Alive
<1>10. CASE Wake \/ update \/ AdvanceTime \/ SwapQueues \/ NothingDue \/ Return \/ UNCHANGED vars
  BY <1>9, <1>10 DEF Wake, update, AdvanceTime, SwapQueues, NothingDue, Return,
                     vars, clockVars, queueVars, objectVars
<1>11. QED
  BY <1>1, <1>2, <1>3, <1>4, <1>5, <1>6, <1>7, <1>8, <1>10 DEF Next, UiCode, UpdateLoop

\* To its subscribers the updater, with its two queues, its pending list and a
\* clock that wraps around, is a set of independent timers: it calls an object
\* only when its period is over, one at a time, and starts the next period no
\* earlier than the last one.
THEOREM TimersAreImplemented ==
    ASSUME RestartInCallback = FALSE, NEW longest \in Nat, NEW wait \in Nat,
           ClockIsSlow(longest, wait)
    PROVE  Spec => ImplementsTimers
<1>1. Init => Timers!Init
  BY DEF Init, Timers!Init, Status
<1>2. Consistent /\ RealTime(longest, wait) /\ [Next]_vars => [Timers!Next]_(Timers!vars)
  BY StepMaps
<1>3. QED
  BY <1>1, <1>2, ConsistentInvariant, RealTimeInvariant, PTL
     DEF Spec, ImplementsTimers, Timers!Spec

-----------------------------------------------------------------------------
(* The focus.  The two halves of setFocusedWidget() are calls on the       *)
(* stack.  The invariant says what may be above the second half            *)
(* (GainIsLast) and above a startCursorBlinking() that waits for the focus *)
(* (BlinkIsFocused).                                                       *)

\* Nothing follows the second half of setFocusedWidget() before it is done,
\* but the onFocusChanged() of the widget that lost the focus.
GainIsLast(s) ==
    \A i \in 1 .. Len(s) :
        s[i].proc = "gain" =>
            i = Len(s) \/ (i = Len(s) - 1 /\ s[Len(s)].proc = "lost")

\* A TextInput is about to blink when it has the focus, or will have got it.
BlinkIsFocused(s, F) ==
    \A i \in 1 .. Len(s) :
        s[i].proc = "blink" =>
            /\ s[i].of \in TextInputs
            /\ \/ i = Len(s) /\ s[i].of \in F
               \/ /\ i < Len(s) /\ s[i + 1].proc \in {"lose", "gain"}
                  /\ s[i + 1].of = s[i].of

Gains(s) == \E i \in 1 .. Len(s) : s[i].proc = "gain"

FocusedBlinks == blinking \cap alive = isFocused \cap TextInputs \cap alive

Typed ==
    /\ focusedWidget \in Widgets \cup {NoWidget}
    /\ isFocused \subseteq Widgets /\ blinking \subseteq TextInputs
    /\ interactive \subseteq Widgets /\ alive \subseteq Widgets
    /\ stack \in Seq(Calls)

Inv ==
    /\ Typed
    /\ FocusAgrees
    /\ FocusedBlinks
    /\ GainIsLast(stack)
    /\ BlinkIsFocused(stack, isFocused)
    /\ Gains(stack) => isFocused \cap alive = {}
    /\ ~Gains(stack) /\ lock # NoWidget => lock \in isFocused

-----------------------------------------------------------------------------
(* The stack *)

LEMMA CallFields ==
    ASSUME NEW p, NEW w
    PROVE  Call(p, w).proc = p /\ Call(p, w).of = w
BY DEF Call

LEMMA TopIsCall ==
    ASSUME Typed, stack # << >>
    PROVE  /\ Len(stack) \in Nat \ {0} /\ Top = stack[Len(stack)]
           /\ Top \in Calls
<1>1. stack \in Seq(Calls)
  BY DEF Typed
<1>2. Len(stack) \in Nat \ {0}
  BY <1>1
<1>3. Top = stack[Len(stack)]
  BY DEF Top, Last
<1> QED
  BY <1>1, <1>2, <1>3

\* What is left of the stack when the innermost call ends or goes on.
LEMMA Continues ==
    ASSUME Typed, stack # << >>, NEW cs \in Seq(Calls), Continue(cs)
    PROVE  /\ stack' \in Seq(Calls)
           /\ Len(stack') = Len(stack) - 1 + Len(cs)
           /\ \A i \in 1 .. Len(stack) - 1 : stack'[i] = stack[i]
           /\ \A i \in 1 .. Len(cs) : stack'[Len(stack) - 1 + i] = cs[i]
<1>1. stack \in Seq(Calls) /\ Len(stack) \in Nat /\ Len(stack) > 0
  BY TopIsCall DEF Typed
<1> DEFINE n == Len(stack) - 1
<1>2. n \in Nat /\ \A i \in 1 .. n : i \in 1 .. Len(stack)
  BY <1>1
<1>3. \A i \in 1 .. n : stack[i] \in Calls
  BY <1>1, <1>2
<1>4. PICK front : front = SubSeq(stack, 1, n)
  OBVIOUS
<1>5. /\ front \in Seq(Calls)
      /\ Len(front) = IF 1 <= n THEN n - 1 + 1 ELSE 0
      /\ \A i \in 1 .. n - 1 + 1 : front[i] = stack[1 + i - 1]
  <2> HIDE DEF n
  <2> QED
    BY <1>2, <1>3, <1>4, SubSeqProperties
<1> HIDE DEF n
<1>6. Len(front) = n /\ \A i \in 1 .. n : front[i] = stack[i]
  BY <1>2, <1>5
<1>7. stack' = front \o cs
  BY <1>4 DEF Continue, Front, n
<1>8. /\ stack' \in Seq(Calls) /\ Len(stack') = Len(front) + Len(cs)
      /\ \A i \in 1 .. Len(front) + Len(cs) :
             stack'[i] = IF i <= Len(front) THEN front[i]
                         ELSE cs[i - Len(front)]
  BY <1>5, <1>7, ConcatProperties
<1>9. Len(cs) \in Nat
  OBVIOUS
<1>10. \A i \in 1 .. n : stack'[i] = stack[i]
  BY <1>2, <1>6, <1>8, <1>9
<1>11. \A i \in 1 .. Len(cs) : stack'[n + i] = cs[i]
  BY <1>2, <1>6, <1>8, <1>9
<1> QED
  BY <1>6, <1>8, <1>10, <1>11 DEF n

LEMMA Pushes ==
    ASSUME Typed, NEW cs \in Seq(Calls), Push(cs)
    PROVE  /\ stack' \in Seq(Calls)
           /\ Len(stack') = Len(stack) + Len(cs)
           /\ \A i \in 1 .. Len(stack) : stack'[i] = stack[i]
           /\ \A i \in 1 .. Len(cs) : stack'[Len(stack) + i] = cs[i]
<1>1. stack \in Seq(Calls) /\ stack' = stack \o cs
  BY DEF Typed, Push
<1>2. /\ stack' \in Seq(Calls) /\ Len(stack') = Len(stack) + Len(cs)
      /\ \A i \in 1 .. Len(stack) + Len(cs) :
             stack'[i] = IF i <= Len(stack) THEN stack[i]
                         ELSE cs[i - Len(stack)]
  BY <1>1, ConcatProperties
<1>3. Len(stack) \in Nat /\ Len(cs) \in Nat
  BY <1>1
<1> QED
  BY <1>2, <1>3

-----------------------------------------------------------------------------
(* What the steps do to the calls in progress *)

\* A call ends that was none of setFocusedWidget()'s halves.
LEMMA EndKeepsShape ==
    ASSUME Inv, stack # << >>, Top.proc \notin {"lose", "gain"},
           Continue(<< >>)
    PROVE  /\ stack' \in Seq(Calls)
           /\ GainIsLast(stack') /\ BlinkIsFocused(stack', isFocused)
           /\ Gains(stack') <=> Gains(stack)
<1>1. PICK n : n = Len(stack)
  OBVIOUS
<1>2. n \in Nat \ {0} /\ Top = stack[n] /\ Typed
  BY <1>1, TopIsCall DEF Inv
<1>3. /\ stack' \in Seq(Calls) /\ Len(stack') = n - 1
      /\ \A i \in 1 .. n - 1 : stack'[i] = stack[i]
  <2>1. << >> \in Seq(Calls) /\ Len(<< >>) = 0
    OBVIOUS
  <2>2. /\ stack' \in Seq(Calls) /\ Len(stack') = n - 1 + 0
        /\ \A i \in 1 .. n - 1 : stack'[i] = stack[i]
    BY <1>1, <1>2, <2>1, Continues
  <2> QED
    BY <1>2, <2>2
<1>4. GainIsLast(stack) /\ BlinkIsFocused(stack, isFocused)
  BY DEF Inv
<1>5. GainIsLast(stack')
  BY <1>1, <1>2, <1>3, <1>4 DEF GainIsLast
<1>6. ASSUME NEW i \in 1 .. n - 1, stack'[i].proc = "blink"
      PROVE  /\ stack'[i].of \in TextInputs
             /\ i < n - 1 /\ stack'[i + 1].proc \in {"lose", "gain"}
             /\ stack'[i + 1].of = stack'[i].of
  <2>1. i \in 1 .. n /\ i # n /\ stack[i].proc = "blink"
    BY <1>2, <1>3, <1>6
  <2>2. /\ stack[i].of \in TextInputs
        /\ stack[i + 1].proc \in {"lose", "gain"}
        /\ stack[i + 1].of = stack[i].of
    BY <1>1, <1>4, <2>1 DEF BlinkIsFocused
  <2>3. i + 1 # n
    BY <1>2, <2>2
  <2>4. i + 1 \in 1 .. n - 1
    BY <1>2, <2>1, <2>3
  <2> QED
    BY <1>2, <1>3, <2>2, <2>4
<1>7. BlinkIsFocused(stack', isFocused)
  BY <1>3, <1>6 DEF BlinkIsFocused
<1>8. Gains(stack') <=> Gains(stack)
  BY <1>1, <1>2, <1>3 DEF Gains
<1> QED
  BY <1>3, <1>5, <1>7, <1>8

\* User code runs: no second half of setFocusedWidget() is in progress.
LEMMA UserCodeIsBetween ==
    ASSUME Inv, "lost" \notin UserCodeIn, UserCodeRuns
    PROVE  /\ ~Gains(stack)
           /\ stack # << >> => Top.proc \in {"handlers", "gained"}
<1>1. CASE stack = << >>
  BY <1>1 DEF Gains
<1>2. CASE stack # << >>
  <2>1. Top.proc \in {"handlers", "gained"}
    BY <1>2 DEF UserCodeRuns, InUserCode
  <2>2. Len(stack) \in Nat \ {0} /\ Top = stack[Len(stack)]
    BY <1>2, TopIsCall DEF Inv
  <2> QED
    BY <2>1, <2>2 DEF Inv, Gains, GainIsLast
<1> QED
  BY <1>1, <1>2

\* One half is called: it is the only call that is new, or a
\* startCursorBlinking() waits for it.
LEMMA CallKeepsShape ==
    ASSUME Inv, "lost" \notin UserCodeIn, UserCodeRuns,
           NEW cs \in Seq(Calls), Push(cs),
           BlinkIsFocused(cs, isFocused), ~Gains(cs)
    PROVE  /\ stack' \in Seq(Calls)
           /\ GainIsLast(stack') /\ BlinkIsFocused(stack', isFocused)
           /\ ~Gains(stack')
<1>1. PICK n, m : n = Len(stack) /\ m = Len(cs)
  OBVIOUS
<1>2. n \in Nat /\ m \in Nat /\ stack \in Seq(Calls) /\ Typed
  BY <1>1 DEF Inv, Typed
<1>3. /\ stack' \in Seq(Calls) /\ Len(stack') = n + m
      /\ \A i \in 1 .. n : stack'[i] = stack[i]
      /\ \A i \in 1 .. m : stack'[n + i] = cs[i]
  BY <1>1, <1>2, Pushes
<1>4. \A i \in 1 .. n + m : i \notin 1 .. n => i - n \in 1 .. m /\ i = n + (i - n)
  BY <1>2
<1>5. ~Gains(stack)
  BY UserCodeIsBetween
<1>6. ~Gains(stack')
  <2>1. ASSUME NEW i \in 1 .. n + m, stack'[i].proc = "gain" PROVE FALSE
    <3>1. CASE i \in 1 .. n
      BY <1>1, <1>3, <1>5, <2>1, <3>1 DEF Gains
    <3>2. CASE i \notin 1 .. n
      <4>1. PICK j \in 1 .. m : i = n + j
        BY <1>4, <3>2
      <4> QED
        BY <1>1, <1>3, <2>1, <4>1 DEF Gains
    <3> QED
      BY <3>1, <3>2
  <2> QED
    BY <1>3, <2>1 DEF Gains
<1>7. GainIsLast(stack')
  BY <1>6 DEF Gains, GainIsLast
<1>8. ASSUME NEW i \in 1 .. n + m, stack'[i].proc = "blink"
      PROVE  /\ stack'[i].of \in TextInputs
             /\ \/ i = n + m /\ stack'[i].of \in isFocused
                \/ /\ i < n + m /\ stack'[i + 1].proc \in {"lose", "gain"}
                   /\ stack'[i + 1].of = stack'[i].of
  <2>1. CASE i \in 1 .. n
    <3>1. stack[i].proc = "blink" /\ stack'[i] = stack[i]
      BY <1>3, <1>8, <2>1
    <3>2. stack # << >> /\ stack[n].proc \in {"handlers", "gained"}
      BY <1>1, <1>2, <2>1, UserCodeIsBetween, TopIsCall
    <3>3. i # n
      BY <3>1, <3>2
    <3>4. i + 1 \in 1 .. n /\ i < n + m
      BY <1>2, <2>1, <3>3
    <3>5. /\ stack[i].of \in TextInputs
          /\ stack[i + 1].proc \in {"lose", "gain"}
          /\ stack[i + 1].of = stack[i].of
      BY <1>1, <2>1, <3>1, <3>3 DEF Inv, BlinkIsFocused
    <3> QED
      BY <1>3, <3>1, <3>4, <3>5
  <2>2. CASE i \notin 1 .. n
    <3>1. PICK j \in 1 .. m : i = n + j
      BY <1>4, <2>2
    <3>2. cs[j].proc = "blink" /\ stack'[i] = cs[j]
      BY <1>3, <1>8, <3>1
    <3>3. /\ cs[j].of \in TextInputs
          /\ \/ j = m /\ cs[j].of \in isFocused
             \/ /\ j < m /\ cs[j + 1].proc \in {"lose", "gain"}
                /\ cs[j + 1].of = cs[j].of
      BY <1>1, <3>2 DEF BlinkIsFocused
    <3>4. CASE j = m
      BY <1>2, <3>1, <3>2, <3>3, <3>4
    <3>5. CASE j < m
      <4>1. j + 1 \in 1 .. m /\ i + 1 = n + (j + 1) /\ i < n + m
        BY <1>2, <3>1, <3>5
      <4>2. stack'[i + 1] = cs[j + 1]
        BY <1>3, <4>1
      <4> QED
        BY <3>2, <3>3, <3>5, <4>1, <4>2
    <3> QED
      BY <1>2, <3>1, <3>4, <3>5
  <2> QED
    BY <2>1, <2>2
<1>9. BlinkIsFocused(stack', isFocused)
  BY <1>3, <1>8 DEF BlinkIsFocused
<1> QED
  BY <1>3, <1>6, <1>7, <1>9

\* The first half goes on with the second, after the onFocusChanged() of the
\* widget that lost the focus, if that is user code.
LEMMA LoseKeepsShape ==
    ASSUME Inv, InCall("lose"), NEW F, NEW x \in Calls,
           x.proc = "gain", x.of = Top.of, NEW y \in Calls, y.proc = "lost",
           Continue(<< x >>) \/ Continue(<< x >> \o << y >>)
    PROVE  /\ stack' \in Seq(Calls)
           /\ GainIsLast(stack') /\ BlinkIsFocused(stack', F)
           /\ Gains(stack')
<1>1. PICK n : n = Len(stack)
  OBVIOUS
<1>2. n \in Nat \ {0} /\ Top = stack[n] /\ Typed /\ stack # << >>
  BY <1>1, TopIsCall DEF Inv, InCall
<1>3. PICK cs \in Seq(Calls) :
          /\ Continue(cs) /\ cs[1] = x
          /\ Len(cs) = 1 \/ (Len(cs) = 2 /\ cs[2] = y)
  <2>1. CASE Continue(<< x >>)
    <3>1. << x >> \in Seq(Calls) /\ Len(<< x >>) = 1 /\ << x >>[1] = x
      OBVIOUS
    <3> QED
      BY <2>1, <3>1
  <2>2. CASE Continue(<< x >> \o << y >>)
    <3>1. PICK p, q : p = << x >> /\ q = << y >>
      OBVIOUS
    <3>2. /\ p \in Seq(Calls) /\ Len(p) = 1 /\ p[1] = x
          /\ q \in Seq(Calls) /\ Len(q) = 1 /\ q[1] = y
      BY <3>1
    <3>3. /\ p \o q \in Seq(Calls) /\ Len(p \o q) = 2
          /\ (p \o q)[1] = x /\ (p \o q)[2] = y
      BY <3>2, ConcatProperties
    <3> QED
      BY <2>2, <3>1, <3>3
  <2> QED
    BY <2>1, <2>2
<1>4. PICK m : m = Len(cs)
  OBVIOUS
<1>5. /\ cs[1] = x
      /\ m = 1 \/ (m = 2 /\ cs[2] = y)
  BY <1>3, <1>4
<1>6. /\ stack' \in Seq(Calls) /\ Len(stack') = n - 1 + m
      /\ \A i \in 1 .. n - 1 : stack'[i] = stack[i]
      /\ \A i \in 1 .. m : stack'[n - 1 + i] = cs[i]
  BY <1>1, <1>2, <1>3, <1>4, Continues
<1>7. stack'[n] = x /\ (m = 2 => stack'[n + 1] = y)
  <2>1. stack'[n - 1 + 1] = x
    BY <1>5, <1>6
  <2>2. m = 2 => stack'[n - 1 + 2] = y
    BY <1>5, <1>6
  <2>3. n - 1 + 1 = n /\ n - 1 + 2 = n + 1
    BY <1>2
  <2> QED
    BY <2>1, <2>2, <2>3
<1>8. ASSUME NEW i \in 1 .. n - 1 PROVE stack[i].proc # "gain"
  <2>1. i \in 1 .. n /\ i # n /\ stack[n].proc = "lose"
    BY <1>2, <1>8 DEF InCall
  <2> QED
    BY <1>1, <2>1 DEF Inv, GainIsLast
<1>9. GainIsLast(stack')
  <2>1. ASSUME NEW i \in 1 .. Len(stack'), stack'[i].proc = "gain"
        PROVE  i = n
    <3>1. i \notin 1 .. n - 1
      BY <1>6, <1>8, <2>1
    <3>2. i = n \/ (m = 2 /\ i = n + 1)
      BY <1>2, <1>5, <1>6, <3>1
    <3> QED
      BY <1>7, <2>1, <3>2
  <2>2. \/ Len(stack') = n
        \/ Len(stack') - 1 = n /\ stack'[Len(stack')].proc = "lost"
    BY <1>2, <1>5, <1>6, <1>7
  <2> QED
    BY <2>1, <2>2 DEF GainIsLast
<1>10. ASSUME NEW i \in 1 .. Len(stack'), stack'[i].proc = "blink"
       PROVE  /\ stack'[i].of \in TextInputs /\ i < Len(stack')
              /\ stack'[i + 1].proc \in {"lose", "gain"}
              /\ stack'[i + 1].of = stack'[i].of
  <2>1. i \in 1 .. n - 1
    <3>1. i \in 1 .. n - 1 \/ i = n \/ (m = 2 /\ i = n + 1)
      BY <1>2, <1>5, <1>6
    <3> QED
      BY <1>7, <1>10, <3>1
  <2>2. stack[i].proc = "blink" /\ i \in 1 .. n /\ i # n
    BY <1>2, <1>6, <1>10, <2>1
  <2>3. /\ stack[i].of \in TextInputs
        /\ stack[i + 1].proc \in {"lose", "gain"}
        /\ stack[i + 1].of = stack[i].of
    BY <1>1, <2>2 DEF Inv, BlinkIsFocused
  <2>4. CASE i + 1 = n
    BY <1>2, <1>5, <1>6, <1>7, <2>1, <2>3, <2>4
  <2>5. CASE i + 1 # n
    <3>1. i + 1 \in 1 .. n - 1 /\ i < Len(stack')
      BY <1>2, <1>5, <1>6, <2>1, <2>5
    <3> QED
      BY <1>6, <2>1, <2>3, <3>1
  <2> QED
    BY <2>4, <2>5
<1>11. BlinkIsFocused(stack', F)
  BY <1>10 DEF BlinkIsFocused
<1>12. Gains(stack')
  <2>1. n \in 1 .. Len(stack')
    BY <1>2, <1>5, <1>6
  <2> QED
    BY <1>7, <2>1 DEF Gains
<1> QED
  BY <1>6, <1>9, <1>11, <1>12

\* The second half ends, or calls onFocusChanged() of a user's widget.
LEMMA GainKeepsShape ==
    ASSUME Inv, InCall("gain"), NEW F, NEW y \in Calls, y.proc = "gained",
           \/ Continue(<< >>) /\ (Top.of \in TextInputs => Top.of \in F)
           \/ Continue(<< y >>) /\ Top.of \notin TextInputs
    PROVE  /\ stack' \in Seq(Calls)
           /\ GainIsLast(stack') /\ BlinkIsFocused(stack', F)
           /\ ~Gains(stack')
<1>1. PICK n : n = Len(stack)
  OBVIOUS
<1>2. n \in Nat \ {0} /\ Top = stack[n] /\ Typed /\ stack # << >>
  BY <1>1, TopIsCall DEF Inv, InCall
<1>3. PICK cs \in Seq(Calls) :
          /\ Continue(cs)
          /\ \/ cs = << >> /\ (Top.of \in TextInputs => Top.of \in F)
             \/ cs = << y >> /\ Top.of \notin TextInputs
  <2>1. << >> \in Seq(Calls) /\ << y >> \in Seq(Calls)
    OBVIOUS
  <2> QED
    BY <2>1
<1>4. PICK m : m = Len(cs)
  OBVIOUS
<1>5. m = 0 \/ (m = 1 /\ cs[1] = y)
  BY <1>3, <1>4
<1>6. /\ stack' \in Seq(Calls) /\ Len(stack') = n - 1 + m
      /\ \A i \in 1 .. n - 1 : stack'[i] = stack[i]
      /\ \A i \in 1 .. m : stack'[n - 1 + i] = cs[i]
  BY <1>1, <1>2, <1>3, <1>4, Continues
<1>7. m = 1 => stack'[n] = y
  <2>1. m = 1 => stack'[n - 1 + 1] = y
    BY <1>5, <1>6
  <2>2. n - 1 + 1 = n
    BY <1>2
  <2> QED
    BY <2>1, <2>2
<1>8. ASSUME NEW i \in 1 .. n - 1 PROVE stack[i].proc # "gain"
  <2>1. i \in 1 .. n /\ i # n /\ stack[n].proc = "gain"
    BY <1>2, <1>8 DEF InCall
  <2> QED
    BY <1>1, <2>1 DEF Inv, GainIsLast
<1>9. ASSUME NEW i \in 1 .. Len(stack')
      PROVE  i \in 1 .. n - 1 \/ (i = n /\ m = 1)
  BY <1>2, <1>5, <1>6
<1>10. ~Gains(stack')
  <2>1. ASSUME NEW i \in 1 .. Len(stack'), stack'[i].proc = "gain"
        PROVE  FALSE
    BY <1>6, <1>7, <1>8, <1>9, <2>1
  <2> QED
    BY <2>1 DEF Gains
<1>11. GainIsLast(stack')
  BY <1>10 DEF Gains, GainIsLast
<1>12. ASSUME NEW i \in 1 .. Len(stack'), stack'[i].proc = "blink"
       PROVE  /\ stack'[i].of \in TextInputs
              /\ \/ i = Len(stack') /\ stack'[i].of \in F
                 \/ /\ i < Len(stack')
                    /\ stack'[i + 1].proc \in {"lose", "gain"}
                    /\ stack'[i + 1].of = stack'[i].of
  <2>1. i \in 1 .. n - 1
    BY <1>7, <1>9, <1>12
  <2>2. stack[i].proc = "blink" /\ i \in 1 .. n /\ i # n
    BY <1>2, <1>6, <1>12, <2>1
  <2>3. /\ stack[i].of \in TextInputs
        /\ stack[i + 1].proc \in {"lose", "gain"}
        /\ stack[i + 1].of = stack[i].of
    BY <1>1, <2>2 DEF Inv, BlinkIsFocused
  <2>4. CASE i + 1 = n
    <3>1. Top.of \in TextInputs
      BY <1>2, <2>3, <2>4
    <3>2. cs = << >> /\ Top.of \in F
      BY <1>3, <3>1
    <3>3. m = 0 /\ i = Len(stack')
      BY <1>2, <1>4, <1>6, <2>1, <2>4, <3>2
    <3> QED
      BY <1>2, <1>6, <2>1, <2>3, <2>4, <3>2, <3>3
  <2>5. CASE i + 1 # n
    <3>1. i + 1 \in 1 .. n - 1 /\ i < Len(stack')
      BY <1>2, <1>5, <1>6, <2>1, <2>5
    <3> QED
      BY <1>6, <2>1, <2>3, <3>1
  <2> QED
    BY <2>4, <2>5
<1>13. BlinkIsFocused(stack', F)
  BY <1>12 DEF BlinkIsFocused
<1> QED
  BY <1>6, <1>10, <1>11, <1>13

-----------------------------------------------------------------------------
(* The steps *)

LEMMA CallsAreQuiet ==
    /\ \A w \in Widgets \cup {NoWidget} :
           LET cs == << Call("lose", w) >>
           IN  cs \in Seq(Calls) /\ BlinkIsFocused(cs, isFocused) /\ ~Gains(cs)
    /\ \A t \in TextInputs :
           LET cs == CursorCalls(t)
           IN  cs \in Seq(Calls) /\ BlinkIsFocused(cs, isFocused) /\ ~Gains(cs)
<1>1. ASSUME NEW w \in Widgets \cup {NoWidget}
      PROVE  /\ << Call("lose", w) >> \in Seq(Calls)
             /\ BlinkIsFocused(<< Call("lose", w) >>, isFocused)
             /\ ~Gains(<< Call("lose", w) >>)
  <2>1. PICK c : c = Call("lose", w)
    OBVIOUS
  <2>2. c \in Calls /\ c.proc = "lose"
    BY <2>1 DEF Call, Calls
  <2>3. PICK cs : cs = << c >>
    OBVIOUS
  <2>4. cs \in Seq(Calls) /\ Len(cs) = 1 /\ cs[1] = c
    BY <2>2, <2>3
  <2> QED
    BY <2>1, <2>2, <2>3, <2>4 DEF BlinkIsFocused, Gains
<1>2. ASSUME NEW t \in TextInputs
      PROVE  /\ CursorCalls(t) \in Seq(Calls)
             /\ BlinkIsFocused(CursorCalls(t), isFocused)
             /\ ~Gains(CursorCalls(t))
  <2>1. PICK c, d : c = Call("blink", t) /\ d = Call("lose", t)
    OBVIOUS
  <2>2. t \in Widgets
    BY FocusAssumption
  <2>3. /\ c \in Calls /\ c.proc = "blink" /\ c.of = t
        /\ d \in Calls /\ d.proc = "lose" /\ d.of = t
    BY <2>1, <2>2 DEF Call, Calls
  <2>4. PICK cs : cs = CursorCalls(t)
    OBVIOUS
  <2>5. CASE t \in isFocused
    <3>1. cs = << c >>
      BY <2>1, <2>4, <2>5 DEF CursorCalls
    <3>2. cs \in Seq(Calls) /\ Len(cs) = 1 /\ cs[1] = c
      BY <2>3, <3>1
    <3> QED
      BY <2>3, <2>4, <2>5, <3>2 DEF BlinkIsFocused, Gains
  <2>6. CASE t \notin isFocused
    <3>1. cs = << c, d >>
      BY <2>1, <2>4, <2>6 DEF CursorCalls
    <3>2. cs \in Seq(Calls) /\ Len(cs) = 2 /\ cs[1] = c /\ cs[2] = d
      BY <2>3, <3>1
    <3>3. \A i \in 1 .. Len(cs) : i = 1 \/ i = 2
      BY <3>2
    <3> QED
      BY <2>3, <2>4, <3>2, <3>3 DEF BlinkIsFocused, Gains
  <2> QED
    BY <2>4, <2>5, <2>6
<1> QED
  BY <1>1, <1>2

\* Steps that only call, end user code, or change nothing that Inv is about.
LEMMA NewCallKeepsInv ==
    ASSUME Inv, Typed', UNCHANGED <<focusVars, alive>>,
           GainIsLast(stack'), BlinkIsFocused(stack', isFocused),
           Gains(stack') <=> Gains(stack)
    PROVE  Inv'
BY DEF Inv, FocusAgrees, FocusedBlinks, focusVars, lock

LEMMA UserCodeKeepsInv ==
    ASSUME Inv, "lost" \notin UserCodeIn, UserCode
    PROVE  Inv'
<1>1. UserCodeRuns /\ UNCHANGED <<focusVars, keyAt>> /\ Typed
  BY DEF UserCode, UserCall, focus, unfocus, setCursorIndex, setInteractive,
         destroy, Inv
<1>2. ~Gains(stack)
  BY <1>1, UserCodeIsBetween
<1>3. ASSUME NEW cs \in Seq(Calls), Push(cs), UNCHANGED <<interactive, alive>>,
             BlinkIsFocused(cs, isFocused), ~Gains(cs)
      PROVE  Inv'
  <2>1. /\ stack' \in Seq(Calls)
        /\ GainIsLast(stack') /\ BlinkIsFocused(stack', isFocused)
        /\ ~Gains(stack')
    BY <1>1, <1>3, CallKeepsShape
  <2>2. Typed'
    BY <1>1, <1>3, <2>1 DEF Typed, focusVars
  <2> QED
    BY <1>1, <1>2, <1>3, <2>1, <2>2, NewCallKeepsInv
<1>4. ASSUME NEW w \in Widgets, focus(w) \/ unfocus(w)
      PROVE  Inv'
  <2>1. PICK v \in Widgets \cup {NoWidget} :
            Push(<< Call("lose", v) >>) /\ UNCHANGED <<interactive, alive>>
    BY <1>4 DEF focus, unfocus
  <2> QED
    BY <1>3, <2>1, CallsAreQuiet
<1>5. ASSUME NEW t \in Widgets, setCursorIndex(t)
      PROVE  Inv'
  <2>1. /\ t \in TextInputs /\ Push(CursorCalls(t))
        /\ UNCHANGED <<interactive, alive>>
    BY <1>5 DEF setCursorIndex
  <2> QED
    BY <1>3, <2>1, CallsAreQuiet
<1>6. ASSUME NEW w \in Widgets, setInteractive(w)
      PROVE  Inv'
  <2>1. UNCHANGED <<focusVars, alive, stack, keyAt>>
    BY <1>6 DEF setInteractive, UserCall
  <2>2. interactive' \subseteq Widgets
    BY <1>1, <1>6 DEF setInteractive, Typed
  <2>3. Typed'
    BY <1>1, <2>1, <2>2 DEF Typed, focusVars
  <2> QED
    BY <2>1, <2>3, NewCallKeepsInv DEF Inv
<1>7. ASSUME NEW w \in Widgets, destroy(w)
      PROVE  Inv'
  <2>1. UNCHANGED <<focusVars, stack, interactive, keyAt>> /\ alive' = alive \ {w}
    BY <1>7 DEF destroy, UserCall
  <2>2. Typed'
    BY <1>1, <2>1 DEF Typed, focusVars
  <2>3. lock' # NoWidget => lock' = lock
    BY <2>1 DEF lock, focusVars
  <2> QED
    BY <1>2, <2>1, <2>2, <2>3
       DEF Inv, FocusAgrees, FocusedBlinks, focusVars
<1> QED
  BY <1>4, <1>5, <1>6, <1>7 DEF UserCode

LEMMA LoseKeepsInv ==
    ASSUME Inv, Lose
    PROVE  Inv'
<1>1. /\ InCall("lose") /\ Typed /\ stack # << >>
      /\ UNCHANGED <<focusedWidget, interactive, alive, keyAt>>
  BY DEF Lose, Inv, InCall
<1>2. PICK x : x = Call("gain", Top.of)
  OBVIOUS
<1>3. x \in Calls /\ x.proc = "gain" /\ x.of = Top.of
  BY <1>1, <1>2, TopIsCall DEF Call, Calls
<1>4. lock \in Widgets \cup {NoWidget} /\ (lock # NoWidget => lock \in alive)
  BY <1>1 DEF Typed, lock
<1>5. PICK y : y = Call("lost", lock)
  OBVIOUS
<1>6. y \in Calls /\ y.proc = "lost"
  BY <1>4, <1>5 DEF Call, Calls
<1>7. /\ Continue(<< x >>) \/ Continue(<< x >> \o << y >>)
      /\ isFocused' = isFocused \ {lock}
      /\ blinking' \subseteq TextInputs
      /\ blinking' = IF lock \in TextInputs THEN blinking \ {lock} ELSE blinking
  <2>1. CASE lock = NoWidget
    <3>1. NoWidget \notin isFocused /\ NoWidget \notin TextInputs
      BY <1>1, FocusAssumption DEF Typed
    <3> QED
      BY <1>1, <1>2, <2>1, <3>1 DEF Lose, Typed
  <2>2. CASE lock # NoWidget
    BY <1>1, <1>2, <1>5, <2>2 DEF Lose, FocusChanged, Typed
  <2> QED
    BY <2>1, <2>2
<1>8. /\ stack' \in Seq(Calls)
      /\ GainIsLast(stack') /\ BlinkIsFocused(stack', isFocused')
      /\ Gains(stack')
  BY <1>1, <1>3, <1>6, <1>7, LoseKeepsShape
<1>9. Typed'
  BY <1>1, <1>7, <1>8 DEF Typed
<1>10. isFocused' \cap alive = {}
  BY <1>1, <1>7, FocusAssumption DEF Inv, FocusAgrees, lock, Typed
<1>11. blinking' \cap alive = isFocused' \cap TextInputs \cap alive
  BY <1>7 DEF Inv, FocusedBlinks
<1> QED
  BY <1>1, <1>8, <1>9, <1>10, <1>11 DEF Inv, FocusAgrees, FocusedBlinks

LEMMA GainKeepsInv ==
    ASSUME Inv, Gain
    PROVE  Inv'
<1>1. /\ InCall("gain") /\ Typed /\ stack # << >>
      /\ UNCHANGED <<interactive, alive, keyAt>> /\ focusedWidget' = Top.of
  BY DEF Gain, Inv, InCall
<1>2. Len(stack) \in 1 .. Len(stack) /\ Top = stack[Len(stack)] /\ Top \in Calls
  BY <1>1, TopIsCall
<1>3. Top.of \in Widgets \cup {NoWidget}
  BY <1>2 DEF Calls
<1>4. isFocused \cap alive = {}
  BY <1>1, <1>2 DEF Inv, Gains, InCall
<1>5. PICK y : y = Call("gained", Top.of)
  OBVIOUS
<1>6. y \in Calls /\ y.proc = "gained"
  BY <1>3, <1>5 DEF Call, Calls
<1>7. NoWidget \notin TextInputs /\ NoWidget \notin Widgets
  BY FocusAssumption
<1>8. /\ isFocused' = isFocused \cup ({Top.of} \ {NoWidget})
      /\ blinking' = IF Top.of \in TextInputs THEN blinking \cup {Top.of}
                     ELSE blinking
      /\ \/ Continue(<< >>) /\ (Top.of \in TextInputs => Top.of \in isFocused')
         \/ Continue(<< y >>) /\ Top.of \notin TextInputs
  <2>1. CASE Top.of = NoWidget
    BY <1>7, <2>1 DEF Gain
  <2>2. CASE Top.of # NoWidget /\ Top.of \in TextInputs
    BY <2>2 DEF Gain, FocusChanged
  <2>3. CASE Top.of # NoWidget /\ Top.of \notin TextInputs
    <3>1. PICK z : z = << y >>
      OBVIOUS
    <3>2. << >> \o z = z
      BY <1>6, <3>1
    <3> QED
      BY <1>5, <2>3, <3>1, <3>2 DEF Gain, FocusChanged
  <2> QED
    BY <2>1, <2>2, <2>3
<1>9. /\ stack' \in Seq(Calls)
      /\ GainIsLast(stack') /\ BlinkIsFocused(stack', isFocused')
      /\ ~Gains(stack')
  BY <1>1, <1>6, <1>8, GainKeepsShape
<1>10. isFocused' \subseteq Widgets /\ blinking' \subseteq TextInputs
  BY <1>1, <1>3, <1>8 DEF Typed
<1>11. Typed'
  BY <1>1, <1>3, <1>9, <1>10 DEF Typed
<1>12. isFocused' \cap alive = {Top.of} \cap alive
  BY <1>1, <1>4, <1>7, <1>8 DEF Typed
<1>13. lock' # NoWidget => lock' \in isFocused'
  BY <1>1, <1>8 DEF lock
<1>14. blinking' \cap alive = isFocused' \cap TextInputs \cap alive
  BY <1>7, <1>8 DEF Inv, FocusedBlinks
<1> QED
  BY <1>1, <1>9, <1>11, <1>12, <1>13, <1>14
     DEF Inv, FocusAgrees, FocusedBlinks

LEMMA StepKeepsInv ==
    ASSUME Inv, [FocusNext]_callVars, "lost" \notin UserCodeIn
    PROVE  Inv'
<1>1. Typed
  BY DEF Inv
<1>2. ASSUME Blink PROVE Inv'
  <2>1. /\ stack # << >> /\ Top.proc = "blink" /\ Continue(<< >>)
        /\ UNCHANGED <<focusedWidget, isFocused, interactive, alive, keyAt>>
        /\ blinking' = blinking \cup {Top.of}
    BY <1>2 DEF Blink, InCall
  <2>2. Len(stack) \in Nat \ {0} /\ Top = stack[Len(stack)]
    BY <1>1, <2>1, TopIsCall
  <2>3. Top.of \in TextInputs \cap isFocused
    BY <2>1, <2>2 DEF Inv, BlinkIsFocused
  <2>4. /\ stack' \in Seq(Calls)
        /\ GainIsLast(stack') /\ BlinkIsFocused(stack', isFocused)
        /\ Gains(stack') <=> Gains(stack)
    BY <2>1, EndKeepsShape
  <2>5. blinking' \cap alive = blinking \cap alive
    BY <2>1, <2>3 DEF Inv, FocusedBlinks
  <2>6. Typed'
    BY <1>1, <2>1, <2>3, <2>4 DEF Typed
  <2>7. lock' = lock
    BY <2>1 DEF lock
  <2> QED
    BY <2>1, <2>4, <2>5, <2>6, <2>7 DEF Inv, FocusAgrees, FocusedBlinks
<1>3. ASSUME UserReturns PROVE Inv'
  <2>1. /\ stack # << >> /\ Top.proc \in {"handlers", "gained", "lost"}
        /\ Continue(<< >>) /\ UNCHANGED <<focusVars, interactive, alive>>
    BY <1>3 DEF UserReturns, InUserCode
  <2>2. /\ stack' \in Seq(Calls)
        /\ GainIsLast(stack') /\ BlinkIsFocused(stack', isFocused)
        /\ Gains(stack') <=> Gains(stack)
    BY <2>1, EndKeepsShape
  <2>3. Typed'
    BY <1>1, <2>1, <2>2 DEF Typed, focusVars
  <2> QED
    BY <2>1, <2>2, <2>3, NewCallKeepsInv
<1>4. ASSUME onKeyEvent \/ KeyPassed PROVE Inv'
  <2>1. UNCHANGED <<focusVars, interactive, alive, stack>>
    BY <1>4 DEF onKeyEvent, KeyPassed
  <2>2. Typed'
    BY <1>1, <2>1 DEF Typed, focusVars
  <2> QED
    BY <2>1, <2>2, NewCallKeepsInv DEF Inv
<1>5. ASSUME NEW cs \in Seq(Calls), stack = << >>, stack' = cs,
             BlinkIsFocused(cs, isFocused), ~Gains(cs),
             UNCHANGED <<focusVars, interactive, alive, keyAt>>
      PROVE  Inv'
  <2>1. ~Gains(stack)
    BY <1>5 DEF Gains
  <2>2. GainIsLast(cs)
    BY <1>5 DEF Gains, GainIsLast
  <2>3. Typed'
    BY <1>1, <1>5 DEF Typed, focusVars
  <2> QED
    BY <1>5, <2>1, <2>2, <2>3, NewCallKeepsInv
<1>6. ASSUME KeyHandled PROVE Inv'
  <2>1. PICK c : c = Call("handlers", keyAt)
    OBVIOUS
  <2>2. c \in Calls /\ c.proc = "handlers"
    BY <1>1, <1>6, <2>1 DEF KeyHandled, Call, Calls, Typed
  <2>3. PICK cs : cs = << c >>
    OBVIOUS
  <2>4. cs \in Seq(Calls) /\ Len(cs) = 1 /\ cs[1] = c
    BY <2>2, <2>3
  <2>5. BlinkIsFocused(cs, isFocused) /\ ~Gains(cs)
    BY <2>2, <2>4 DEF BlinkIsFocused, Gains
  <2> QED
    BY <1>5, <1>6, <2>1, <2>3, <2>4, <2>5 DEF KeyHandled
<1>7. ASSUME onCharacterInput PROVE Inv'
  BY <1>5, <1>7, CallsAreQuiet DEF onCharacterInput
<1>8. CASE UNCHANGED callVars
  <2>1. UNCHANGED <<focusVars, interactive, alive, stack>>
    BY <1>8 DEF callVars
  <2>2. Typed'
    BY <1>1, <2>1 DEF Typed, focusVars
  <2> QED
    BY <2>1, <2>2, NewCallKeepsInv DEF Inv
<1> QED
  BY <1>2, <1>3, <1>4, <1>6, <1>7, <1>8, UserCodeKeepsInv, LoseKeepsInv,
     GainKeepsInv DEF FocusNext

LEMMA SpecKeepsInv ==
    ASSUME "lost" \notin UserCodeIn
    PROVE  FocusSpec => []Inv
<1>1. FocusInit => Inv
  <2>1. << >> \in Seq(Calls) /\ Len(<< >>) = 0
    OBVIOUS
  <2> QED
    BY <2>1, FocusAssumption
       DEF FocusInit, Inv, Typed, FocusAgrees, FocusedBlinks, GainIsLast,
           BlinkIsFocused, Gains, lock
<1>2. Inv /\ [FocusNext]_callVars => Inv'
  BY StepKeepsInv
<1> QED
  BY <1>1, <1>2, PTL DEF FocusSpec

\* At any time, in the middle of a focus change too, a widget that takes
\* itself for focused is the one Morda knows, as unfocus() asserts
\* (Widget.cpp:323).
THEOREM FocusIsKnown ==
    ASSUME "lost" \notin UserCodeIn
    PROVE  FocusSpec => []FocusAgrees
<1>1. Inv => FocusAgrees
  BY DEF Inv
<1> QED
  BY <1>1, SpecKeepsInv, PTL

\* Between events Morda's focused widget knows of it, and the TextInput that
\* is focused, and no other one, blinks: setCursorIndex() starts to blink
\* after focus() returns, whatever happened in the meantime.
THEOREM OnlyFocusedBlinks ==
    ASSUME "lost" \notin UserCodeIn
    PROVE  FocusSpec => []FocusSettled
<1>1. Inv => FocusSettled
  BY DEF Inv, FocusSettled, FocusedBlinks, Gains
<1> QED
  BY <1>1, SpecKeepsInv, PTL

=============================================================================

--------------------------- MODULE WidgetProofs ---------------------------
(***************************************************************************)
(* Proofs about two widgets that add up the lengths of what they show.     *)
(*                                                                         *)
(* TextInput, for every font, text and width, as long as the program calls *)
(* setText() only while the cursor is before the first character: the      *)
(* cursor, the selection and the first visible character are indices of    *)
(* the text; both are drawn at their indices, in widgets that are as wide  *)
(* as the cursor; a press hits the nearest index.  And, whatever the       *)
(* program calls, modifier flags name keys that are down.                  *)
(*                                                                         *)
(* List, for every provider and items of any lengths: the state is typed,  *)
(* and, as long as no call scrolls past all the widgets, what the list     *)
(* shows are the provider's items, in order, in the widgets made for them, *)
(* and what it gives back is named by the index it was got for.  Of items  *)
(* of one length its widgets cover it, it scrolls to both ends, and it     *)
(* keeps the scroll factor, up to the rounding.                            *)
(*                                                                         *)
(* Positions are sums over the text or the items, so the module begins     *)
(* with an induction over numbers.                                         *)
(***************************************************************************)
EXTENDS TextInput, List, SequenceTheorems, FiniteSetTheorems,
        WellFoundedInduction, TLAPS

\* Induction, with the set of the numbers that have the property.
LEMMA Induction ==
    ASSUME NEW S, 0 \in S, \A n \in Nat : n \in S => n + 1 \in S
    PROVE  Nat \subseteq S
<1> SUFFICES ASSUME NEW k \in Nat, k \notin S PROVE FALSE
  OBVIOUS
<1> DEFINE T == {n \in Nat : n \notin S}
           R == OpToRel(<, Nat)
<1>1. T \subseteq Nat /\ T # {}
  OBVIOUS
<1>2. IsWellFoundedOn(R, Nat)
  BY NatLessThanWellFounded
<1>3. \A x, y \in Nat : y < x => <<y, x>> \in R
  BY DEF OpToRel
<1> HIDE DEF T, R
<1>4. PICK m \in T : \A y \in T : ~(<<y, m>> \in R)
  BY <1>1, <1>2, WFMin
<1>5. m \in Nat /\ m \notin S
  BY <1>4 DEF T
<1>6. m - 1 \in Nat /\ m - 1 < m
  BY <1>5
<1>7. m - 1 \notin T
  BY <1>3, <1>4, <1>5, <1>6
<1>8. m - 1 \in S
  BY <1>6, <1>7 DEF T
<1>9. QED
  BY <1>5, <1>6, <1>8

-----------------------------------------------------------------------------
(* The advance of a part of the text *)

\* f is the function that Advance(t, i, j) defines and takes the last value of.
IsSum(f, t, i, j) ==
    f = [k \in i .. j |-> IF k = i THEN 0 ELSE f[k - 1] + charAdvance[t[k]]]

Agree(s, t, i, j) == \A k \in i + 1 .. j : s[k] = t[k]

LEMMA SumExists ==
    ASSUME NEW t, NEW i \in Nat, NEW n \in Nat
    PROVE  \E f : IsSum(f, t, i, i + n)
<1> DEFINE S == {m \in Nat : \E f : IsSum(f, t, i, i + m)}
<1>1. 0 \in S
  <2> DEFINE f == [k \in i .. i + 0 |-> 0]
  <2>1. \A k \in i .. i + 0 : k = i
    OBVIOUS
  <2>2. IsSum(f, t, i, i + 0)
    BY <2>1 DEF IsSum
  <2>3. QED
    BY <2>2
<1>2. ASSUME NEW m \in Nat, m \in S PROVE m + 1 \in S
  <2>1. PICK f : IsSum(f, t, i, i + m)
    BY <1>2
  <2> DEFINE g == [k \in i .. i + (m + 1) |->
                      IF k = i + (m + 1)
                      THEN f[i + m] + charAdvance[t[k]] ELSE f[k]]
  <2>2. ASSUME NEW k \in i .. i + (m + 1)
        PROVE  g[k] = IF k = i THEN 0 ELSE g[k - 1] + charAdvance[t[k]]
    <3>1. CASE k = i + (m + 1)
      <4>1. k # i /\ k - 1 = i + m /\ k - 1 \in i .. i + (m + 1)
            /\ k - 1 # i + (m + 1)
        BY <3>1
      <4>2. g[k - 1] = f[i + m]
        BY <4>1
      <4>3. g[k] = f[i + m] + charAdvance[t[k]]
        BY <3>1
      <4>4. QED
        BY <4>1, <4>2, <4>3
    <3>2. CASE k # i + (m + 1)
      <4>1. k \in i .. i + m
        BY <3>2
      <4>2. g[k] = f[k]
        BY <3>2
      <4>3. f[k] = IF k = i THEN 0 ELSE f[k - 1] + charAdvance[t[k]]
        BY <2>1, <4>1 DEF IsSum
      <4>4. k # i => /\ k - 1 \in i .. i + (m + 1)
                     /\ k - 1 # i + (m + 1)
        BY <4>1
      <4>5. k # i => g[k - 1] = f[k - 1]
        BY <4>4
      <4>6. QED
        BY <4>2, <4>3, <4>5
    <3>3. QED
      BY <3>1, <3>2
  <2>3. IsSum(g, t, i, i + (m + 1))
    <3>1. g = [k \in i .. i + (m + 1) |-> g[k]]
      OBVIOUS
    <3> HIDE DEF g
    <3>2. QED
      BY <2>2, <3>1 DEF IsSum
  <2>4. QED
    BY <2>3
<1> HIDE DEF S
<1>3. n \in S
  BY <1>1, <1>2, Induction
<1>4. QED
  BY <1>3 DEF S

\* Two such functions agree as far as their texts do.
LEMMA SumsAgree ==
    ASSUME NEW s, NEW t, NEW i \in Nat, NEW m \in Nat, NEW n \in Nat,
           NEW f, IsSum(f, s, i, m), NEW g, IsSum(g, t, i, n),
           NEW j \in Nat, i <= j, j <= m, j <= n,
           Agree(s, t, i, j)
    PROVE  f[j] = g[j]
<1> DEFINE S == {d \in Nat : i + d <= j => f[i + d] = g[i + d]}
<1>1. 0 \in S
  <2>1. i \in i .. m /\ i \in i .. n /\ i + 0 = i
    OBVIOUS
  <2>2. f[i] = 0 /\ g[i] = 0
    BY <2>1 DEF IsSum
  <2>3. QED
    BY <2>1, <2>2
<1>2. ASSUME NEW d \in Nat, d \in S PROVE d + 1 \in S
  <2> SUFFICES ASSUME i + (d + 1) <= j
               PROVE  f[i + (d + 1)] = g[i + (d + 1)]
    OBVIOUS
  <2> DEFINE k == i + (d + 1)
  <2>1. /\ k \in i .. m /\ k \in i .. n /\ k # i /\ k - 1 = i + d
        /\ k \in i + 1 .. j
    OBVIOUS
  <2>2. f[i + d] = g[i + d]
    BY <1>2
  <2> HIDE DEF k
  <2>3. f[k] = f[k - 1] + charAdvance[s[k]]
    BY <2>1 DEF IsSum
  <2>4. g[k] = g[k - 1] + charAdvance[t[k]]
    BY <2>1 DEF IsSum
  <2>5. f[k] = g[k]
    BY <2>1, <2>2, <2>3, <2>4 DEF Agree
  <2>6. QED
    BY <2>5 DEF k
<1> HIDE DEF S
<1>3. j - i \in Nat /\ i + (j - i) = j
  OBVIOUS
<1>4. j - i \in S
  BY <1>1, <1>2, <1>3, Induction
<1>5. QED
  BY <1>3, <1>4 DEF S

LEMMA AdvanceIsSum ==
    ASSUME NEW t, NEW i \in Nat, NEW j \in Nat, i <= j
    PROVE  \E f : IsSum(f, t, i, j) /\ Advance(t, i, j) = f[j]
<1> DEFINE f == CHOOSE f : IsSum(f, t, i, j)
<1>1. Advance(t, i, j) = f[j]
  BY DEF Advance, IsSum
<1>2. j - i \in Nat /\ i + (j - i) = j
  OBVIOUS
<1>3. \E g : IsSum(g, t, i, j)
  BY <1>2, SumExists
<1>4. IsSum(f, t, i, j)
  BY <1>3
<1>5. QED
  BY <1>1, <1>4

LEMMA AdvanceOfNone ==
    ASSUME NEW t, NEW i \in Nat
    PROVE  Advance(t, i, i) = 0
<1>1. PICK f : IsSum(f, t, i, i) /\ Advance(t, i, i) = f[i]
  BY AdvanceIsSum
<1>2. QED
  BY <1>1 DEF IsSum

LEMMA AdvanceOfLast ==
    ASSUME NEW t, NEW i \in Nat, NEW j \in Nat, i <= j
    PROVE  Advance(t, i, j + 1) = Advance(t, i, j) + charAdvance[t[j + 1]]
<1>1. PICK f : IsSum(f, t, i, j) /\ Advance(t, i, j) = f[j]
  BY AdvanceIsSum
<1>2. PICK g : IsSum(g, t, i, j + 1) /\ Advance(t, i, j + 1) = g[j + 1]
  BY AdvanceIsSum
<1>3. f[j] = g[j]
  <2>1. PICK n \in Nat : n = j + 1
    OBVIOUS
  <2>2. IsSum(f, t, i, j) /\ IsSum(g, t, i, n) /\ j <= j /\ j <= n
    BY <1>1, <1>2, <2>1
  <2>3. Agree(t, t, i, j)
    BY DEF Agree
  <2>4. QED
    BY <2>2, <2>3, SumsAgree
<1>4. j + 1 \in i .. j + 1 /\ j + 1 # i /\ (j + 1) - 1 = j
  OBVIOUS
<1>5. g[j + 1] = g[j] + charAdvance[t[j + 1]]
  BY <1>2, <1>4 DEF IsSum
<1>6. QED
  BY <1>1, <1>2, <1>3, <1>5

\* Only the characters between the indices matter.
LEMMA AdvancesAgree ==
    ASSUME NEW s, NEW t, NEW i \in Nat, NEW j \in Nat, i <= j,
           Agree(s, t, i, j)
    PROVE  Advance(s, i, j) = Advance(t, i, j)
<1>1. PICK f : IsSum(f, s, i, j) /\ Advance(s, i, j) = f[j]
  BY AdvanceIsSum
<1>2. PICK g : IsSum(g, t, i, j) /\ Advance(t, i, j) = g[j]
  BY AdvanceIsSum
<1>3. IsSum(f, s, i, j) /\ IsSum(g, t, i, j) /\ j <= j
  BY <1>1, <1>2
<1>4. f[j] = g[j]
  BY <1>3, SumsAgree
<1>5. QED
  BY <1>1, <1>2, <1>4

\* The text does not go back.
LEMMA AdvanceGrows ==
    ASSUME NEW t \in Seq(Chars), NEW i \in Nat, NEW j \in Nat, i <= j,
           NEW k \in Nat, j <= k, k <= Len(t)
    PROVE  /\ Advance(t, i, j) \in Nat /\ Advance(t, i, k) \in Nat
           /\ Advance(t, i, j) <= Advance(t, i, k)
<1>1. \A n \in Nat : n < Len(t) => charAdvance[t[n + 1]] \in Nat
  <2> SUFFICES ASSUME NEW n \in Nat, n < Len(t)
               PROVE  charAdvance[t[n + 1]] \in Nat
    OBVIOUS
  <2>1. n + 1 \in 1 .. Len(t) /\ Len(t) \in Nat
    BY LenProperties
  <2>2. t[n + 1] \in Chars
    BY <2>1
  <2>3. QED
    BY <2>2, TextInputAssumption DEF TextInputAssumption
<1>2. \A n, m \in Nat : i <= n /\ n + m <= Len(t) /\ Advance(t, i, n) \in Nat
          => /\ Advance(t, i, n + m) \in Nat
             /\ Advance(t, i, n) <= Advance(t, i, n + m)
  <2> SUFFICES ASSUME NEW n \in Nat, i <= n, Advance(t, i, n) \in Nat,
                      NEW m \in Nat
               PROVE  n + m <= Len(t) =>
                          /\ Advance(t, i, n + m) \in Nat
                          /\ Advance(t, i, n) <= Advance(t, i, n + m)
    OBVIOUS
  <2> DEFINE S == {d \in Nat : n + d <= Len(t) =>
                     /\ Advance(t, i, n + d) \in Nat
                     /\ Advance(t, i, n) <= Advance(t, i, n + d)}
  <2>1. 0 \in S
    OBVIOUS
  <2>2. ASSUME NEW d \in Nat, d \in S PROVE d + 1 \in S
    <3> SUFFICES ASSUME n + (d + 1) <= Len(t)
                 PROVE  /\ Advance(t, i, n + (d + 1)) \in Nat
                        /\ Advance(t, i, n) <= Advance(t, i, n + (d + 1))
      OBVIOUS
    <3>1. /\ n + d \in Nat /\ n + (d + 1) = (n + d) + 1 /\ i <= n + d
          /\ Len(t) \in Nat /\ n + d < Len(t)
      BY LenProperties
    <3>2. /\ Advance(t, i, n + d) \in Nat
          /\ Advance(t, i, n) <= Advance(t, i, n + d)
      BY <2>2, <3>1
    <3>3. Advance(t, i, n + (d + 1))
              = Advance(t, i, n + d) + charAdvance[t[(n + d) + 1]]
      <4>1. Advance(t, i, (n + d) + 1)
                = Advance(t, i, n + d) + charAdvance[t[(n + d) + 1]]
        BY <3>1, AdvanceOfLast
      <4>2. QED
        BY <3>1, <4>1
    <3>4. charAdvance[t[(n + d) + 1]] \in Nat
      BY <1>1, <3>1
    <3>5. QED
      BY <3>2, <3>3, <3>4
  <2> HIDE DEF S
  <2>3. m \in S
    BY <2>1, <2>2, Induction
  <2>4. QED
    BY <2>3 DEF S
<1>3. /\ j - i \in Nat /\ i + (j - i) = j /\ k - j \in Nat /\ j + (k - j) = k
      /\ Len(t) \in Nat /\ j <= Len(t)
  BY LenProperties
<1>4. Advance(t, i, i) \in Nat
  BY AdvanceOfNone
<1>5. Advance(t, i, j) \in Nat
  BY <1>2, <1>3, <1>4
<1>6. QED
  BY <1>2, <1>3, <1>5

-----------------------------------------------------------------------------
(* The indices *)

Inv == TypeOK /\ CursorInText

\* What setCursorIndex() needs of its caller, and what it leaves.
LEMMA PutCursorKeeps ==
    ASSUME Inv, NEW t \in Seq(Chars), NEW index \in Nat, NEW start \in Nat,
           NEW selection \in BOOLEAN, selection => start <= Len(t),
           PutCursor(t, index, start, selection)
    PROVE  /\ text' \in Seq(Chars)
           /\ cursorIndex' \in Nat /\ selectionStartIndex' \in Nat
           /\ firstVisibleCharIndex' \in Nat
           /\ focused' \in BOOLEAN /\ pressed' \subseteq Modifiers
           /\ CursorInText'
<1> DEFINE c == IF index > Len(t) THEN Len(t) ELSE index
<1>1. c \in Nat /\ c <= Len(t) /\ Len(t) \in Nat
  BY LenProperties
<1>2. /\ text' = t /\ cursorIndex' = c
      /\ selectionStartIndex' = IF selection THEN start ELSE c
      /\ focused' = TRUE /\ pressed' = IF focused THEN pressed ELSE {}
      /\ ScrollToCursor(t, c)
  BY DEF PutCursor
<1> HIDE DEF c
<1>3. firstVisibleCharIndex' \in Nat /\ firstVisibleCharIndex' <= c
  <2>1. CASE firstVisibleCharIndex' = c
    BY <1>1, <2>1
  <2>2. CASE c > firstVisibleCharIndex /\ UNCHANGED firstVisibleCharIndex
    BY <1>1, <2>2 DEF Inv, TypeOK
  <2>3. CASE firstVisibleCharIndex' \in LeftmostShown(t, c)
    BY <1>1, <2>3 DEF LeftmostShown, Greatest
  <2>4. QED
    BY <1>2, <2>1, <2>2, <2>3 DEF ScrollToCursor
<1>4. QED
  BY <1>1, <1>2, <1>3 DEF Inv, TypeOK, CursorInText

\* The same, for a caller that changes nothing but the text.
LEMMA MoveCursorKeeps ==
    ASSUME Inv, NEW index \in Nat, NEW selection \in BOOLEAN,
           MoveCursor(index, selection), leftMouseButtonDown' \in BOOLEAN
    PROVE  Inv'
<1>1. PutCursor(text, index, selectionStartIndex, selection)
  BY DEF MoveCursor
<1>2. text \in Seq(Chars) /\ selectionStartIndex \in Nat
      /\ selectionStartIndex <= Len(text)
  BY DEF Inv, TypeOK, CursorInText
<1>3. QED
  BY <1>1, <1>2, PutCursorKeeps DEF MoveCursor, Inv, TypeOK

LEMMA WithoutProperties ==
    ASSUME NEW s \in Seq(Chars), NEW i \in 0 .. Len(s), NEW j \in i .. Len(s)
    PROVE  LET rest == SubSeq(s, 1, i) \o SubSeq(s, j + 1, Len(s))
           IN  rest \in Seq(Chars) /\ Len(rest) = Len(s) - (j - i)
<1>1. SubSeq(s, 1, i) \in Seq(Chars) /\ Len(SubSeq(s, 1, i)) = i
  BY SubSeqProperties, LenProperties
<1>2. /\ SubSeq(s, j + 1, Len(s)) \in Seq(Chars)
      /\ Len(SubSeq(s, j + 1, Len(s))) = Len(s) - j
  BY SubSeqProperties, LenProperties
<1>3. QED
  BY <1>1, <1>2, ConcatProperties, LenProperties

LEMMA SelectionIsInText ==
    ASSUME Inv
    PROVE  /\ SelectionStart \in 0 .. Len(text)
           /\ SelectionEnd \in SelectionStart .. Len(text)
           /\ deleteSelection \in Seq(Chars)
           /\ SelectionStart <= Len(deleteSelection)
<1>1. /\ text \in Seq(Chars) /\ Len(text) \in Nat
      /\ cursorIndex \in 0 .. Len(text)
      /\ selectionStartIndex \in 0 .. Len(text)
  BY LenProperties DEF Inv, TypeOK, CursorInText
<1>2. /\ SelectionStart \in 0 .. Len(text)
      /\ SelectionEnd \in SelectionStart .. Len(text)
  BY <1>1 DEF SelectionStart, SelectionEnd
<1>3. /\ deleteSelection \in Seq(Chars)
      /\ Len(deleteSelection) = Len(text) - (SelectionEnd - SelectionStart)
  BY <1>1, <1>2, WithoutProperties DEF deleteSelection, Without
<1>4. QED
  BY <1>1, <1>2, <1>3

-----------------------------------------------------------------------------
LEMMA MouseKeeps ==
    ASSUME Inv, Mouse
    PROVE  Inv'
<1>1. \A x : posToIndex(x) \subseteq Nat
  BY LenProperties DEF posToIndex, Least, Inv, TypeOK
<1>2. ASSUME NEW x, onMouseButton(TRUE, x)
      PROVE  Inv'
  BY <1>1, <1>2, MoveCursorKeeps DEF onMouseButton
<1>3. ASSUME NEW x, onMouseMove(x)
      PROVE  Inv'
  BY <1>1, <1>3, MoveCursorKeeps DEF onMouseMove, Inv, TypeOK
<1>4. CASE onMouseButton(FALSE, 0)
  BY <1>4 DEF onMouseButton, editor, view, keyboard, Inv, TypeOK,
              CursorInText
<1>5. QED
  BY <1>2, <1>3, <1>4 DEF Mouse

\* A key that moves the cursor, if it does so as setCursorIndex() requires.
LEMMA InputKeeps ==
    ASSUME Inv, NEW t \in Seq(Chars), NEW index \in Nat, NEW start \in Nat,
           NEW selection \in BOOLEAN, selection => start <= Len(t),
           PutCursor(t, index, start, selection), Input
    PROVE  Inv'
BY PutCursorKeeps DEF Input, Inv, TypeOK

LEMMA EditKeeps ==
    ASSUME Inv, NEW t \in Seq(Chars), NEW index \in Nat,
           PutCursor(t, index, 0, FALSE), Input
    PROVE  Inv'
<1>1. FALSE \in BOOLEAN /\ 0 \in Nat /\ (FALSE => 0 <= Len(t))
  OBVIOUS
<1>2. QED
  BY <1>1, InputKeeps, Zenon

LEMMA MoveKeeps ==
    ASSUME Inv, Input, NEW i \in Nat, Move(i)
    PROVE  Inv'
<1>1. /\ text \in Seq(Chars) /\ selectionStartIndex \in Nat
      /\ selectionStartIndex <= Len(text) /\ shiftPressed \in BOOLEAN
  BY DEF Inv, TypeOK, CursorInText, shiftPressed
<1>2. QED
  BY <1>1, InputKeeps DEF Move

LEMMA CharacterInputKeeps ==
    ASSUME Inv, CharacterInput
    PROVE  Inv'
<1>1. /\ text \in Seq(Chars) /\ Len(text) \in Nat
      /\ cursorIndex \in 0 .. Len(text)
      /\ selectionStartIndex \in 0 .. Len(text)
      /\ firstVisibleCharIndex \in 0 .. cursorIndex
  BY LenProperties DEF Inv, TypeOK, CursorInText
<1>2. CASE Right
  <2>1. NextWord \subseteq Nat
    BY <1>1 DEF NextWord, Least
  <2>2. QED
    BY <1>1, <1>2, <2>1, MoveKeeps DEF Right
<1>3. CASE Left
  <2>1. PreviousWord \subseteq Nat
    BY <1>1 DEF PreviousWord, Greatest
  <2>2. cursorIndex - 1 \in Nat
    BY <1>1, <1>3 DEF Left
  <2>3. QED
    BY <1>3, <2>1, <2>2, MoveKeeps DEF Left
<1>4. CASE End
  BY <1>1, <1>4, MoveKeeps DEF End
<1>5. CASE Home
  BY <1>5, MoveKeeps DEF Home
<1>6. CASE Backspace
  <2>1. CASE PutCursor(deleteSelection, SelectionStart, 0, FALSE)
    <3>1. Input
      BY <1>6 DEF Backspace
    <3>2. deleteSelection \in Seq(Chars) /\ SelectionStart \in Nat
      BY <1>1, SelectionIsInText
    <3>3. QED
      BY <2>1, <3>1, <3>2, EditKeeps, Zenon
  <2>2. CASE /\ cursorIndex # 0
             /\ PutCursor(Without(cursorIndex - 1, cursorIndex),
                          cursorIndex - 1, 0, FALSE)
    <3>1. cursorIndex - 1 \in 0 .. Len(text)
      BY <1>1, <2>2
    <3>2. Without(cursorIndex - 1, cursorIndex) \in Seq(Chars)
      BY <1>1, <3>1, WithoutProperties DEF Without
    <3>3. Input /\ cursorIndex - 1 \in Nat
      BY <1>6, <3>1 DEF Backspace
    <3>4. QED
      BY <2>2, <3>2, <3>3, EditKeeps, Zenon
  <2>3. QED
    BY <1>6, <2>1, <2>2 DEF Backspace
<1>7. CASE Delete
  <2>1. CASE PutCursor(deleteSelection, SelectionStart, 0, FALSE)
    <3>1. Input
      BY <1>7 DEF Delete
    <3>2. deleteSelection \in Seq(Chars) /\ SelectionStart \in Nat
      BY <1>1, SelectionIsInText
    <3>3. QED
      BY <2>1, <3>1, <3>2, EditKeeps, Zenon
  <2>2. CASE /\ ~thereIsSelection /\ cursorIndex < Len(text)
             /\ text' = Without(cursorIndex, cursorIndex + 1)
             /\ UNCHANGED <<cursorIndex, selectionStartIndex, view,
                            focused, pressed>>
    <3>1. /\ text' \in Seq(Chars) /\ Len(text') = Len(text) - 1
      <4>1. cursorIndex + 1 \in cursorIndex .. Len(text)
        BY <1>1, <2>2
      <4>2. text' = SubSeq(text, 1, cursorIndex) \o
                        SubSeq(text, (cursorIndex + 1) + 1, Len(text))
        BY <2>2, Zenon DEF Without
      <4>3. /\ text' \in Seq(Chars)
            /\ Len(text') = Len(text) - ((cursorIndex + 1) - cursorIndex)
        BY <1>1, <4>1, <4>2, WithoutProperties
      <4>4. QED
        BY <1>1, <4>3
    <3>2. QED
      BY <1>1, <1>7, <2>2, <3>1
         DEF Delete, Input, view, thereIsSelection, Inv, TypeOK, CursorInText
  <2>3. QED
    BY <1>7, <2>1, <2>2 DEF Delete
<1>8. CASE SelectAll
  <2>1. PutCursor(text, Len(text), 0, TRUE) /\ Input
    BY <1>8 DEF SelectAll
  <2>2. TRUE \in BOOLEAN /\ 0 \in Nat /\ (TRUE => 0 <= Len(text))
    BY <1>1
  <2>3. QED
    BY <1>1, <2>1, <2>2, InputKeeps, Zenon
<1>9. ASSUME NEW ch \in Chars, Type(<< ch >>)
      PROVE  Inv'
  <2> DEFINE rest == IF thereIsSelection THEN deleteSelection ELSE text
             i == SelectionStart
             t == SubSeq(rest, 1, i) \o << ch >> \o
                      SubSeq(rest, i + 1, Len(rest))
  <2>1. rest \in Seq(Chars) /\ i \in 0 .. Len(rest) /\ Len(rest) \in Nat
    BY <1>1, SelectionIsInText, LenProperties
  <2>2. PutCursor(t, i + Len(<< ch >>), 0, FALSE) /\ Input
    BY <1>9, Zenon DEF Type
  <2> HIDE DEF rest, i
  <2>3. << ch >> \in Seq(Chars) /\ Len(<< ch >>) = 1
    OBVIOUS
  <2>4. /\ SubSeq(rest, 1, i) \in Seq(Chars)
        /\ SubSeq(rest, i + 1, Len(rest)) \in Seq(Chars)
    BY <2>1, SubSeqProperties
  <2>5. t \in Seq(Chars)
    BY <2>3, <2>4, ConcatProperties
  <2> HIDE DEF t
  <2>6. i + Len(<< ch >>) \in Nat
    BY <2>1, <2>3
  <2>7. QED
    BY <2>2, <2>5, <2>6, EditKeeps, Zenon
<1>10. QED
  BY <1>2, <1>3, <1>4, <1>5, <1>6, <1>7, <1>8, <1>9 DEF CharacterInput

LEMMA ProgramKeeps ==
    ASSUME Inv, Program, "setTextLater" \notin UserCalls, TextInputAssumption
    PROVE  Inv'
<1>1. ASSUME NEW i \in Nat, NEW s \in BOOLEAN, setCursorIndex(i, s)
      PROVE  Inv'
  BY <1>1, MoveCursorKeeps DEF setCursorIndex, Inv, TypeOK
<1>2. ASSUME NEW w \in Widths, onResize(w)
      PROVE  Inv'
  BY <1>2 DEF onResize, keyboard, TextInputAssumption, Inv, TypeOK,
              CursorInText
<1>3. ASSUME NEW is \in BOOLEAN, focus(is)
      PROVE  Inv'
  BY <1>3 DEF focus, onFocusChanged, editor, view, Inv, TypeOK, CursorInText
<1>4. \A i \in 0 .. (MaxLength + 1) : i \in Nat
  BY DEF TextInputAssumption
<1>5. ASSUME NEW t \in Texts, setText(t)
      PROVE  Inv'
  <2>1. t \in Seq(Chars) /\ Len(t) \in Nat
    BY LenProperties DEF Texts, SeqOf
  <2>2. cursorIndex = 0 /\ selectionStartIndex = 0
    BY <1>5 DEF setText
  <2>3. QED
    BY <1>5, <2>1, <2>2
       DEF setText, keyboard, view, Inv, TypeOK, CursorInText
<1>6. QED
  BY <1>1, <1>2, <1>3, <1>4, <1>5 DEF Program

\* TypeOK and CursorInText, together, are inductive.
LEMMA NextKeepsInv ==
    ASSUME Inv, [Next]_vars, "setTextLater" \notin UserCalls
    PROVE  Inv'
<1>1. ASSUME NEW k \in Modifiers, onKey(k)
      PROVE  Inv'
  BY <1>1 DEF onKey, editor, view, Inv, TypeOK, CursorInText
<1>2. CASE UNCHANGED vars
  BY <1>2 DEF vars, editor, view, keyboard, Inv, TypeOK, CursorInText
<1>3. QED
  BY <1>1, <1>2, MouseKeeps, CharacterInputKeeps, ProgramKeeps,
     TextInputAssumption DEF Next

LEMMA InitInv == Init => Inv
<1> SUFFICES ASSUME Init PROVE Inv
  OBVIOUS
<1>1. text \in Seq(Chars)
  BY DEF Init, Texts, SeqOf
<1>2. Len(text) \in Nat /\ width \in Nat
  BY <1>1, LenProperties, TextInputAssumption
     DEF Init, TextInputAssumption
<1>3. TypeOK
  BY <1>1, <1>2 DEF Init, TypeOK
<1>4. CursorInText
  BY <1>2 DEF Init, CursorInText
<1>5. QED
  BY <1>3, <1>4 DEF Inv

-----------------------------------------------------------------------------
(* The positions *)

\* What is drawn is where it should be, in a widget as wide as its cursor.
DrawnInv ==
    /\ Inv /\ DrawnAtIndex
    /\ xOffset \in Int /\ CursorWidth <= width

LEMMA MinOfTwo ==
    ASSUME NEW i \in Nat, NEW j \in Nat, i <= j
    PROVE  Min({i, j}) = i
<1>1. i \in {i, j} /\ \A y \in {i, j} : i <= y
  OBVIOUS
<1>2. \A x \in {i, j} : (\A y \in {i, j} : x <= y) => x = i
  OBVIOUS
<1>3. QED
  BY <1>1, <1>2 DEF Min

\* setCursorIndex() leaves both positions right.
LEMMA PutCursorDraws ==
    ASSUME DrawnInv, NEW t \in Seq(Chars), NEW index \in Nat, NEW start,
           NEW selection, PutCursor(t, index, start, selection),
           UNCHANGED width
    PROVE  xOffset' \in Int /\ DrawnAtIndex'
<1> PICK c : c = IF index > Len(t) THEN Len(t) ELSE index
  OBVIOUS
<1> PICK rightmost : rightmost = width - CursorWidth
  OBVIOUS
<1>1. /\ c \in Nat /\ c <= Len(t) /\ Len(t) \in Nat /\ rightmost \in Nat
      /\ firstVisibleCharIndex \in Nat /\ xOffset \in Int /\ xOffset <= 0
  BY LenProperties, TextInputAssumption
     DEF DrawnInv, Inv, TypeOK, TextInputAssumption, DrawnAtIndex
<1>2. /\ text' = t /\ cursorIndex' = c /\ ScrollToCursor(t, c)
      /\ selectionStartPos' = indexToPos(t, firstVisibleCharIndex', xOffset',
                                         width, selectionStartIndex')
  BY DEF PutCursor
<1>3. /\ xOffset' \in Int /\ xOffset' <= 0
      /\ cursorPos' = IF c = firstVisibleCharIndex' THEN 0
                      ELSE PosOf(t, firstVisibleCharIndex', xOffset', c)
  <2>1. CASE c <= firstVisibleCharIndex
             /\ firstVisibleCharIndex' = c /\ xOffset' = 0 /\ cursorPos' = 0
    BY <2>1
  <2>2. CASE /\ c > firstVisibleCharIndex
             /\ cursorPos' = PosOf(t, firstVisibleCharIndex, xOffset, c)
             /\ UNCHANGED <<firstVisibleCharIndex, xOffset>>
    BY <1>1, <2>2
  <2>3. CASE /\ cursorPos' = rightmost
             /\ firstVisibleCharIndex' \in LeftmostShown(t, c)
             /\ xOffset' = rightmost - Advance(t, firstVisibleCharIndex', c)
    <3> PICK i : i = firstVisibleCharIndex'
      OBVIOUS
    <3> PICK d : d = Advance(t, i, c)
      OBVIOUS
    <3>1. i \in Nat /\ i <= c /\ d >= rightmost
      BY <1>1, <2>3 DEF LeftmostShown, Greatest
    <3>2. d \in Nat
      BY <1>1, <3>1, AdvanceGrows
    <3>3. xOffset' = rightmost - d /\ xOffset' \in Int /\ xOffset' <= 0
      BY <1>1, <2>3, <3>1, <3>2
    <3>4. CASE c = i
      <4>1. d = 0
        BY <1>1, <3>4, AdvanceOfNone
      <4>2. rightmost = 0
        BY <1>1, <3>1, <4>1
      <4>3. QED
        BY <2>3, <3>3, <3>4, <4>2
    <3>5. CASE c # i
      <4>1. PosOf(t, i, xOffset', c) = xOffset' + d
        BY DEF PosOf
      <4>2. xOffset' + d = rightmost
        BY <1>1, <3>2, <3>3
      <4>3. QED
        BY <2>3, <3>3, <3>5, <4>1, <4>2
    <3>6. QED
      BY <3>4, <3>5
  <2>4. QED
    BY <1>2, <2>1, <2>2, <2>3 DEF ScrollToCursor
<1>4. QED
  BY <1>2, <1>3 DEF DrawnAtIndex

\* Nothing moves.
LEMMA StillDrawn ==
    ASSUME DrawnInv, UNCHANGED <<editor, width>>
    PROVE  xOffset' \in Int /\ DrawnAtIndex' /\ CursorWidth <= width'
BY DEF DrawnInv, DrawnAtIndex, editor, view

\* The character behind the cursor is deleted: what is before it stays.
LEMMA DeleteKeepsDrawn ==
    ASSUME DrawnInv, ~thereIsSelection, cursorIndex < Len(text),
           text' = Without(cursorIndex, cursorIndex + 1),
           UNCHANGED <<cursorIndex, selectionStartIndex, view, width>>
    PROVE  xOffset' \in Int /\ DrawnAtIndex'
<1> PICK c : c = cursorIndex
  OBVIOUS
<1> PICK f : f = firstVisibleCharIndex
  OBVIOUS
<1>1. /\ text \in Seq(Chars) /\ Len(text) \in Nat /\ c \in Nat /\ f \in Nat
      /\ f <= c /\ c + 1 <= Len(text) /\ selectionStartIndex = c
  BY LenProperties DEF DrawnInv, Inv, TypeOK, CursorInText, thereIsSelection
<1>2. UNCHANGED <<cursorPos, selectionStartPos, firstVisibleCharIndex,
                  xOffset>>
  BY DEF view
<1> PICK left : left = SubSeq(text, 1, c)
  OBVIOUS
<1> PICK right : right = SubSeq(text, (c + 1) + 1, Len(text))
  OBVIOUS
<1>3. text' = left \o right
  BY DEF Without
<1>4. /\ left \in Seq(Chars) /\ Len(left) = c
      /\ \A k \in 1 .. c : left[k] = text[k]
  <2>1. \A k \in 1 .. c : text[k] \in Chars
    BY <1>1
  <2>2. QED
    BY <1>1, <2>1, SubSeqProperties
<1>5. right \in Seq(Chars) /\ Len(right) \in Nat
  <2>1. \A k \in (c + 1) + 1 .. Len(text) : text[k] \in Chars
    BY <1>1
  <2>2. right \in Seq(Chars)
    BY <1>1, <2>1, SubSeqProperties
  <2>3. QED
    BY <2>2, LenProperties
<1>6. /\ Len(text') = c + Len(right)
      /\ \A k \in 1 .. c : text'[k] = text[k]
  BY <1>3, <1>4, <1>5, ConcatProperties
<1>7. Advance(text', f, c) = Advance(text, f, c)
  <2>1. Agree(text', text, f, c)
    <3>1. \A k \in f + 1 .. c : k \in 1 .. c
      BY <1>1
    <3>2. QED
      BY <1>6, <3>1 DEF Agree
  <2>2. QED
    BY <1>1, <2>1, AdvancesAgree
<1>8. \A o : PosOf(text', f, o, c) = PosOf(text, f, o, c)
  BY <1>7 DEF PosOf
<1>9. Min({c, Len(text)}) = c /\ Min({c, Len(text')}) = c
  <2>1. Len(text') \in Nat /\ c <= Len(text') /\ c <= Len(text)
    BY <1>1, <1>5, <1>6
  <2>2. QED
    BY <1>1, <2>1, MinOfTwo
<1>10. \A o, w : indexToPos(text', f, o, w, c) = indexToPos(text, f, o, w, c)
  BY <1>8, <1>9 DEF indexToPos
<1>11. QED
  BY <1>1, <1>2, <1>8, <1>10 DEF DrawnInv, DrawnAtIndex

\* The text is edited, or the cursor moves, and setCursorIndex() is called.
Puts ==
    /\ UNCHANGED width
    /\ \E t \in Seq(Chars), i \in Nat : \E start, selection :
           PutCursor(t, i, start, selection)

Deletes ==
    /\ ~thereIsSelection /\ cursorIndex < Len(text)
    /\ text' = Without(cursorIndex, cursorIndex + 1)
    /\ UNCHANGED <<cursorIndex, selectionStartIndex, view, width>>

LEMMA MouseMoves ==
    ASSUME Inv, Mouse
    PROVE  Puts \/ UNCHANGED <<editor, width>>
<1>1. \A x : posToIndex(x) \subseteq Nat /\ text \in Seq(Chars)
  BY LenProperties DEF posToIndex, Least, Inv, TypeOK
<1>2. ASSUME NEW i \in Nat, NEW s, MoveCursor(i, s) PROVE Puts
  BY <1>1, <1>2 DEF MoveCursor, Puts
<1>3. \/ \E i \in Nat, s \in BOOLEAN : MoveCursor(i, s)
      \/ UNCHANGED <<editor, width>>
  BY <1>1 DEF Mouse, onMouseButton, onMouseMove
<1>4. QED
  BY <1>2, <1>3

LEMMA CharacterInputMoves ==
    ASSUME Inv, CharacterInput
    PROVE  Puts \/ Deletes
<1>1. /\ text \in Seq(Chars) /\ Len(text) \in Nat
      /\ cursorIndex \in 0 .. Len(text)
  BY LenProperties DEF Inv, TypeOK, CursorInText
<1>2. Input
  BY DEF CharacterInput, Right, Left, End, Home, Backspace, Delete,
         SelectAll, Type
<1>3. width' = width
  BY <1>2 DEF Input
<1>4. ASSUME NEW t \in Seq(Chars), NEW i \in Nat, NEW start, NEW s,
             PutCursor(t, i, start, s)
      PROVE  Puts
  BY <1>3, <1>4 DEF Puts
<1>5. ASSUME NEW i \in Nat, Move(i) PROVE Puts
  BY <1>1, <1>4, <1>5 DEF Move
<1>6. CASE Right \/ Left \/ End \/ Home
  <2>1. NextWord \subseteq Nat /\ PreviousWord \subseteq Nat
    BY <1>1 DEF NextWord, PreviousWord, Least, Greatest
  <2>2. cursorIndex + 1 \in Nat /\ (cursorIndex # 0 => cursorIndex - 1 \in Nat)
    BY <1>1
  <2>3. \E i \in Nat : Move(i)
    BY <1>1, <1>6, <2>1, <2>2 DEF Right, Left, End, Home
  <2>4. QED
    BY <1>5, <2>3
<1>7. CASE SelectAll
  BY <1>1, <1>4, <1>7 DEF SelectAll
<1>8. deleteSelection \in Seq(Chars) /\ SelectionStart \in Nat
  BY <1>1, SelectionIsInText
<1>9. CASE Backspace
  <2>1. CASE PutCursor(deleteSelection, SelectionStart, 0, FALSE)
    BY <1>4, <1>8, <2>1
  <2>2. CASE /\ cursorIndex # 0
             /\ PutCursor(Without(cursorIndex - 1, cursorIndex),
                          cursorIndex - 1, 0, FALSE)
    <3>1. /\ cursorIndex - 1 \in 0 .. Len(text) /\ cursorIndex - 1 \in Nat
          /\ cursorIndex \in cursorIndex - 1 .. Len(text)
      BY <1>1, <2>2
    <3>2. Without(cursorIndex - 1, cursorIndex) \in Seq(Chars)
      BY <1>1, <3>1, WithoutProperties DEF Without
    <3>3. QED
      BY <1>4, <2>2, <3>1, <3>2
  <2>3. QED
    BY <1>9, <2>1, <2>2 DEF Backspace
<1>10. CASE Delete
  <2>1. CASE PutCursor(deleteSelection, SelectionStart, 0, FALSE)
    BY <1>4, <1>8, <2>1
  <2>2. CASE ~PutCursor(deleteSelection, SelectionStart, 0, FALSE)
    BY <1>3, <1>10, <2>2 DEF Delete, Deletes
  <2>3. QED
    BY <2>1, <2>2
<1>11. ASSUME NEW ch \in Chars, Type(<< ch >>) PROVE Puts
  <2> DEFINE rest == IF thereIsSelection THEN deleteSelection ELSE text
             i == SelectionStart
             t == SubSeq(rest, 1, i) \o << ch >> \o
                      SubSeq(rest, i + 1, Len(rest))
  <2>1. rest \in Seq(Chars) /\ i \in 0 .. Len(rest) /\ Len(rest) \in Nat
    BY <1>1, SelectionIsInText, LenProperties
  <2>2. PutCursor(t, i + Len(<< ch >>), 0, FALSE)
    BY <1>11, Zenon DEF Type
  <2> HIDE DEF rest, i
  <2>3. << ch >> \in Seq(Chars) /\ Len(<< ch >>) = 1
    OBVIOUS
  <2>4. /\ SubSeq(rest, 1, i) \in Seq(Chars)
        /\ SubSeq(rest, i + 1, Len(rest)) \in Seq(Chars)
    BY <2>1, SubSeqProperties
  <2>5. t \in Seq(Chars)
    BY <2>3, <2>4, ConcatProperties
  <2> HIDE DEF t
  <2>6. i + Len(<< ch >>) \in Nat
    BY <2>1, <2>3
  <2>7. QED
    BY <1>4, <2>2, <2>5, <2>6
<1>12. QED
  BY <1>6, <1>7, <1>9, <1>10, <1>11 DEF CharacterInput

\* What a step does to the text and its view.
LEMMA StepMoves ==
    ASSUME Inv, [Next]_vars
    PROVE  \/ Puts \/ Deletes \/ UNCHANGED <<editor, width>>
           \/ \E w \in Widths : onResize(w)
           \/ \E t \in Texts : setText(t)
<1>1. UNCHANGED vars \/ (\E k \in Modifiers : onKey(k))
          => UNCHANGED <<editor, width>>
  BY DEF vars, onKey
<1>2. ASSUME NEW is, focus(is) PROVE UNCHANGED <<editor, width>>
  BY <1>2 DEF focus, onFocusChanged
<1>3. ASSUME NEW i \in Nat, NEW s, setCursorIndex(i, s) PROVE Puts
  BY <1>3 DEF setCursorIndex, MoveCursor, Puts, Inv, TypeOK
<1>4. \A i \in 0 .. (MaxLength + 1) : i \in Nat
  BY TextInputAssumption DEF TextInputAssumption
<1>5. CASE Program
  BY <1>2, <1>3, <1>4, <1>5 DEF Program
<1>6. QED
  BY <1>1, <1>5, MouseMoves, CharacterInputMoves DEF Next

\* The positions after the steps that call nothing.
LEMMA ProgramDraws ==
    ASSUME DrawnInv, "setTextLater" \notin UserCalls,
           \A w \in Widths : CursorWidth <= w,
           \/ \E w \in Widths : onResize(w)
           \/ \E t \in Texts : setText(t)
    PROVE  xOffset' \in Int /\ DrawnAtIndex' /\ CursorWidth <= width'
<1>1. ASSUME NEW w \in Widths, onResize(w)
      PROVE  xOffset' \in Int /\ DrawnAtIndex' /\ CursorWidth <= width'
  BY <1>1 DEF onResize, DrawnInv, DrawnAtIndex
<1>2. ASSUME NEW t, setText(t)
      PROVE  xOffset' \in Int /\ DrawnAtIndex' /\ CursorWidth <= width'
  <2>1. /\ cursorIndex = 0 /\ selectionStartIndex = 0
        /\ UNCHANGED <<cursorIndex, selectionStartIndex, view, width>>
    BY <1>2 DEF setText
  <2>2. firstVisibleCharIndex = 0
    BY <2>1 DEF DrawnInv, Inv, TypeOK, CursorInText
  <2>3. \A s, o, w : indexToPos(s, 0, o, w, 0) = 0
    BY DEF indexToPos
  <2>4. QED
    BY <2>1, <2>2, <2>3 DEF view, DrawnInv, DrawnAtIndex
<1>3. QED
  BY <1>1, <1>2

-----------------------------------------------------------------------------
(* Presses *)

PressInv == Inv /\ xOffset \in Int

LEMMA OffsetStaysInteger ==
    ASSUME Inv, xOffset \in Int, [Next]_vars
    PROVE  xOffset' \in Int
<1>1. ASSUME NEW t \in Seq(Chars), NEW index \in Nat, NEW start,
             NEW selection, PutCursor(t, index, start, selection)
      PROVE  xOffset' \in Int
  <2> PICK c : c = IF index > Len(t) THEN Len(t) ELSE index
    OBVIOUS
  <2>1. c \in Nat /\ c <= Len(t)
    BY LenProperties
  <2>2. ScrollToCursor(t, c)
    BY <1>1 DEF PutCursor
  <2>3. CASE /\ firstVisibleCharIndex' \in LeftmostShown(t, c)
             /\ xOffset' = (width - CursorWidth)
                               - Advance(t, firstVisibleCharIndex', c)
    <3> PICK i : i = firstVisibleCharIndex'
      OBVIOUS
    <3>1. i \in Nat /\ i <= c
      BY <2>1, <2>3 DEF LeftmostShown, Greatest
    <3>2. Advance(t, i, c) \in Nat
      BY <2>1, <3>1, AdvanceGrows
    <3>3. width \in Nat /\ CursorWidth \in Nat
      BY TextInputAssumption DEF TextInputAssumption, Inv, TypeOK
    <3>4. QED
      BY <2>3, <3>2, <3>3
  <2>4. QED
    BY <2>2, <2>3 DEF ScrollToCursor
<1>2. Deletes \/ UNCHANGED <<editor, width>> => xOffset' = xOffset
  BY DEF Deletes, editor, view
<1>3. ASSUME (\E w : onResize(w)) \/ (\E t : setText(t))
      PROVE  xOffset' = xOffset
  BY <1>3 DEF onResize, setText, view
<1>4. QED
  BY <1>1, <1>2, <1>3, StepMoves DEF Puts

\* The loop of posToIndex() stops at the index that is nearest.
LEMMA NearestIndex ==
    ASSUME Inv, xOffset \in Int
    PROVE  PressHitsNearest
<1> DEFINE f == firstVisibleCharIndex
           indices == f .. Len(text)
           P(k) == PosOf(text, f, xOffset, k)
           a(k) == charAdvance[text[k + 1]]
<1>1. /\ text \in Seq(Chars) /\ Len(text) \in Nat /\ f \in Nat /\ width \in Nat
      /\ f <= Len(text)
  BY LenProperties DEF Inv, TypeOK, CursorInText
<1>2. \A k \in indices : P(k) \in Int
  BY <1>1, AdvanceGrows DEF PosOf
<1>3. \A j, k \in indices : j <= k => P(j) <= P(k)
  <2> SUFFICES ASSUME NEW j \in indices, NEW k \in indices, j <= k
               PROVE  P(j) <= P(k)
    OBVIOUS
  <2>1. /\ Advance(text, f, j) \in Nat /\ Advance(text, f, k) \in Nat
        /\ Advance(text, f, j) <= Advance(text, f, k)
    BY <1>1, AdvanceGrows
  <2>2. QED
    BY <2>1 DEF PosOf
<1>4. \A k \in f .. Len(text) - 1 : P(k + 1) = P(k) + a(k) /\ a(k) \in Nat
  <2> SUFFICES ASSUME NEW k \in f .. Len(text) - 1
               PROVE  P(k + 1) = P(k) + a(k) /\ a(k) \in Nat
    OBVIOUS
  <2>1. k \in Nat /\ f <= k /\ k + 1 \in 1 .. Len(text) /\ k <= Len(text)
    BY <1>1
  <2>2. a(k) \in Nat
    BY <1>1, <2>1, TextInputAssumption DEF TextInputAssumption
  <2>3. Advance(text, f, k + 1) = Advance(text, f, k) + a(k)
    BY <1>1, <2>1, AdvanceOfLast
  <2>4. Advance(text, f, k) \in Nat
    BY <1>1, <2>1, AdvanceGrows
  <2> HIDE DEF a
  <2>5. QED
    BY <2>2, <2>3, <2>4 DEF PosOf
<1> SUFFICES ASSUME NEW x \in 0 .. (width - 1), NEW i \in posToIndex(x),
                    NEW j \in indices
             PROVE  (IF P(i) < x THEN x - P(i) ELSE P(i) - x)
                        <= (IF P(j) < x THEN x - P(j) ELSE P(j) - x)
  <2>1. \A x, i : i \in posToIndex(x) => i \in indices
    BY <1>1 DEF posToIndex, Least
  <2>2. QED
    BY <2>1 DEF PressHitsNearest
<1>5. /\ i \in indices /\ x \in Nat
      /\ i # Len(text) => 2 * x < 2 * P(i) + a(i)
      /\ \A k \in f .. Len(text) - 1 : 2 * x < 2 * P(k) + a(k) => i <= k
  <2> DEFINE S == {Len(text)} \cup
                      {k \in f .. Len(text) - 1 : 2 * x < 2 * P(k) + a(k)}
  <2>1. i \in S /\ \A k \in S : i <= k
    BY DEF posToIndex, Least
  <2> HIDE DEF P, a
  <2>2. QED
    BY <1>1, <2>1
<1> HIDE DEF P, a
<1>6. CASE j = i
  BY <1>2, <1>5, <1>6
<1>7. CASE j > i
  <2>1. i \in f .. Len(text) - 1 /\ i + 1 \in indices /\ i + 1 <= j
    BY <1>1, <1>5, <1>7
  <2>2. P(i + 1) = P(i) + a(i) /\ a(i) \in Nat /\ P(i + 1) <= P(j)
    BY <1>3, <1>4, <2>1
  <2>3. 2 * x < 2 * P(i) + a(i)
    BY <1>1, <1>5, <2>1
  <2>4. P(i) \in Int /\ P(j) \in Int
    BY <1>2, <1>5
  <2>5. QED
    BY <1>5, <2>2, <2>3, <2>4
<1>8. CASE j < i
  <2> PICK k : k = i - 1
    OBVIOUS
  <2>1. k \in f .. Len(text) - 1 /\ k \in indices /\ k + 1 = i /\ j <= k
    BY <1>1, <1>5, <1>8
  <2>2. P(i) = P(k) + a(k) /\ a(k) \in Nat /\ P(j) <= P(k)
    BY <1>3, <1>4, <2>1
  <2>3. ~(2 * x < 2 * P(k) + a(k))
    BY <1>1, <1>5, <2>1
  <2>4. P(k) \in Int /\ P(j) \in Int
    BY <1>2, <2>1
  <2>5. QED
    BY <1>5, <2>2, <2>3, <2>4
<1>9. QED
  BY <1>1, <1>5, <1>6, <1>7, <1>8

-----------------------------------------------------------------------------
(* The theorems *)

\* The cursor and the selection stay within the text: however the user types,
\* deletes, selects and clicks, the assertions that setCursorIndex(),
\* indexToPos() and render() make about indices hold.
THEOREM CursorStaysInText ==
    ASSUME "setTextLater" \notin UserCalls
    PROVE  Spec => [](TypeOK /\ CursorInText)
<1>1. Inv /\ [Next]_vars => Inv'
  BY NextKeepsInv
<1>2. QED
  BY <1>1, InitInv, PTL DEF Spec, Inv

\* The cursor and the selection are drawn where the text has their indices,
\* for any font, text and sequence of edits, clicks, layouts and changes of
\* the focus, in widgets that are at least as wide as the cursor.
THEOREM PositionsAreRight ==
    ASSUME "setTextLater" \notin UserCalls,
           \A w \in Widths : CursorWidth <= w
    PROVE  Spec => []DrawnAtIndex
<1>1. Init => DrawnInv
  <2> SUFFICES ASSUME Init PROVE DrawnInv
    OBVIOUS
  <2>1. Inv
    BY InitInv
  <2>2. \A s, o, w : indexToPos(s, 0, o, w, 0) = 0
    BY DEF indexToPos
  <2>3. DrawnAtIndex /\ xOffset \in Int
    BY <2>2 DEF Init, DrawnAtIndex
  <2>4. QED
    BY <2>1, <2>3 DEF Init, DrawnInv
<1>2. DrawnInv /\ [Next]_vars => DrawnInv'
  <2> SUFFICES ASSUME DrawnInv, [Next]_vars PROVE DrawnInv'
    OBVIOUS
  <2>1. Inv'
    BY NextKeepsInv DEF DrawnInv
  <2>2. CASE Puts
    <3>1. xOffset' \in Int /\ DrawnAtIndex' /\ width' = width
      BY <2>2, PutCursorDraws DEF Puts
    <3>2. QED
      BY <2>1, <3>1 DEF DrawnInv
  <2>3. CASE Deletes
    <3>1. xOffset' \in Int /\ DrawnAtIndex' /\ width' = width
      BY <2>3, DeleteKeepsDrawn DEF Deletes
    <3>2. QED
      BY <2>1, <3>1 DEF DrawnInv
  <2>4. CASE /\ ~Puts /\ ~Deletes
    <3>1. xOffset' \in Int /\ DrawnAtIndex' /\ CursorWidth <= width'
      <4>1. Inv
        BY DEF DrawnInv
      <4>2. QED
        BY <2>4, <4>1, StillDrawn, ProgramDraws, StepMoves
    <3>2. QED
      BY <2>1, <3>1 DEF DrawnInv
  <2>5. QED
    BY <2>2, <2>3, <2>4
<1>3. QED
  BY <1>1, <1>2, PTL DEF Spec, DrawnInv

\* A press puts the cursor at the nearest index that is in view.
THEOREM PressesHitNearest ==
    ASSUME "setTextLater" \notin UserCalls
    PROVE  Spec => []PressHitsNearest
<1>1. Init => PressInv
  BY InitInv DEF Init, PressInv
<1>2. PressInv /\ [Next]_vars => PressInv'
  BY NextKeepsInv, OffsetStaysInteger DEF PressInv
<1>3. PressInv => PressHitsNearest
  BY NearestIndex DEF PressInv
<1>4. QED
  BY <1>1, <1>2, <1>3, PTL DEF Spec

\* While the widget has the focus its flags name no key that is up.
THEOREM FlagsNameHeldKeys == Spec => []FlagsFollowKeys
<1>1. ASSUME NEW t, NEW i, NEW start, NEW s, PutCursor(t, i, start, s)
      PROVE  focused' = TRUE /\ pressed' = IF focused THEN pressed ELSE {}
  BY <1>1 DEF PutCursor
<1>2. FlagsFollowKeys /\ [Next]_vars => FlagsFollowKeys'
  <2> SUFFICES ASSUME FlagsFollowKeys, [Next]_vars
               PROVE  FlagsFollowKeys'
    OBVIOUS
  <2>1. ASSUME NEW t, NEW i, NEW start, NEW s, PutCursor(t, i, start, s),
               held' = held
        PROVE  FlagsFollowKeys'
    BY <1>1, <2>1 DEF FlagsFollowKeys
  <2>2. ASSUME UNCHANGED <<focused, pressed, held>>
        PROVE  FlagsFollowKeys'
    BY <2>2 DEF FlagsFollowKeys
  <2>3. ASSUME NEW i, NEW s, MoveCursor(i, s) PROVE FlagsFollowKeys'
    BY <2>1, <2>3 DEF MoveCursor
  <2>4. CASE Mouse
    BY <2>2, <2>3, <2>4 DEF Mouse, onMouseButton, onMouseMove, keyboard
  <2>5. CASE CharacterInput
    <3>1. held' = held
      BY <2>5 DEF CharacterInput, Right, Left, End, Home, Backspace, Delete,
                  SelectAll, Type, Input
    <3>2. \/ \E t, i, start, s : PutCursor(t, i, start, s)
          \/ UNCHANGED <<focused, pressed>>
      BY <2>5, Zenon
         DEF CharacterInput, Right, Left, End, Home, Backspace, Delete,
             SelectAll, Type, Move
    <3>3. QED
      BY <2>1, <2>2, <3>1, <3>2
  <2>6. CASE Program
    <3>1. ASSUME NEW is, focus(is) PROVE FlagsFollowKeys'
      BY <3>1 DEF focus, onFocusChanged, FlagsFollowKeys
    <3>2. ASSUME NEW i, NEW s, setCursorIndex(i, s) PROVE FlagsFollowKeys'
      BY <2>3, <3>2 DEF setCursorIndex
    <3>3. QED
      BY <2>2, <2>6, <3>1, <3>2 DEF Program, setText, onResize, keyboard
  <2>7. ASSUME NEW k \in Modifiers, onKey(k) PROVE FlagsFollowKeys'
    BY <2>7 DEF onKey, FlagsFollowKeys
  <2>8. QED
    BY <2>2, <2>4, <2>5, <2>6, <2>7 DEF Next, vars, keyboard
<1>3. Init => FlagsFollowKeys
  BY DEF Init, FlagsFollowKeys
<1>4. QED
  BY <1>2, <1>3, PTL DEF Spec
-----------------------------------------------------------------------------
(* Least elements *)

\* A set of integers that is bounded from below has a least element.
LEMMA LeastExists ==
    ASSUME NEW a \in Int, NEW I, I \subseteq Int, I # {},
           \A x \in I : a <= x
    PROVE  Min(I) \in I /\ \A y \in I : Min(I) <= y
<1> DEFINE T == {n \in Nat : a + n \in I}
           R == OpToRel(<, Nat)
<1>1. T \subseteq Nat /\ T # {}
  <2>1. PICK x \in I : TRUE
    OBVIOUS
  <2>2. x - a \in Nat /\ a + (x - a) = x
    BY <2>1
  <2> QED
    BY <2>2
<1>2. IsWellFoundedOn(R, Nat)
  BY NatLessThanWellFounded
<1>3. \A x, y \in Nat : y < x => <<y, x>> \in R
  BY DEF OpToRel
<1> HIDE DEF T, R
<1>4. PICK m \in T : \A y \in T : ~(<<y, m>> \in R)
  BY <1>1, <1>2, WFMin
<1>5. m \in Nat /\ a + m \in I
  BY <1>4 DEF T
<1>6. ASSUME NEW y \in I PROVE a + m <= y
  <2>1. y - a \in Nat /\ a + (y - a) = y
    OBVIOUS
  <2>2. y - a \in T
    BY <2>1 DEF T
  <2>3. ~(y - a < m)
    BY <1>3, <1>4, <1>5, <2>1, <2>2
  <2> QED
    BY <1>5, <2>1, <2>3
<1>7. \E x \in I : \A y \in I : x =< y
  BY <1>5, <1>6
<1> QED
  BY <1>7 DEF Min

-----------------------------------------------------------------------------
(* The extent of a stretch of items *)

\* f has the values that Extent(d, i, n) adds up.
AddsUpTo(f, d, i, n) ==
    \A k \in 0 .. n : f[k] = IF k <= i THEN 0 ELSE f[k - 1] + size[d[k]]

LEMMA SumsExist ==
    ASSUME NEW d, NEW i \in Nat, NEW n \in Nat
    PROVE  \E f : AddsUpTo(f, d, i, n)
<1> DEFINE S == {m \in Nat : \E f : AddsUpTo(f, d, i, m)}
<1>1. 0 \in S
  <2> DEFINE f == [k \in {0} |-> 0]
  <2>1. AddsUpTo(f, d, i, 0)
    BY DEF AddsUpTo
  <2>2. QED
    BY <2>1
<1>2. ASSUME NEW m \in Nat, m \in S PROVE m + 1 \in S
  <2>1. PICK f : AddsUpTo(f, d, i, m)
    BY <1>2
  <2> DEFINE v == IF m + 1 <= i THEN 0 ELSE f[m] + size[d[m + 1]]
             g == [k \in 0 .. m + 1 |-> IF k = m + 1 THEN v ELSE f[k]]
  <2>2. g[m + 1] = v /\ \A k \in 0 .. m : g[k] = f[k]
    OBVIOUS
  <2> HIDE DEF g
  <2>3. ASSUME NEW k \in 0 .. m + 1
        PROVE  g[k] = IF k <= i THEN 0 ELSE g[k - 1] + size[d[k]]
    <3>1. CASE k = m + 1
      <4>1. k - 1 = m /\ g[k - 1] = f[m]
        BY <2>2, <3>1
      <4>2. QED
        BY <2>2, <3>1, <4>1
    <3>2. CASE k # m + 1
      <4>1. k \in 0 .. m /\ (~(k <= i) => k - 1 \in 0 .. m)
        BY <3>2
      <4>2. g[k] = f[k] /\ (~(k <= i) => g[k - 1] = f[k - 1])
        BY <2>2, <4>1
      <4>3. f[k] = IF k <= i THEN 0 ELSE f[k - 1] + size[d[k]]
        BY <2>1, <4>1 DEF AddsUpTo
      <4>4. QED
        BY <4>2, <4>3
    <3>3. QED
      BY <3>1, <3>2
  <2>4. AddsUpTo(g, d, i, m + 1)
    BY <2>3 DEF AddsUpTo
  <2>5. QED
    BY <2>4
<1> HIDE DEF S
<1>3. n \in S
  BY <1>1, <1>2, Induction
<1>4. QED
  BY <1>3 DEF S

LEMMA AddsUpToIsUnique ==
    ASSUME NEW d, NEW i \in Nat, NEW m \in Nat, NEW n \in Nat,
           NEW f, AddsUpTo(f, d, i, m), NEW g, AddsUpTo(g, d, i, n),
           NEW j \in Nat, j <= m, j <= n
    PROVE  f[j] = g[j]
<1> DEFINE S == {k \in Nat : k <= j => f[k] = g[k]}
<1>1. 0 \in S
  <2>1. 0 \in 0 .. m /\ 0 \in 0 .. n /\ 0 <= i
    OBVIOUS
  <2>2. QED
    BY <2>1 DEF AddsUpTo
<1>2. ASSUME NEW k \in Nat, k \in S PROVE k + 1 \in S
  <2> SUFFICES ASSUME k + 1 <= j PROVE f[k + 1] = g[k + 1]
    OBVIOUS
  <2>1. k + 1 \in 0 .. m /\ k + 1 \in 0 .. n /\ (k + 1) - 1 = k
    OBVIOUS
  <2>2. f[k] = g[k]
    BY <1>2
  <2>3. /\ f[k + 1] = IF k + 1 <= i THEN 0 ELSE f[k] + size[d[k + 1]]
        /\ g[k + 1] = IF k + 1 <= i THEN 0 ELSE g[k] + size[d[k + 1]]
    <3>1. PICK x : x = k + 1
      OBVIOUS
    <3>2. x \in 0 .. m /\ x \in 0 .. n /\ x - 1 = k
      BY <2>1, <3>1
    <3>3. /\ f[x] = IF x <= i THEN 0 ELSE f[x - 1] + size[d[x]]
          /\ g[x] = IF x <= i THEN 0 ELSE g[x - 1] + size[d[x]]
      BY <3>2 DEF AddsUpTo
    <3>4. QED
      BY <3>1, <3>2, <3>3
  <2>4. QED
    BY <2>2, <2>3
<1> HIDE DEF S
<1>3. j \in S
  BY <1>1, <1>2, Induction
<1>4. QED
  BY <1>3 DEF S

\* The function that Extent defines and takes the value of.
IsExtent(f, d, i) ==
    f = [k \in Nat |-> IF k <= i THEN 0 ELSE f[k - 1] + size[d[k]]]

LEMMA ExtentExists ==
    ASSUME NEW d, NEW i \in Nat
    PROVE  \E f : IsExtent(f, d, i)
<1> DEFINE F(n) == CHOOSE f : AddsUpTo(f, d, i, n)
           g == [n \in Nat |-> F(n)[n]]
<1>1. ASSUME NEW n \in Nat PROVE AddsUpTo(F(n), d, i, n)
  BY SumsExist
<1>2. \A n \in Nat : g[n] = F(n)[n]
  OBVIOUS
<1>3. g = [n \in Nat |-> g[n]]
  OBVIOUS
<1> HIDE DEF F, g
<1>4. ASSUME NEW n \in Nat
      PROVE  g[n] = IF n <= i THEN 0 ELSE g[n - 1] + size[d[n]]
  <2>1. n \in 0 .. n
    OBVIOUS
  <2>2. F(n)[n] = IF n <= i THEN 0 ELSE F(n)[n - 1] + size[d[n]]
    BY <1>1, <2>1 DEF AddsUpTo
  <2>3. ASSUME ~(n <= i) PROVE F(n)[n - 1] = F(n - 1)[n - 1]
    <3>1. PICK m \in Nat : m = n - 1
      BY <2>3
    <3>2. AddsUpTo(F(m), d, i, m) /\ AddsUpTo(F(n), d, i, n)
      BY <1>1
    <3>3. m <= m /\ m <= n
      BY <3>1
    <3>4. F(n)[m] = F(m)[m]
      BY <3>2, <3>3, AddsUpToIsUnique
    <3>5. QED
      BY <3>1, <3>4
  <2>4. ~(n <= i) => n - 1 \in Nat
    OBVIOUS
  <2>5. QED
    BY <1>2, <2>2, <2>3, <2>4
<1>5. IsExtent(g, d, i)
  BY <1>3, <1>4 DEF IsExtent
<1>6. QED
  BY <1>5

LEMMA ExtentIs ==
    ASSUME NEW d, NEW i \in Nat
    PROVE  \E f : /\ IsExtent(f, d, i)
                  /\ \A j \in Nat : Extent(d, i, j) = f[j]
<1> DEFINE f == CHOOSE f : IsExtent(f, d, i)
<1>1. \A j \in Nat : Extent(d, i, j) = f[j]
  BY DEF Extent, IsExtent
<1>2. IsExtent(f, d, i)
  BY ExtentExists
<1>3. QED
  BY <1>1, <1>2

LEMMA ExtentOfNone ==
    ASSUME NEW d, NEW i \in Nat, NEW j \in Nat, j <= i
    PROVE  Extent(d, i, j) = 0
<1>1. PICK f : IsExtent(f, d, i) /\ \A k \in Nat : Extent(d, i, k) = f[k]
  BY ExtentIs
<1>2. QED
  BY <1>1 DEF IsExtent

LEMMA ExtentOfLast ==
    ASSUME NEW d, NEW i \in Nat, NEW j \in Nat, i <= j
    PROVE  Extent(d, i, j + 1) = Extent(d, i, j) + size[d[j + 1]]
<1>1. PICK f : IsExtent(f, d, i) /\ \A k \in Nat : Extent(d, i, k) = f[k]
  BY ExtentIs
<1>2. j + 1 \in Nat /\ ~(j + 1 <= i) /\ (j + 1) - 1 = j
  OBVIOUS
<1>3. PICK x \in Nat : x = j + 1
  OBVIOUS
<1>4. f[x] = f[x - 1] + size[d[x]]
  BY <1>1, <1>2, <1>3 DEF IsExtent
<1>5. QED
  BY <1>1, <1>2, <1>3, <1>4

\* size and d have their types.
Sized(d) == size \in [Items -> Nat \ {0}] /\ d \in Seq(Items)

LEMMA SizeOfItem ==
    ASSUME NEW d, Sized(d), NEW i \in Nat, i < Len(d)
    PROVE  size[d[i + 1]] \in Nat /\ size[d[i + 1]] > 0
<1>1. i + 1 \in 1 .. Len(d)
  BY DEF Sized
<1>2. d[i + 1] \in Items
  BY <1>1 DEF Sized
<1>3. QED
  BY <1>2 DEF Sized

LEMMA ExtentIsNat ==
    ASSUME NEW d, Sized(d), NEW i \in Nat, NEW j \in Nat, j <= Len(d)
    PROVE  Extent(d, i, j) \in Nat
<1> DEFINE S == {k \in Nat : k <= Len(d) => Extent(d, i, k) \in Nat}
<1>1. 0 \in S
  BY ExtentOfNone
<1>2. ASSUME NEW k \in Nat, k \in S PROVE k + 1 \in S
  <2> SUFFICES ASSUME k + 1 <= Len(d) PROVE Extent(d, i, k + 1) \in Nat
    OBVIOUS
  <2>1. CASE k + 1 <= i
    BY <2>1, ExtentOfNone
  <2>2. CASE i <= k
    <3>1. Extent(d, i, k + 1) = Extent(d, i, k) + size[d[k + 1]]
      BY <2>2, ExtentOfLast
    <3>2. k < Len(d) /\ k <= Len(d)
      BY DEF Sized
    <3>3. Extent(d, i, k) \in Nat
      BY <1>2, <3>2
    <3>4. QED
      BY <3>1, <3>2, <3>3, SizeOfItem
  <2>3. QED
    BY <2>1, <2>2
<1> HIDE DEF S
<1>3. j \in S
  BY <1>1, <1>2, Induction
<1>4. QED
  BY <1>3 DEF S

LEMMA ExtentGrows ==
    ASSUME NEW d, Sized(d), NEW i \in Nat, NEW j \in Nat, NEW k \in Nat,
           j <= k, k <= Len(d)
    PROVE  Extent(d, i, j) <= Extent(d, i, k)
<1> DEFINE S == {n \in Nat : j <= n /\ n <= Len(d) =>
                                 Extent(d, i, j) <= Extent(d, i, n)}
<1>0. Len(d) \in Nat
  BY DEF Sized
<1>1. 0 \in S
  <2> SUFFICES ASSUME j <= 0 PROVE Extent(d, i, j) <= Extent(d, i, 0)
    BY <1>0
  <2>1. j = 0
    OBVIOUS
  <2>2. QED
    BY <1>0, <2>1, ExtentIsNat
<1>2. ASSUME NEW n \in Nat, n \in S PROVE n + 1 \in S
  <2> SUFFICES ASSUME j <= n + 1, n + 1 <= Len(d)
               PROVE  Extent(d, i, j) <= Extent(d, i, n + 1)
    OBVIOUS
  <2>1. n < Len(d) /\ n <= Len(d) /\ j <= Len(d) /\ n + 1 \in Nat
    BY <1>0
  <2>2. /\ Extent(d, i, j) \in Nat /\ Extent(d, i, n) \in Nat
        /\ Extent(d, i, n + 1) \in Nat
    BY <2>1, ExtentIsNat
  <2>3. CASE j = n + 1
    BY <2>2, <2>3
  <2>4. CASE j <= n /\ n + 1 <= i
    <3>1. j <= i
      BY <2>4
    <3>2. Extent(d, i, j) = 0 /\ Extent(d, i, n + 1) = 0
      BY <2>1, <2>4, <3>1, ExtentOfNone
    <3>3. QED
      BY <3>2
  <2>5. CASE j <= n /\ i <= n
    <3>1. Extent(d, i, n + 1) = Extent(d, i, n) + size[d[n + 1]]
      BY <2>5, ExtentOfLast
    <3>2. Extent(d, i, j) <= Extent(d, i, n)
      BY <1>2, <2>1, <2>5
    <3>3. size[d[n + 1]] \in Nat
      BY <2>1, SizeOfItem
    <3>4. QED
      BY <2>2, <3>1, <3>2, <3>3
  <2>6. QED
    BY <2>3, <2>4, <2>5
<1> HIDE DEF S
<1>3. k \in S
  BY <1>1, <1>2, Induction
<1>4. QED
  BY <1>3 DEF S

LEMMA ExtentOfFirst ==
    ASSUME NEW d, Sized(d), NEW i \in Nat, NEW j \in Nat,
           i < j, j <= Len(d)
    PROVE  Extent(d, i, j) = size[d[i + 1]] + Extent(d, i + 1, j)
<1> DEFINE S == {k \in Nat : i < k /\ k <= Len(d) =>
                     Extent(d, i, k) = size[d[i + 1]] + Extent(d, i + 1, k)}
<1>0. Len(d) \in Nat
  BY DEF Sized
<1>1. 0 \in S
  OBVIOUS
<1>2. ASSUME NEW k \in Nat, k \in S PROVE k + 1 \in S
  <2> SUFFICES ASSUME i < k + 1, k + 1 <= Len(d)
               PROVE  Extent(d, i, k + 1)
                          = size[d[i + 1]] + Extent(d, i + 1, k + 1)
    OBVIOUS
  <2>1. k < Len(d) /\ k <= Len(d) /\ k + 1 \in Nat /\ i + 1 \in Nat
        /\ i <= k /\ i < Len(d)
    BY <1>0
  <2>2. Extent(d, i, k + 1) = Extent(d, i, k) + size[d[k + 1]]
    BY <2>1, ExtentOfLast
  <2>3. size[d[k + 1]] \in Nat /\ size[d[i + 1]] \in Nat
    BY <2>1, SizeOfItem
  <2>4. CASE i = k
    <3>1. Extent(d, i, k) = 0 /\ Extent(d, i + 1, k + 1) = 0
      BY <2>1, <2>4, ExtentOfNone
    <3>2. QED
      BY <2>2, <2>3, <2>4, <3>1
  <2>5. CASE i < k
    <3>1. i + 1 <= k
      BY <2>5
    <3>2. Extent(d, i + 1, k + 1) = Extent(d, i + 1, k) + size[d[k + 1]]
      BY <2>1, <3>1, ExtentOfLast
    <3>3. Extent(d, i, k) = size[d[i + 1]] + Extent(d, i + 1, k)
      BY <1>2, <2>1, <2>5
    <3>4. Extent(d, i + 1, k) \in Nat
      BY <2>1, ExtentIsNat
    <3>5. QED
      BY <2>2, <2>3, <3>2, <3>3, <3>4
  <2>6. QED
    BY <2>1, <2>4, <2>5
<1> HIDE DEF S
<1>3. j \in S
  BY <1>1, <1>2, Induction
<1>4. QED
  BY <1>3 DEF S

-----------------------------------------------------------------------------
(* The tail *)

\* Computed anew, the first tail item is one of the items, or none, and the
\* offset is less than its length.
LEMMA TailIsCutInFirst ==
    ASSUME NEW d, Sized(d), d # << >>, NEW l \in Nat
    PROVE  LET tail == TailFor(0, d, l)
           IN /\ tail.num \in Nat /\ tail.first \in Nat
              /\ tail.first <= Len(d)
              /\ tail.offset \in Nat \cup {-1}
              /\ tail.first < Len(d) => tail.offset < size[d[tail.first + 1]]
              /\ l > 0 => tail.num # 0
<1> DEFINE c == Len(d)
           S == {k \in 0 .. c : k = c \/ Extent(d, c - k, c) >= l}
           n == Min(S)
           extra == Extent(d, c - n, c) - l
           tail == [num |-> n, first |-> c - n,
                    offset |-> IF extra < 0 THEN -1 ELSE extra]
<1>0. c \in Nat
  BY DEF Sized
<1>1. TailFor(0, d, l) = tail
  BY DEF TailFor
<1>2. n \in S /\ \A k \in S : n <= k
  <2>1. c \in S /\ S \subseteq Int /\ (\A k \in S : 0 <= k) /\ 0 \in Int
    BY <1>0
  <2> HIDE DEF S
  <2>2. S # {}
    BY <2>1
  <2>3. QED
    BY <2>1, <2>2, LeastExists
<1> HIDE DEF n
<1>3. n \in 0 .. c /\ n \in Nat /\ c - n \in Nat /\ c - n <= c
  BY <1>0, <1>2
<1>4. Extent(d, c - n, c) \in Nat
  <2>1. PICK i \in Nat : i = c - n
    BY <1>3
  <2>2. c <= Len(d)
    BY <1>0
  <2>3. Extent(d, i, c) \in Nat
    BY <1>0, <2>2, ExtentIsNat
  <2>4. QED
    BY <2>1, <2>3
<1>5. extra \in Int
  BY <1>4
<1>6. ASSUME c - n < c
      PROVE  extra < size[d[c - n + 1]] /\ size[d[c - n + 1]] \in Nat
             /\ size[d[c - n + 1]] > 0
  <2>1. n - 1 \in 0 .. c /\ n - 1 # c /\ n - 1 < n
    BY <1>0, <1>3, <1>6
  <2>2. ~(Extent(d, c - (n - 1), c) >= l)
    <3>1. n - 1 \notin S
      BY <1>2, <1>3, <2>1
    <3>2. QED
      BY <2>1, <3>1
  <2>3. c - (n - 1) = (c - n) + 1 /\ (c - n) + 1 \in Nat
    BY <1>0, <1>3
  <2>4. Extent(d, c - n, c) = size[d[c - n + 1]] + Extent(d, (c - n) + 1, c)
    BY <1>0, <1>3, <1>6, ExtentOfFirst
  <2>5. size[d[c - n + 1]] \in Nat /\ size[d[c - n + 1]] > 0
    BY <1>3, <1>6, SizeOfItem
  <2>6. Extent(d, (c - n) + 1, c) \in Nat
    BY <1>0, <2>3, ExtentIsNat
  <2>7. QED
    BY <2>2, <2>3, <2>4, <2>5, <2>6
<1>7. tail.offset \in Nat \cup {-1}
  BY <1>5
<1>8. c - n < c => tail.offset < size[d[c - n + 1]]
  BY <1>5, <1>6
<1>9. l > 0 => n # 0
  <2> SUFFICES ASSUME l > 0, n = 0 PROVE FALSE
    OBVIOUS
  <2>1. c # 0
    BY DEF Sized
  <2>2. Extent(d, c - 0, c) >= l
    BY <1>2, <2>1
  <2>3. c - 0 = c
    BY <1>0
  <2>4. Extent(d, c, c) = 0
    BY <1>0, ExtentOfNone
  <2>5. QED
    BY <2>2, <2>3, <2>4
<1>10. tail.num = n /\ tail.first = c - n
  OBVIOUS
<1> HIDE DEF tail
<1>11. QED
  BY <1>1, <1>3, <1>7, <1>8, <1>9, <1>10

-----------------------------------------------------------------------------
(* Arranging the widgets *)

LEMMA LeastOfTwo ==
    ASSUME NEW m \in Int, NEW n \in Int
    PROVE  Min({m, n}) = IF m <= n THEN m ELSE n
<1>1. PICK a \in Int : a <= m /\ a <= n
  <2>1. CASE m <= n
    BY <2>1
  <2>2. CASE n <= m
    BY <2>2
  <2>3. QED
    BY <2>1, <2>2
<1> DEFINE S == {m, n}
<1>2. S \subseteq Int /\ S # {} /\ \A x \in S : a <= x
  BY <1>1
<1>3. Min(S) \in S /\ \A x \in S : Min(S) <= x
  <2> HIDE DEF S
  <2>1. QED
    BY <1>2, LeastExists
<1>4. QED
  BY <1>3

\* A set that begins at a and has no gaps is an interval.
LEMMA SegmentIsInterval ==
    ASSUME NEW a \in Nat, NEW b \in Int, NEW B, B \subseteq a .. b,
           \A i \in B : \A j \in a .. i : j \in B
    PROVE  /\ IsFiniteSet(B) /\ Cardinality(B) \in Nat
           /\ B = a .. a + Cardinality(B) - 1
           /\ Cardinality(B) # 0 => a + Cardinality(B) - 1 <= b
<1> DEFINE U == {i \in a .. b + 1 : i \notin B}
<1>1. CASE b < a
  <2>1. B = {}
    BY <1>1
  <2>2. a .. a + 0 - 1 = {}
    OBVIOUS
  <2>3. QED
    BY <2>1, <2>2, FS_EmptySet
<1>2. CASE a <= b
  <2>1. U \subseteq Int /\ (\A x \in U : a <= x) /\ b + 1 \in U
    BY <1>2
  <2>2. PICK m : m \in U /\ \A x \in U : m <= x
    <3> HIDE DEF U
    <3>1. U # {} /\ U \subseteq Int /\ a \in Int /\ \A x \in U : a <= x
      BY <2>1
    <3>2. Min(U) \in U /\ \A x \in U : Min(U) <= x
      BY <3>1, LeastExists
    <3>3. QED
      BY <3>2
  <2>3. m \in Int /\ a <= m /\ m <= b + 1 /\ m \notin B
    BY <2>2
  <2>4. B = a .. m - 1
    <3>1. ASSUME NEW i \in B PROVE i \in a .. m - 1
      <4>1. i \in a .. b /\ i \in Int
        OBVIOUS
      <4>2. ~(m <= i)
        BY <2>3, <4>1
      <4>3. QED
        BY <2>3, <4>1, <4>2
    <3>2. ASSUME NEW i \in a .. m - 1 PROVE i \in B
      <4>1. i \in a .. b + 1 /\ ~(m <= i)
        BY <2>3
      <4>2. QED
        BY <2>2, <4>1
    <3>3. QED
      BY <3>1, <3>2
  <2>5. IsFiniteSet(B) /\ Cardinality(B) = m - a
    <3>1. m - 1 \in Int /\ a \in Int
      BY <2>3
    <3>2. /\ IsFiniteSet(a .. m - 1)
          /\ Cardinality(a .. m - 1)
                 = IF a > m - 1 THEN 0 ELSE (m - 1) - a + 1
      BY <3>1, FS_Interval
    <3>3. QED
      BY <2>3, <2>4, <3>2
  <2>6. m - a \in Nat /\ a + (m - a) - 1 = m - 1
    BY <2>3
  <2>7. QED
    BY <2>3, <2>4, <2>5, <2>6
<1>3. QED
  BY <1>1, <1>2

\* What stays when m widgets go.
LEMMA KeptWidgets ==
    ASSUME NEW kids \in Seq(Widget), NEW m \in Nat, m <= Len(kids)
    PROVE  LET kept == SubSeq(kids, m + 1, Len(kids))
           IN /\ kept \in Seq(Widget) /\ Len(kept) = Len(kids) - m
              /\ \A k \in DOMAIN kept : /\ m + k \in DOMAIN kids
                                        /\ kept[k] = kids[m + k]
<1> DEFINE kept == SubSeq(kids, m + 1, Len(kids))
<1>1. m + 1 \in Int /\ Len(kids) \in Nat /\ DOMAIN kids = 1 .. Len(kids)
  OBVIOUS
<1>2. \A i \in m + 1 .. Len(kids) : kids[i] \in Widget
  OBVIOUS
<1>3. /\ kept \in Seq(Widget)
      /\ Len(kept) = IF m + 1 <= Len(kids)
                     THEN Len(kids) - (m + 1) + 1 ELSE 0
      /\ \A i \in 1 .. Len(kids) - (m + 1) + 1 : kept[i] = kids[(m + 1) + i - 1]
  BY <1>1, <1>2, SubSeqProperties
<1> HIDE DEF kept
<1>4. Len(kept) = Len(kids) - m
  <2>1. PICK n \in Nat : n = Len(kids)
    BY <1>1
  <2>2. Len(kept) = IF m + 1 <= n THEN n - (m + 1) + 1 ELSE 0
    BY <1>3, <2>1
  <2>3. QED
    BY <2>1, <2>2
<1>5. DOMAIN kept = 1 .. Len(kids) - m
  BY <1>3, <1>4
<1>6. ASSUME NEW k \in DOMAIN kept
      PROVE  m + k \in DOMAIN kids /\ kept[k] = kids[m + k]
  <2>1. PICK n \in Nat : n = Len(kids)
    BY <1>1
  <2>2. k \in 1 .. n - m
    BY <1>5, <2>1
  <2>3. k \in 1 .. n - (m + 1) + 1 /\ (m + 1) + k - 1 = m + k
        /\ m + k \in 1 .. n
    BY <2>2
  <2>4. kept[k] = kids[(m + 1) + k - 1]
    BY <1>3, <2>1, <2>3
  <2>5. QED
    BY <1>1, <2>1, <2>3, <2>4
<1>7. QED
  BY <1>3, <1>4, <1>6 DEF kept

\* Widgets that show the items of d from number "added" on.
Shows(kids, d, added) ==
    /\ \A k \in DOMAIN kids : kids[k] = [index |-> added + k - 1,
                                         item |-> d[added + k]]
    /\ kids # << >> => added + Len(kids) <= Len(d)

LEMMA WidgetIsTyped ==
    ASSUME NEW d \in Seq(Items), NEW kids \in Seq(Widget), NEW start \in Nat,
           NEW i \in Nat, i < Len(d)
    PROVE  /\ WidgetFor(i, d, kids, start) \in Widget
           /\ Shows(kids, d, start) =>
                WidgetFor(i, d, kids, start) = [index |-> i, item |-> d[i + 1]]
<1>1. CASE i - start + 1 \in DOMAIN kids
  <2>1. WidgetFor(i, d, kids, start) = kids[i - start + 1]
    BY <1>1 DEF WidgetFor
  <2>2. kids[i - start + 1] \in Widget
    BY <1>1
  <2>3. start + (i - start + 1) = i + 1 /\ start + (i - start + 1) - 1 = i
    OBVIOUS
  <2>4. QED
    BY <1>1, <2>1, <2>2, <2>3 DEF Shows
<1>2. CASE i - start + 1 \notin DOMAIN kids
  <2>1. WidgetFor(i, d, kids, start) = [index |-> i, item |-> d[i + 1]]
    BY <1>2 DEF WidgetFor
  <2>2. i + 1 \in 1 .. Len(d)
    OBVIOUS
  <2>3. d[i + 1] \in Items
    BY <2>2
  <2>4. QED
    BY <2>1, <2>3 DEF Widget
<1>3. QED
  BY <1>1, <1>2

\* The items whose widgets are arranged.
Arranged(d, kids, start) ==
    [n \in DOMAIN d |-> WidgetFor(n - 1, d, kids, start).item]

\* They are those of d, where the widgets that are kept show them.
LEMMA ArrangedItems ==
    ASSUME NEW d, Sized(d), NEW kids \in Seq(Widget), NEW start \in Nat
    PROVE  /\ Sized(Arranged(d, kids, start))
           /\ Len(Arranged(d, kids, start)) = Len(d)
           /\ Shows(kids, d, start) => Arranged(d, kids, start) = d
<1> DEFINE arranged == [n \in DOMAIN d |-> WidgetFor(n - 1, d, kids, start).item]
<1>1. d \in Seq(Items) /\ Len(d) \in Nat /\ DOMAIN d = 1 .. Len(d)
      /\ d = [n \in DOMAIN d |-> d[n]]
  BY DEF Sized
<1>2. ASSUME NEW n \in DOMAIN d
      PROVE  /\ arranged[n] \in Items
             /\ Shows(kids, d, start) => arranged[n] = d[n]
  <2>1. PICK i \in Nat : i = n - 1 /\ i < Len(d) /\ i + 1 = n
    BY <1>1
  <2>2. /\ WidgetFor(i, d, kids, start) \in Widget
        /\ Shows(kids, d, start) =>
             WidgetFor(i, d, kids, start) = [index |-> i, item |-> d[i + 1]]
    BY <1>1, <2>1, WidgetIsTyped
  <2>3. arranged[n] = WidgetFor(i, d, kids, start).item
    BY <2>1
  <2>4. QED
    BY <2>1, <2>2, <2>3 DEF Widget
<1>3. arranged \in [1 .. Len(d) -> Items]
  <2>1. arranged = [n \in 1 .. Len(d) |-> arranged[n]]
    BY <1>1
  <2> HIDE DEF arranged
  <2>2. QED
    BY <1>1, <1>2, <2>1
<1>4. Shows(kids, d, start) => arranged = d
  <2>1. arranged = [n \in DOMAIN d |-> arranged[n]]
    OBVIOUS
  <2> HIDE DEF arranged
  <2>2. QED
    BY <1>1, <1>2, <2>1
<1> HIDE DEF arranged
<1>5. arranged \in Seq(Items) /\ Len(arranged) = Len(d)
  BY <1>1, <1>3
<1>6. Sized(arranged)
  BY <1>5 DEF Sized
<1>7. QED
  BY <1>4, <1>5, <1>6 DEF arranged, Arranged

\* The widgets are those made for the items from number "added" on.
Indexed(kids, added) == \A k \in DOMAIN kids : kids[k].index = added + k - 1

\* How far the widget for item i reaches, when those of t are arranged.
ReachOf(t, from, i) == Extent(t, from[1], i + 1) - from[2]

\* Where the loops end: t are the items whose widgets are arranged, and "last"
\* is the last of them.
LoopsEnd(d, l, from, kids, added, t, last) ==
    /\ Sized(t) /\ Len(t) = Len(d)
    /\ from[1] < Len(d) =>
           t[from[1] + 1] = WidgetFor(from[1], d, kids, added).item
    /\ last \in Int /\ last <= Len(d) - 1
    /\ from[1] < Len(d) => from[1] <= last
    /\ last # Len(d) - 1 => ReachOf(t, from, last) >= l
    /\ posIndex' = from[1] \/ posIndex' <= last + 1
    /\ from[1] <= last /\ posIndex' <= last => ReachOf(t, from, posIndex') > 0
    /\ posIndex' > from[1] => ReachOf(t, from, posIndex' - 1) <= 0
    /\ posOffset' = from[2] - Extent(t, from[1], posIndex')
    /\ posIndex' < Len(d) => posOffset' < size[t[posIndex' + 1]]
    /\ from[1] < Len(d) /\ from[2] < size[t[from[1] + 1]] =>
           posIndex' = from[1]
    /\ Len(children') = IF posIndex' <= last THEN last - posIndex' + 1 ELSE 0
    /\ \A k \in DOMAIN children' : children'[k].item = t[posIndex' + k]
    /\ Indexed(kids, added) => /\ Indexed(children', posIndex')
                               /\ \A r \in recycled' : r[1] = r[2].index
    /\ kids = << >> /\ children' = << >> => addedIndex' = added

\* What Arrange does, of any state: the lengths and the widgets are typed,
\* the first item in view is not before the position asked for.
\* When the widgets that are shown show the items, the new ones do.
\* Then, unless the first item in view is past all the widgets there were,
\* addedIndex is its index.
LEMMA ArrangeIs ==
    ASSUME NEW d, Sized(d), NEW l \in Nat, NEW from, from[1] \in Nat,
           from[2] \in Int, NEW kids \in Seq(Widget), NEW added \in Nat,
           Arrange(d, l, from, kids, added)
    PROVE  /\ children' \in Seq(Widget) /\ addedIndex' \in Nat
           /\ posIndex' \in Nat /\ posOffset' \in Int
           /\ recycled' \subseteq Nat \X Widget
           /\ from[1] <= posIndex'
           /\ from[1] >= Len(d) => posIndex' = from[1]
           /\ posIndex' <= from[1] \/ posIndex' <= Len(d)
           /\ Shows(kids, d, added) => Shows(children', d, posIndex')
           /\ posIndex' <= added + Len(kids) =>
                /\ posIndex' <= addedIndex'
                /\ children' # << >> => addedIndex' = posIndex'
           /\ \E t, last : /\ LoopsEnd(d, l, from, kids, added, t, last)
                           /\ Shows(kids, d, added) => t = d
<1> DEFINE index == from[1]
           offset == from[2]
           gone == IF added < index THEN Min({Len(kids), index - added}) ELSE 0
           kept == SubSeq(kids, gone + 1, Len(kids))
           start == added + gone
           arranged == [n \in DOMAIN d |->
                           WidgetFor(n - 1, d, kept, start).item]
           Reach(i) == Extent(arranged, index, i + 1) - offset
           Ends == {i \in index .. Len(d) - 1 : Reach(i) >= l}
                       \cup {Len(d) - 1}
           last == Min(Ends)
           before == {i \in index .. last : Reach(i) <= 0}
           first == index + Cardinality(before)
           W(i) == WidgetFor(i, d, kept, start)
           oldBefore == {i \in before : i - start + 1 \in DOMAIN kept}
           shown == start + Cardinality(oldBefore)
<1>1. /\ children' = [k \in 1 .. last - first + 1 |-> W(first + k - 1)]
      /\ addedIndex' = Min({shown} \cup IF first <= last THEN {first} ELSE {})
      /\ posIndex' = first
      /\ posOffset' = offset - Extent(arranged, index, first)
      /\ recycled' = {<<added + k - 1, kids[k]>> : k \in 1 .. gone}
             \cup {<<i, W(i)>> : i \in before}
             \cup {<<start + k - 1, kept[k]>> :
                      k \in {j \in DOMAIN kept : start + j - 1 > last}}
  BY DEF Arrange
<1>2. /\ index \in Nat /\ offset \in Int /\ Len(kids) \in Nat
      /\ Len(d) \in Nat /\ d \in Seq(Items) /\ DOMAIN kids = 1 .. Len(kids)
  BY DEF Sized
<1> HIDE DEF index, offset
<1>3. /\ gone \in Nat /\ gone <= Len(kids)
      /\ added >= index => gone = 0
      /\ added < index => \/ gone = index - added
                          \/ gone = Len(kids) /\ gone < index - added
  <2>1. CASE added < index
    <3>1. index - added \in Int /\ index - added > 0
      BY <1>2, <2>1
    <3>2. gone = IF Len(kids) <= index - added THEN Len(kids)
                 ELSE index - added
      BY <1>2, <2>1, <3>1, LeastOfTwo
    <3> HIDE DEF gone, index
    <3>3. QED
      BY <1>2, <2>1, <3>1, <3>2
  <2>2. CASE ~(added < index)
    BY <1>2, <2>2
  <2>3. QED
    BY <2>1, <2>2
<1>4. start \in Nat
  BY <1>3
<1> HIDE DEF gone
<1>5. /\ kept \in Seq(Widget) /\ Len(kept) = Len(kids) - gone
      /\ Len(kept) \in Nat /\ DOMAIN kept = 1 .. Len(kept)
      /\ \A k \in DOMAIN kept : gone + k \in DOMAIN kids
                                /\ kept[k] = kids[gone + k]
  <2>1. /\ kept \in Seq(Widget) /\ Len(kept) = Len(kids) - gone
        /\ \A k \in DOMAIN kept : gone + k \in DOMAIN kids
                                  /\ kept[k] = kids[gone + k]
    BY <1>3, KeptWidgets
  <2> HIDE DEF kept
  <2>2. Len(kept) \in Nat /\ DOMAIN kept = 1 .. Len(kept)
    BY <2>1
  <2>3. QED
    BY <2>1, <2>2
<1> HIDE DEF kept
<1>6. Shows(kids, d, added) => Shows(kept, d, start)
  <2> SUFFICES ASSUME Shows(kids, d, added) PROVE Shows(kept, d, start)
    OBVIOUS
  <2>1. ASSUME NEW k \in DOMAIN kept
        PROVE  kept[k] = [index |-> start + k - 1, item |-> d[start + k]]
    <3>1. gone + k \in DOMAIN kids /\ kept[k] = kids[gone + k] /\ k \in Int
      BY <1>5
    <3>2. added + (gone + k) = start + k
          /\ added + (gone + k) - 1 = start + k - 1
      BY <1>3, <3>1
    <3>3. kids[gone + k] = [index |-> added + (gone + k) - 1,
                            item |-> d[added + (gone + k)]]
      BY <3>1 DEF Shows
    <3>4. QED
      BY <3>1, <3>2, <3>3
  <2>2. ASSUME kept # << >> PROVE start + Len(kept) <= Len(d)
    <3>1. PICK m \in Nat, n \in Nat, g \in Nat :
               m = Len(kept) /\ n = Len(kids) /\ g = gone
      BY <1>2, <1>3, <1>5
    <3>2. m = n - g /\ g <= n
      BY <1>3, <1>5, <3>1
    <3>3. m # 0
      BY <1>5, <2>2, <3>1
    <3>4. n # 0
      BY <3>2, <3>3
    <3>5. kids # << >>
      BY <3>1, <3>4
    <3>6. added + n <= Len(d)
      BY <3>1, <3>5 DEF Shows
    <3>7. (added + g) + m = added + n
      BY <3>2
    <3>8. QED
      BY <3>1, <3>6, <3>7
  <2>3. QED
    BY <2>1, <2>2 DEF Shows
<1> HIDE DEF start
<1>7. /\ Sized(arranged) /\ Len(arranged) = Len(d)
      /\ Shows(kids, d, added) => arranged = d
  <2>1. /\ Sized(arranged) /\ Len(arranged) = Len(d)
        /\ Shows(kept, d, start) => arranged = d
    <3>1. arranged = Arranged(d, kept, start)
      BY DEF Arranged
    <3> HIDE DEF arranged
    <3>2. QED
      BY <1>4, <1>5, <3>1, ArrangedItems
  <2> HIDE DEF arranged
  <2>2. QED
    BY <1>6, <2>1
<1>8. ASSUME NEW i \in Nat, i < Len(d)
      PROVE  /\ W(i) \in Widget
             /\ Shows(kids, d, added) =>
                  W(i) = [index |-> i, item |-> d[i + 1]]
  BY <1>2, <1>4, <1>5, <1>6, <1>8, WidgetIsTyped
<1> HIDE DEF arranged, W
\* how far to the right the widgets reach
<1>9. ASSUME NEW i \in index .. Len(d) - 1
      PROVE  /\ Reach(i) \in Int
             /\ \A j \in index .. i : Reach(j) <= Reach(i)
  <2>1. /\ i \in Nat /\ i + 1 \in Nat /\ i + 1 <= Len(arranged)
        /\ index \in Nat
    BY <1>2, <1>7
  <2>2. Extent(arranged, index, i + 1) \in Nat
    BY <1>7, <2>1, ExtentIsNat
  <2>3. ASSUME NEW j \in index .. i PROVE Reach(j) <= Reach(i)
    <3>1. j + 1 \in Nat /\ j + 1 <= i + 1 /\ j + 1 <= Len(arranged)
      BY <2>1, <2>3
    <3>2. Extent(arranged, index, j + 1) <= Extent(arranged, index, i + 1)
      BY <1>7, <2>1, <3>1, ExtentGrows
    <3>3. Extent(arranged, index, j + 1) \in Nat
      BY <1>7, <2>1, <3>1, ExtentIsNat
    <3>4. QED
      BY <1>2, <2>2, <3>2, <3>3
  <2>4. QED
    BY <1>2, <2>2, <2>3
<1>10. /\ last \in Ends /\ last \in Int /\ last >= -1 /\ last <= Len(d) - 1
       /\ index <= Len(d) - 1 => index <= last
       /\ last # Len(d) - 1 => Reach(last) >= l
  <2>1. Ends \subseteq Int /\ Ends # {} /\ (\A x \in Ends : -1 <= x)
        /\ Len(d) - 1 \in Ends /\ -1 \in Int
        /\ \A x \in Ends : x <= Len(d) - 1
    BY <1>2
  <2>2. \A x \in Ends : /\ index <= Len(d) - 1 => index <= x
                        /\ x # Len(d) - 1 => Reach(x) >= l
    BY <1>2
  <2> HIDE DEF Ends
  <2>3. last \in Ends /\ \A x \in Ends : last <= x
    BY <2>1, LeastExists
  <2> HIDE DEF last
  <2>4. QED
    BY <2>1, <2>2, <2>3
<1> HIDE DEF last
\* the widgets before the list are the first ones
<1>11. /\ IsFiniteSet(before) /\ Cardinality(before) \in Nat
       /\ before = index .. index + Cardinality(before) - 1
       /\ Cardinality(before) # 0 => index + Cardinality(before) - 1 <= last
  <2>1. before \subseteq index .. last
    OBVIOUS
  <2>2. ASSUME NEW i \in before, NEW j \in index .. i PROVE j \in before
    <3>1. i \in index .. Len(d) - 1 /\ i <= last
      BY <1>2, <1>10
    <3>2. j \in index .. last /\ j \in index .. Len(d) - 1
      BY <1>2, <1>10, <3>1
    <3>3. Reach(j) <= Reach(i) /\ Reach(i) \in Int /\ Reach(j) \in Int
      BY <1>9, <3>1, <3>2
    <3>4. Reach(i) <= 0
      OBVIOUS
    <3>5. QED
      BY <3>2, <3>3, <3>4
  <2> HIDE DEF before
  <2>3. QED
    BY <1>2, <1>10, <2>1, <2>2, SegmentIsInterval
<1>12. \A i \in index .. last : i \in before <=> Reach(i) <= 0
  OBVIOUS
<1> HIDE DEF before
<1>13. /\ first \in Nat /\ index <= first /\ before = index .. first - 1
       /\ first = index \/ first <= last + 1
  <2>1. PICK c \in Nat : c = Cardinality(before)
    BY <1>11
  <2>2. first = index + c
    BY <2>1
  <2>3. before = index .. index + c - 1 /\ (c # 0 => index + c - 1 <= last)
    BY <1>11, <2>1
  <2> HIDE DEF first
  <2>4. QED
    BY <1>2, <1>10, <2>2, <2>3
<1> HIDE DEF first
<1>14. /\ index <= last /\ first <= last => Reach(first) > 0
       /\ first > index => Reach(first - 1) <= 0
  <2>1. ASSUME index <= last, first <= last PROVE Reach(first) > 0
    <3>1. first \in index .. last /\ first \in index .. Len(d) - 1
      BY <1>2, <1>10, <1>13, <2>1
    <3>2. first \notin before
      BY <1>2, <1>13
    <3>3. Reach(first) \in Int
      BY <1>9, <3>1
    <3>4. ~(Reach(first) <= 0)
      BY <1>12, <3>1, <3>2
    <3> HIDE DEF Reach
    <3>5. QED
      BY <3>3, <3>4
  <2>2. ASSUME first > index PROVE Reach(first - 1) <= 0
    <3>1. PICK i \in Int : i = first - 1
      BY <1>13
    <3>2. i \in before /\ i \in index .. last
      BY <1>2, <1>10, <1>13, <2>2, <3>1
    <3>3. Reach(i) <= 0
      BY <1>12, <3>2
    <3>4. QED
      BY <3>1, <3>3
  <2>3. QED
    BY <2>1, <2>2
<1>15. /\ last - first + 1 \in Int
       /\ \A k \in 1 .. last - first + 1 :
             /\ first + k - 1 \in Nat /\ first + k - 1 < Len(d)
             /\ (first + k - 1) + 1 = first + k
  BY <1>2, <1>10, <1>13
<1>16. /\ children' \in Seq(Widget)
       /\ DOMAIN children' = 1 .. Len(children')
       /\ Len(children') = IF first <= last THEN last - first + 1 ELSE 0
       /\ \A k \in DOMAIN children' : children'[k] = W(first + k - 1)
                                      /\ k \in 1 .. last - first + 1
  <2>1. PICK n \in Nat : /\ n = IF first <= last THEN last - first + 1 ELSE 0
                         /\ 1 .. last - first + 1 = 1 .. n
    <3>1. CASE first <= last
      BY <1>10, <1>13, <3>1
    <3>2. CASE ~(first <= last)
      <4>1. 1 .. last - first + 1 = {} /\ 1 .. 0 = {}
        BY <1>10, <1>13, <3>2
      <4>2. QED
        BY <3>2, <4>1
    <3>3. QED
      BY <3>1, <3>2
  <2>2. children' = [k \in 1 .. n |-> W(first + k - 1)]
    BY <1>1, <2>1
  <2>3. \A k \in 1 .. n : W(first + k - 1) \in Widget
    BY <1>8, <1>15, <2>1
  <2>4. children' \in [1 .. n -> Widget]
    BY <2>2, <2>3
  <2>5. children' \in Seq(Widget) /\ Len(children') = n
        /\ DOMAIN children' = 1 .. n
    BY <2>1, <2>4
  <2>6. QED
    BY <2>1, <2>2, <2>5
\* types
<1>17. /\ posIndex' \in Nat /\ index <= posIndex'
       /\ posIndex' <= index \/ posIndex' <= Len(d)
       /\ index >= Len(d) => posIndex' = index
  BY <1>1, <1>2, <1>10, <1>13
<1>18. posOffset' \in Int
  <2>1. Extent(arranged, index, first) \in Int
    <3>1. CASE first = index
      BY <1>2, <3>1, ExtentOfNone
    <3>2. CASE first # index
      <4>1. first <= Len(arranged)
        BY <1>2, <1>7, <1>10, <1>13, <3>2
      <4>2. QED
        BY <1>2, <1>7, <1>13, <4>1, ExtentIsNat
    <3>3. QED
      BY <3>1, <3>2
  <2>2. QED
    BY <1>1, <1>2, <2>1
<1>19. recycled' \subseteq Nat \X Widget
  <2>1. ASSUME NEW k \in 1 .. gone PROVE <<added + k - 1, kids[k]>> \in Nat \X Widget
    <3>1. PICK g \in Nat, n \in Nat : g = gone /\ g <= n /\ n = Len(kids)
      BY <1>2, <1>3
    <3>2. k \in 1 .. n /\ added + k - 1 \in Nat
      BY <3>1
    <3>3. kids[k] \in Widget
      BY <1>2, <3>1, <3>2
    <3>4. QED
      BY <3>2, <3>3
  <2>2. ASSUME NEW i \in before PROVE <<i, W(i)>> \in Nat \X Widget
    <3>1. i \in Nat /\ i < Len(d)
      <4>1. i \in index .. first - 1 /\ index <= first - 1
        BY <1>2, <1>13
      <4>2. first <= Len(d)
        BY <1>2, <1>10, <1>13, <4>1
      <4>3. QED
        BY <1>2, <1>13, <4>1, <4>2
    <3>2. QED
      BY <1>8, <3>1
  <2>3. ASSUME NEW k \in DOMAIN kept
        PROVE  <<start + k - 1, kept[k]>> \in Nat \X Widget
    <3>1. kept[k] \in Widget /\ start + k - 1 \in Nat
      BY <1>4, <1>5
    <3>2. QED
      BY <3>1
  <2>4. QED
    BY <1>1, <2>1, <2>2, <2>3
<1>20. IsFiniteSet(oldBefore) /\ Cardinality(oldBefore) \in Nat
  BY <1>11, FS_Subset, FS_CardinalityType
<1>21. shown \in Nat
  BY <1>4, <1>20
<1>22. addedIndex' = IF first <= last /\ first <= shown THEN first ELSE shown
  <2> HIDE DEF shown
  <2>1. CASE first <= last
    <3>1. {shown} \cup {first} = {shown, first} /\ shown \in Int /\ first \in Int
      BY <1>13, <1>21
    <3>2. Min({shown, first}) = IF shown <= first THEN shown ELSE first
      BY <3>1, LeastOfTwo
    <3>3. addedIndex' = Min({shown, first})
      BY <1>1, <2>1, <3>1
    <3>4. QED
      BY <1>13, <1>21, <2>1, <3>2, <3>3
  <2>2. CASE ~(first <= last)
    <3>1. {shown} \cup {} = {shown, shown} /\ shown \in Int
      BY <1>21
    <3>2. Min({shown, shown}) = shown
      BY <3>1, LeastOfTwo
    <3>3. QED
      BY <1>1, <2>2, <3>1, <3>2
  <2>3. QED
    BY <2>1, <2>2
\* where the widgets are said to start
<1>23. ASSUME first <= added + Len(kids) PROVE first <= shown
  <2>1. start + Len(kept) = added + Len(kids)
    <3>1. PICK m \in Nat, n \in Nat, g \in Nat :
               m = Len(kept) /\ n = Len(kids) /\ g = gone
      BY <1>2, <1>3, <1>5
    <3>2. m = n - g /\ g <= n
      BY <1>3, <1>5, <3>1
    <3>3. (added + g) + m = added + n
      BY <3>2
    <3>4. QED
      BY <3>1, <3>3 DEF start
  <2>2. CASE first <= start
    BY <1>4, <1>13, <1>20, <2>2
  <2>3. CASE start < first
    <3>1. index <= start
      <4>1. CASE added >= index
        BY <1>2, <1>3, <4>1 DEF start
      <4>2. CASE added < index
        <5>1. ~(gone = Len(kids) /\ gone < index - added)
          BY <1>2, <1>13, <1>23
        <5>2. gone = index - added
          BY <1>3, <4>2, <5>1
        <5>3. QED
          BY <1>2, <5>2 DEF start
      <4>3. QED
        BY <1>2, <4>1, <4>2
    <3>2. oldBefore = start .. first - 1
      <4>1. PICK m \in Nat : m = Len(kept) /\ DOMAIN kept = 1 .. m
                             /\ first <= start + m
        BY <1>5, <1>23, <2>1
      <4>2. ASSUME NEW i \in oldBefore PROVE i \in start .. first - 1
        <5>1. i \in index .. first - 1 /\ i - start + 1 \in 1 .. m
          BY <1>13, <4>1
        <5>2. QED
          BY <1>2, <1>4, <1>13, <5>1
      <4>3. ASSUME NEW i \in start .. first - 1 PROVE i \in oldBefore
        <5>1. i \in index .. first - 1 /\ i - start + 1 \in 1 .. m
          BY <1>2, <1>4, <1>13, <3>1, <4>1
        <5>2. QED
          BY <1>13, <4>1, <5>1
      <4> HIDE DEF oldBefore
      <4>4. QED
        BY <4>2, <4>3
    <3>3. Cardinality(start .. first - 1) = first - start
      <4>1. start \in Int /\ first - 1 \in Int
        BY <1>4, <1>13
      <4>2. Cardinality(start .. first - 1)
                = IF start > first - 1 THEN 0 ELSE (first - 1) - start + 1
        BY <4>1, FS_Interval
      <4>3. QED
        BY <1>4, <1>13, <2>3, <4>2
    <3> HIDE DEF oldBefore
    <3>4. shown = start + (first - start)
      BY <3>2, <3>3
    <3>5. QED
      BY <1>4, <1>13, <3>4
  <2>4. QED
    BY <1>4, <1>13, <2>2, <2>3
<1> HIDE DEF shown, oldBefore
<1>24. posIndex' <= added + Len(kids) =>
          /\ posIndex' <= addedIndex'
          /\ children' # << >> => addedIndex' = posIndex'
  <2> SUFFICES ASSUME first <= added + Len(kids)
               PROVE  first <= addedIndex'
                      /\ (children' # << >> => addedIndex' = first)
    BY <1>1
  <2>1. first <= shown
    BY <1>23
  <2>2. children' # << >> => first <= last
    BY <1>16
  <2>3. QED
    BY <1>13, <1>21, <1>22, <2>1, <2>2
\* the widgets show the items
<1>25. ASSUME Shows(kids, d, added) PROVE Shows(children', d, posIndex')
  <2>1. ASSUME NEW k \in DOMAIN children'
        PROVE  children'[k] = [index |-> first + k - 1, item |-> d[first + k]]
    <3>1. PICK i \in Nat : i = first + k - 1 /\ i < Len(d) /\ i + 1 = first + k
      BY <1>15, <1>16
    <3>2. W(i) = [index |-> i, item |-> d[i + 1]]
      BY <1>8, <1>25, <3>1
    <3>3. children'[k] = W(i)
      BY <1>16, <3>1
    <3>4. QED
      BY <3>1, <3>2, <3>3
  <2>2. ASSUME children' # << >> PROVE first + Len(children') <= Len(d)
    <3>1. first <= last
      BY <1>16, <2>2
    <3>2. Len(children') = last - first + 1
      BY <1>16, <3>1
    <3>3. QED
      BY <1>2, <1>10, <1>13, <3>2
  <2>3. QED
    BY <1>1, <2>1, <2>2 DEF Shows
<1>26. ASSUME first < Len(d) PROVE posOffset' < size[arranged[first + 1]]
  <2>2. index <= last
    BY <1>2, <1>10, <1>13, <1>26
  <2>3. /\ size[arranged[first + 1]] \in Nat /\ size[arranged[first + 1]] > 0
        /\ Extent(arranged, index, first) \in Nat
    <3>1. first <= Len(arranged) /\ first < Len(arranged)
          /\ first \in Nat /\ index \in Nat
      BY <1>2, <1>7, <1>13, <1>26
    <3>2. Extent(arranged, index, first) \in Nat
      BY <1>7, <3>1, ExtentIsNat
    <3>3. QED
      BY <1>7, <3>1, <3>2, SizeOfItem
  <2>4. posOffset' = offset - Extent(arranged, index, first)
    BY <1>1
  <2>5. CASE first <= last
    <3>1. Extent(arranged, index, first + 1)
              = Extent(arranged, index, first) + size[arranged[first + 1]]
      BY <1>2, <1>13, ExtentOfLast
    <3>2. Extent(arranged, index, first + 1) - offset > 0
      BY <1>14, <2>2, <2>5
    <3>3. QED
      BY <1>2, <2>3, <2>4, <3>1, <3>2
  <2>6. CASE ~(first <= last)
    <3>1. first = last + 1 /\ index < first /\ last # Len(d) - 1
          /\ first - 1 = last
      BY <1>2, <1>10, <1>13, <1>26, <2>2, <2>6
    <3>2. Reach(last) >= l
      BY <1>10, <3>1
    <3>3. posOffset' = -Reach(last)
      <4>1. Reach(last) = Extent(arranged, index, first) - offset
        BY <3>1
      <4> HIDE DEF Reach
      <4>2. QED
        BY <1>2, <2>3, <2>4, <4>1
    <3>4. Reach(last) \in Int
      <4>1. last \in index .. Len(d) - 1
        BY <1>2, <1>10, <2>2
      <4>2. QED
        BY <1>9, <4>1
    <3> HIDE DEF Reach
    <3>5. QED
      BY <2>3, <3>2, <3>3, <3>4
  <2>7. QED
    BY <2>5, <2>6
<1>27. ASSUME index < Len(d), offset < size[arranged[index + 1]]
       PROVE  first = index
  <2> SUFFICES ASSUME first # index PROVE FALSE
    OBVIOUS
  <2>2. index \in before
    BY <1>2, <1>13
  <2>3. index \in index .. last
    BY <1>2, <1>10, <1>27
  <2>4. Reach(index) <= 0
    BY <1>12, <2>2, <2>3
  <2>5. /\ Extent(arranged, index, index + 1)
               = Extent(arranged, index, index) + size[arranged[index + 1]]
        /\ Extent(arranged, index, index) = 0
    <3>1. index \in Nat /\ index <= index
      BY <1>2
    <3>2. Extent(arranged, index, index) = 0
      BY <3>1, ExtentOfNone
    <3>3. QED
      BY <3>1, <3>2, ExtentOfLast
  <2>6. size[arranged[index + 1]] \in Nat
    BY <1>2, <1>7, <1>27, SizeOfItem
  <2>7. Extent(arranged, index, index + 1) - offset <= 0
    BY <2>4
  <2>8. QED
    BY <1>2, <1>27, <2>5, <2>6, <2>7
\* the items are those of the widgets
<1>28. ASSUME NEW i \in Nat, i < Len(d) PROVE arranged[i + 1] = W(i).item
  <2>1. i + 1 \in DOMAIN d /\ (i + 1) - 1 = i
    BY <1>2, <1>28
  <2>2. arranged[i + 1] = W((i + 1) - 1).item
    BY <2>1 DEF arranged, W
  <2>3. QED
    BY <2>1, <2>2
<1>29. W(index) = WidgetFor(index, d, kids, added)
  <2>1. PICK m \in Nat, n \in Nat, g \in Nat :
             m = Len(kept) /\ n = Len(kids) /\ g = gone
    BY <1>2, <1>3, <1>5
  <2>2. m = n - g /\ g <= n /\ start = added + g
        /\ DOMAIN kept = 1 .. m /\ DOMAIN kids = 1 .. n
    BY <1>2, <1>3, <1>5, <2>1 DEF start
  <2>3. g = 0 \/ g = index - added \/ (g = n /\ g < index - added)
    <3>1. added < index \/ added >= index
      BY <1>2
    <3>2. QED
      BY <1>3, <2>1, <3>1
  <2>4. index - start + 1 \in 1 .. m <=> index - added + 1 \in 1 .. n
    BY <1>2, <2>2, <2>3
  <2>5. ASSUME index - start + 1 \in 1 .. m
        PROVE  kept[index - start + 1] = kids[index - added + 1]
    <3>1. kept[index - start + 1] = kids[gone + (index - start + 1)]
      BY <1>5, <2>2, <2>5
    <3>2. gone + (index - start + 1) = index - added + 1
      BY <1>2, <2>1, <2>2
    <3>3. QED
      BY <3>1, <3>2
  <2>6. QED
    BY <2>2, <2>4, <2>5 DEF W, WidgetFor
<1>30. \A k \in DOMAIN children' : children'[k].item = arranged[first + k]
  <2> SUFFICES ASSUME NEW k \in DOMAIN children'
               PROVE  children'[k].item = arranged[first + k]
    OBVIOUS
  <2>1. PICK i \in Nat : i = first + k - 1 /\ i < Len(d) /\ i + 1 = first + k
    BY <1>15, <1>16
  <2>2. QED
    BY <1>16, <1>28, <2>1
\* the indices they are made for
<1>31. ASSUME Indexed(kids, added)
       PROVE  Indexed(children', first) /\ \A r \in recycled' : r[1] = r[2].index
  <2>1. ASSUME NEW k \in DOMAIN kept PROVE kept[k].index = start + k - 1
    <3>1. gone + k \in DOMAIN kids /\ kept[k] = kids[gone + k] /\ k \in Int
      BY <1>5
    <3>2. kids[gone + k].index = added + (gone + k) - 1
      BY <1>31, <3>1 DEF Indexed
    <3>3. added + (gone + k) - 1 = start + k - 1
      BY <1>3, <3>1 DEF start
    <3>4. QED
      BY <3>1, <3>2, <3>3
  <2>2. ASSUME NEW i \in Nat PROVE W(i).index = i
    <3>1. CASE i - start + 1 \in DOMAIN kept
      <4>1. kept[i - start + 1].index = start + (i - start + 1) - 1
        BY <2>1, <3>1
      <4>2. start + (i - start + 1) - 1 = i
        BY <1>4
      <4>3. W(i) = kept[i - start + 1]
        BY <3>1 DEF W, WidgetFor
      <4>4. QED
        BY <4>1, <4>2, <4>3
    <3>2. CASE i - start + 1 \notin DOMAIN kept
      <4>1. W(i) = [index |-> i, item |-> d[i + 1]]
        BY <3>2 DEF W, WidgetFor
      <4>2. QED
        BY <4>1
    <3>3. QED
      BY <3>1, <3>2
  <2>3. Indexed(children', first)
    <3> SUFFICES ASSUME NEW k \in DOMAIN children'
                 PROVE  children'[k].index = first + k - 1
      BY DEF Indexed
    <3>1. children'[k] = W(first + k - 1) /\ first + k - 1 \in Nat
      BY <1>15, <1>16
    <3>2. QED
      BY <2>2, <3>1
  <2>4. ASSUME NEW k \in 1 .. gone PROVE kids[k].index = added + k - 1
    <3>1. PICK g \in Nat, m \in Nat : g = gone /\ m = Len(kids) /\ g <= m
      BY <1>2, <1>3
    <3>2. k \in DOMAIN kids
      BY <1>2, <3>1
    <3>3. QED
      BY <1>31, <3>2 DEF Indexed
  <2>5. \A i \in before : i \in Nat
    BY <1>2, <1>13
  <2>6. ASSUME NEW r \in recycled' PROVE r[1] = r[2].index
    <3>1. CASE \E k \in 1 .. gone : r = <<added + k - 1, kids[k]>>
      BY <2>4, <3>1
    <3>2. CASE \E i \in before : r = <<i, W(i)>>
      BY <2>2, <2>5, <3>2
    <3>3. CASE \E k \in DOMAIN kept : r = <<start + k - 1, kept[k]>>
      BY <2>1, <3>3
    <3>4. QED
      BY <1>1, <3>1, <3>2, <3>3
  <2>7. QED
    BY <2>3, <2>6
<1>32. ASSUME kids = << >>, children' = << >> PROVE addedIndex' = added
  <2>1. gone = 0 /\ Len(kept) = 0 /\ DOMAIN kept = {}
    <3>1. PICK n \in Nat : n = Len(kids)
      BY <1>2
    <3>2. n = 0
      BY <1>32, <3>1
    <3>3. gone = 0
      BY <1>3, <3>1, <3>2
    <3>4. QED
      BY <1>5, <3>1, <3>2, <3>3
  <2>2. oldBefore = {}
    BY <2>1 DEF oldBefore
  <2>3. shown = added
    BY <2>1, <2>2, FS_EmptySet DEF shown, start
  <2>4. ~(first <= last)
    <3>1. Len(children') = 0
      BY <1>32
    <3>2. QED
      BY <1>10, <1>13, <1>16, <3>1
  <2>5. QED
    BY <1>22, <2>3, <2>4
<1>33. LoopsEnd(d, l, from, kids, added, arranged, last)
  <2>1. /\ ReachOf(arranged, from, last) = Reach(last)
        /\ ReachOf(arranged, from, first) = Reach(first)
        /\ ReachOf(arranged, from, first - 1) = Reach(first - 1)
    BY DEF ReachOf, index, offset
  <2> HIDE DEF Reach
  <2>2. index < Len(d) => index <= last
    BY <1>2, <1>10
  <2>3. index < Len(d) =>
            arranged[index + 1] = WidgetFor(index, d, kids, added).item
    BY <1>2, <1>28, <1>29
  <2>4. posIndex' = first /\ posOffset' = offset - Extent(arranged, index, first)
    BY <1>1
  <2> HIDE DEF first
  <2>5. QED
    BY <1>7, <1>10, <1>13, <1>14, <1>16, <1>26, <1>27, <1>30, <1>31, <1>32,
       <2>1, <2>2, <2>3, <2>4 DEF LoopsEnd, index, offset
<1> HIDE DEF first
<1>34. Shows(kids, d, added) => Shows(children', d, posIndex')
  BY <1>25
<1>35. QED
  <2>1. children' \in Seq(Widget) /\ addedIndex' \in Nat
    BY <1>13, <1>16, <1>21, <1>22
  <2>2. QED
    BY <1>7, <1>17, <1>18, <1>19, <1>24, <1>33, <1>34, <2>1 DEF index, offset

\* In particular, when the widgets that are shown show the items, what is scrolled
\* away of the first item in view is less than its length.
LEMMA ArrangeResult ==
    ASSUME NEW d, Sized(d), NEW l \in Nat, NEW from, from[1] \in Nat,
           from[2] \in Int, NEW kids \in Seq(Widget), NEW added \in Nat,
           Arrange(d, l, from, kids, added)
    PROVE  /\ children' \in Seq(Widget) /\ addedIndex' \in Nat
           /\ posIndex' \in Nat /\ posOffset' \in Int
           /\ recycled' \subseteq Nat \X Widget
           /\ from[1] <= posIndex'
           /\ from[1] >= Len(d) => posIndex' = from[1]
           /\ posIndex' <= from[1] \/ posIndex' <= Len(d)
           /\ Shows(kids, d, added) =>
                /\ Shows(children', d, posIndex')
                /\ posIndex' < Len(d) => posOffset' < size[d[posIndex' + 1]]
                /\ from[1] < Len(d) /\ from[2] < size[d[from[1] + 1]] =>
                       posIndex' = from[1]
           /\ posIndex' <= added + Len(kids) =>
                /\ posIndex' <= addedIndex'
                /\ children' # << >> => addedIndex' = posIndex'
<1>1. PICK t, last : /\ LoopsEnd(d, l, from, kids, added, t, last)
                     /\ Shows(kids, d, added) => t = d
  BY ArrangeIs
<1>2. /\ posIndex' < Len(d) => posOffset' < size[t[posIndex' + 1]]
      /\ from[1] < Len(d) /\ from[2] < size[t[from[1] + 1]] => posIndex' = from[1]
  BY <1>1 DEF LoopsEnd
<1>3. Shows(kids, d, added) => t = d
  BY <1>1
<1>4. QED
  BY <1>2, <1>3, ArrangeIs

-----------------------------------------------------------------------------
(* updateChildrenList() *)

TailIsTyped ==
    /\ numTailItems \in Nat
    /\ firstTailItemIndex \in Nat /\ firstTailItemIndex <= MaxCount
    /\ firstTailItemOffset \in Nat \cup {-1}

LEMMA TailResult ==
    ASSUME NEW d, Sized(d), Len(d) <= MaxCount, NEW l \in Nat, NEW num \in Nat,
           TailIsTyped
    PROVE  LET tail == TailFor(num, d, l)
           IN /\ tail.num \in Nat
              /\ tail.first \in Nat /\ tail.first <= MaxCount
              /\ tail.offset \in Nat \cup {-1}
              /\ num = 0 /\ tail.first < Len(d) =>
                   tail.offset < size[d[tail.first + 1]]
              /\ l > 0 /\ d # << >> => tail.num # 0
<1> DEFINE tail == TailFor(num, d, l)
<1>1. CASE num = 0 /\ d # << >>
  <2>1. /\ tail.num \in Nat /\ tail.first \in Nat
        /\ tail.first <= Len(d)
        /\ tail.offset \in Nat \cup {-1}
        /\ tail.first < Len(d) => tail.offset < size[d[tail.first + 1]]
        /\ l > 0 => tail.num # 0
    BY <1>1, TailIsCutInFirst
  <2> HIDE DEF tail
  <2>2. Len(d) \in Nat /\ MaxCount \in Nat
    BY ListAssumption DEF Sized
  <2>3. tail.first <= MaxCount
    BY <2>1, <2>2
  <2>4. QED
    BY <2>1, <2>3 DEF tail
<1>2. CASE num # 0 \/ d = << >>
  <2>1. tail = [num |-> num, first |-> firstTailItemIndex,
                offset |-> firstTailItemOffset]
    BY <1>2 DEF TailFor
  <2> HIDE DEF tail
  <2>2. /\ tail.num = num /\ tail.first = firstTailItemIndex
        /\ tail.offset = firstTailItemOffset
    BY <2>1
  <2>3. num = 0 => Len(d) = 0
    BY <1>2
  <2>4. QED
    BY <1>2, <2>2, <2>3 DEF tail, TailIsTyped
<1>3. QED
  BY <1>1, <1>2

LEMMA ClampedResult ==
    ASSUME NEW d, Sized(d), NEW index \in Nat, NEW offset \in Int, NEW tail,
           tail.first \in Nat, tail.offset \in Int
    PROVE  LET from == Clamped(index, offset, tail)
           IN /\ from[1] \in Nat /\ from[2] \in Int
              /\ from[1] <= index /\ from[1] <= tail.first
              /\ /\ index < Len(d) => offset < size[d[index + 1]]
                 /\ tail.first < Len(d) => tail.offset < size[d[tail.first + 1]]
                 => (from[1] < Len(d) => from[2] < size[d[from[1] + 1]])
<1> DEFINE from == Clamped(index, offset, tail)
<1>1. CASE index < tail.first
  <2>1. from[1] = index /\ from[2] = offset
    BY <1>1 DEF Clamped
  <2> HIDE DEF from
  <2>2. QED
    BY <1>1, <2>1 DEF from
<1>2. CASE index = tail.first
  <2>1. Min({offset, tail.offset})
            = IF offset <= tail.offset THEN offset ELSE tail.offset
    BY LeastOfTwo
  <2>2. from[1] = index /\ from[2] = Min({offset, tail.offset})
    BY <1>2 DEF Clamped
  <2> HIDE DEF from
  <2>3. QED
    BY <1>2, <2>1, <2>2 DEF from
<1>3. CASE index > tail.first
  <2>1. from[1] = tail.first /\ from[2] = tail.offset
    BY <1>3 DEF Clamped
  <2> HIDE DEF from
  <2>2. QED
    BY <1>3, <2>1 DEF from
<1>4. QED
  BY <1>1, <1>2, <1>3

LEMMA NoIndexIsFar == MaxCount \in Nat /\ NoIndex \in Nat /\ MaxCount < NoIndex
<1>1. MaxCount \in Nat /\ Steps \in Nat /\ Steps >= 1 /\ NoIndex \in Nat
      /\ NoIndex > 2 * MaxCount * Steps
  BY ListAssumption
<1>2. 2 * MaxCount * Steps >= 2 * MaxCount * 1
  BY <1>1
<1>3. QED
  BY <1>1, <1>2

\* What updateChildrenList() does when the list is to show d at length l.
LEMMA UpdateResult ==
    ASSUME NEW d, Sized(d), Len(d) <= MaxCount, NEW l \in Nat, TailIsTyped,
           NEW index \in Nat, NEW offset \in Int,
           NEW kids \in Seq(Widget), NEW added \in Nat, NEW num \in Nat,
           length' = l, provider' # NoProvider => items'[provider'] = d,
           updateChildrenList(index, offset, kids, added, num)
    PROVE  /\ children' \in Seq(Widget) /\ addedIndex' \in Nat
           /\ posIndex' \in Nat /\ posOffset' \in Int
           /\ recycled' \subseteq Nat \X Widget
           /\ TailIsTyped'
           /\ provider' # NoProvider =>
                /\ Shows(kids, d, added) =>
                     /\ Shows(children', d, posIndex')
                     /\ posIndex' < Len(d) =>
                          posOffset' < size[d[posIndex' + 1]]
                /\ posIndex' <= added + Len(kids) =>
                     /\ posIndex' <= addedIndex'
                     /\ children' # << >> => addedIndex' = posIndex'
                /\ added = NoIndex => posIndex' <= added
                /\ /\ num = 0 /\ index <= added /\ Shows(kids, d, added)
                   /\ index < Len(d) => offset < size[d[index + 1]]
                   => posIndex' <= added
<1>1. CASE provider' = NoProvider
  <2>1. /\ posIndex' = 0 /\ posOffset' = 0
        /\ children' = << >> /\ addedIndex' = NoIndex /\ recycled' = {}
        /\ numTailItems' = num
        /\ UNCHANGED <<firstTailItemIndex, firstTailItemOffset>>
    BY <1>1 DEF updateChildrenList
  <2>2. TailIsTyped'
    BY <2>1 DEF TailIsTyped
  <2>3. QED
    BY <1>1, <2>1, <2>2, NoIndexIsFar
<1>2. CASE provider' # NoProvider
  <2> DEFINE tail == TailFor(num, d, l)
             from == Clamped(index, offset, tail)
  <2>1. /\ numTailItems' = tail.num
        /\ firstTailItemIndex' = tail.first
        /\ firstTailItemOffset' = tail.offset
        /\ Arrange(d, l, from, kids, added)
    BY <1>2 DEF updateChildrenList
  <2>2. /\ tail.num \in Nat
        /\ tail.first \in Nat /\ tail.first <= MaxCount
        /\ tail.offset \in Nat \cup {-1}
        /\ num = 0 /\ tail.first < Len(d) =>
             tail.offset < size[d[tail.first + 1]]
    BY TailResult
  <2>3. TailIsTyped'
    BY <2>1, <2>2 DEF TailIsTyped
  <2> HIDE DEF tail
  <2>4. /\ from[1] \in Nat /\ from[2] \in Int
        /\ from[1] <= index /\ from[1] <= tail.first
        /\ /\ index < Len(d) => offset < size[d[index + 1]]
           /\ tail.first < Len(d) => tail.offset < size[d[tail.first + 1]]
           => (from[1] < Len(d) => from[2] < size[d[from[1] + 1]])
    BY <2>2, ClampedResult
  <2> HIDE DEF from
  <2>5. /\ children' \in Seq(Widget) /\ addedIndex' \in Nat
        /\ posIndex' \in Nat /\ posOffset' \in Int
        /\ recycled' \subseteq Nat \X Widget
        /\ from[1] <= posIndex'
        /\ from[1] >= Len(d) => posIndex' = from[1]
        /\ posIndex' <= from[1] \/ posIndex' <= Len(d)
        /\ Shows(kids, d, added) =>
             /\ Shows(children', d, posIndex')
             /\ posIndex' < Len(d) => posOffset' < size[d[posIndex' + 1]]
             /\ from[1] < Len(d) /\ from[2] < size[d[from[1] + 1]] =>
                    posIndex' = from[1]
        /\ posIndex' <= added + Len(kids) =>
             /\ posIndex' <= addedIndex'
             /\ children' # << >> => addedIndex' = posIndex'
    BY <2>1, <2>4, ArrangeResult
  <2>6. added = NoIndex => posIndex' <= added
    <3>1. Len(d) \in Nat
      BY DEF Sized
    <3>2. posIndex' <= MaxCount
      <4>1. PICK i \in Nat, j \in Nat, m \in Nat :
                 /\ i = posIndex' /\ j = from[1] /\ m = tail.first
                 /\ j <= m /\ m <= MaxCount
        BY <2>2, <2>4, <2>5
      <4>2. i <= j \/ i <= Len(d)
        BY <2>5, <4>1
      <4>3. QED
        BY <3>1, <4>1, <4>2, NoIndexIsFar
    <3>3. QED
      BY <2>5, <3>2, NoIndexIsFar
  <2>7. ASSUME num = 0, index <= added, Shows(kids, d, added),
               index < Len(d) => offset < size[d[index + 1]]
        PROVE  posIndex' <= added
    <3>1. from[1] < Len(d) => from[2] < size[d[from[1] + 1]]
      BY <2>2, <2>4, <2>7
    <3>2. Len(d) \in Nat
      BY DEF Sized
    <3>3. posIndex' = from[1]
      BY <2>4, <2>5, <2>7, <3>1, <3>2
    <3>4. QED
      BY <2>4, <2>7, <3>3
  <2>8. QED
    BY <2>3, <2>5, <2>6, <2>7
<1>3. QED
  BY <1>1, <1>2

-----------------------------------------------------------------------------
(* Types *)

\* ListTypeOK, and what it rests on: an item has a length, and a provider has no
\* more items than MaxCount, so that its last one is before NoIndex.
IsTyped ==
    /\ ListTypeOK
    /\ size \in [Items -> Nat \ {0}]
    /\ \A p \in Providers : Len(items[p]) <= MaxCount
    /\ firstTailItemIndex <= MaxCount

\* The list knows what it shows: the widgets are those of the items from
\* posIndex on, addedIndex is the index of the first of them, or is not
\* before posIndex when there are none, and of the item at posIndex something
\* is in view.
KnowsWhatItShows ==
    UpToDate =>
        /\ Shows(children, data, posIndex)
        /\ posIndex <= addedIndex
        /\ children # << >> => addedIndex = posIndex
        /\ posIndex < count => posOffset < size[data[posIndex + 1]]

LEMMA DataIsSized ==
    ASSUME IsTyped, provider # NoProvider
    PROVE  Sized(data) /\ Len(data) <= MaxCount
BY ListAssumption DEF IsTyped, ListTypeOK, Sized, data

LEMMA RoundIsInt ==
    ASSUME NEW n \in Int, NEW m \in Nat \ {0}
    PROVE  Round(n, m) \in Int
<1>1. 2 * m \in Nat \ {0} /\ m - 2 * n \in Int /\ 2 * n + m \in Int
  OBVIOUS
<1>2. /\ (m - 2 * n) \div (2 * m) \in Int
      /\ (2 * n + m) \div (2 * m) \in Int
  BY <1>1
<1>3. QED
  BY <1>2 DEF Round

LEMMA ProductIsNat ==
    ASSUME NEW m \in Nat, NEW n \in Nat
    PROVE  m * n \in Nat /\ (m # 0 /\ n # 0 => m * n # 0)
OBVIOUS

\* A step that ends in updateChildrenList() is typed.
LEMMA UpdateIsTyped ==
    ASSUME IsTyped, UNCHANGED size, length' \in Nat,
           items' \in [Providers -> Seq(Items)],
           \A p \in Providers : Len(items'[p]) <= MaxCount,
           posted' \in Seq(Providers),
           provider' \in Providers \cup {NoProvider},
           NEW index \in Nat, NEW offset \in Int,
           NEW kids \in Seq(Widget), NEW added \in Nat, NEW num \in Nat,
           updateChildrenList(index, offset, kids, added, num)
    PROVE  IsTyped'
<1>1. TailIsTyped /\ size' = size /\ size \in [Items -> Nat \ {0}]
  BY DEF IsTyped, ListTypeOK, TailIsTyped
<1>2. PICK d : /\ d \in Seq(Items) /\ Len(d) <= MaxCount
               /\ provider' # NoProvider => items'[provider'] = d
  <2>1. CASE provider' # NoProvider
    BY <2>1
  <2>2. CASE provider' = NoProvider
    <3>1. << >> \in Seq(Items) /\ Len(<< >>) <= MaxCount
      BY NoIndexIsFar
    <3>2. QED
      BY <2>2, <3>1
  <2>3. QED
    BY <2>1, <2>2
<1>3. Sized(d)
  BY <1>1, <1>2 DEF Sized
<1>4. PICK l \in Nat : length' = l
  OBVIOUS
<1>5. /\ children' \in Seq(Widget) /\ addedIndex' \in Nat
      /\ posIndex' \in Nat /\ posOffset' \in Int
      /\ recycled' \subseteq Nat \X Widget
      /\ TailIsTyped'
  BY <1>1, <1>2, <1>3, <1>4, UpdateResult
<1>6. ListTypeOK' /\ firstTailItemIndex' <= MaxCount
  BY <1>5 DEF ListTypeOK, TailIsTyped
<1>7. QED
  BY <1>1, <1>6 DEF IsTyped

\* A provider's items, when one is added and when one is removed.
LEMMA ItemsChange ==
    ASSUME NEW s \in Seq(Items), NEW i \in Nat, i >= 1
    PROVE  /\ \A x \in Items : i <= Len(s) + 1 =>
                /\ InsertAt(s, i, x) \in Seq(Items)
                /\ Len(InsertAt(s, i, x)) = Len(s) + 1
           /\ i <= Len(s) => /\ RemoveAt(s, i) \in Seq(Items)
                             /\ Len(RemoveAt(s, i)) = Len(s) - 1
<1> DEFINE begin == SubSeq(s, 1, i - 1)
           rest == SubSeq(s, i, Len(s))
           after == SubSeq(s, i + 1, Len(s))
<1>1. PICK n \in Nat : n = Len(s)
  OBVIOUS
<1>2. \A k \in 1 .. n : s[k] \in Items
  BY <1>1
<1>3. i <= n + 1 => begin \in Seq(Items) /\ Len(begin) = i - 1
  <2> SUFFICES ASSUME i <= n + 1
               PROVE  begin \in Seq(Items) /\ Len(begin) = i - 1
    OBVIOUS
  <2>1. 1 \in Int /\ i - 1 \in Int /\ \A k \in 1 .. i - 1 : s[k] \in Items
    BY <1>2
  <2>2. /\ begin \in Seq(Items)
        /\ Len(begin) = IF 1 <= i - 1 THEN (i - 1) - 1 + 1 ELSE 0
    BY <2>1, SubSeqProperties
  <2> HIDE DEF begin
  <2>3. QED
    BY <2>2
<1>4. i <= n + 1 => rest \in Seq(Items) /\ Len(rest) = n - i + 1
  <2> SUFFICES ASSUME i <= n + 1
               PROVE  rest \in Seq(Items) /\ Len(rest) = n - i + 1
    OBVIOUS
  <2>1. i \in Int /\ n \in Int /\ \A k \in i .. n : s[k] \in Items
    BY <1>2
  <2>2. /\ rest \in Seq(Items)
        /\ Len(rest) = IF i <= n THEN n - i + 1 ELSE 0
    BY <1>1, <2>1, SubSeqProperties
  <2> HIDE DEF rest
  <2>3. QED
    BY <2>2
<1>5. i <= n => after \in Seq(Items) /\ Len(after) = n - i
  <2> SUFFICES ASSUME i <= n
               PROVE  after \in Seq(Items) /\ Len(after) = n - i
    OBVIOUS
  <2>1. i + 1 \in Int /\ n \in Int /\ \A k \in i + 1 .. n : s[k] \in Items
    BY <1>2
  <2>2. /\ after \in Seq(Items)
        /\ Len(after) = IF i + 1 <= n THEN n - (i + 1) + 1 ELSE 0
    BY <1>1, <2>1, SubSeqProperties
  <2> HIDE DEF after
  <2>3. QED
    BY <2>2
<1>6. \A x : InsertAt(s, i, x) = begin \o <<x>> \o rest
  BY DEF InsertAt
<1>7. RemoveAt(s, i) = begin \o after
  BY DEF RemoveAt
<1> HIDE DEF begin, rest, after
<1>8. ASSUME NEW x \in Items, i <= n + 1
      PROVE  /\ InsertAt(s, i, x) \in Seq(Items)
             /\ Len(InsertAt(s, i, x)) = n + 1
  <2>1. begin \o <<x>> \in Seq(Items) /\ Len(begin \o <<x>>) = i
    BY <1>3, <1>8
  <2>2. /\ (begin \o <<x>>) \o rest \in Seq(Items)
        /\ Len((begin \o <<x>>) \o rest) = i + (n - i + 1)
    BY <1>4, <1>8, <2>1
  <2>3. InsertAt(s, i, x) = (begin \o <<x>>) \o rest
    BY <1>6
  <2>4. i + (n - i + 1) = n + 1
    OBVIOUS
  <2>5. QED
    BY <2>2, <2>3, <2>4
<1>9. ASSUME i <= n
      PROVE  RemoveAt(s, i) \in Seq(Items) /\ Len(RemoveAt(s, i)) = n - 1
  <2>1. begin \in Seq(Items) /\ Len(begin) = i - 1
    BY <1>3, <1>9
  <2>2. after \in Seq(Items) /\ Len(after) = n - i
    BY <1>5, <1>9
  <2>3. begin \o after \in Seq(Items) /\ Len(begin \o after) = (i - 1) + (n - i)
    BY <2>1, <2>2
  <2>4. (i - 1) + (n - i) = n - 1
    OBVIOUS
  <2>5. QED
    BY <1>7, <2>3, <2>4
<1>10. QED
  BY <1>1, <1>8, <1>9

LEMMA TypedAtFirst == ListInit => IsTyped
<1> SUFFICES ASSUME ListInit PROVE IsTyped
  OBVIOUS
<1>1. ListTypeOK
  BY ListAssumption, NoIndexIsFar DEF ListInit, ListTypeOK
<1>2. size \in [Items -> Nat \ {0}] /\ firstTailItemIndex <= MaxCount
  BY ListAssumption, NoIndexIsFar DEF ListInit
<1>3. \A p \in Providers : Len(items[p]) <= MaxCount
  BY ListAssumption DEF ListInit
<1>4. QED
  BY <1>1, <1>2, <1>3 DEF IsTyped

\* The offset that setScrollPosAsFactor() computes, for a list of length l.
OffsetFor(n, above, index, kids, l, num, to) ==
    IF above = 0 THEN Round(n * to, Steps)
    ELSE IF kids = << >> THEN 0
    ELSE Round((l + to) * (n * above - index * Steps) + n * to * num,
               Steps * num)

\* What setScrollPosAsFactor() finds and passes on.
LEMMA ScrollIs ==
    ASSUME IsTyped, NEW n \in 0 .. Steps, setScrollPosAsFactor(n)
    PROVE  \E tail, above, index, offset :
              /\ tail = TailFor(numTailItems, data, length)
              /\ tail.num \in Nat \ {0} /\ tail.first \in Nat
              /\ tail.first <= MaxCount
              /\ tail.offset \in Int /\ tail.offset >= -1
              /\ above = Minus(count, tail.num) /\ above \in Nat
              /\ index = (n * above) \div Steps /\ index \in Nat
              /\ offset = OffsetFor(n, above, index, children, length, tail.num,
                                    tail.offset)
              /\ offset \in Int
              /\ updateChildrenList(index, offset, children, addedIndex,
                                    numTailItems)
<1> DEFINE tail == TailFor(numTailItems, data, length)
           above == Minus(count, tail.num)
           index == (n * above) \div Steps
           offset == IF above = 0 THEN Round(n * tail.offset, Steps)
                     ELSE IF children = << >> THEN 0
                     ELSE Round((length + tail.offset)
                                        * (n * above - index * Steps)
                                    + n * tail.offset * tail.num,
                                Steps * tail.num)
<1>1. /\ provider # NoProvider /\ count # 0 /\ length > 0
      /\ updateChildrenList(index, offset, children, addedIndex, numTailItems)
  BY DEF setScrollPosAsFactor
<1>2. Sized(data) /\ Len(data) <= MaxCount /\ length \in Nat
      /\ numTailItems \in Nat /\ TailIsTyped /\ data # << >>
  BY <1>1, DataIsSized DEF IsTyped, ListTypeOK, TailIsTyped, count
<1>3. /\ tail.num \in Nat \ {0} /\ tail.first \in Nat
      /\ tail.first <= MaxCount
      /\ tail.offset \in Int /\ tail.offset >= -1
  <2>1. PICK d : d = data
    OBVIOUS
  <2>2. PICK l \in Nat : l = length
    BY <1>2
  <2>3. PICK num \in Nat : num = numTailItems
    BY <1>2
  <2>4. LET t == TailFor(num, d, l)
        IN /\ t.num \in Nat /\ t.offset \in Nat \cup {-1} /\ t.num # 0
           /\ t.first \in Nat /\ t.first <= MaxCount
    BY <1>1, <1>2, <2>1, <2>2, <2>3, TailResult
  <2>5. QED
    BY <2>1, <2>2, <2>3, <2>4
<1>4. tail = TailFor(numTailItems, data, length)
  OBVIOUS
<1> HIDE DEF tail
<1>5. Steps \in Nat \ {0} /\ n \in Nat /\ count \in Nat /\ NoIndex \in Nat
  BY <1>2, ListAssumption DEF count, Sized
<1>6. above \in Nat
  BY <1>3, <1>5 DEF Minus
<1>7. above = Minus(count, tail.num)
  OBVIOUS
<1> HIDE DEF above
<1>8. index \in Nat
  <2>1. n * above \in Nat
    BY <1>5, <1>6, ProductIsNat
  <2>2. QED
    BY <1>5, <2>1
<1>9. index = (n * above) \div Steps
  OBVIOUS
<1> HIDE DEF index
<1>10. offset \in Int
  <2>1. Round(n * tail.offset, Steps) \in Int
    BY <1>3, <1>5, RoundIsInt
  <2>2. Steps * tail.num \in Nat \ {0}
    BY <1>3, <1>5, ProductIsNat
  <2>3. (length + tail.offset) * (n * above - index * Steps)
            + n * tail.offset * tail.num \in Int
    BY <1>2, <1>3, <1>5, <1>6, <1>8
  <2>4. Round((length + tail.offset) * (n * above - index * Steps)
                  + n * tail.offset * tail.num, Steps * tail.num) \in Int
    BY <2>2, <2>3, RoundIsInt
  <2>5. QED
    BY <2>1, <2>4
<1>11. offset = OffsetFor(n, above, index, children, length, tail.num,
                          tail.offset)
  BY DEF OffsetFor
<1> HIDE DEF offset
<1>12. QED
  BY <1>1, <1>3, <1>4, <1>6, <1>7, <1>8, <1>9, <1>10, <1>11

LEMMA ScrollResult ==
    ASSUME IsTyped, NEW n \in 0 .. Steps, setScrollPosAsFactor(n)
    PROVE  \E index \in Nat, offset \in Int, num \in Nat :
              updateChildrenList(index, offset, children, addedIndex, num)
<1>1. numTailItems \in Nat
  BY DEF IsTyped, ListTypeOK
<1>2. QED
  BY <1>1, ScrollIs

LEMMA ItemsStayTyped ==
    ASSUME IsTyped, NEW p \in Providers, NEW t \in Seq(Items),
           Len(t) <= MaxCount, items' = [items EXCEPT ![p] = t],
           posted' \in Seq(Providers),
           UNCHANGED <<size, provider, length, tailVars, shownVars>>
    PROVE  IsTyped'
<1>1. /\ items' \in [Providers -> Seq(Items)]
      /\ \A q \in Providers : Len(items'[q]) <= MaxCount
  BY DEF IsTyped, ListTypeOK
<1>2. UNCHANGED <<size, provider, length, children, addedIndex, posIndex,
                  posOffset, recycled, numTailItems, firstTailItemIndex,
                  firstTailItemOffset>>
  BY DEF tailVars, shownVars
<1>3. ListTypeOK'
  BY <1>1, <1>2 DEF IsTyped, ListTypeOK
<1>4. QED
  BY <1>1, <1>2, <1>3 DEF IsTyped

LEMMA StaysTyped == IsTyped /\ [ListNext]_listVars => IsTyped'
<1> SUFFICES ASSUME IsTyped, [ListNext]_listVars PROVE IsTyped'
  OBVIOUS
<1>1. /\ length \in Nat /\ items \in [Providers -> Seq(Items)]
      /\ posted \in Seq(Providers)
      /\ provider \in Providers \cup {NoProvider}
      /\ \A p \in Providers : Len(items[p]) <= MaxCount
      /\ children \in Seq(Widget) /\ addedIndex \in Nat
      /\ posIndex \in Nat /\ posOffset \in Int
      /\ << >> \in Seq(Widget) /\ NoIndex \in Nat
  BY NoIndexIsFar DEF IsTyped, ListTypeOK
<1>2. ASSUME NEW l \in Lengths, layOut(l) PROVE IsTyped'
  <2>1. /\ length' \in Nat /\ UNCHANGED <<size, items, posted, provider>>
        /\ updateChildrenList(posIndex, posOffset, children, addedIndex, 0)
    BY <1>2, ListAssumption DEF layOut
  <2>2. QED
    BY <1>1, <2>1, UpdateIsTyped
<1>3. ASSUME NEW n \in 0 .. Steps, setScrollPosAsFactor(n) PROVE IsTyped'
  <2>1. UNCHANGED <<size, items, posted, provider, length>>
    BY <1>3 DEF setScrollPosAsFactor
  <2>2. PICK index \in Nat, offset \in Int, num \in Nat :
             updateChildrenList(index, offset, children, addedIndex, num)
    BY <1>3, ScrollResult
  <2>3. QED
    BY <1>1, <2>1, <2>2, UpdateIsTyped
<1>4. ASSUME NEW p \in Providers \cup {NoProvider}, setItemsProvider(p)
      PROVE  IsTyped'
  <2>1. /\ provider' = p /\ UNCHANGED <<size, items, posted, length>>
        /\ updateChildrenList(posIndex, posOffset, << >>, NoIndex, 0)
    BY <1>4 DEF setItemsProvider, Rebuild
  <2>2. QED
    BY <1>1, <2>1, UpdateIsTyped
<1>5. ASSUME NEW p \in Providers, NEW i \in 1 .. Len(items[p]) + 1,
             NEW x \in Items, ItemAdded(p, i, x)
      PROVE  IsTyped'
  <2>1. /\ Len(items[p]) < MaxCount
        /\ items' = [items EXCEPT ![p] = InsertAt(@, i, x)]
        /\ posted' = IF provider = p THEN Append(posted, p) ELSE posted
        /\ UNCHANGED <<size, provider, length, tailVars, shownVars>>
    BY <1>5 DEF ItemAdded, notifyDataSetChanged
  <2>2. PICK s \in Seq(Items) : s = items[p]
    BY <1>1
  <2>3. InsertAt(s, i, x) \in Seq(Items) /\ Len(InsertAt(s, i, x)) = Len(s) + 1
    BY <2>2, ItemsChange
  <2>4. PICK t : t = InsertAt(s, i, x)
    OBVIOUS
  <2>5. items' = [items EXCEPT ![p] = t]
    BY <2>1, <2>2, <2>4
  <2>6. t \in Seq(Items) /\ Len(t) <= MaxCount
    BY <2>1, <2>2, <2>3, <2>4, NoIndexIsFar
  <2>7. posted' \in Seq(Providers)
    BY <1>1, <2>1
  <2>8. QED
    BY <2>1, <2>5, <2>6, <2>7, ItemsStayTyped
<1>6. ASSUME NEW p \in Providers, NEW i \in DOMAIN items[p],
             ItemRemoved(p, i)
      PROVE  IsTyped'
  <2>1. /\ items' = [items EXCEPT ![p] = RemoveAt(@, i)]
        /\ posted' = IF provider = p THEN Append(posted, p) ELSE posted
        /\ UNCHANGED <<size, provider, length, tailVars, shownVars>>
    BY <1>6 DEF ItemRemoved, notifyDataSetChanged
  <2>2. PICK s \in Seq(Items) : s = items[p] /\ Len(s) <= MaxCount
    BY <1>1
  <2>3. i \in Nat /\ i >= 1 /\ i <= Len(s)
    BY <2>2
  <2>4. RemoveAt(s, i) \in Seq(Items) /\ Len(RemoveAt(s, i)) = Len(s) - 1
    BY <2>3, ItemsChange
  <2>5. PICK t : t = RemoveAt(s, i)
    OBVIOUS
  <2>6. items' = [items EXCEPT ![p] = t]
    BY <2>1, <2>2, <2>5
  <2>7. t \in Seq(Items) /\ Len(t) <= MaxCount
    BY <2>2, <2>4, <2>5, NoIndexIsFar
  <2>8. posted' \in Seq(Providers)
    BY <1>1, <2>1
  <2>9. QED
    BY <2>1, <2>6, <2>7, <2>8, ItemsStayTyped
<1>7. CASE handleDataSetChanged
  <2>1. /\ posted # << >> /\ posted' = Tail(posted)
        /\ UNCHANGED <<size, items, provider, length>>
        /\ updateChildrenList(posIndex, posOffset, << >>, NoIndex, 0)
    BY <1>7 DEF handleDataSetChanged, Rebuild
  <2>2. posted' \in Seq(Providers)
    BY <1>1, <2>1
  <2>3. QED
    BY <1>1, <2>1, <2>2, UpdateIsTyped
<1>8. CASE UNCHANGED listVars
  BY <1>8 DEF listVars, tailVars, shownVars, IsTyped, ListTypeOK
<1>9. QED
  BY <1>2, <1>3, <1>4, <1>5, <1>6, <1>7, <1>8 DEF ListNext

\* Every variable has its type, whatever is scrolled and however the items
\* come and go: the position and the indices, which the code keeps in
\* size_t, are never negative.
THEOREM ListTypeCorrect == ListSpec => []ListTypeOK
<1>1. ListInit => IsTyped
  BY TypedAtFirst
<1>2. IsTyped /\ [ListNext]_listVars => IsTyped'
  BY StaysTyped
<1>3. IsTyped => ListTypeOK
  BY DEF IsTyped
<1>4. QED
  BY <1>1, <1>2, <1>3, PTL DEF ListSpec

-----------------------------------------------------------------------------
(* What is shown *)

LEMMA KnowsAtFirst == ListInit => KnowsWhatItShows
BY DEF ListInit, KnowsWhatItShows, UpToDate

\* A step that ends in updateChildrenList() and leaves no change to be told.
LEMMA UpdateKnows ==
    ASSUME IsTyped, IsTyped', UNCHANGED size, NEW index \in Nat,
           NEW offset \in Int, NEW kids \in Seq(Widget), NEW added \in Nat,
           NEW num \in Nat,
           updateChildrenList(index, offset, kids, added, num),
           UpToDate' =>
               /\ Shows(kids, data', added)
               /\ \/ added = NoIndex
                  \/ posIndex' <= added + Len(kids)
                  \/ /\ num = 0 /\ index <= added
                     /\ index < Len(data') => offset < size[data'[index + 1]]
    PROVE  KnowsWhatItShows'
<1> SUFFICES ASSUME UpToDate'
             PROVE  /\ Shows(children', data', posIndex')
                    /\ posIndex' <= addedIndex'
                    /\ children' # << >> => addedIndex' = posIndex'
                    /\ posIndex' < Len(data') =>
                         posOffset' < size'[data'[posIndex' + 1]]
  BY DEF KnowsWhatItShows, count
<1>1. provider' # NoProvider /\ provider' \in Providers
  BY DEF UpToDate, IsTyped, ListTypeOK
<1>2. PICK d : d = data' /\ d \in Seq(Items) /\ Len(d) <= MaxCount
  BY <1>1 DEF data, IsTyped, ListTypeOK
<1>3. Sized(d) /\ TailIsTyped /\ size' = size
  BY <1>2 DEF IsTyped, ListTypeOK, Sized, TailIsTyped
<1>4. PICK l \in Nat : length' = l
  BY DEF IsTyped, ListTypeOK
<1>5. items'[provider'] = d
  BY <1>2 DEF data
<1>6. /\ posIndex' \in Nat
      /\ Shows(kids, d, added) =>
           /\ Shows(children', d, posIndex')
           /\ posIndex' < Len(d) => posOffset' < size[d[posIndex' + 1]]
      /\ posIndex' <= added + Len(kids) =>
           /\ posIndex' <= addedIndex'
           /\ children' # << >> => addedIndex' = posIndex'
      /\ added = NoIndex => posIndex' <= added
      /\ /\ num = 0 /\ index <= added /\ Shows(kids, d, added)
         /\ index < Len(d) => offset < size[d[index + 1]]
         => posIndex' <= added
  BY <1>1, <1>2, <1>3, <1>4, <1>5, UpdateResult
<1>7. posIndex' <= added + Len(kids)
  <2>1. posIndex' <= added => posIndex' <= added + Len(kids)
    <3>1. Len(kids) \in Nat
      OBVIOUS
    <3>2. QED
      BY <1>6, <3>1
  <2>2. QED
    BY <1>2, <1>6, <2>1
<1>8. QED
  BY <1>2, <1>3, <1>6, <1>7

LEMMA KeepsKnowing ==
    ASSUME ~FarScrolls, IsTyped, IsTyped', KnowsWhatItShows, [ListNext]_listVars
    PROVE  KnowsWhatItShows'
<1>1. /\ children \in Seq(Widget) /\ addedIndex \in Nat
      /\ posIndex \in Nat /\ posOffset \in Int
      /\ << >> \in Seq(Widget) /\ NoIndex \in Nat
  BY NoIndexIsFar DEF IsTyped, ListTypeOK
<1>2. \A d, i : Shows(<< >>, d, i)
  BY DEF Shows
<1>3. ASSUME UNCHANGED <<size, items, posted, provider>>, UpToDate'
      PROVE  /\ UpToDate /\ data' = data
             /\ Shows(children, data', addedIndex)
             /\ posIndex <= addedIndex
             /\ posIndex < Len(data') => posOffset < size[data'[posIndex + 1]]
  <2>1. UpToDate /\ data' = data
    BY <1>3 DEF UpToDate, data
  <2>2. /\ Shows(children, data, posIndex)
        /\ posIndex <= addedIndex
        /\ children # << >> => addedIndex = posIndex
        /\ posIndex < Len(data) => posOffset < size[data[posIndex + 1]]
    BY <2>1 DEF KnowsWhatItShows, count
  <2>3. Shows(children, data, addedIndex)
    BY <1>2, <2>2
  <2>4. QED
    BY <2>1, <2>2, <2>3
<1>4. ASSUME NEW l \in Lengths, layOut(l) PROVE KnowsWhatItShows'
  <2>1. /\ UNCHANGED <<size, items, posted, provider>>
        /\ updateChildrenList(posIndex, posOffset, children, addedIndex, 0)
    BY <1>4 DEF layOut
  <2>2. QED
    BY <1>1, <1>3, <2>1, UpdateKnows
<1>5. ASSUME NEW n \in 0 .. Steps, setScrollPosAsFactor(n)
      PROVE  KnowsWhatItShows'
  <2>1. /\ UNCHANGED <<size, items, posted, provider, length>>
        /\ posIndex' <= addedIndex + Len(children)
    BY <1>5 DEF setScrollPosAsFactor
  <2>2. PICK index \in Nat, offset \in Int, num \in Nat :
             updateChildrenList(index, offset, children, addedIndex, num)
    BY <1>5, ScrollResult
  <2>3. QED
    BY <1>1, <1>3, <2>1, <2>2, UpdateKnows
<1>6. ASSUME NEW p \in Providers \cup {NoProvider}, setItemsProvider(p)
      PROVE  KnowsWhatItShows'
  <2>1. /\ UNCHANGED size
        /\ updateChildrenList(posIndex, posOffset, << >>, NoIndex, 0)
    BY <1>6 DEF setItemsProvider, Rebuild
  <2>2. QED
    BY <1>1, <1>2, <2>1, UpdateKnows
<1>7. CASE handleDataSetChanged
  <2>1. /\ UNCHANGED size
        /\ updateChildrenList(posIndex, posOffset, << >>, NoIndex, 0)
    BY <1>7 DEF handleDataSetChanged, Rebuild
  <2>2. QED
    BY <1>1, <1>2, <2>1, UpdateKnows
\* Another provider's items change, or a call is posted.
<1>8. ASSUME NEW p \in Providers, NEW s,
             items' = [items EXCEPT ![p] = s],
             posted' = IF provider = p THEN Append(posted, p) ELSE posted,
             UNCHANGED <<size, provider, length, tailVars, shownVars>>
      PROVE  KnowsWhatItShows'
  <2> SUFFICES ASSUME UpToDate' PROVE KnowsWhatItShows'
    BY DEF KnowsWhatItShows
  <2>1. provider # p
    <3>1. PICK t \in Seq(Providers) : t = posted
      BY DEF IsTyped, ListTypeOK
    <3>2. Len(Append(t, p)) = Len(t) + 1 /\ Len(t) \in Nat
      OBVIOUS
    <3>3. Append(posted, p) # << >>
      BY <3>1, <3>2
    <3>4. QED
      BY <1>8, <3>3 DEF UpToDate
  <2>2. posted' = posted /\ provider' = provider
    BY <1>8, <2>1
  <2>3. UpToDate /\ items'[provider] = items[provider]
    BY <1>8, <2>1, <2>2 DEF UpToDate, IsTyped, ListTypeOK
  <2>4. data' = data /\ count' = count
    BY <2>2, <2>3 DEF data, count
  <2>5. UNCHANGED <<size, children, addedIndex, posIndex, posOffset>>
    BY <1>8 DEF shownVars
  <2>6. Shows(children, data, posIndex)' = Shows(children, data, posIndex)
    BY <2>4, <2>5 DEF Shows
  <2>7. QED
    BY <2>3, <2>4, <2>5, <2>6 DEF KnowsWhatItShows
<1>9. ASSUME NEW p \in Providers, NEW i \in 1 .. Len(items[p]) + 1,
             NEW x \in Items, ItemAdded(p, i, x)
      PROVE  KnowsWhatItShows'
  <2>1. PICK s : s = InsertAt(items[p], i, x)
    OBVIOUS
  <2>2. items' = [items EXCEPT ![p] = s]
    BY <1>9, <2>1 DEF ItemAdded
  <2>3. QED
    BY <1>8, <1>9, <2>2 DEF ItemAdded, notifyDataSetChanged
<1>10. ASSUME NEW p \in Providers, NEW i \in DOMAIN items[p],
              ItemRemoved(p, i)
       PROVE  KnowsWhatItShows'
  <2>1. PICK s : s = RemoveAt(items[p], i)
    OBVIOUS
  <2>2. items' = [items EXCEPT ![p] = s]
    BY <1>10, <2>1 DEF ItemRemoved
  <2>3. QED
    BY <1>8, <1>10, <2>2 DEF ItemRemoved, notifyDataSetChanged
<1>11. CASE UNCHANGED listVars
  BY <1>11 DEF listVars, tailVars, shownVars, KnowsWhatItShows, UpToDate, data,
               count, Shows
<1>12. QED
  BY <1>4, <1>5, <1>6, <1>7, <1>9, <1>10, <1>11 DEF ListNext

\* As long as no call scrolls past all the widgets that are shown, the list,
\* once it has been told of every change, shows a stretch of the provider's
\* items, in order, from posIndex on, in the widgets made for them.
THEOREM ShowsTheItems ==
    ASSUME ~FarScrolls
    PROVE  ListSpec => []ShowsItems
<1>1. ListInit => IsTyped /\ KnowsWhatItShows
  BY TypedAtFirst, KnowsAtFirst
<1>2. IsTyped /\ KnowsWhatItShows /\ [ListNext]_listVars
          => (IsTyped /\ KnowsWhatItShows)'
  <2>1. IsTyped /\ [ListNext]_listVars => IsTyped'
    BY StaysTyped
  <2>2. QED
    BY <2>1, KeepsKnowing
<1>3. KnowsWhatItShows => ShowsItems
  BY DEF KnowsWhatItShows, ShowsItems, Shows
<1>4. QED
  BY <1>1, <1>2, <1>3, PTL DEF ListSpec

-----------------------------------------------------------------------------
(* What is recycled *)

\* Computed anew, the tail is that of the last items: of all of them, or of
\* enough to fill the length.
LEMMA TailIs ==
    ASSUME NEW d, Sized(d), d # << >>, NEW l \in Nat
    PROVE  \E n \in 0 .. Len(d), x \in Nat :
              /\ x = Extent(d, Len(d) - n, Len(d))
              /\ n = Len(d) \/ x >= l
              /\ TailFor(0, d, l) =
                     [num |-> n, first |-> Len(d) - n,
                      offset |-> IF x - l < 0 THEN -1 ELSE x - l]
<1> DEFINE c == Len(d)
           S == {k \in 0 .. c : k = c \/ Extent(d, c - k, c) >= l}
           n == Min(S)
           x == Extent(d, c - n, c)
<1>0. c \in Nat
  BY DEF Sized
<1>1. TailFor(0, d, l) = [num |-> n, first |-> c - n,
                          offset |-> IF x - l < 0 THEN -1 ELSE x - l]
  BY DEF TailFor
<1>2. n \in S
  <2>1. c \in S /\ S \subseteq Int /\ (\A k \in S : 0 <= k) /\ 0 \in Int
    BY <1>0
  <2> HIDE DEF S
  <2>2. S # {}
    BY <2>1
  <2>3. QED
    BY <2>1, <2>2, LeastExists
<1> HIDE DEF n
<1>3. n \in 0 .. c /\ c - n \in Nat /\ (n = c \/ x >= l)
  BY <1>0, <1>2
<1>4. x \in Nat
  <2>1. PICK i \in Nat : i = c - n
    BY <1>3
  <2>2. c <= Len(d)
    BY <1>0
  <2>3. Extent(d, i, c) \in Nat
    BY <1>0, <2>2, ExtentIsNat
  <2>4. QED
    BY <2>1, <2>3
<1>5. QED
  BY <1>1, <1>3, <1>4

\* What updateChildrenList() does, in terms of where it begins and ends.
LEMMA UpdateIs ==
    ASSUME IsTyped, IsTyped', UNCHANGED size, provider' # NoProvider,
           NEW d, d = data', NEW l, l = length',
           NEW index \in Nat, NEW offset \in Int,
           NEW kids \in Seq(Widget), NEW added \in Nat, NEW num \in Nat,
           updateChildrenList(index, offset, kids, added, num)
    PROVE  \E tail, from, t, last :
              /\ tail = TailFor(num, d, l)
              /\ tail.num \in Nat /\ tail.first \in Nat /\ tail.offset \in Int
              /\ numTailItems' = tail.num
              /\ firstTailItemIndex' = tail.first
              /\ firstTailItemOffset' = tail.offset
              /\ from = Clamped(index, offset, tail)
              /\ from[1] \in Nat /\ from[2] \in Int
              /\ from[1] <= index /\ from[1] <= tail.first
              /\ from[1] <= posIndex'
              /\ from[1] >= Len(d) => posIndex' = from[1]
              /\ LoopsEnd(d, l, from, kids, added, t, last)
              /\ Shows(kids, d, added) => t = d
              /\ posIndex' <= added + Len(kids) =>
                   /\ posIndex' <= addedIndex'
                   /\ children' # << >> => addedIndex' = posIndex'
<1>1. /\ Sized(d) /\ Len(d) <= MaxCount /\ l \in Nat /\ TailIsTyped
      /\ items'[provider'] = d
  <2>1. Sized(data)' /\ (Len(data) <= MaxCount)'
    BY ListAssumption DEF IsTyped, ListTypeOK, Sized, data
  <2>2. Sized(d) /\ Len(d) <= MaxCount
    BY <2>1 DEF Sized
  <2>3. QED
    BY <2>2 DEF IsTyped, ListTypeOK, TailIsTyped, data
<1> DEFINE tail == TailFor(num, d, l)
           from == Clamped(index, offset, tail)
<1>2. /\ numTailItems' = tail.num
      /\ firstTailItemIndex' = tail.first
      /\ firstTailItemOffset' = tail.offset
      /\ Arrange(d, l, from, kids, added)
  BY <1>1 DEF updateChildrenList
<1>3. /\ tail.num \in Nat /\ tail.first \in Nat /\ tail.offset \in Int
  BY <1>1, TailResult
<1>4. tail = TailFor(num, d, l)
  OBVIOUS
<1> HIDE DEF tail
<1>5. /\ from[1] \in Nat /\ from[2] \in Int
      /\ from[1] <= index /\ from[1] <= tail.first
  BY <1>1, <1>3, ClampedResult
<1>6. from = Clamped(index, offset, tail)
  OBVIOUS
<1> HIDE DEF from
<1>7. /\ from[1] <= posIndex'
      /\ from[1] >= Len(d) => posIndex' = from[1]
      /\ posIndex' <= added + Len(kids) =>
           /\ posIndex' <= addedIndex'
           /\ children' # << >> => addedIndex' = posIndex'
      /\ \E t, last : /\ LoopsEnd(d, l, from, kids, added, t, last)
                      /\ Shows(kids, d, added) => t = d
  BY <1>1, <1>2, <1>5, ArrangeIs
<1>8. PICK t, last : /\ LoopsEnd(d, l, from, kids, added, t, last)
                     /\ Shows(kids, d, added) => t = d
  BY <1>7
<1>9. QED
  BY <1>2, <1>3, <1>4, <1>5, <1>6, <1>7, <1>8

-----------------------------------------------------------------------------
(* What is given back *)

\* As long as the list has been told of all changes but one, it knows which
\* items its widgets were made for, if not what these items have become: the
\* widgets are those for the indices from posIndex on, addedIndex is the
\* first of these indices, and of the first widget something is in view.
\* Where there are no widgets, none was made since the list was rebuilt, or
\* the position and addedIndex are past the items the list was told of.
KnowsIndices ==
    Len(posted) <= 1 /\ provider # NoProvider =>
        /\ Indexed(children, posIndex)
        /\ children # << >> =>
             /\ addedIndex = posIndex
             /\ posOffset < size[children[1].item]
        /\ children = << >> =>
             \/ addedIndex = NoIndex
             \/ /\ count <= posIndex + Len(posted)
                /\ count <= addedIndex + Len(posted)

\* A step that ends in updateChildrenList().
LEMMA UpdateKnowsIndices ==
    ASSUME IsTyped, IsTyped', UNCHANGED size, NEW index \in Nat,
           NEW offset \in Int, NEW kids \in Seq(Widget), NEW added \in Nat,
           NEW num \in Nat,
           updateChildrenList(index, offset, kids, added, num),
           Len(posted') <= 1 /\ provider' # NoProvider =>
               /\ Indexed(kids, added)
               /\ children' # << >> => posIndex' <= added + Len(kids)
               /\ children' = << >> =>
                    \/ addedIndex' = NoIndex
                    \/ /\ count' <= posIndex' + Len(posted')
                       /\ count' <= addedIndex' + Len(posted')
    PROVE  KnowsIndices' /\ RecyclesByIndex'
<1>1. CASE provider' = NoProvider
  <2>1. recycled' = {}
    BY <1>1 DEF updateChildrenList
  <2>2. QED
    BY <1>1, <2>1 DEF KnowsIndices, RecyclesByIndex, RecyclesWhatItGot
<1>2. CASE provider' # NoProvider
  <2> SUFFICES ASSUME Len(posted') <= 1
               PROVE  /\ \A r \in recycled' : r[1] = r[2].index
                      /\ Indexed(children', posIndex')
                      /\ children' # << >> =>
                           /\ addedIndex' = posIndex'
                           /\ posOffset' < size'[children'[1].item]
                      /\ children' = << >> =>
                           \/ addedIndex' = NoIndex
                           \/ /\ count' <= posIndex' + Len(posted')
                              /\ count' <= addedIndex' + Len(posted')
    BY DEF KnowsIndices, RecyclesByIndex, RecyclesWhatItGot, Indexed
  <2>1. PICK d, l : d = data' /\ l = length'
    OBVIOUS
  <2>2. PICK from, t, last :
             /\ LoopsEnd(d, l, from, kids, added, t, last)
             /\ posIndex' <= added + Len(kids) /\ children' # << >> =>
                  addedIndex' = posIndex'
    BY <1>2, <2>1, UpdateIs
  <2>3. /\ Indexed(kids, added) => /\ Indexed(children', posIndex')
                                   /\ \A r \in recycled' : r[1] = r[2].index
        /\ posIndex' < Len(d) => posOffset' < size[t[posIndex' + 1]]
        /\ Len(children') = IF posIndex' <= last THEN last - posIndex' + 1 ELSE 0
        /\ \A k \in DOMAIN children' : children'[k].item = t[posIndex' + k]
        /\ last \in Int /\ last <= Len(d) - 1
    BY <2>2 DEF LoopsEnd
  <2>4. ASSUME children' # << >> PROVE posOffset' < size'[children'[1].item]
    <3>1. children' \in Seq(Widget) /\ posIndex' \in Nat
      BY DEF IsTyped, ListTypeOK
    <3>2. Len(children') # 0 /\ 1 \in DOMAIN children'
      BY <2>4, <3>1
    <3>3. posIndex' <= last
      BY <2>3, <3>2
    <3>4. d \in Seq(Items)
      BY <1>2, <2>1 DEF IsTyped, ListTypeOK, data
    <3>5. posIndex' < Len(d)
      BY <2>3, <3>1, <3>3, <3>4
    <3>6. children'[1].item = t[posIndex' + 1]
      BY <2>3, <3>2
    <3>7. QED
      BY <2>3, <3>5, <3>6
  <2>5. QED
    BY <1>2, <2>2, <2>3, <2>4
<1>3. QED
  BY <1>1, <1>2

\* When the list has a length and no widget, the position is past the items.
LEMMA NothingIsLeft ==
    ASSUME NEW d, Sized(d), NEW l \in Nat, l > 0, NEW from, from[1] \in Nat,
           from[2] \in Int, NEW kids, NEW added, NEW t, NEW last,
           LoopsEnd(d, l, from, kids, added, t, last),
           posIndex' \in Nat, from[1] <= posIndex', children' = << >>
    PROVE  Len(d) <= posIndex'
<1>1. PICK c \in Nat, f \in Nat, p \in Nat :
           c = Len(d) /\ f = from[1] /\ p = posIndex' /\ f <= p
  BY DEF Sized
<1>2. /\ last \in Int /\ last <= c - 1
      /\ f < c => f <= last
      /\ last # c - 1 => ReachOf(t, from, last) >= l
      /\ p = f \/ p <= last + 1
      /\ p > f => ReachOf(t, from, p - 1) <= 0
      /\ Len(children') = IF p <= last THEN last - p + 1 ELSE 0
  BY <1>1 DEF LoopsEnd
<1>3. Sized(t) /\ Len(t) = c
  BY <1>1 DEF LoopsEnd
<1>4. ~(p <= last)
  <2>1. 0 = IF p <= last THEN last - p + 1 ELSE 0
    BY <1>2
  <2>2. last \in Int
    BY <1>2
  <2>3. QED
    BY <2>1, <2>2
<1>5. CASE p = f
  BY <1>1, <1>2, <1>4, <1>5
<1>6. CASE p > f
  <2>1. last \in Int /\ p <= last + 1
    BY <1>2, <1>6
  <2>2. p - 1 = last /\ f <= last
    BY <1>4, <1>6, <2>1
  <2>3. ReachOf(t, from, last) <= 0
    BY <1>2, <1>6, <2>2
  <2>4. ReachOf(t, from, last) \in Int
    <3>1. last + 1 = p /\ p <= c
      <4>1. last <= c - 1
        BY <1>2
      <4>2. QED
        BY <2>1, <2>2, <4>1
    <3>2. Extent(t, f, p) \in Nat
      BY <1>3, <3>1, ExtentIsNat
    <3>3. QED
      BY <1>1, <3>1, <3>2 DEF ReachOf
  <2>5. last = c - 1
    BY <1>2, <2>3, <2>4
  <2>6. QED
    BY <1>1, <2>2, <2>5
<1>7. QED
  BY <1>1, <1>5, <1>6

\* Scrolling to a factor.
LEMMA ScrollKnowsIndices ==
    ASSUME ~FarScrolls, IsTyped, IsTyped', KnowsIndices, NEW n \in 0 .. Steps,
           setScrollPosAsFactor(n)
    PROVE  KnowsIndices' /\ RecyclesByIndex'
<1>1. /\ provider # NoProvider /\ length > 0
      /\ UNCHANGED <<size, items, posted, provider, length>>
      /\ posIndex' <= addedIndex + Len(children)
  BY DEF setScrollPosAsFactor
<1>2. PICK index \in Nat, offset \in Int, num \in Nat :
           updateChildrenList(index, offset, children, addedIndex, num)
  BY ScrollResult
<1>3. children \in Seq(Widget) /\ addedIndex \in Nat /\ posIndex' \in Nat
      /\ addedIndex' \in Nat /\ length' \in Nat /\ length' > 0
      /\ posted' \in Seq(Providers)
  BY <1>1 DEF IsTyped, ListTypeOK
<1>4. ASSUME Len(posted') <= 1 PROVE Indexed(children, addedIndex)
  <2>1. /\ Indexed(children, posIndex)
        /\ children # << >> => addedIndex = posIndex
    BY <1>1, <1>4 DEF KnowsIndices
  <2>2. children = << >> => Indexed(children, addedIndex)
    BY DEF Indexed
  <2>3. QED
    BY <2>1, <2>2
<1>5. ASSUME children' = << >>
      PROVE  /\ count' <= posIndex' + Len(posted')
             /\ count' <= addedIndex' + Len(posted')
  <2>1. PICK d, l : d = data' /\ l = length'
    OBVIOUS
  <2>2. PICK tail, from, t, last :
             /\ from[1] \in Nat /\ from[2] \in Int /\ from[1] <= posIndex'
             /\ LoopsEnd(d, l, from, children, addedIndex, t, last)
             /\ posIndex' <= addedIndex + Len(children) =>
                  posIndex' <= addedIndex'
    BY <1>1, <1>2, <1>3, <2>1, UpdateIs
  <2>3. Sized(d) /\ Len(d) \in Nat
    BY <1>1, <2>1 DEF Sized, IsTyped, ListTypeOK, data
  <2>4. Len(d) <= posIndex'
    BY <1>3, <1>5, <2>1, <2>2, <2>3, NothingIsLeft
  <2>5. count' = Len(d) /\ Len(posted') \in Nat /\ posIndex' <= addedIndex'
    BY <1>1, <1>3, <2>1, <2>2 DEF count
  <2>6. QED
    BY <1>3, <2>3, <2>4, <2>5
<1>6. QED
  BY <1>1, <1>2, <1>3, <1>4, <1>5, UpdateKnowsIndices

\* The three ways to be on the near side of the position that shows the tail.
LEMMA ClampedCases ==
    ASSUME NEW index \in Nat, NEW offset \in Int, NEW tail,
           tail.first \in Nat, tail.offset \in Int
    PROVE  LET from == Clamped(index, offset, tail)
           IN \/ index < tail.first /\ from[1] = index /\ from[2] = offset
              \/ /\ index = tail.first /\ from[1] = index
                 /\ from[2] = IF offset <= tail.offset THEN offset
                              ELSE tail.offset
              \/ /\ index > tail.first /\ from[1] = tail.first
                 /\ from[2] = tail.offset
<1>1. Min({offset, tail.offset})
          = IF offset <= tail.offset THEN offset ELSE tail.offset
  BY LeastOfTwo
<1>2. CASE index < tail.first
  BY <1>2 DEF Clamped
<1>3. CASE index = tail.first
  BY <1>1, <1>3 DEF Clamped
<1>4. CASE index > tail.first
  BY <1>4 DEF Clamped
<1>5. QED
  BY <1>2, <1>3, <1>4

\* A widget that is said to be before the first one there is, is a new one.
LEMMA NewWidget ==
    ASSUME NEW kids \in Seq(Widget), NEW added \in Nat, NEW i \in Nat, NEW d,
           i < added \/ kids = << >>
    PROVE  WidgetFor(i, d, kids, added).item = d[i + 1]
<1>1. i - added + 1 \notin DOMAIN kids
  <2>1. DOMAIN kids = 1 .. Len(kids) /\ Len(kids) \in Nat
    OBVIOUS
  <2>2. CASE i < added
    BY <2>1, <2>2
  <2>3. CASE kids = << >>
    BY <2>3
  <2>4. QED
    BY <2>2, <2>3
<1>2. QED
  BY <1>1 DEF WidgetFor

\* What is scrolled away of the item at posIndex, or of the first tail item,
\* is less than its length, so that the loops take no widget away.
LEMMA LayOutStays ==
    ASSUME NEW d, Sized(d), d # << >>, NEW l \in Nat,
           NEW kids \in Seq(Widget), NEW added \in Nat, NEW index \in Nat,
           NEW offset \in Int, NEW from, NEW t, NEW last,
           posIndex' \in Nat,
           from = Clamped(index, offset, TailFor(0, d, l)),
           LoopsEnd(d, l, from, kids, added, t, last),
           from[1] < Len(d),
           \/ /\ kids # << >> /\ index = added
              /\ offset < size[kids[1].item]
           \/ kids = << >> /\ TailFor(0, d, l).first < index
    PROVE  posIndex' = from[1] /\ children' # << >>
<1> DEFINE tail == TailFor(0, d, l)
<1>1. /\ tail.first \in Nat /\ tail.first <= Len(d) /\ tail.offset \in Int
      /\ tail.first < Len(d) => tail.offset < size[d[tail.first + 1]]
  BY TailIsCutInFirst
<1> HIDE DEF tail
<1>2. \/ index < tail.first /\ from[1] = index /\ from[2] = offset
      \/ /\ index = tail.first /\ from[1] = index
         /\ from[2] = IF offset <= tail.offset THEN offset ELSE tail.offset
      \/ index > tail.first /\ from[1] = tail.first /\ from[2] = tail.offset
  BY <1>1, ClampedCases DEF tail
<1>3. from[1] \in Nat /\ from[2] \in Int
  BY <1>1, <1>2
<1>4. PICK s : s = size[t[from[1] + 1]] /\ s \in Nat
  <2>1. Sized(t) /\ Len(t) = Len(d)
    BY DEF LoopsEnd
  <2>2. QED
    BY <1>3, <2>1, SizeOfItem
<1>5. /\ t[from[1] + 1] = WidgetFor(from[1], d, kids, added).item
      /\ from[2] < s => posIndex' = from[1]
  BY <1>4 DEF LoopsEnd
<1>6. ASSUME index > tail.first PROVE posIndex' = from[1]
  <2>1. from[1] = tail.first /\ from[2] = tail.offset
    BY <1>1, <1>2, <1>6
  <2>2. from[1] < added \/ kids = << >>
    BY <1>6, <2>1 DEF tail
  <2>3. WidgetFor(from[1], d, kids, added).item = d[from[1] + 1]
    <3>1. PICK f \in Nat : f = from[1]
      BY <1>3
    <3>2. f < added \/ kids = << >>
      BY <2>2, <3>1
    <3>3. WidgetFor(f, d, kids, added).item = d[f + 1]
      BY <3>2, NewWidget
    <3>4. QED
      BY <3>1, <3>3
  <2>4. from[2] < s
    BY <1>1, <1>4, <1>5, <2>1, <2>3
  <2>5. QED
    BY <1>5, <2>4
<1>7. ASSUME index <= tail.first PROVE posIndex' = from[1]
  <2>1. kids # << >> /\ index = added /\ offset < size[kids[1].item]
    BY <1>1, <1>7 DEF tail
  <2>2. from[1] = added /\ from[2] <= offset
    BY <1>1, <1>2, <1>7, <2>1
  <2>3. WidgetFor(added, d, kids, added) = kids[1]
    <3>1. added - added + 1 = 1 /\ 1 \in DOMAIN kids
      BY <2>1
    <3>2. QED
      BY <3>1 DEF WidgetFor
  <2>4. s = size[kids[1].item]
    BY <1>4, <1>5, <2>2, <2>3
  <2>5. from[2] < s
    BY <1>3, <1>4, <2>1, <2>2, <2>4
  <2>6. QED
    BY <1>5, <2>5
<1>8. posIndex' = from[1]
  BY <1>1, <1>6, <1>7
<1>9. Len(children') # 0
  <2>1. PICK p \in Nat : p = posIndex'
    OBVIOUS
  <2>2. /\ last \in Int /\ p <= last
        /\ Len(children') = IF p <= last THEN last - p + 1 ELSE 0
    BY <1>8, <2>1 DEF LoopsEnd
  <2>3. PICK i \in Int : i = last
    BY <2>2
  <2>4. Len(children') = i - p + 1 /\ p <= i
    BY <2>2, <2>3
  <2>5. i - p + 1 # 0
    BY <2>4
  <2>6. QED
    BY <2>4, <2>5
<1>10. QED
  BY <1>8, <1>9

\* The first item in view stays the first, unless the tail moves before it.
LEMMA LayOutKnowsIndices ==
    ASSUME IsTyped, IsTyped', KnowsIndices, NEW l \in Lengths, layOut(l)
    PROVE  KnowsIndices' /\ RecyclesByIndex'
<1>1. /\ UNCHANGED <<size, items, posted, provider>> /\ length' = l
      /\ updateChildrenList(posIndex, posOffset, children, addedIndex, 0)
      /\ l \in Nat
  BY ListAssumption DEF layOut
<1>2. /\ children \in Seq(Widget) /\ addedIndex \in Nat
      /\ posIndex \in Nat /\ posOffset \in Int
      /\ posIndex' \in Nat /\ addedIndex' \in Nat /\ posted \in Seq(Providers)
      /\ Len(posted) \in Nat /\ Len(children) \in Nat
  BY DEF IsTyped, ListTypeOK
<1> SUFFICES ASSUME Len(posted) <= 1, provider # NoProvider
             PROVE  /\ Indexed(children, addedIndex)
                    /\ children' # << >> => posIndex' <= addedIndex + Len(children)
                    /\ children' = << >> =>
                         \/ addedIndex' = NoIndex
                         \/ /\ count' <= posIndex' + Len(posted')
                            /\ count' <= addedIndex' + Len(posted')
  BY <1>1, <1>2, UpdateKnowsIndices
<1>3. /\ Indexed(children, posIndex)
      /\ children # << >> => /\ addedIndex = posIndex
                             /\ posOffset < size[children[1].item]
      /\ children = << >> => \/ addedIndex = NoIndex
                             \/ /\ count <= posIndex + Len(posted)
                                /\ count <= addedIndex + Len(posted)
  BY DEF KnowsIndices
<1>4. Indexed(children, addedIndex)
  <2>1. children = << >> => Indexed(children, addedIndex)
    BY DEF Indexed
  <2>2. QED
    BY <1>3, <2>1
<1>5. PICK d : d = data' /\ d = data
  BY <1>1 DEF data
<1>6. PICK c \in Nat : c = count /\ c = count' /\ c = Len(d) /\ c <= MaxCount
  <2>1. Len(d) \in Nat /\ Len(d) <= MaxCount
    BY <1>5, DataIsSized DEF Sized
  <2>2. QED
    BY <1>5, <2>1 DEF count
<1>7. Sized(d)
  BY <1>5, DataIsSized
<1>8. PICK tail, from, t, last :
           /\ tail = TailFor(0, d, l)
           /\ tail.first \in Nat /\ tail.offset \in Int
           /\ from = Clamped(posIndex, posOffset, tail)
           /\ from[1] \in Nat
           /\ from[1] <= posIndex /\ from[1] <= tail.first
           /\ from[1] <= posIndex'
           /\ from[1] >= Len(d) => posIndex' = from[1]
           /\ LoopsEnd(d, l, from, children, addedIndex, t, last)
           /\ posIndex' <= addedIndex + Len(children) =>
                posIndex' <= addedIndex'
  BY <1>1, <1>2, <1>5, UpdateIs
<1>9. ASSUME children' # << >> PROVE posIndex' < c
  <2>1. /\ last \in Int /\ last <= c - 1
        /\ Len(children') = IF posIndex' <= last THEN last - posIndex' + 1 ELSE 0
    BY <1>6, <1>8 DEF LoopsEnd
  <2>2. Len(children') # 0
    <3>1. children' \in Seq(Widget)
      BY DEF IsTyped, ListTypeOK
    <3>2. QED
      BY <1>9, <3>1
  <2>3. posIndex' <= last
    BY <2>1, <2>2
  <2>4. QED
    BY <1>2, <1>6, <2>1, <2>3
<1>10. /\ children = << >> /\ children' = << >> => addedIndex' = addedIndex
  BY <1>8 DEF LoopsEnd
<1>11. CASE children # << >>
  <2>1. posIndex' <= addedIndex
    <3>1. CASE from[1] < c
      <4>1. d # << >>
        BY <1>6, <1>8, <3>1
      <4>2. posIndex' = from[1]
        BY <1>1, <1>2, <1>3, <1>6, <1>7, <1>8, <1>11, <3>1, <4>1, LayOutStays
      <4>3. QED
        BY <1>3, <1>8, <1>11, <4>2
    <3>2. CASE from[1] >= c
      BY <1>3, <1>6, <1>8, <1>11, <3>2
    <3>3. QED
      BY <1>6, <1>8, <3>1, <3>2
  <2>2. posIndex' <= addedIndex + Len(children)
    BY <1>2, <2>1
  <2>3. ASSUME children' = << >> PROVE c <= posIndex'
    <3>1. CASE from[1] < c
      <4>1. d # << >>
        BY <1>6, <1>8, <3>1
      <4>2. children' # << >>
        BY <1>1, <1>2, <1>3, <1>6, <1>7, <1>8, <1>11, <3>1, <4>1, LayOutStays
      <4>3. QED
        BY <2>3, <4>2
    <3>2. CASE from[1] >= c
      BY <1>6, <1>8, <3>2
    <3>3. QED
      BY <1>6, <1>8, <3>1, <3>2
  <2>4. children' = << >> => /\ count' <= posIndex' + Len(posted')
                             /\ count' <= addedIndex' + Len(posted')
    BY <1>1, <1>2, <1>6, <1>8, <2>2, <2>3
  <2>5. QED
    BY <1>4, <2>2, <2>4
<1>12. CASE children = << >> /\ addedIndex = NoIndex
  <2>1. children' = << >> => addedIndex' = NoIndex
    BY <1>10, <1>12
  <2>2. children' # << >> => posIndex' <= addedIndex + Len(children)
    BY <1>2, <1>6, <1>9, <1>12, NoIndexIsFar
  <2>3. QED
    BY <1>4, <2>1, <2>2
<1>13. CASE /\ children = << >>
            /\ count <= posIndex + Len(posted)
            /\ count <= addedIndex + Len(posted)
  <2>1. children' # << >> => posIndex' <= addedIndex + Len(children)
    BY <1>2, <1>6, <1>9, <1>13
  <2>2. ASSUME children' = << >> PROVE count' <= posIndex' + Len(posted)
    <3>1. CASE from[1] >= c
      BY <1>2, <1>6, <1>8, <3>1
    <3>2. CASE from[1] < c /\ tail.first < posIndex
      <4>1. d # << >>
        BY <1>6, <1>8, <3>2
      <4>2. children' # << >>
        <5>1. TailFor(0, d, l).first < posIndex
          BY <1>8, <3>2
        <5>2. from = Clamped(posIndex, posOffset, TailFor(0, d, l))
          BY <1>8
        <5>3. from[1] < Len(d)
          BY <1>6, <3>2
        <5>4. QED
          BY <1>1, <1>2, <1>7, <1>8, <1>13, <4>1, <5>1, <5>2, <5>3, LayOutStays
      <4>3. QED
        BY <2>2, <4>2
    <3>3. CASE from[1] < c /\ ~(tail.first < posIndex)
      <4>1. from[1] = posIndex
        BY <1>2, <1>8, <3>3, ClampedCases
      <4>2. QED
        BY <1>2, <1>6, <1>8, <1>13, <4>1
    <3>4. QED
      BY <1>6, <1>8, <3>1, <3>2, <3>3
  <2>3. children' = << >> => count' <= addedIndex' + Len(posted)
    BY <1>6, <1>10, <1>13
  <2>4. QED
    BY <1>1, <1>4, <2>1, <2>2, <2>3
<1>14. QED
  BY <1>3, <1>11, <1>12, <1>13

\* Nothing is reused: all widgets are made for the index they get.
LEMMA RebuildKnowsIndices ==
    ASSUME IsTyped, IsTyped', UNCHANGED size, Rebuild
    PROVE  KnowsIndices' /\ RecyclesByIndex'
<1>1. /\ << >> \in Seq(Widget) /\ NoIndex \in Nat
      /\ posIndex \in Nat /\ posOffset \in Int
      /\ updateChildrenList(posIndex, posOffset, << >>, NoIndex, 0)
  BY NoIndexIsFar DEF IsTyped, ListTypeOK, Rebuild
<1> SUFFICES ASSUME provider' # NoProvider
             PROVE  /\ Indexed(<< >>, NoIndex)
                    /\ children' # << >> => posIndex' <= NoIndex + Len(<< >>)
                    /\ children' = << >> => addedIndex' = NoIndex
  BY <1>1, UpdateKnowsIndices
<1>2. Indexed(<< >>, NoIndex)
  BY DEF Indexed
<1>3. PICK d, l, c : /\ d = data' /\ l = length' /\ c = Len(d)
                     /\ c \in Nat /\ c <= MaxCount
  <2>1. PICK d : d = data' /\ d \in Seq(Items) /\ Len(d) <= MaxCount
    BY ListAssumption DEF IsTyped, ListTypeOK, data
  <2>2. Len(d) \in Nat
    BY <2>1
  <2>3. QED
    BY <2>1, <2>2
<1>4. PICK from, t, last : LoopsEnd(d, l, from, << >>, NoIndex, t, last)
  BY <1>1, <1>3, UpdateIs
<1>5. children' = << >> => addedIndex' = NoIndex
  BY <1>4 DEF LoopsEnd
<1>6. ASSUME children' # << >> PROVE posIndex' <= NoIndex + Len(<< >>)
  <2>1. PICK p \in Nat, n \in Nat : p = posIndex' /\ n = Len(children') /\ n # 0
    <3>1. children' \in Seq(Widget) /\ posIndex' \in Nat
      BY DEF IsTyped, ListTypeOK
    <3>2. Len(children') \in Nat /\ Len(children') # 0
      BY <1>6, <3>1
    <3>3. QED
      BY <3>1, <3>2
  <2>2. /\ last \in Int /\ last <= c - 1
        /\ n = IF p <= last THEN last - p + 1 ELSE 0
    BY <1>3, <1>4, <2>1 DEF LoopsEnd
  <2>3. p <= last
    BY <2>1, <2>2
  <2>4. p <= NoIndex
    BY <1>3, <2>2, <2>3, NoIndexIsFar
  <2>5. Len(<< >>) = 0
    OBVIOUS
  <2>6. QED
    BY <1>1, <2>1, <2>4, <2>5
<1>7. QED
  BY <1>2, <1>5, <1>6

\* A provider's items change: there is one more of them, or one less.
LEMMA ChangeKnowsIndices ==
    ASSUME IsTyped, IsTyped', KnowsIndices, RecyclesByIndex,
           NEW p \in Providers, NEW s \in Seq(Items),
           Len(s) <= Len(items[p]) + 1, items' = [items EXCEPT ![p] = s],
           posted' = IF provider = p THEN Append(posted, p) ELSE posted,
           UNCHANGED <<size, provider, length, tailVars, shownVars>>
    PROVE  KnowsIndices' /\ RecyclesByIndex'
<1>1. UNCHANGED <<size, provider, children, addedIndex, posIndex, posOffset,
                  recycled>>
  BY DEF shownVars
<1>2. PICK n \in Nat, m \in Nat :
           n = Len(posted) /\ m = Len(posted')
           /\ m = IF provider = p THEN n + 1 ELSE n
  <2>1. posted \in Seq(Providers) /\ posted' \in Seq(Providers)
    BY DEF IsTyped, ListTypeOK
  <2>2. Len(Append(posted, p)) = Len(posted) + 1
    BY <2>1
  <2>3. Len(posted) \in Nat /\ Len(posted') \in Nat
    BY <2>1
  <2>4. QED
    BY <2>2, <2>3
<1>3. RecyclesByIndex'
  <2>1. m <= 1 => n <= 1
    BY <1>2
  <2>2. QED
    BY <1>1, <1>2, <2>1 DEF RecyclesByIndex, RecyclesWhatItGot
<1>4. ASSUME Len(posted') <= 1, provider # NoProvider PROVE KnowsIndices'
  <2>1. /\ Indexed(children, posIndex)
        /\ children # << >> => /\ addedIndex = posIndex
                               /\ posOffset < size[children[1].item]
        /\ children = << >> => \/ addedIndex = NoIndex
                               \/ /\ count <= posIndex + n
                                  /\ count <= addedIndex + n
    <3>1. n <= 1
      BY <1>2, <1>4
    <3>2. QED
      BY <1>2, <1>4, <3>1 DEF KnowsIndices
  <2>2. PICK a \in Nat, b \in Nat :
             a = count /\ b = count' /\ (b <= a \/ (m = n + 1 /\ b <= a + 1))
    <3>1. /\ items \in [Providers -> Seq(Items)]
          /\ items' \in [Providers -> Seq(Items)]
          /\ provider \in Providers
      BY <1>4 DEF IsTyped, ListTypeOK
    <3>2. count \in Nat /\ count' \in Nat
      BY <1>1, <3>1 DEF count, data
    <3>3. CASE provider = p
      <4>1. count' = Len(s) /\ count = Len(items[p])
        BY <1>1, <3>1, <3>3 DEF count, data
      <4>2. QED
        BY <1>2, <3>2, <3>3, <4>1
    <3>4. CASE provider # p
      <4>1. count' = count
        BY <1>1, <3>1, <3>4 DEF count, data
      <4>2. QED
        BY <3>2, <4>1
    <3>5. QED
      BY <3>3, <3>4
  <2>3. ASSUME NEW i \in Nat, a <= i + n PROVE b <= i + m
    BY <1>2, <2>2, <2>3
  <2>4. posIndex \in Nat /\ addedIndex \in Nat
    BY DEF IsTyped, ListTypeOK
  <2>5. children' = << >> => \/ addedIndex' = NoIndex
                             \/ /\ count' <= posIndex' + Len(posted')
                                /\ count' <= addedIndex' + Len(posted')
    BY <1>1, <1>2, <2>1, <2>2, <2>3, <2>4
  <2>6. Indexed(children, posIndex)'
    BY <1>1, <2>1 DEF Indexed
  <2>7. QED
    BY <1>1, <2>1, <2>5, <2>6 DEF KnowsIndices
<1>5. KnowsIndices'
  BY <1>1, <1>4 DEF KnowsIndices
<1>6. QED
  BY <1>3, <1>5

\* No step loses track of the indices.
LEMMA KeepsIndices ==
    ASSUME ~FarScrolls, IsTyped, IsTyped', KnowsIndices, RecyclesByIndex,
           [ListNext]_listVars
    PROVE  KnowsIndices' /\ RecyclesByIndex'
<1>1. ASSUME NEW l \in Lengths, layOut(l)
      PROVE  KnowsIndices' /\ RecyclesByIndex'
  BY <1>1, LayOutKnowsIndices
<1>2. ASSUME NEW n \in 0 .. Steps, setScrollPosAsFactor(n)
      PROVE  KnowsIndices' /\ RecyclesByIndex'
  BY <1>2, ScrollKnowsIndices
<1>3. ASSUME NEW p \in Providers \cup {NoProvider}, setItemsProvider(p)
      PROVE  KnowsIndices' /\ RecyclesByIndex'
  BY <1>3, RebuildKnowsIndices DEF setItemsProvider
<1>4. ASSUME handleDataSetChanged PROVE KnowsIndices' /\ RecyclesByIndex'
  BY <1>4, RebuildKnowsIndices DEF handleDataSetChanged
<1>5. items \in [Providers -> Seq(Items)]
  BY DEF IsTyped, ListTypeOK
<1>6. ASSUME NEW p \in Providers, NEW i \in 1 .. Len(items[p]) + 1,
             NEW x \in Items, ItemAdded(p, i, x)
      PROVE  KnowsIndices' /\ RecyclesByIndex'
  <2>1. PICK r, s : /\ r \in Seq(Items) /\ r = items[p]
                   /\ s = InsertAt(r, i, x)
    BY <1>5
  <2>2. s \in Seq(Items) /\ Len(s) = Len(r) + 1 /\ Len(s) <= Len(r) + 1
    <3>1. i \in Nat /\ i >= 1 /\ i <= Len(r) + 1 /\ Len(r) \in Nat
      BY <2>1
    <3>2. s \in Seq(Items) /\ Len(s) = Len(r) + 1
      BY <2>1, <3>1, ItemsChange
    <3>3. QED
      BY <3>1, <3>2
  <2>3. items' = [items EXCEPT ![p] = s]
    BY <1>6, <2>1 DEF ItemAdded
  <2>4. QED
    BY <1>6, <2>1, <2>2, <2>3, ChangeKnowsIndices
       DEF ItemAdded, notifyDataSetChanged
<1>7. ASSUME NEW p \in Providers, NEW i \in DOMAIN items[p],
             ItemRemoved(p, i)
      PROVE  KnowsIndices' /\ RecyclesByIndex'
  <2>1. PICK r, s : /\ r \in Seq(Items) /\ r = items[p]
                   /\ s = RemoveAt(r, i)
    BY <1>5
  <2>2. i \in Nat /\ i >= 1 /\ i <= Len(r) /\ Len(r) \in Nat
    BY <2>1
  <2>3. s \in Seq(Items) /\ Len(s) = Len(r) - 1
    BY <2>1, <2>2, ItemsChange
  <2>4. items' = [items EXCEPT ![p] = s]
    BY <1>7, <2>1 DEF ItemRemoved
  <2>5. Len(s) <= Len(r) + 1
    BY <2>2, <2>3
  <2>6. QED
    BY <1>7, <2>1, <2>3, <2>4, <2>5, ChangeKnowsIndices
       DEF ItemRemoved, notifyDataSetChanged
<1>8. CASE UNCHANGED listVars
  <2>1. UNCHANGED <<size, items, posted, provider, children, addedIndex,
                    posIndex, posOffset, recycled>>
    BY <1>8 DEF listVars, shownVars
  <2>2. UNCHANGED <<KnowsIndices, RecyclesByIndex>>
    BY <2>1 DEF KnowsIndices, RecyclesByIndex, RecyclesWhatItGot, Indexed,
                count, data
  <2>3. QED
    BY <2>2
<1>9. QED
  BY <1>1, <1>2, <1>3, <1>4, <1>6, <1>7, <1>8 DEF ListNext

\* As long as no call scrolls past all the widgets that are shown, the widget
\* that was got for an item is given back as that item's whenever the list has
\* been told of all changes of the items but one, also after more have waited.
THEOREM RecyclesTheIndices ==
    ASSUME ~FarScrolls
    PROVE  ListSpec => []RecyclesByIndex
<1>1. ListInit => IsTyped /\ KnowsIndices /\ RecyclesByIndex
  <2>1. ListInit => IsTyped
    BY TypedAtFirst
  <2>2. ListInit => KnowsIndices /\ RecyclesByIndex
    BY DEF ListInit, KnowsIndices, RecyclesByIndex, RecyclesWhatItGot
  <2>3. QED
    BY <2>1, <2>2
<1>2. IsTyped /\ KnowsIndices /\ RecyclesByIndex /\ [ListNext]_listVars
          => (IsTyped /\ KnowsIndices /\ RecyclesByIndex)'
  <2>1. IsTyped /\ [ListNext]_listVars => IsTyped'
    BY StaysTyped
  <2>2. QED
    BY <2>1, KeepsIndices
<1>3. QED
  BY <1>1, <1>2, PTL DEF ListSpec

-----------------------------------------------------------------------------
(* Rounding *)

LEMMA Quotient ==
    ASSUME NEW n \in Int, NEW m \in Nat \ {0}
    PROVE  /\ n \div m \in Int
           /\ m * (n \div m) <= n /\ n < m * (n \div m) + m
OBVIOUS

\* The integer r is a / m, rounded.
IsRounded(r, a, m) ==
    r \in Int /\ 2 * (m * r) - 2 * a <= m /\ 2 * a - 2 * (m * r) <= m

\* Round() rounds to the nearest integer, negative fractions too.
LEMMA RoundRounds ==
    ASSUME NEW a \in Int, NEW m \in Nat \ {0}
    PROVE  IsRounded(Round(a, m), a, m)
<1>1. CASE a < 0
  <2>1. PICK q \in Int : /\ q = (m - 2 * a) \div (2 * m)
                         /\ (2 * m) * q <= m - 2 * a
                         /\ m - 2 * a < (2 * m) * q + 2 * m
    BY Quotient
  <2>2. Round(a, m) = -q
    BY <1>1, <2>1 DEF Round
  <2>3. PICK p \in Int : p = m * q
    OBVIOUS
  <2>4. (2 * m) * q = 2 * p /\ m * (-q) = -p
    BY <2>3
  <2>5. QED
    BY <2>1, <2>2, <2>3, <2>4 DEF IsRounded
<1>2. CASE a >= 0
  <2>1. PICK q \in Int : /\ q = (2 * a + m) \div (2 * m)
                         /\ (2 * m) * q <= 2 * a + m
                         /\ 2 * a + m < (2 * m) * q + 2 * m
    BY Quotient
  <2>2. Round(a, m) = q
    BY <1>2, <2>1 DEF Round
  <2>3. PICK p \in Int : p = m * q
    OBVIOUS
  <2>4. (2 * m) * q = 2 * p
    BY <2>3
  <2>5. QED
    BY <2>1, <2>2, <2>3, <2>4 DEF IsRounded
<1>3. QED
  BY <1>1, <1>2

\* What is rounded stays on its side of every integer.
LEMMA RoundedStays ==
    ASSUME NEW a \in Int, NEW m \in Nat \ {0}, NEW k \in Int,
           NEW r, IsRounded(r, a, m)
    PROVE  /\ a <= m * k => r <= k
           /\ a >= m * k => r >= k
<1>1. r \in Int
  BY DEF IsRounded
<1>2. PICK p \in Int, q \in Int :
           /\ p = m * r /\ q = m * k
           /\ 2 * p - 2 * a <= m /\ 2 * a - 2 * p <= m
  <2>1. m * r \in Int /\ m * k \in Int
    BY <1>1
  <2>2. QED
    BY <2>1 DEF IsRounded
<1>3. r >= k + 1 => p >= q + m
  <2>1. r >= k + 1 => m * r >= m * (k + 1)
    BY <1>1
  <2>2. m * (k + 1) = m * k + m
    OBVIOUS
  <2>3. QED
    BY <1>2, <2>1, <2>2
<1>4. r <= k - 1 => p <= q - m
  <2>1. r <= k - 1 => m * r <= m * (k - 1)
    BY <1>1
  <2>2. m * (k - 1) = m * k - m
    OBVIOUS
  <2>3. QED
    BY <1>2, <2>1, <2>2
<1>5. a <= q => r <= k
  BY <1>1, <1>2, <1>3
<1>6. a >= q => r >= k
  BY <1>1, <1>2, <1>4
<1>7. QED
  BY <1>2, <1>5, <1>6

\* A fraction may be reduced.
LEMMA RoundReduced ==
    ASSUME NEW g \in Int, NEW S \in Nat \ {0}, NEW num \in Nat \ {0}
    PROVE  IsRounded(Round(num * g, S * num), g, S)
<1>1. num * g \in Int /\ S * num \in Nat \ {0}
  OBVIOUS
<1>2. PICK r : r = Round(num * g, S * num)
  OBVIOUS
<1>3. /\ r \in Int
      /\ 2 * ((S * num) * r) - 2 * (num * g) <= S * num
      /\ 2 * (num * g) - 2 * ((S * num) * r) <= S * num
  BY <1>1, <1>2, RoundRounds DEF IsRounded
<1>4. PICK x \in Int : x = 2 * (S * r) - 2 * g
  <2>1. S * r \in Int
    BY <1>3
  <2>2. 2 * (S * r) - 2 * g \in Int
    BY <2>1
  <2>3. QED
    BY <2>2
<1>5. num * x = 2 * ((S * num) * r) - 2 * (num * g)
  <2>1. num * (2 * (S * r) - 2 * g) = num * (2 * (S * r)) - num * (2 * g)
    BY <1>3
  <2>2. num * (2 * (S * r)) = 2 * ((S * num) * r) /\ num * (2 * g) = 2 * (num * g)
    BY <1>3
  <2>3. QED
    BY <1>4, <2>1, <2>2
<1>6. num * x <= num * S /\ num * (-x) <= num * S
  <2>1. S * num = num * S /\ num * (-x) = -(num * x)
    OBVIOUS
  <2>2. QED
    BY <1>3, <1>5, <2>1
<1>7. x <= S /\ -x <= S
  <2>1. \A y \in Int : num * y <= num * S => y <= S
    <3>1. ASSUME NEW y \in Int, y >= S + 1 PROVE num * y >= num * S + num
      <4>1. num * y >= num * (S + 1)
        BY <3>1
      <4>2. num * (S + 1) = num * S + num
        OBVIOUS
      <4>3. QED
        BY <4>1, <4>2
    <3>2. num * S \in Int /\ \A y \in Int : num * y \in Int
      OBVIOUS
    <3>3. QED
      BY <3>1, <3>2
  <2>2. QED
    BY <1>6, <2>1
<1>8. QED
  BY <1>2, <1>3, <1>4, <1>7 DEF IsRounded

-----------------------------------------------------------------------------
(* Items of one length *)

\* Items of one length.
EvenSize(s) == \A x \in Items : size[x] = s

LEMMA EvenExtent ==
    ASSUME NEW d, Sized(d), NEW s \in Nat, EvenSize(s),
           NEW i \in Nat, NEW j \in Nat, i <= j, j <= Len(d)
    PROVE  Extent(d, i, j) = s * (j - i)
<1> DEFINE S == {k \in Nat : i <= k /\ k <= Len(d) =>
                                 Extent(d, i, k) = s * (k - i)}
<1>0. Len(d) \in Nat
  BY DEF Sized
<1>1. 0 \in S
  <2> SUFFICES ASSUME i <= 0 PROVE Extent(d, i, 0) = s * (0 - i)
    OBVIOUS
  <2>1. i = 0
    OBVIOUS
  <2>2. Extent(d, 0, 0) = 0
    BY ExtentOfNone
  <2>3. s * (0 - 0) = 0
    OBVIOUS
  <2>4. QED
    BY <2>1, <2>2, <2>3
<1>2. ASSUME NEW k \in Nat, k \in S PROVE k + 1 \in S
  <2> SUFFICES ASSUME i <= k + 1, k + 1 <= Len(d)
               PROVE  Extent(d, i, k + 1) = s * ((k + 1) - i)
    OBVIOUS
  <2>1. CASE i = k + 1
    <3>1. Extent(d, i, k + 1) = 0
      BY <2>1, ExtentOfNone
    <3>2. (k + 1) - i = 0 /\ s * 0 = 0
      BY <2>1
    <3>3. QED
      BY <3>1, <3>2
  <2>2. CASE i <= k
    <3>1. Extent(d, i, k + 1) = Extent(d, i, k) + size[d[k + 1]]
      BY <2>2, ExtentOfLast
    <3>2. size[d[k + 1]] = s
      <4>1. k + 1 \in 1 .. Len(d)
        BY <1>0
      <4>2. d[k + 1] \in Items
        BY <4>1 DEF Sized
      <4>3. QED
        BY <4>2 DEF EvenSize
    <3>3. Extent(d, i, k) = s * (k - i)
      BY <1>0, <1>2, <2>2
    <3>4. s * ((k + 1) - i) = s * (k - i) + s
      <4>1. PICK n \in Nat : n = k - i
        BY <2>2
      <4>2. (k + 1) - i = n + 1
        BY <4>1
      <4>3. s * (n + 1) = s * n + s
        OBVIOUS
      <4>4. QED
        BY <4>1, <4>2, <4>3
    <3>5. QED
      BY <3>1, <3>2, <3>3, <3>4
  <2>3. QED
    BY <2>1, <2>2
<1> HIDE DEF S
<1>3. j \in S
  BY <1>1, <1>2, Induction
<1>4. QED
  BY <1>3 DEF S

\* How many of the tail items there are, of length s, and what is cut off the
\* first one, when they fill length l, or (-1) do not.
EvenTail(s, l, num, first, offset) ==
    /\ num <= MaxCount
    /\ offset >= -1 /\ offset < s
    /\ num # 0 => IF offset = -1 THEN first = 0 /\ s * num < l
                  ELSE s * num = l + offset

\* So it is when the tail is computed anew, or was computed before.
LEMMA EvenTailFor ==
    ASSUME NEW d, Sized(d), Len(d) <= MaxCount, NEW l \in Nat, NEW num \in Nat,
           TailIsTyped, NEW s \in Nat \ {0}, EvenSize(s),
           firstTailItemOffset < s,
           num # 0 => EvenTail(s, l, num, firstTailItemIndex,
                               firstTailItemOffset)
    PROVE  LET tail == TailFor(num, d, l)
           IN /\ EvenTail(s, l, tail.num, tail.first, tail.offset)
              /\ num = 0 /\ tail.num # 0 =>
                    tail.num <= Len(d) /\ tail.first = Len(d) - tail.num
<1>0. MaxCount \in Nat /\ Len(d) \in Nat
  BY ListAssumption DEF Sized
<1>1. CASE num = 0 /\ d # << >>
  <2>1. PICK n \in 0 .. Len(d), x \in Nat :
             /\ x = Extent(d, Len(d) - n, Len(d))
             /\ n = Len(d) \/ x >= l
             /\ TailFor(0, d, l) =
                    [num |-> n, first |-> Len(d) - n,
                     offset |-> IF x - l < 0 THEN -1 ELSE x - l]
    BY <1>1, TailIs
  <2>2. PICK c \in Nat, f \in Nat : c = Len(d) /\ f = c - n
    BY <1>0
  <2>3. n \in Nat /\ n <= c /\ f <= c /\ c - f = n /\ (f = c <=> n = 0)
    BY <2>2
  <2>4. x = s * n
    <3>1. Extent(d, f, c) = s * (c - f)
      <4>1. f <= c /\ c <= Len(d)
        BY <2>2, <2>3
      <4>2. QED
        BY <4>1, EvenExtent
    <3>2. QED
      BY <2>1, <2>2, <2>3, <3>1
  <2>5. PICK o \in Int : o = IF x - l < 0 THEN -1 ELSE x - l
    OBVIOUS
  <2>6. TailFor(num, d, l) = [num |-> n, first |-> f, offset |-> o]
    BY <1>1, <2>1, <2>2, <2>5
  <2>7. o < s
    <3>1. CASE n = 0
      <4>1. x = 0
        BY <2>4, <3>1
      <4>2. QED
        BY <2>5, <4>1
    <3>2. CASE n # 0
      <4>1. LET tail == TailFor(0, d, l)
            IN tail.first < Len(d) => tail.offset < size[d[tail.first + 1]]
        BY <1>1, TailIsCutInFirst
      <4>2. o < size[d[f + 1]]
        <5>1. f < Len(d)
          BY <2>2, <2>3, <3>2
        <5>2. QED
          BY <1>1, <2>6, <4>1, <5>1
      <4>3. d[f + 1] \in Items
        <5>1. f + 1 \in 1 .. Len(d)
          BY <2>2, <2>3, <3>2
        <5>2. QED
          BY <5>1 DEF Sized
      <4>4. QED
        BY <4>2, <4>3 DEF EvenSize
    <3>3. QED
      BY <3>1, <3>2
  <2>8. IF o = -1 THEN n # 0 => f = 0 /\ s * n < l ELSE s * n = l + o
    BY <2>1, <2>2, <2>3, <2>4, <2>5
  <2>9. n <= MaxCount
    BY <1>0, <2>2, <2>3
  <2>10. EvenTail(s, l, n, f, o)
    BY <2>5, <2>7, <2>8, <2>9 DEF EvenTail
  <2>11. QED
    BY <2>2, <2>3, <2>6, <2>10
<1>2. CASE num # 0 \/ d = << >>
  <2>1. TailFor(num, d, l) = [num |-> num, first |-> firstTailItemIndex,
                              offset |-> firstTailItemOffset]
    BY <1>2 DEF TailFor
  <2>2. EvenTail(s, l, num, firstTailItemIndex, firstTailItemOffset)
    <3>1. CASE num # 0
      BY <3>1
    <3>2. CASE num = 0
      BY <1>0, <3>2 DEF EvenTail, TailIsTyped
    <3>3. QED
      BY <3>1, <3>2
  <2>3. QED
    BY <2>1, <2>2
<1>3. QED
  BY <1>1, <1>2

\* The loops do not move the position, they only say it in another way.
LEMMA EvenArranged ==
    ASSUME NEW d, Sized(d), NEW l, NEW from, from[1] \in Nat,
           from[2] \in Int, NEW kids, NEW added, NEW t, NEW last,
           LoopsEnd(d, l, from, kids, added, t, last),
           posIndex' \in Nat, from[1] <= posIndex',
           from[1] >= Len(d) => posIndex' = from[1],
           NEW s \in Nat \ {0}, EvenSize(s)
    PROVE  /\ s * posIndex' + posOffset' = s * from[1] + from[2]
           /\ from[2] < s => posIndex' = from[1] /\ posOffset' = from[2]
           /\ from[2] >= -1 => posOffset' >= -1
           /\ from[1] < Len(d) /\ from[2] < 2 * s => posOffset' < s
           /\ posOffset' \in Int
<1>1. PICK c \in Nat, f \in Nat, p \in Nat :
           c = Len(d) /\ f = from[1] /\ p = posIndex' /\ f <= p
  BY DEF Sized
<1>2. PICK o \in Int : o = from[2]
  OBVIOUS
<1>3. /\ p = f \/ p <= last + 1
      /\ p > f => ReachOf(t, from, p - 1) <= 0
      /\ posOffset' = o - Extent(t, f, p)
      /\ p < c => posOffset' < size[t[p + 1]]
      /\ f < c /\ o < size[t[f + 1]] => p = f
      /\ last \in Int /\ last <= c - 1
  BY <1>1, <1>2 DEF LoopsEnd
<1>4. Sized(t) /\ Len(t) = c
  BY <1>1 DEF LoopsEnd
<1>5. p = f \/ p <= c
  BY <1>3
<1>6. PICK n \in Nat : n = p - f
  BY <1>1
<1>7. Extent(t, f, p) = s * n
  <2>1. CASE p = f
    <3>1. Extent(t, f, f) = 0 /\ s * 0 = 0
      BY ExtentOfNone
    <3>2. QED
      BY <1>6, <2>1, <3>1
  <2>2. CASE p <= c
    BY <1>1, <1>4, <1>6, <2>2, EvenExtent
  <2>3. QED
    BY <1>5, <2>1, <2>2
<1>8. \A i \in Nat : i < c => size[t[i + 1]] = s
  <2> SUFFICES ASSUME NEW i \in Nat, i < c PROVE size[t[i + 1]] = s
    OBVIOUS
  <2>1. i + 1 \in 1 .. Len(t)
    BY <1>4
  <2>2. t[i + 1] \in Items
    BY <1>4, <2>1 DEF Sized
  <2>3. QED
    BY <2>2 DEF EvenSize
<1>9. PICK q \in Int : q = posOffset' /\ q = o - s * n
  <2>1. o - s * n \in Int
    OBVIOUS
  <2>2. QED
    BY <1>3, <1>7, <2>1
<1>10. s * p = s * f + s * n
  <2>1. p = f + n
    BY <1>6
  <2>2. s * (f + n) = s * f + s * n
    OBVIOUS
  <2>3. QED
    BY <2>1, <2>2
<1>11. p # f => s * n <= o
  <2> SUFFICES ASSUME p > f PROVE s * n <= o
    BY <1>1
  <2>1. ReachOf(t, from, p - 1) <= 0 /\ (p - 1) + 1 = p
    BY <1>3
  <2>2. Extent(t, f, p) - o <= 0
    BY <1>1, <1>2, <2>1 DEF ReachOf
  <2>3. s * n \in Int
    OBVIOUS
  <2>4. QED
    BY <1>7, <2>2, <2>3
<1>12. s * f \in Int /\ s * n \in Nat /\ (p = f => s * n = 0)
       /\ (n >= 1 => s * n >= s)
  BY <1>6
<1>13. s * p + q = s * f + o
  BY <1>9, <1>10, <1>12
<1>14. o < s => p = f /\ q = o
  <2> SUFFICES ASSUME o < s PROVE p = f
    BY <1>9, <1>12
  <2>1. p # f => n >= 1
    BY <1>6
  <2>2. QED
    BY <1>11, <1>12, <2>1
<1>15. o >= -1 => q >= -1
  BY <1>9, <1>11, <1>12
<1>16. f < c /\ o < 2 * s => q < s
  <2>1. CASE p < c
    BY <1>3, <1>8, <1>9, <2>1
  <2>2. CASE ~(p < c)
    <3>1. f < c => n >= 1
      BY <1>6, <2>2
    <3>2. QED
      BY <1>9, <1>12, <3>1
  <2>3. QED
    BY <2>1, <2>2
<1>17. QED
  BY <1>1, <1>2, <1>9, <1>13, <1>14, <1>15, <1>16

\* When the position is not beyond the one that shows the last items, the
\* widgets cover the list.
LEMMA EvenCovers ==
    ASSUME NEW d, Sized(d), NEW l \in Nat, l > 0, NEW from, from[1] \in Nat,
           from[2] \in Int, NEW kids, NEW added, NEW t, NEW last,
           LoopsEnd(d, l, from, kids, added, t, last),
           posIndex' \in Nat, from[1] <= posIndex', children' \in Seq(Widget),
           NEW s \in Nat \ {0}, EvenSize(s),
           from[1] < Len(d), s * from[1] + from[2] <= s * Len(d) - l
    PROVE  /\ children' # << >> /\ posOffset' < s
           /\ Extent(d, posIndex', posIndex' + Len(children')) - posOffset' >= l
<1>1. PICK c \in Nat, f \in Nat, p \in Nat, o \in Int :
           /\ c = Len(d) /\ f = from[1] /\ p = posIndex' /\ o = from[2]
           /\ f <= p /\ f < c
  <2>1. Len(d) \in Nat
    BY DEF Sized
  <2>2. QED
    BY <2>1
<1>2. PICK C \in Int, F \in Int : C = s * c /\ F = s * f /\ F + o <= C - l
  <2>1. s * c \in Int /\ s * f \in Int
    OBVIOUS
  <2>2. s * f + o <= s * c - l
    BY <1>1
  <2>3. QED
    BY <2>1, <2>2
<1>3. /\ p = f \/ p <= last + 1
      /\ p > f => ReachOf(t, from, p - 1) <= 0
      /\ p < c => posOffset' < size[t[p + 1]]
      /\ f <= last /\ last \in Int /\ last <= c - 1
      /\ last # c - 1 => ReachOf(t, from, last) >= l
      /\ Len(children') = IF p <= last THEN last - p + 1 ELSE 0
  BY <1>1 DEF LoopsEnd
<1>4. Sized(t) /\ Len(t) = c
  BY <1>1 DEF LoopsEnd
<1>5. PICK e \in Nat : e = last + 1 /\ e <= c /\ f < e
  BY <1>3
<1>6. /\ s * posIndex' + posOffset' = s * from[1] + from[2]
      /\ posOffset' \in Int
  <2>1. ~(from[1] >= Len(d))
    BY <1>1
  <2>2. QED
    BY <2>1, EvenArranged
<1>7. PICK q \in Int : q = posOffset' /\ s * p + q = s * f + o
  BY <1>1, <1>6
\* the reach is that of the last widget
<1>8. ASSUME NEW i \in Nat, f <= i, i <= c
      PROVE  /\ Extent(t, f, i) = s * i - s * f
             /\ Extent(d, f, i) = s * i - s * f
  <2>1. Extent(t, f, i) = s * (i - f) /\ Extent(d, f, i) = s * (i - f)
    <3>1. i <= Len(t) /\ i <= Len(d)
      BY <1>1, <1>4, <1>8
    <3>2. QED
      BY <1>4, <1>8, <3>1, EvenExtent
  <2>2. s * (i - f) = s * i - s * f
    OBVIOUS
  <2>3. QED
    BY <2>1, <2>2
<1>9. s * e - s * f - o >= l
  <2>1. CASE e = c
    <3>1. C - F - o >= l
      BY <1>2
    <3>2. QED
      BY <1>2, <2>1, <3>1
  <2>2. CASE e # c
    <3>1. ReachOf(t, from, last) >= l
      BY <1>3, <1>5, <2>2
    <3>2. ReachOf(t, from, last) = Extent(t, f, e) - o
      BY <1>1, <1>5 DEF ReachOf
    <3>3. Extent(t, f, e) = s * e - s * f
      BY <1>5, <1>8
    <3>4. QED
      BY <3>1, <3>2, <3>3
  <2>3. QED
    BY <2>1, <2>2
<1>10. p < e
  <2> SUFFICES ASSUME p >= e PROVE FALSE
    BY <1>5
  <2>1. p > f /\ p = e
    BY <1>3, <1>5
  <2>2. ReachOf(t, from, p - 1) <= 0 /\ (p - 1) + 1 = e
    BY <1>3, <2>1
  <2>3. Extent(t, f, e) - o <= 0
    BY <1>1, <2>2 DEF ReachOf
  <2>4. Extent(t, f, e) = s * e - s * f
    BY <1>5, <1>8
  <2>5. s * e - s * f - o <= 0
    BY <2>3, <2>4
  <2>6. s * e \in Int /\ s * f \in Int
    OBVIOUS
  <2>7. QED
    BY <1>9, <2>5, <2>6
<1>11. Len(children') = e - p
  <2>1. p <= last
    BY <1>3, <1>5, <1>10
  <2>2. Len(children') = last - p + 1
    BY <1>3, <2>1
  <2>3. QED
    BY <1>3, <1>5, <2>2
<1>12. children' # << >>
  <2>1. e - p # 0
    BY <1>10
  <2>2. QED
    BY <1>11, <2>1
<1>13. posOffset' < s
  <2>1. p + 1 \in 1 .. Len(t)
    BY <1>4, <1>5, <1>10
  <2>2. t[p + 1] \in Items
    BY <1>4, <2>1 DEF Sized
  <2>3. p < c
    BY <1>5, <1>10
  <2>4. QED
    BY <1>3, <2>2, <2>3 DEF EvenSize
<1>14. Extent(d, p, e) - q >= l
  <2>1. Extent(d, p, e) = s * (e - p)
    BY <1>1, <1>5, <1>10, EvenExtent
  <2>2. s * (e - p) = s * e - s * p
    OBVIOUS
  <2>3. PICK E \in Int, P \in Int : E = s * e /\ P = s * p
    OBVIOUS
  <2>4. P + q = F + o /\ E - F - o >= l /\ Extent(d, p, e) = E - P
    BY <1>2, <1>7, <1>9, <2>1, <2>2, <2>3
  <2>5. QED
    BY <2>4
<1>15. posIndex' + Len(children') = e
  <2>1. p + (e - p) = e
    OBVIOUS
  <2>2. QED
    BY <1>1, <1>11, <2>1
<1>16. QED
  BY <1>1, <1>7, <1>12, <1>13, <1>14, <1>15

\* Extent, of the lengths given.
ExtentOf(lengths, d, i, j) ==
    LET upTo[k \in Nat] == IF k <= i THEN 0 ELSE upTo[k - 1] + lengths[d[k]]
    IN upTo[j]

\* Lengths do not change, so an extent of the next state is one of this state.
LEMMA ExtentStays ==
    ASSUME UNCHANGED size
    PROVE  /\ Extent(data, 0, count)' = Extent(data', 0, count')
           /\ Extent(data, posIndex, posIndex + Len(children))'
                = Extent(data', posIndex', posIndex' + Len(children'))
<1>1. /\ Extent(data, 0, count)' = ExtentOf(size', data', 0, count')
      /\ Extent(data, posIndex, posIndex + Len(children))'
           = ExtentOf(size', data', posIndex', posIndex' + Len(children'))
  BY DEF Extent, ExtentOf
<1>2. \A d, i, j : Extent(d, i, j) = ExtentOf(size, d, i, j)
  BY DEF Extent, ExtentOf
<1>3. /\ ExtentOf(size', data', 0, count') = ExtentOf(size, data', 0, count')
      /\ ExtentOf(size', data', posIndex', posIndex' + Len(children'))
           = ExtentOf(size, data', posIndex', posIndex' + Len(children'))
  OBVIOUS
<1>4. QED
  BY <1>1, <1>2, <1>3

\* What is so of items of length s: less than that is scrolled away of the
\* first item in view, the tail is as TailFor says, and, when the list is up
\* to date, it is that of the last items, and the list is covered.
EvenState(s) ==
    /\ posOffset >= -1 /\ posOffset < s
    /\ firstTailItemOffset < s
    /\ EvenTail(s, length, numTailItems, firstTailItemIndex,
                firstTailItemOffset)
    /\ provider = NoProvider => numTailItems = 0
    /\ UpToDate /\ numTailItems # 0 =>
           /\ numTailItems <= count
           /\ firstTailItemIndex = count - numTailItems
    /\ CoversList

\* A position in an earlier item.
LEMMA EvenBefore ==
    ASSUME NEW s \in Nat, NEW f \in Nat, NEW g \in Nat, f + 1 <= g,
           NEW o \in Int, NEW q \in Int, o < s, q >= 0
    PROVE  s * f + o <= s * g + q
<1>1. s * (f + 1) <= s * g /\ s * (f + 1) = s * f + s
  OBVIOUS
<1>2. PICK F \in Int, G \in Int : F = s * f /\ G = s * g
  OBVIOUS
<1>3. F + o <= G + q
  BY <1>1, <1>2
<1>4. QED
  BY <1>2, <1>3

\* The end of the loops when the items fill the list.
LEMMA EvenFills ==
    ASSUME NEW d, Sized(d), NEW l \in Nat, l > 0, NEW from, from[1] \in Nat,
           from[2] \in Int, NEW kids, NEW added, NEW t, NEW last,
           LoopsEnd(d, l, from, kids, added, t, last),
           posIndex' \in Nat, from[1] <= posIndex', children' \in Seq(Widget),
           NEW s \in Nat \ {0}, EvenSize(s),
           Extent(d, 0, Len(d)) >= l,
           NEW num \in Nat \ {0}, NEW first \in Nat, NEW to \in Int,
           first = Len(d) - num, EvenTail(s, l, num, first, to),
           from[1] <= first,
           \/ from[1] = first /\ from[2] <= to
           \/ from[1] < first /\ from[2] < s
           \/ s * from[1] + from[2] <= s * first + to
    PROVE  /\ children' # << >>
           /\ posOffset' < size[children'[1].item]
           /\ Extent(d, posIndex', posIndex' + Len(children')) - posOffset' >= l
<1>1. PICK f \in Nat, o \in Int : f = from[1] /\ o = from[2]
  OBVIOUS
<1>2. PICK c \in Nat : c = Len(d) /\ c = first + num /\ first < c
  <2>0. Len(d) \in Nat
    BY DEF Sized
  <2>1. PICK c \in Nat : c = Len(d)
    BY <2>0
  <2>2. first = c - num
    BY <2>1
  <2>3. QED
    BY <2>1, <2>2
<1>3. s * (first + num) >= l
  <2>1. 0 <= c /\ c <= Len(d) /\ c - 0 = c
    BY <1>2
  <2>2. Extent(d, 0, c) = s * (c - 0)
    BY <2>1, EvenExtent
  <2>3. QED
    BY <1>2, <2>1, <2>2
<1>4. /\ to >= 0 /\ s * num = l + to
      /\ s * first + to = s * (first + num) - l
  <2>1. PICK A \in Int, F \in Int, C \in Int :
             /\ A = s * num /\ F = s * first /\ C = s * (first + num)
             /\ C = F + A
    OBVIOUS
  <2>2. /\ to >= -1
        /\ IF to = -1 THEN first = 0 /\ A < l ELSE A = l + to
    BY <2>1 DEF EvenTail
  <2>3. C >= l
    BY <1>3, <2>1
  <2>4. first = 0 => F = 0
    BY <2>1
  <2>5. to # -1
    BY <2>1, <2>2, <2>3, <2>4
  <2>6. to >= 0 /\ A = l + to /\ F + to = C - l
    BY <2>1, <2>2, <2>5
  <2>7. QED
    BY <2>1, <2>6
<1>5. s * f + o <= s * first + to
  <2>1. CASE f = first /\ o <= to
    <3>1. s * first \in Int
      OBVIOUS
    <3>2. QED
      BY <2>1, <3>1
  <2>2. CASE f < first /\ o < s
    <3>1. f + 1 <= first
      BY <2>2
    <3>2. QED
      BY <1>4, <2>2, <3>1, EvenBefore
  <2>3. QED
    BY <1>1, <2>1, <2>2
<1>6. s * from[1] + from[2] <= s * Len(d) - l
  BY <1>1, <1>2, <1>4, <1>5
<1>7. from[1] < Len(d)
  BY <1>2
<1>8. /\ children' # << >> /\ posOffset' < s
      /\ Extent(d, posIndex', posIndex' + Len(children')) - posOffset' >= l
  BY <1>6, <1>7, EvenCovers
<1>9. children'[1].item \in Items
  <2>1. children'[1] \in Widget
    <3>1. 1 \in DOMAIN children'
      BY <1>8
    <3>2. QED
      BY <3>1
  <2>2. QED
    BY <2>1 DEF Widget
<1>10. QED
  BY <1>8, <1>9 DEF EvenSize

\* updateChildrenList() keeps all that, from every position it is called with.
LEMMA UpdateIsEven ==
    ASSUME IsTyped, IsTyped', UNCHANGED size, NEW s \in Nat \ {0}, EvenSize(s),
           NEW index \in Nat, NEW offset \in Int,
           NEW kids \in Seq(Widget), NEW added \in Nat, NEW num \in Nat,
           updateChildrenList(index, offset, kids, added, num),
           firstTailItemOffset < s, offset >= -1,
           num # 0 =>
             /\ provider' # NoProvider
             /\ EvenTail(s, length', num, firstTailItemIndex,
                         firstTailItemOffset)
             /\ UpToDate' => num <= count' /\ firstTailItemIndex = count' - num,
           provider' # NoProvider =>
             LET tail == TailFor(num, data', length')
             IN \/ offset < s
                \/ tail.first <= index
                \/ /\ offset < 2 * s /\ index < Len(data')
                   /\ UpToDate' => s * index + offset
                                       <= s * tail.first + tail.offset
    PROVE  EvenState(s)'
<1>1. CASE provider' = NoProvider
  <2>1. /\ posOffset' = 0 /\ numTailItems' = num /\ num = 0
        /\ firstTailItemOffset' = firstTailItemOffset
    BY <1>1 DEF updateChildrenList
  <2>2. firstTailItemOffset \in Int /\ firstTailItemOffset >= -1
        /\ MaxCount \in Nat
    BY ListAssumption DEF IsTyped, ListTypeOK
  <2>3. EvenTail(s, length', numTailItems', firstTailItemIndex',
                 firstTailItemOffset')
    BY <2>1, <2>2 DEF EvenTail
  <2>4. ~UpToDate'
    BY <1>1 DEF UpToDate
  <2>5. CoversList'
    BY <2>4 DEF CoversList
  <2>6. QED
    BY <2>1, <2>3, <2>4, <2>5 DEF EvenState, EvenTail
<1>2. CASE provider' # NoProvider
  <2>1. PICK d, l : d = data' /\ l = length'
    OBVIOUS
  <2>2. PICK tail, from, t, last :
             /\ tail = TailFor(num, d, l)
             /\ tail.num \in Nat /\ tail.first \in Nat /\ tail.offset \in Int
             /\ numTailItems' = tail.num
             /\ firstTailItemIndex' = tail.first
             /\ firstTailItemOffset' = tail.offset
             /\ from = Clamped(index, offset, tail)
             /\ from[1] \in Nat /\ from[2] \in Int
             /\ from[1] <= tail.first /\ from[1] <= posIndex'
             /\ from[1] >= Len(d) => posIndex' = from[1]
             /\ LoopsEnd(d, l, from, kids, added, t, last)
    BY <1>2, <2>1, UpdateIs
  <2>3. /\ Sized(d) /\ Len(d) \in Nat /\ Len(d) <= MaxCount /\ l \in Nat
        /\ posIndex' \in Nat /\ children' \in Seq(Widget) /\ TailIsTyped
    <3>1. d \in Seq(Items) /\ Len(d) <= MaxCount
      BY <1>2, <2>1 DEF IsTyped, ListTypeOK, data
    <3>2. Len(d) \in Nat
      BY <3>1
    <3>3. l \in Nat /\ posIndex' \in Nat /\ children' \in Seq(Widget)
      BY <2>1 DEF IsTyped, ListTypeOK
    <3>4. TailIsTyped /\ size \in [Items -> Nat \ {0}]
      BY DEF IsTyped, ListTypeOK, TailIsTyped
    <3>5. QED
      BY <3>1, <3>2, <3>3, <3>4 DEF Sized
  <2>4. /\ EvenTail(s, l, tail.num, tail.first, tail.offset)
        /\ num = 0 /\ tail.num # 0 =>
             tail.num <= Len(d) /\ tail.first = Len(d) - tail.num
    BY <2>1, <2>2, <2>3, EvenTailFor
  <2>5. tail.offset >= -1 /\ tail.offset < s
    BY <2>4 DEF EvenTail
  <2>6. \/ index < tail.first /\ from[1] = index /\ from[2] = offset
        \/ /\ index >= tail.first /\ from[1] = tail.first
           /\ from[2] >= -1 /\ from[2] <= tail.offset
    BY <2>2, <2>5, ClampedCases
  <2>7. from[2] >= -1
    BY <2>6
  <2>8. \/ from[2] < s
        \/ /\ from[2] < 2 * s /\ from[1] < Len(d)
           /\ UpToDate' => s * from[1] + from[2] <= s * tail.first + tail.offset
    BY <1>2, <2>1, <2>2, <2>5, <2>6
  <2>9. /\ from[2] < s => posOffset' = from[2]
        /\ from[2] >= -1 => posOffset' >= -1
        /\ from[1] < Len(d) /\ from[2] < 2 * s => posOffset' < s
    BY <2>2, <2>3, EvenArranged
  <2>10. posOffset' >= -1 /\ posOffset' < s
    BY <2>7, <2>8, <2>9
  <2>11. ASSUME UpToDate', tail.num # 0
         PROVE  tail.num <= Len(d) /\ tail.first = Len(d) - tail.num
    <3>1. CASE num = 0
      BY <2>4, <2>11, <3>1
    <3>2. CASE num # 0
      <4>1. tail.num = num /\ tail.first = firstTailItemIndex
        BY <2>2, <3>2 DEF TailFor
      <4>2. QED
        BY <2>1, <2>11, <3>2, <4>1 DEF count
    <3>3. QED
      BY <3>1, <3>2
  <2>12. CoversList'
    <3> SUFFICES ASSUME UpToDate', length' > 0,
                        Extent(data', 0, count') >= length'
                 PROVE  /\ children' # << >>
                        /\ posOffset' < size[children'[1].item]
                        /\ Extent(data', posIndex', posIndex' + Len(children'))
                               - posOffset' >= length'
      BY <2>10, ExtentStays DEF CoversList
    <3>1. Extent(d, 0, Len(d)) >= l /\ l > 0
      BY <2>1 DEF count
    <3>2. d # << >>
      <4> SUFFICES ASSUME d = << >> PROVE FALSE
        OBVIOUS
      <4>1. Len(d) = 0
        OBVIOUS
      <4>2. Extent(d, 0, 0) = 0
        BY ExtentOfNone
      <4>3. QED
        BY <2>3, <3>1, <4>1, <4>2
    <3>3. PICK n, f, o :
               /\ n = tail.num /\ f = tail.first /\ o = tail.offset
               /\ n \in Nat \ {0} /\ f \in Nat /\ o \in Int
      <4>1. tail.num # 0
        BY <2>2, <2>3, <3>1, <3>2, TailResult
      <4>2. QED
        BY <2>2, <4>1
    <3>4. f = Len(d) - n /\ EvenTail(s, l, n, f, o)
      <4>1. f = Len(d) - n
        BY <2>11, <3>3
      <4>2. QED
        BY <2>4, <3>3, <4>1
    <3>5. \/ from[1] = f /\ from[2] <= o
          \/ from[1] < f /\ from[2] < s
          \/ s * from[1] + from[2] <= s * f + o
      BY <2>6, <2>8, <3>3
    <3>6. /\ children' # << >>
          /\ posOffset' < size[children'[1].item]
          /\ Extent(d, posIndex', posIndex' + Len(children')) - posOffset' >= l
      BY <2>2, <2>3, <3>1, <3>3, <3>4, <3>5, EvenFills
    <3>7. QED
      BY <2>1, <3>6
  <2>13. QED
    BY <1>2, <2>1, <2>2, <2>4, <2>5, <2>10, <2>11, <2>12 DEF EvenState, count
<1>3. QED
  BY <1>1, <1>2

-----------------------------------------------------------------------------
(* Where items of one length are scrolled to *)

\* The index that is scrolled to, and what is left of n * above.
IndexIs(S, n, above, index) ==
    /\ index \in Nat /\ index <= above
    /\ S * index <= n * above /\ n * above < S * index + S
    /\ n = S => index = above
    /\ n = 0 => index = 0
    /\ index = above /\ above # 0 => n = S

LEMMA ScrolledIndex ==
    ASSUME NEW S \in Nat \ {0}, NEW n \in 0 .. S, NEW above \in Nat,
           NEW index, index = (n * above) \div S
    PROVE  IndexIs(S, n, above, index)
<1>1. n * above \in Nat
  OBVIOUS
<1>2. /\ index \in Nat
      /\ S * index <= n * above /\ n * above < S * index + S
  BY <1>1, Quotient
<1>3. n * above <= S * above
  OBVIOUS
<1>4. index <= above
  <2> SUFFICES ASSUME index >= above + 1 PROVE FALSE
    BY <1>2
  <2>1. S * index >= S * (above + 1)
    BY <1>2
  <2>2. S * (above + 1) = S * above + S
    OBVIOUS
  <2>3. QED
    BY <1>2, <1>3, <2>1, <2>2
<1>5. ASSUME n = S PROVE index >= above
  <2> SUFFICES ASSUME index + 1 <= above PROVE FALSE
    BY <1>2
  <2>1. S * (index + 1) <= S * above
    BY <1>2
  <2>2. S * (index + 1) = S * index + S
    BY <1>2
  <2>3. QED
    BY <1>2, <1>5, <2>1, <2>2
<1>6. ASSUME n = 0 PROVE index <= 0
  <2> SUFFICES ASSUME index >= 1 PROVE FALSE
    BY <1>2
  <2>1. S * index >= S
    BY <1>2
  <2>2. n * above = 0
    BY <1>6
  <2>3. QED
    BY <1>2, <2>1, <2>2
<1>7. ASSUME index = above, above # 0 PROVE n = S
  <2> SUFFICES ASSUME n + 1 <= S PROVE FALSE
    OBVIOUS
  <2>1. (n + 1) * above <= S * above
    OBVIOUS
  <2>2. (n + 1) * above = n * above + above
    OBVIOUS
  <2>3. S * above <= n * above
    BY <1>2, <1>7
  <2>4. QED
    BY <1>7, <2>1, <2>2, <2>3
<1>8. QED
  BY <1>2, <1>4, <1>5, <1>6, <1>7 DEF IndexIs

\* What is scrolled away of the item at that index, when the tail items, num of
\* length s, are as long as the list and what is cut off the first of them.
OffsetIs(S, n, above, to, s, index, offset) ==
    /\ offset \in Int /\ offset >= 0 /\ offset <= s + to
    /\ s * index + offset <= s * above + to
    /\ n = S => offset = to
    /\ n = 0 => offset = 0
    /\ 2 * (S * (s * index + offset) - n * (s * above + to)) <= S
    /\ 2 * (n * (s * above + to) - S * (s * index + offset)) <= S

LEMMA ScrolledOffset ==
    ASSUME NEW S \in Nat \ {0}, NEW n \in 0 .. S, NEW above \in Nat,
           NEW num \in Nat \ {0}, NEW s \in Nat \ {0}, NEW to \in Nat,
           to < s, NEW l \in Nat, s * num = l + to,
           NEW index, IndexIs(S, n, above, index),
           NEW offset,
           offset = Round((l + to) * (n * above - index * S) + n * to * num,
                          S * num)
    PROVE  OffsetIs(S, n, above, to, s, index, offset)
<1>1. /\ index \in Nat /\ index <= above
      /\ S * index <= n * above /\ n * above < S * index + S
      /\ n = S => index = above
      /\ n = 0 => index = 0
  BY DEF IndexIs
<1>2. PICK r \in Nat : r = n * above - index * S /\ r < S
                       /\ n * above = S * index + r
  <2>1. index * S = S * index /\ n * above \in Int /\ S * index \in Int
    BY <1>1
  <2>2. QED
    BY <1>1, <2>1
<1>3. PICK g \in Nat, x \in Nat, y \in Nat :
           x = s * r /\ y = n * to /\ g = x + y
  OBVIOUS
<1>4. (l + to) * r + n * to * num = num * g
  <2>1. (l + to) * r = num * x
    <3>1. (s * num) * r = num * (s * r)
      OBVIOUS
    <3>2. QED
      BY <1>3, <3>1
  <2>2. n * to * num = num * y
    BY <1>3
  <2>3. num * g = num * x + num * y
    BY <1>3
  <2>4. QED
    BY <2>1, <2>2, <2>3
<1>5. IsRounded(offset, g, S)
  <2>1. PICK A : A = (l + to) * (n * above - index * S) + n * to * num
    OBVIOUS
  <2>2. A = num * g
    BY <1>2, <1>4, <2>1
  <2>3. IsRounded(Round(A, S * num), g, S)
    <3>1. g \in Int
      OBVIOUS
    <3>2. IsRounded(Round(num * g, S * num), g, S)
      BY <3>1, RoundReduced, Zenon
    <3>3. QED
      BY <2>2, <3>2, Zenon
  <2>4. QED
    BY <2>1, <2>3
<1>6. /\ offset \in Int
      /\ 2 * (S * offset) - 2 * g <= S /\ 2 * g - 2 * (S * offset) <= S
  BY <1>5 DEF IsRounded
<1>7. offset >= 0
  <2>1. g >= S * 0
    OBVIOUS
  <2>2. QED
    BY <1>5, <2>1, RoundedStays
<1>8. y <= S * to /\ (n = S => y = S * to) /\ (n = 0 => y = 0)
  BY <1>3
<1>9. offset <= s + to
  <2>1. x <= s * S
    BY <1>2, <1>3
  <2>2. S * (s + to) = s * S + S * to
    OBVIOUS
  <2>3. g <= S * (s + to)
    BY <1>3, <1>8, <2>1, <2>2
  <2>4. QED
    BY <1>5, <2>3, RoundedStays
<1>10. PICK end \in Nat, i \in Nat : end = s * above + to /\ i = s * index
  BY <1>1
<1>11. n * end = S * i + g
  <2>1. n * end = n * (s * above) + n * to
    BY <1>10
  <2>2. n * (s * above) = s * (n * above)
    OBVIOUS
  <2>3. s * (S * index + r) = s * (S * index) + s * r
    BY <1>1
  <2>4. s * (S * index) = S * (s * index)
    BY <1>1
  <2>5. QED
    BY <1>2, <1>3, <1>10, <2>1, <2>2, <2>3, <2>4
<1>12. offset <= end - i
  <2>1. n * end <= S * end
    OBVIOUS
  <2>2. S * (end - i) = S * end - S * i
    OBVIOUS
  <2>3. g <= S * (end - i)
    BY <1>11, <2>1, <2>2
  <2>4. QED
    BY <1>5, <2>3, RoundedStays
<1>13. n = S => offset = to
  <2> SUFFICES ASSUME n = S PROVE offset = to
    OBVIOUS
  <2>1. r = 0
    BY <1>1, <1>2
  <2>2. x = 0
    BY <1>3, <2>1
  <2>3. g = S * to
    BY <1>3, <1>8, <2>2
  <2>4. offset <= to /\ offset >= to
    BY <1>5, <2>3, RoundedStays
  <2>5. QED
    BY <1>6, <2>4
<1>14. n = 0 => offset = 0
  <2> SUFFICES ASSUME n = 0 PROVE offset <= 0
    BY <1>6, <1>7
  <2>1. n * above = 0 /\ S * index = 0
    BY <1>1
  <2>2. r = 0
    BY <1>2, <2>1
  <2>3. x = 0
    BY <1>3, <2>2
  <2>4. g <= S * 0
    BY <1>3, <1>8, <2>3
  <2>5. QED
    BY <1>5, <2>4, RoundedStays
<1>15. S * (i + offset) - n * end = S * offset - g
  <2>1. S * (i + offset) = S * i + S * offset
    BY <1>6
  <2>2. S * i \in Int /\ S * offset \in Int
    BY <1>6
  <2>3. QED
    BY <1>11, <2>1, <2>2
<1>16. /\ 2 * (S * (i + offset) - n * end) <= S
       /\ 2 * (n * end - S * (i + offset)) <= S
  <2>1. PICK a \in Int, b \in Int, e \in Int :
             a = S * (i + offset) /\ b = n * end /\ e = S * offset
    BY <1>6
  <2>2. a - b = e - g /\ 2 * e - 2 * g <= S /\ 2 * g - 2 * e <= S
    BY <1>6, <1>15, <2>1
  <2>3. 2 * (a - b) <= S /\ 2 * (b - a) <= S
    BY <2>2
  <2>4. QED
    BY <2>1, <2>3
<1>17. i + offset <= end
  BY <1>6, <1>12
<1>18. s * index + offset <= s * above + to
  BY <1>6, <1>10, <1>17
<1>19. QED
  BY <1>5, <1>6, <1>7, <1>9, <1>10, <1>13, <1>14, <1>16, <1>18 DEF OffsetIs

\* The same when they are not as long as the list.
LEMMA ScrolledShort ==
    ASSUME NEW S \in Nat \ {0}, NEW n \in 0 .. S, NEW r \in Nat,
           NEW num \in Nat \ {0}, NEW l \in Nat, l > 0, NEW offset,
           offset = Round((l + (-1)) * r + n * (-1) * num, S * num)
    PROVE  offset \in Int /\ offset >= -1
<1>1. PICK a \in Nat, b \in Nat, B \in Nat \ {0} :
           a = (l - 1) * r /\ b = n * num /\ B = S * num /\ b <= B
  OBVIOUS
<1>2. (l + (-1)) * r + n * (-1) * num = a - b
  <2>1. (l + (-1)) * r = a
    BY <1>1
  <2>2. n * (-1) * num = -b
    BY <1>1
  <2>3. QED
    BY <2>1, <2>2
<1>3. IsRounded(Round(a - b, B), a - b, B)
  BY RoundRounds
<1>4. a - b >= B * (-1)
  BY <1>1
<1>5. Round(a - b, B) >= -1
  BY <1>3, <1>4, RoundedStays
<1>6. QED
  BY <1>1, <1>2, <1>3, <1>5 DEF IsRounded

\* The same when there are no other items.
TailOffsetIs(S, n, to, offset) ==
    /\ offset \in Int /\ offset >= -1
    /\ to >= 0 => offset >= 0 /\ offset <= to
    /\ to = -1 => offset <= 0
    /\ n = S => offset = to
    /\ n = 0 => offset = 0

LEMMA ScrolledTail ==
    ASSUME NEW S \in Nat \ {0}, NEW n \in 0 .. S, NEW to \in Int, to >= -1,
           NEW offset, offset = Round(n * to, S)
    PROVE  TailOffsetIs(S, n, to, offset)
<1>1. PICK a \in Int : a = n * to
  OBVIOUS
<1>2. PICK r : r = Round(n * to, S) /\ IsRounded(r, a, S) /\ r \in Int
  BY <1>1, RoundRounds DEF IsRounded
<1>3. /\ a >= S * (-1)
      /\ to >= 0 => a >= S * 0 /\ a <= S * to
      /\ to = -1 => a <= S * 0
      /\ n = S => a = S * to
      /\ n = 0 => a = S * 0
  BY <1>1
<1>4. /\ a >= S * (-1) => r >= -1
      /\ a >= S * 0 => r >= 0
      /\ a <= S * 0 => r <= 0
      /\ a <= S * to => r <= to
      /\ a >= S * to => r >= to
  BY <1>2, RoundedStays
<1>5. n = S => r = to
  <2>1. a \in Int /\ S * to \in Int
    OBVIOUS
  <2>2. a = S * to => a <= S * to /\ a >= S * to
    BY <2>1
  <2>3. QED
    BY <1>2, <1>3, <1>4, <2>2
<1>6. n = 0 => r = 0
  BY <1>2, <1>3, <1>4
<1>7. QED
  BY <1>2, <1>3, <1>4, <1>5, <1>6 DEF TailOffsetIs

\* Of items that are not up to date there may be less than tail items: then
\* the difference wraps around.
LEMMA MinusIs ==
    ASSUME NEW c \in Nat, c <= MaxCount, NEW num \in Nat, num <= MaxCount
    PROVE  /\ c >= num => Minus(c, num) = c - num
           /\ c < num => /\ Minus(c, num) \in Nat
                         /\ Minus(c, num) >= MaxCount * Steps
<1>1. MaxCount \in Nat /\ Steps \in Nat /\ Steps >= 1 /\ NoIndex \in Nat
      /\ NoIndex > 2 * MaxCount * Steps
  BY ListAssumption
<1>2. PICK p \in Nat : p = MaxCount * Steps /\ MaxCount <= p /\ NoIndex > 2 * p
  <2>1. MaxCount * Steps \in Nat /\ MaxCount <= MaxCount * Steps
    BY <1>1
  <2>2. 2 * MaxCount * Steps = 2 * (MaxCount * Steps)
    BY <1>1
  <2>3. QED
    BY <1>1, <2>1, <2>2
<1>3. PICK m \in Nat : m = NoIndex + 1
  BY <1>1
<1>4. ASSUME c >= num PROVE Minus(c, num) = c - num
  <2>1. c - num \in 0 .. m - 1
    BY <1>1, <1>2, <1>3, <1>4
  <2>2. (c - num) % m = c - num
    BY <1>3, <2>1
  <2>3. QED
    BY <1>3, <2>2 DEF Minus
<1>5. ASSUME c < num PROVE Minus(c, num) \in Nat /\ Minus(c, num) >= p
  <2>1. PICK k \in Nat : k = c - num + m /\ k < m /\ k >= p
    BY <1>1, <1>2, <1>3, <1>5
  <2>2. (c - num) % m = k
    BY <1>3, <1>5, <2>1
  <2>3. QED
    BY <1>3, <2>1, <2>2 DEF Minus
<1>6. QED
  BY <1>2, <1>4, <1>5

\* An index that wrapped around is beyond all items.
LEMMA WrappedIndex ==
    ASSUME NEW S \in Nat \ {0}, NEW n \in 1 .. S, NEW m \in Nat,
           NEW above \in Nat, above >= m * S
    PROVE  (n * above) \div S >= m
<1>1. n * above \in Nat /\ n * above >= above
  OBVIOUS
<1>2. PICK q \in Int : q = (n * above) \div S /\ n * above < S * q + S
  BY <1>1, Quotient
<1>3. q >= m
  <2> SUFFICES ASSUME q + 1 <= m PROVE FALSE
    BY <1>2
  <2>1. S * (q + 1) <= S * m /\ S * (q + 1) = S * q + S /\ S * m = m * S
    BY <1>2
  <2>2. QED
    BY <1>1, <1>2, <2>1
<1>4. QED
  BY <1>2, <1>3

\* Where it scrolls items of length s to: the position is not beyond the one
\* that shows the tail or is clamped to that.  When the tail is that of the c
\* items there are, factor 1 is that position, factor 0 is the first item, and
\* in between the position is rounded to an integer.
ScrolledTo(n, s, l, num, first, to, c, kids, index, offset) ==
    LET known == num <= c /\ first = c - num
        pos == s * index + offset
        end == s * first + to
    IN /\ offset >= -1
       /\ \/ offset < s
          \/ first <= index
          \/ offset < 2 * s /\ index < c /\ (known => pos <= end)
       /\ known /\ n = Steps /\ (first # 0 => kids # << >>) =>
             index = first /\ offset = to
       /\ known /\ n = 0 => index = 0 /\ offset = 0
       /\ known /\ first # 0 /\ kids # << >> =>
            /\ to >= 0 /\ s * num = l + to
            /\ index <= first
            /\ index = first => n = Steps
            /\ 2 * (Steps * pos - n * end) <= Steps
            /\ 2 * (n * end - Steps * pos) <= Steps

LEMMA EvenScrolled ==
    ASSUME NEW n \in 0 .. Steps, NEW s \in Nat \ {0}, NEW l \in Nat, l > 0,
           NEW num \in Nat \ {0}, NEW first \in Nat, NEW to \in Int,
           EvenTail(s, l, num, first, to), first <= MaxCount,
           NEW c \in Nat \ {0}, c <= MaxCount, NEW kids,
           NEW above, above = Minus(c, num),
           NEW index, index = (n * above) \div Steps,
           NEW offset,
           offset = OffsetFor(n, above, index, kids, l, num, to)
    PROVE  ScrolledTo(n, s, l, num, first, to, c, kids, index, offset)
<1>1. PICK S \in Nat \ {0} : S = Steps
  BY ListAssumption
<1>2. n \in 0 .. S /\ n \in Nat
  BY <1>1
<1>3. /\ num <= MaxCount /\ to >= -1 /\ to < s
      /\ IF to = -1 THEN first = 0 /\ s * num < l ELSE s * num = l + to
  BY DEF EvenTail
<1>4. /\ num <= c => above = c - num
      /\ c < num => above \in Nat /\ above >= MaxCount * S
  BY <1>1, <1>3, MinusIs
<1>5. above \in Nat
  <2>1. CASE num <= c
    BY <1>4, <2>1
  <2>2. CASE c < num
    BY <1>4, <2>2
  <2>3. QED
    BY <2>1, <2>2
<1>6. /\ index \in Nat /\ index <= above
      /\ n = S => index = above
      /\ n = 0 => index = 0
      /\ index = above /\ above # 0 => n = S
      /\ S * index <= n * above
      /\ IndexIs(S, n, above, index)
  <2>1. index = (n * above) \div S
    BY <1>1
  <2>2. IndexIs(S, n, above, index)
    BY <1>2, <1>5, <2>1, ScrolledIndex
  <2>3. QED
    BY <2>2 DEF IndexIs
<1>7. offset = IF above = 0 THEN Round(n * to, S)
               ELSE IF kids = << >> THEN 0
               ELSE Round((l + to) * (n * above - index * S) + n * to * num,
                          S * num)
  BY <1>1 DEF OffsetFor
\* there are no other items
<1>8. ASSUME above = 0
      PROVE  /\ offset \in Int /\ offset >= -1 /\ offset < s
             /\ n = S => offset = to
             /\ n = 0 => offset = 0
  <2>1. offset = Round(n * to, S)
    BY <1>7, <1>8
  <2>2. /\ offset \in Int /\ offset >= -1
        /\ to >= 0 => offset >= 0 /\ offset <= to
        /\ to = -1 => offset <= 0
        /\ n = S => offset = to
        /\ n = 0 => offset = 0
    <3>1. TailOffsetIs(S, n, to, offset)
      BY <1>2, <1>3, <2>1, ScrolledTail
    <3>2. QED
      BY <3>1 DEF TailOffsetIs
  <2>3. offset < s
    BY <1>3, <2>2
  <2>4. QED
    BY <2>2, <2>3
\* they are not shown
<1>9. ASSUME above # 0, kids = << >> PROVE offset = 0
  BY <1>7, <1>9
\* the tail items do not fill the list
<1>10. ASSUME above # 0, kids # << >>, to = -1
       PROVE  offset \in Int /\ offset >= -1 /\ first = 0
  <2>1. PICK r \in Nat : r = n * above - index * S
    <3>1. n * above \in Nat /\ index * S = S * index
      BY <1>1, <1>2, <1>5, <1>6
    <3>2. S * index \in Int
      BY <1>6
    <3>3. QED
      BY <1>6, <3>1, <3>2
  <2>2. offset = Round((l + (-1)) * r + n * (-1) * num, S * num)
    BY <1>7, <1>10, <2>1
  <2>3. QED
    BY <1>2, <1>3, <1>10, <2>2, ScrolledShort
\* they do
<1>11. ASSUME above # 0, kids # << >>, to >= 0
       PROVE  /\ offset \in Int /\ offset >= 0 /\ offset <= s + to
              /\ s * index + offset <= s * above + to
              /\ n = S => offset = to
              /\ n = 0 => offset = 0
              /\ 2 * (S * (s * index + offset) - n * (s * above + to)) <= S
              /\ 2 * (n * (s * above + to) - S * (s * index + offset)) <= S
  <2>1. to \in Nat /\ s * num = l + to
    BY <1>3, <1>11
  <2>2. offset = Round((l + to) * (n * above - index * S) + n * to * num,
                       S * num)
    BY <1>7, <1>11
  <2>3. OffsetIs(S, n, above, to, s, index, offset)
    BY <1>2, <1>3, <1>5, <1>6, <2>1, <2>2, ScrolledOffset
  <2>4. QED
    BY <2>3 DEF OffsetIs
<1>12. offset \in Int /\ offset >= -1
  BY <1>3, <1>8, <1>9, <1>10, <1>11
<1>13. num <= c /\ first = c - num => above = first
  BY <1>4
<1>14. index < c \/ first <= index
  <2>1. CASE num <= c
    BY <1>4, <1>6, <2>1
  <2>2. CASE c < num /\ n = 0
    BY <1>6, <2>2
  <2>3. CASE c < num /\ n # 0
    <3>1. n \in 1 .. S /\ MaxCount \in Nat /\ above >= MaxCount * S
      BY <1>2, <1>4, <2>3, ListAssumption
    <3>2. (n * above) \div S >= MaxCount
      BY <1>5, <3>1, WrappedIndex
    <3>3. index >= MaxCount
      BY <1>1, <3>2
    <3>4. QED
      BY <1>6, <3>1, <3>3
  <2>4. QED
    BY <2>1, <2>2, <2>3
<1>15. \/ offset < s
       \/ first <= index
       \/ /\ offset < 2 * s /\ index < c
          /\ num <= c /\ first = c - num => s * index + offset <= s * first + to
  <2>1. CASE above = 0
    BY <1>8, <2>1
  <2>2. CASE above # 0 /\ kids = << >>
    BY <1>9, <2>2
  <2>3. CASE above # 0 /\ kids # << >> /\ to = -1
    BY <1>6, <1>10, <2>3
  <2>4. CASE above # 0 /\ kids # << >> /\ to >= 0
    <3>1. offset < 2 * s
      BY <1>3, <1>11, <2>4
    <3>2. num <= c /\ first = c - num => s * index + offset <= s * first + to
      BY <1>11, <1>13, <2>4
    <3>3. QED
      BY <1>14, <3>1, <3>2
  <2>5. QED
    BY <1>3, <2>1, <2>2, <2>3, <2>4
<1>16. ASSUME num <= c, first = c - num, n = Steps, first # 0 => kids # << >>
       PROVE  index = first /\ offset = to
  <2>1. above = first /\ n = S
    BY <1>1, <1>13, <1>16
  <2>2. index = first
    BY <1>6, <2>1
  <2>3. CASE above = 0
    BY <1>8, <2>1, <2>2, <2>3
  <2>4. CASE above # 0
    <3>1. to # -1
      BY <1>3, <2>1, <2>4
    <3>2. to >= 0
      BY <1>3, <3>1
    <3>3. QED
      BY <1>11, <1>16, <2>1, <2>2, <2>4, <3>2
  <2>5. QED
    BY <2>3, <2>4
<1>17. ASSUME num <= c, first = c - num, n = 0
       PROVE  index = 0 /\ offset = 0
  <2>1. above = first
    BY <1>13, <1>17
  <2>2. CASE above = 0
    BY <1>6, <1>8, <1>17, <2>2
  <2>3. CASE above # 0 /\ kids = << >>
    BY <1>6, <1>9, <1>17, <2>3
  <2>4. CASE above # 0 /\ kids # << >>
    <3>1. to # -1
      BY <1>3, <2>1, <2>4
    <3>2. to >= 0
      BY <1>3, <3>1
    <3>3. QED
      BY <1>6, <1>11, <1>17, <2>4, <3>2
  <2>5. QED
    BY <2>2, <2>3, <2>4
<1>18. ASSUME num <= c, first = c - num, first # 0, kids # << >>
       PROVE  /\ to >= 0 /\ s * num = l + to
              /\ index <= first
              /\ index = first => n = Steps
              /\ 2 * (Steps * (s * index + offset) - n * (s * first + to))
                    <= Steps
              /\ 2 * (n * (s * first + to) - Steps * (s * index + offset))
                    <= Steps
  <2>1. above = first /\ above # 0
    BY <1>13, <1>18
  <2>2. to # -1
    BY <1>3, <1>18
  <2>3. to >= 0 /\ s * num = l + to
    BY <1>3, <2>2
  <2>4. /\ 2 * (S * (s * index + offset) - n * (s * above + to)) <= S
        /\ 2 * (n * (s * above + to) - S * (s * index + offset)) <= S
    BY <1>11, <1>18, <2>1, <2>3
  <2>5. index <= first /\ (index = first => n = Steps)
    BY <1>1, <1>6, <2>1
  <2>6. QED
    BY <1>1, <2>1, <2>3, <2>4, <2>5
<1>19. QED
  BY <1>12, <1>15, <1>16, <1>17, <1>18 DEF ScrolledTo

\* What setScrollPosAsFactor() finds and passes on, for items of length s.
LEMMA EvenScrollIs ==
    ASSUME IsTyped, NEW n \in 0 .. Steps, setScrollPosAsFactor(n),
           NEW s \in Nat \ {0}, EvenSize(s), EvenState(s)
    PROVE  \E tail, index, offset :
              /\ tail = TailFor(numTailItems, data, length)
              /\ tail.num \in Nat \ {0} /\ tail.first \in Nat
              /\ tail.offset \in Int
              /\ EvenTail(s, length, tail.num, tail.first, tail.offset)
              /\ UpToDate => /\ tail.num <= count
                             /\ tail.first = count - tail.num
              /\ index \in Nat /\ offset \in Int
              /\ ScrolledTo(n, s, length, tail.num, tail.first, tail.offset,
                            count, children, index, offset)
              /\ updateChildrenList(index, offset, children, addedIndex,
                                    numTailItems)
<1>1. PICK tail, above, index, offset :
           /\ tail = TailFor(numTailItems, data, length)
           /\ tail.num \in Nat \ {0} /\ tail.first \in Nat
           /\ tail.first <= MaxCount
           /\ tail.offset \in Int
           /\ above = Minus(count, tail.num)
           /\ index = (n * above) \div Steps /\ index \in Nat
           /\ offset = OffsetFor(n, above, index, children, length, tail.num,
                                 tail.offset)
           /\ offset \in Int
           /\ updateChildrenList(index, offset, children, addedIndex,
                                 numTailItems)
  BY ScrollIs
<1>2. provider # NoProvider /\ count # 0 /\ length > 0
  BY DEF setScrollPosAsFactor
<1>3. /\ Sized(data) /\ Len(data) <= MaxCount /\ length \in Nat
      /\ numTailItems \in Nat /\ TailIsTyped
      /\ count \in Nat \ {0} /\ count <= MaxCount
  <2>1. Sized(data) /\ Len(data) <= MaxCount
    BY <1>2, DataIsSized
  <2>2. length \in Nat /\ numTailItems \in Nat /\ TailIsTyped
    BY DEF IsTyped, ListTypeOK, TailIsTyped
  <2>3. count \in Nat \ {0} /\ count <= MaxCount
    BY <1>2, <2>1 DEF count, Sized
  <2>4. QED
    BY <2>1, <2>2, <2>3
<1>4. /\ EvenTail(s, length, tail.num, tail.first, tail.offset)
      /\ UpToDate => tail.num <= count /\ tail.first = count - tail.num
  <2>1. PICK d, l, m : d = data /\ l = length /\ m = numTailItems
    OBVIOUS
  <2>2. /\ firstTailItemOffset < s
        /\ EvenTail(s, l, m, firstTailItemIndex, firstTailItemOffset)
        /\ UpToDate /\ m # 0 => m <= count /\ firstTailItemIndex = count - m
    BY <2>1 DEF EvenState
  <2>3. /\ EvenTail(s, l, tail.num, tail.first, tail.offset)
        /\ m = 0 /\ tail.num # 0 =>
             tail.num <= Len(d) /\ tail.first = Len(d) - tail.num
    BY <1>1, <1>3, <2>1, <2>2, EvenTailFor
  <2>4. m # 0 => tail.num = m /\ tail.first = firstTailItemIndex
    BY <1>1, <2>1 DEF TailFor
  <2>5. tail.num # 0
    BY <1>1
  <2>6. QED
    BY <2>1, <2>2, <2>3, <2>4, <2>5 DEF count
<1>5. ScrolledTo(n, s, length, tail.num, tail.first, tail.offset, count,
                 children, index, offset)
  BY <1>1, <1>2, <1>3, <1>4, EvenScrolled
<1>6. QED
  BY <1>1, <1>4, <1>5

\* setScrollPosAsFactor() keeps what is so of items of length s.
LEMMA ScrollIsEven ==
    ASSUME IsTyped, IsTyped', NEW n \in 0 .. Steps, setScrollPosAsFactor(n),
           NEW s \in Nat \ {0}, EvenSize(s), EvenState(s)
    PROVE  EvenState(s)'
<1>1. PICK tail, index, offset :
           /\ tail = TailFor(numTailItems, data, length)
           /\ tail.num \in Nat \ {0} /\ tail.first \in Nat
           /\ tail.offset \in Int
           /\ UpToDate => tail.num <= count /\ tail.first = count - tail.num
           /\ index \in Nat /\ offset \in Int
           /\ ScrolledTo(n, s, length, tail.num, tail.first, tail.offset,
                         count, children, index, offset)
           /\ updateChildrenList(index, offset, children, addedIndex,
                                 numTailItems)
  BY EvenScrollIs
<1>2. /\ UNCHANGED <<size, items, posted, provider, length>>
      /\ provider # NoProvider
  BY DEF setScrollPosAsFactor
<1>3. UNCHANGED <<data, count, UpToDate, length>>
  BY <1>2 DEF data, count, UpToDate
<1>4. /\ children \in Seq(Widget) /\ addedIndex \in Nat
      /\ numTailItems \in Nat
  BY DEF IsTyped, ListTypeOK
<1>5. /\ offset >= -1
      /\ \/ offset < s
         \/ tail.first <= index
         \/ /\ offset < 2 * s /\ index < count
            /\ UpToDate => s * index + offset <= s * tail.first + tail.offset
  BY <1>1 DEF ScrolledTo
<1>6. /\ firstTailItemOffset < s
      /\ numTailItems # 0 =>
           /\ provider' # NoProvider
           /\ EvenTail(s, length', numTailItems, firstTailItemIndex,
                       firstTailItemOffset)
           /\ UpToDate' => /\ numTailItems <= count'
                           /\ firstTailItemIndex = count' - numTailItems
  BY <1>2, <1>3 DEF EvenState
<1>7. LET t == TailFor(numTailItems, data', length')
      IN \/ offset < s
         \/ t.first <= index
         \/ /\ offset < 2 * s /\ index < Len(data')
            /\ UpToDate' => s * index + offset <= s * t.first + t.offset
  BY <1>1, <1>3, <1>5 DEF count
<1>8. QED
  BY <1>1, <1>2, <1>4, <1>5, <1>6, <1>7, UpdateIsEven

-----------------------------------------------------------------------------
(* The list is covered *)

EvenInv == \A s \in Nat \ {0} : EvenSize(s) => EvenState(s)

\* What the list knows stays as it is; of the items it need not know more.
LEMMA StaysEven ==
    ASSUME UNCHANGED <<size, provider, length, tailVars, shownVars>>,
           UpToDate' => UpToDate /\ UNCHANGED data,
           NEW s \in Nat \ {0}, EvenState(s)
    PROVE  EvenState(s)'
<1>1. UNCHANGED <<size, provider, length, numTailItems, firstTailItemIndex,
                  firstTailItemOffset, children, posIndex, posOffset>>
  BY DEF tailVars, shownVars
<1>2. ASSUME UpToDate'
      PROVE  /\ numTailItems' # 0 =>
                  /\ numTailItems' <= count'
                  /\ firstTailItemIndex' = count' - numTailItems'
             /\ CoversList'
  <2>1. UpToDate /\ data' = data /\ count' = count
    BY <1>2 DEF count
  <2>2. CoversList'
    <3> SUFFICES ASSUME EvenItems', length' > 0,
                        Extent(data, 0, count)' >= length'
                 PROVE  /\ posOffset' >= -1 /\ children' # << >>
                        /\ posOffset' < size'[children'[1].item]
                        /\ Extent(data, posIndex, posIndex + Len(children))'
                               - posOffset' >= length'
      BY DEF CoversList
    <3>1. EvenItems /\ length > 0 /\ Extent(data, 0, count) >= length
      BY <1>1, <2>1, ExtentStays DEF EvenItems
    <3>2. /\ posOffset >= -1 /\ children # << >>
          /\ posOffset < size[children[1].item]
          /\ Extent(data, posIndex, posIndex + Len(children)) - posOffset
                >= length
      BY <2>1, <3>1 DEF EvenState, CoversList
    <3>3. QED
      BY <1>1, <2>1, <3>2, ExtentStays
  <2>3. QED
    BY <1>1, <2>1, <2>2 DEF EvenState
<1>3. ~UpToDate' => CoversList'
  BY DEF CoversList
<1>4. QED
  BY <1>1, <1>2, <1>3 DEF EvenState, EvenTail

\* layOut() and handleDataSetChanged() take the tail items anew.
LEMMA AnewIsEven ==
    ASSUME IsTyped, IsTyped', UNCHANGED size, NEW s \in Nat \ {0}, EvenSize(s),
           EvenState(s), NEW kids \in Seq(Widget), NEW added \in Nat,
           updateChildrenList(posIndex, posOffset, kids, added, 0)
    PROVE  EvenState(s)'
<1>1. posIndex \in Nat /\ posOffset \in Int
  BY DEF IsTyped, ListTypeOK
<1>2. posOffset < s /\ posOffset >= -1 /\ firstTailItemOffset < s
  BY DEF EvenState
<1>3. QED
  BY <1>1, <1>2, UpdateIsEven

\* The items of a provider change.
LEMMA ChangeIsEven ==
    ASSUME IsTyped, NEW p \in Providers, notifyDataSetChanged(p), NEW r,
           items' = [items EXCEPT ![p] = r],
           UNCHANGED <<size, provider, length, tailVars, shownVars>>,
           NEW s \in Nat \ {0}, EvenState(s)
    PROVE  EvenState(s)'
<1>1. CASE provider = p
  <2>1. posted' = Append(posted, p) /\ posted \in Seq(Providers)
    BY <1>1 DEF notifyDataSetChanged, IsTyped, ListTypeOK
  <2>2. posted' # << >>
    BY <2>1
  <2>3. QED
    BY <2>2, StaysEven DEF UpToDate
<1>2. CASE provider # p
  <2>1. posted' = posted /\ UNCHANGED provider
    BY <1>2 DEF notifyDataSetChanged
  <2>2. UpToDate' => UpToDate /\ provider \in Providers
    BY <2>1 DEF UpToDate, IsTyped, ListTypeOK
  <2>3. provider \in Providers => UNCHANGED data
    BY <1>2, <2>1 DEF data, IsTyped, ListTypeOK
  <2>4. QED
    BY <2>2, <2>3, StaysEven
<1>3. QED
  BY <1>1, <1>2

\* No step disturbs what is so of items of one length.
LEMMA KeepsEven ==
    ASSUME IsTyped, IsTyped', EvenInv, [ListNext]_listVars
    PROVE  EvenInv'
<1>1. UNCHANGED size
  BY DEF ListNext, layOut, setScrollPosAsFactor, setItemsProvider, ItemAdded,
         ItemRemoved, handleDataSetChanged, listVars
<1> SUFFICES ASSUME NEW s \in Nat \ {0}, EvenSize(s)' PROVE EvenState(s)'
  BY DEF EvenInv
<1>2. EvenSize(s) /\ EvenState(s)
  BY <1>1 DEF EvenInv, EvenSize
<1>3. ASSUME NEW l \in Lengths, layOut(l) PROVE EvenState(s)'
  <2>1. children \in Seq(Widget) /\ addedIndex \in Nat
    BY DEF IsTyped, ListTypeOK
  <2>2. updateChildrenList(posIndex, posOffset, children, addedIndex, 0)
    BY <1>3 DEF layOut
  <2>3. QED
    BY <1>1, <1>2, <2>1, <2>2, AnewIsEven
<1>4. ASSUME NEW n \in 0 .. Steps, setScrollPosAsFactor(n)
      PROVE  EvenState(s)'
  BY <1>2, <1>4, ScrollIsEven
<1>5. ASSUME Rebuild PROVE EvenState(s)'
  <2>1. << >> \in Seq(Widget) /\ NoIndex \in Nat
    BY NoIndexIsFar
  <2>2. updateChildrenList(posIndex, posOffset, << >>, NoIndex, 0)
    BY <1>5 DEF Rebuild
  <2>3. QED
    BY <1>1, <1>2, <2>1, <2>2, AnewIsEven
<1>6. ASSUME NEW p \in Providers, NEW i, NEW x, ItemAdded(p, i, x)
      PROVE  EvenState(s)'
  BY <1>2, <1>6, ChangeIsEven DEF ItemAdded
<1>7. ASSUME NEW p \in Providers, NEW i, ItemRemoved(p, i)
      PROVE  EvenState(s)'
  BY <1>2, <1>7, ChangeIsEven DEF ItemRemoved
<1>8. CASE UNCHANGED listVars
  <2>1. UNCHANGED <<size, items, posted, provider, length, tailVars, shownVars>>
    BY <1>8 DEF listVars
  <2>2. UpToDate' => UpToDate /\ UNCHANGED data
    BY <2>1 DEF UpToDate, data
  <2>3. QED
    BY <1>2, <2>1, <2>2, StaysEven
<1>9. QED
  BY <1>3, <1>4, <1>5, <1>6, <1>7, <1>8
     DEF ListNext, setItemsProvider, handleDataSetChanged

LEMMA EvenAtFirst == ListInit => EvenInv
<1> SUFFICES ASSUME ListInit, NEW s \in Nat \ {0} PROVE EvenState(s)
  BY DEF EvenInv
<1>1. ~UpToDate
  BY DEF ListInit, UpToDate
<1>2. CoversList
  BY <1>1 DEF CoversList
<1>3. QED
  BY <1>1, <1>2, ListAssumption DEF ListInit, EvenState, EvenTail

\* The length of all the items, when a provider has some.
LEMMA EvenLength ==
    ASSUME IsTyped, EvenItems, provider # NoProvider, count # 0
    PROVE  \E s \in Nat \ {0} : EvenSize(s)
<1>1. Sized(data)
  BY DataIsSized
<1>2. data[1] \in Items
  <2>1. 1 \in 1 .. Len(data)
    BY <1>1 DEF count, Sized
  <2>2. QED
    BY <1>1, <2>1 DEF Sized
<1>3. size[data[1]] \in Nat \ {0}
  BY <1>2 DEF IsTyped
<1>4. EvenSize(size[data[1]])
  BY <1>2 DEF EvenItems, EvenSize
<1>5. QED
  BY <1>3, <1>4

LEMMA EvenInvCovers ==
    ASSUME IsTyped, EvenInv
    PROVE  CoversList
<1> SUFFICES ASSUME UpToDate, EvenItems, length > 0,
                    Extent(data, 0, count) >= length
             PROVE  CoversList
  BY DEF CoversList
<1>1. provider # NoProvider /\ length \in Nat
  BY DEF UpToDate, IsTyped, ListTypeOK
<1>2. count # 0
  <2>1. Extent(data, 0, 0) = 0
    BY ExtentOfNone
  <2>2. QED
    BY <1>1, <2>1
<1>3. PICK s \in Nat \ {0} : EvenSize(s)
  BY <1>1, <1>2, EvenLength
<1>4. QED
  BY <1>3 DEF EvenInv, EvenState

LEMMA EvenFromFirst == ListSpec => [](IsTyped /\ EvenInv)
<1>1. ListInit => IsTyped /\ EvenInv
  BY TypedAtFirst, EvenAtFirst
<1>2. IsTyped /\ EvenInv /\ [ListNext]_listVars => (IsTyped /\ EvenInv)'
  <2>1. IsTyped /\ [ListNext]_listVars => IsTyped'
    BY StaysTyped
  <2>2. QED
    BY <2>1, KeepsEven
<1>3. QED
  BY <1>1, <1>2, PTL DEF ListSpec

\* When the items, all of one length, fill the list, the widgets cover it from
\* end to end, whatever it was scrolled to and however it, its provider and the
\* items changed, as soon as it knows of the changes.
THEOREM CoversTheList == ListSpec => []CoversList
<1>1. IsTyped /\ EvenInv => CoversList
  BY EvenInvCovers
<1>2. QED
  BY <1>1, EvenFromFirst, PTL

-----------------------------------------------------------------------------
(* The scroll factor *)

\* Where setScrollPosAsFactor() gets to, for items of length s that the list
\* knows: index and offset are computed, f and o is that position clamped.
ScrollsTo(n, s, num, first, to, index, offset, f, o) ==
    /\ numTailItems' = num /\ firstTailItemOffset' = to
    /\ num <= count /\ first = count - num
    /\ EvenTail(s, length, num, first, to)
    /\ first # 0 => children # << >> /\ Extent(data, 0, count) >= length
    /\ ScrolledTo(n, s, length, num, first, to, count, children, index, offset)
    /\ \/ index < first /\ f = index /\ o = offset
       \/ /\ index = first /\ f = index
          /\ o = IF offset <= to THEN offset ELSE to
       \/ index > first /\ f = first /\ o = to
    /\ s * posIndex' + posOffset' = s * f + o
    /\ o < s => posIndex' = f /\ posOffset' = o

LEMMA EvenScrollTo ==
    ASSUME IsTyped, IsTyped', NEW n \in 0 .. Steps, setScrollPosAsFactor(n),
           UpToDate, NEW s \in Nat \ {0}, EvenSize(s), EvenState(s)
    PROVE  \E num \in Nat \ {0}, first \in Nat, to \in Int, index \in Nat,
              offset \in Int, f \in Nat, o \in Int :
              ScrollsTo(n, s, num, first, to, index, offset, f, o)
<1>1. PICK tail, index, offset :
           /\ tail = TailFor(numTailItems, data, length)
           /\ tail.num \in Nat \ {0} /\ tail.first \in Nat
           /\ tail.offset \in Int
           /\ EvenTail(s, length, tail.num, tail.first, tail.offset)
           /\ tail.num <= count /\ tail.first = count - tail.num
           /\ index \in Nat /\ offset \in Int
           /\ ScrolledTo(n, s, length, tail.num, tail.first, tail.offset,
                         count, children, index, offset)
           /\ updateChildrenList(index, offset, children, addedIndex,
                                 numTailItems)
  BY EvenScrollIs
<1>2. /\ UNCHANGED <<size, items, provider, length>>
      /\ provider # NoProvider /\ length > 0
  BY DEF setScrollPosAsFactor
<1>3. PICK d, l : d = data /\ d = data' /\ l = length /\ l = length'
  BY <1>2 DEF data
<1>4. /\ Sized(d) /\ l \in Nat /\ l > 0 /\ count = Len(d) /\ Len(d) \in Nat
      /\ children \in Seq(Widget) /\ addedIndex \in Nat
      /\ numTailItems \in Nat /\ posIndex' \in Nat
  <2>1. Sized(d) /\ count = Len(d)
    BY <1>2, <1>3, DataIsSized DEF count
  <2>2. Len(d) \in Nat
    BY <2>1 DEF Sized
  <2>3. QED
    BY <1>2, <1>3, <2>1, <2>2 DEF IsTyped, ListTypeOK
<1>5. PICK t2, from, t, last :
           /\ t2 = TailFor(numTailItems, d, l)
           /\ numTailItems' = t2.num
           /\ firstTailItemOffset' = t2.offset
           /\ from = Clamped(index, offset, t2)
           /\ from[1] \in Nat /\ from[2] \in Int
           /\ from[1] <= posIndex'
           /\ from[1] >= Len(d) => posIndex' = from[1]
           /\ LoopsEnd(d, l, from, children, addedIndex, t, last)
  BY <1>1, <1>2, <1>3, <1>4, UpdateIs
<1>6. PICK num \in Nat \ {0}, first \in Nat, to \in Int, f \in Nat, o \in Int :
           /\ num = tail.num /\ first = tail.first /\ to = tail.offset
           /\ f = from[1] /\ o = from[2]
  BY <1>1, <1>5
<1>7. numTailItems' = num /\ firstTailItemOffset' = to
      /\ from = Clamped(index, offset, tail)
  BY <1>1, <1>3, <1>5, <1>6
<1>8. \/ index < first /\ f = index /\ o = offset
      \/ /\ index = first /\ f = index
         /\ o = IF offset <= to THEN offset ELSE to
      \/ index > first /\ f = first /\ o = to
  BY <1>1, <1>6, <1>7, ClampedCases
<1>9. /\ s * posIndex' + posOffset' = s * f + o
      /\ o < s => posIndex' = f /\ posOffset' = o
  BY <1>4, <1>5, <1>6, EvenArranged
<1>10. num <= count /\ first = count - num
       /\ EvenTail(s, l, num, first, to)
       /\ ScrolledTo(n, s, length, num, first, to, count, children,
                     index, offset)
  BY <1>1, <1>3, <1>6
\* the items before the tail are more than the list can show
<1>11. ASSUME first # 0
       PROVE  children # << >> /\ Extent(data, 0, count) >= length
  <2>1. to >= 0 /\ s * num = l + to
    BY <1>10, <1>11 DEF EvenTail
  <2>2. PICK c \in Nat : c = Len(d) /\ c = num + first
    BY <1>4, <1>10
  <2>3. s * c >= s * num
    BY <2>2
  <2>4. Extent(d, 0, c) = s * (c - 0)
    <3>1. 0 <= c /\ c <= Len(d)
      BY <2>2
    <3>2. QED
      BY <1>4, <3>1, EvenExtent
  <2>5. Extent(d, 0, c) >= l
    <3>1. c - 0 = c /\ s * c \in Nat /\ s * num \in Nat
      BY <2>2
    <3>2. QED
      BY <1>4, <2>1, <2>3, <2>4, <3>1
  <2>6. Extent(data, 0, count) >= length
    BY <1>3, <1>4, <2>2, <2>5
  <2>7. EvenItems
    BY DEF EvenItems, EvenSize
  <2>8. QED
    BY <1>2, <2>6, <2>7 DEF EvenState, CoversList
<1>12. ScrollsTo(n, s, num, first, to, index, offset, f, o)
  BY <1>3, <1>7, <1>8, <1>9, <1>10, <1>11 DEF ScrollsTo
<1>13. QED
  BY <1>1, <1>12

LEMMA ScrollsToTheEnds ==
    ASSUME IsTyped, IsTyped', EvenInv, UpToDate, EvenItems,
           NEW n \in 0 .. Steps, setScrollPosAsFactor(n)
    PROVE  /\ n = Steps => Extent(data, posIndex', count) - posOffset' <= length
           /\ n = 0 => posIndex' = 0 /\ posOffset' <= 0
<1>1. provider # NoProvider /\ count # 0 /\ length > 0
  BY DEF setScrollPosAsFactor
<1>2. PICK s \in Nat \ {0} : EvenSize(s) /\ EvenState(s)
  BY <1>1, EvenLength DEF EvenInv
<1>3. PICK num \in Nat \ {0}, first \in Nat, to \in Int, index \in Nat,
           offset \in Int, f \in Nat, o \in Int :
           ScrollsTo(n, s, num, first, to, index, offset, f, o)
  BY <1>2, EvenScrollTo
<1>4. /\ num <= count /\ first = count - num
      /\ EvenTail(s, length, num, first, to)
      /\ first # 0 => children # << >>
      /\ ScrolledTo(n, s, length, num, first, to, count, children, index, offset)
      /\ \/ index < first /\ f = index /\ o = offset
         \/ /\ index = first /\ f = index
            /\ o = IF offset <= to THEN offset ELSE to
         \/ index > first /\ f = first /\ o = to
      /\ o < s => posIndex' = f /\ posOffset' = o
  BY <1>3 DEF ScrollsTo
<1>5. to >= -1 /\ to < s
      /\ IF to = -1 THEN s * num < length ELSE s * num = length + to
  BY <1>4 DEF EvenTail
<1>6. ASSUME n = Steps
      PROVE  Extent(data, posIndex', count) - posOffset' <= length
  <2>1. index = first /\ offset = to
    BY <1>4, <1>6 DEF ScrolledTo
  <2>2. posIndex' = first /\ posOffset' = to
    BY <1>4, <1>5, <2>1
  <2>3. Extent(data, first, count) = s * num
    <3>1. PICK c \in Nat : c = count /\ first <= c /\ c = Len(data)
                           /\ c - first = num
      <4>1. count \in Nat
        BY <1>1, DataIsSized DEF count, Sized
      <4>2. QED
        BY <1>4, <4>1 DEF count
    <3>2. Extent(data, first, c) = s * (c - first)
      <4>1. Sized(data) /\ first <= c /\ c <= Len(data)
        BY <1>1, <3>1, DataIsSized
      <4>2. QED
        BY <1>2, <4>1, EvenExtent
    <3>3. QED
      BY <3>1, <3>2
  <2>4. s * num \in Int /\ length \in Nat
    BY DEF IsTyped, ListTypeOK
  <2>5. s * num - to <= length
    BY <1>5, <2>4
  <2>6. QED
    BY <2>2, <2>3, <2>5
<1>7. ASSUME n = 0 PROVE posIndex' = 0 /\ posOffset' <= 0
  <2>1. index = 0 /\ offset = 0
    BY <1>4, <1>7 DEF ScrolledTo
  <2>2. f = 0 /\ o <= 0
    BY <1>4, <2>1
  <2>3. QED
    BY <1>4, <2>2
<1>8. QED
  BY <1>6, <1>7

\* Of items of one length that the list knows the last one is in full view at
\* factor 1, and the first one at factor 0.
THEOREM ShowsBothEnds == ListSpec => ScrollsToEnds
<1>1. ASSUME IsTyped, EvenInv, IsTyped', [ListNext]_listVars
      PROVE  [UpToDate /\ EvenItems =>
                /\ setScrollPosAsFactor(Steps) =>
                      Extent(data, posIndex', count) - posOffset' <= length
                /\ setScrollPosAsFactor(0) =>
                      posIndex' = 0 /\ posOffset' <= 0]_listVars
  <2>1. Steps \in 0 .. Steps /\ 0 \in 0 .. Steps
    BY ListAssumption
  <2>2. QED
    BY <1>1, <2>1, ScrollsToTheEnds
<1>2. QED
  BY <1>1, EvenFromFirst, PTL DEF ListSpec, ScrollsToEnds

\* The absolute value of m.
LEMMA MaxIsOneOfTwo ==
    ASSUME NEW m \in Int
    PROVE  Max({m, -m}) = m \/ Max({m, -m}) = -m
<1>1. \E x \in {m, -m} : \A y \in {m, -m} : x >= y
  <2>1. CASE m >= 0
    BY <2>1
  <2>2. CASE m <= 0
    BY <2>2
  <2>3. QED
    BY <2>1, <2>2
<1>2. Max({m, -m}) \in {m, -m}
  BY <1>1 DEF Max
<1>3. QED
  BY <1>2

\* What scrollFactor() returns is, not reduced, num * P / num * E, for the
\* position P and the position E that shows the tail.
LEMMA EvenFactor ==
    ASSUME IsTyped, IsTyped', EvenInv, EvenInv', UpToDate, EvenItems,
           NEW n \in 0 .. Steps, setScrollPosAsFactor(n),
           count > numTailItems'
    PROVE  LET f == scrollFactor'
               error == f[1] * Steps - n * f[2]
           IN 2 * Max({error, -error}) <= Steps * numTailItems'
<1>1. /\ UNCHANGED <<size, items, posted, provider, length>>
      /\ provider # NoProvider /\ count # 0 /\ length > 0
  BY DEF setScrollPosAsFactor
<1>2. UNCHANGED <<data, count, UpToDate, EvenItems>>
  BY <1>1 DEF data, count, UpToDate, EvenItems
<1>3. PICK s \in Nat \ {0} : EvenSize(s) /\ EvenState(s) /\ EvenState(s)'
  <2>1. PICK s \in Nat \ {0} : EvenSize(s)
    BY <1>1, EvenLength
  <2>2. EvenSize(s)'
    BY <1>1, <2>1 DEF EvenSize
  <2>3. QED
    BY <2>1, <2>2 DEF EvenInv
<1>4. PICK num \in Nat \ {0}, first \in Nat, to \in Int, index \in Nat,
           offset \in Int, f \in Nat, o \in Int :
           ScrollsTo(n, s, num, first, to, index, offset, f, o)
  BY <1>3, EvenScrollTo
<1>5. PICK S \in Nat \ {0}, l \in Nat, p \in Nat, q \in Int :
           S = Steps /\ l = length /\ l > 0 /\ p = posIndex' /\ q = posOffset'
  BY <1>1, ListAssumption DEF IsTyped, ListTypeOK
<1>6. /\ numTailItems' = num /\ firstTailItemOffset' = to
      /\ num <= count /\ first = count - num
      /\ first # 0 => children # << >> /\ Extent(data, 0, count) >= length
      /\ ScrolledTo(n, s, length, num, first, to, count, children, index,
                    offset)
      /\ \/ index < first /\ f = index /\ o = offset
         \/ /\ index = first /\ f = index
            /\ o = IF offset <= to THEN offset ELSE to
         \/ index > first /\ f = first /\ o = to
      /\ s * p + q = s * f + o
  BY <1>4, <1>5 DEF ScrollsTo
<1>7. first # 0
  <2>1. count \in Nat
    BY <1>1, DataIsSized DEF count, Sized
  <2>2. QED
    BY <1>6, <2>1
<1>8. children' # << >>
  <2>1. Extent(data, 0, count)' = Extent(data, 0, count)
    BY <1>1, <1>2, ExtentStays
  <2>2. Extent(data, 0, count)' >= length' /\ length' > 0
    BY <1>1, <1>6, <1>7, <2>1
  <2>3. CoversList' /\ UpToDate' /\ EvenItems'
    BY <1>2, <1>3 DEF EvenState
  <2>4. QED
    BY <2>2, <2>3 DEF CoversList
<1>9. /\ to >= 0 /\ s * num = l + to
      /\ index <= first
      /\ index = first => n = Steps
      /\ n = Steps => index = first /\ offset = to
      /\ 2 * (S * (s * index + offset) - n * (s * first + to)) <= S
      /\ 2 * (n * (s * first + to) - S * (s * index + offset)) <= S
  BY <1>5, <1>6, <1>7 DEF ScrolledTo
<1>10. f = index /\ o = offset
  <2>1. CASE index < first
    BY <1>6, <2>1
  <2>2. CASE index = first
    <3>1. offset = to
      BY <1>9, <2>2
    <3>2. QED
      BY <1>6, <2>2, <3>1
  <2>3. index <= first
    BY <1>9
  <2>4. QED
    BY <2>1, <2>2, <2>3
\* the factor, not reduced
<1>11. PICK P \in Int, E \in Int, k \in Int :
            /\ P = s * p + q /\ E = s * first + to
            /\ k = S * P - n * E
            /\ 2 * k <= S /\ 2 * (-k) <= S
  <2>1. PICK P \in Int, E \in Int : P = s * index + offset /\ E = s * first + to
    OBVIOUS
  <2>2. P = s * p + q
    BY <1>6, <1>10, <2>1
  <2>3. PICK a \in Int, b \in Int : a = S * P /\ b = n * E
    OBVIOUS
  <2>4. 2 * (a - b) <= S /\ 2 * (b - a) <= S
    BY <1>9, <2>1, <2>3
  <2>5. 2 * (-(a - b)) <= S
    BY <2>4
  <2>6. QED
    BY <2>1, <2>2, <2>3, <2>4, <2>5
<1>12. scrollFactor' = <<num * P, num * E>>
  <2>1. count' - numTailItems' = first /\ length' + firstTailItemOffset' = s * num
    BY <1>1, <1>2, <1>5, <1>6, <1>9
  <2>2. ~(s * num <= 0)
    BY <1>5, <1>9
  <2>3. scrollFactor' = <<p * (s * num) + q * num, first * (s * num) + to * num>>
    BY <1>5, <1>6, <1>7, <1>8, <2>1, <2>2 DEF scrollFactor
  <2>4. p * (s * num) + q * num = num * (s * p + q)
    OBVIOUS
  <2>5. first * (s * num) + to * num = num * (s * first + to)
    OBVIOUS
  <2>6. QED
    BY <1>11, <2>3, <2>4, <2>5
<1>13. PICK error \in Int : /\ error = (num * P) * S - n * (num * E)
                            /\ error = num * k
  <2>1. (num * P) * S = num * (S * P)
    OBVIOUS
  <2>2. n * (num * E) = num * (n * E)
    OBVIOUS
  <2>3. num * (S * P - n * E) = num * (S * P) - num * (n * E)
    OBVIOUS
  <2>4. num * k \in Int
    OBVIOUS
  <2>5. QED
    BY <1>11, <2>1, <2>2, <2>3, <2>4
<1>14. 2 * error <= S * num /\ 2 * (-error) <= S * num
  <2>1. num * (2 * k) <= num * S /\ num * (2 * (-k)) <= num * S
    BY <1>11
  <2>2. num * (2 * k) = 2 * (num * k) /\ num * (2 * (-k)) = 2 * (-(num * k))
    OBVIOUS
  <2>3. QED
    BY <1>13, <2>1, <2>2
<1>15. 2 * Max({error, -error}) <= S * num
  BY <1>14, MaxIsOneOfTwo
<1>16. LET g == scrollFactor'
       IN g[1] * Steps - n * g[2] = error
  BY <1>5, <1>12, <1>13
<1>17. QED
  BY <1>5, <1>6, <1>15, <1>16

\* When the items are of one length and the list knows them, scrollFactor()
\* gives back the factor that was set, up to the rounding of posOffset.
THEOREM KeepsTheFactor == ListSpec => FactorIsKept
<1>1. ASSUME IsTyped, EvenInv, IsTyped', EvenInv', [ListNext]_listVars
      PROVE  [\A n \in 0 .. Steps :
                UpToDate /\ EvenItems /\ setScrollPosAsFactor(n)
                        /\ count > numTailItems' =>
                    LET f == scrollFactor'
                        error == f[1] * Steps - n * f[2]
                    IN 2 * Max({error, -error})
                           <= Steps * numTailItems']_listVars
  BY <1>1, EvenFactor
<1>2. QED
  BY <1>1, EvenFromFirst, PTL DEF ListSpec, FactorIsKept
=============================================================================

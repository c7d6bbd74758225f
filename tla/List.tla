-------------------------------- MODULE List --------------------------------
(***************************************************************************)
(* The List widget (List.hpp, List.cpp): of a long sequence of items that  *)
(* an ItemsProvider knows it has widgets only for the ones in view.        *)
(*                                                                         *)
(* The provider is user code whose items may change at any time.  It tells *)
(* the list by a call that is posted to the UI thread, so the list works   *)
(* with an outdated picture for a while.  Lengths are integers, in the     *)
(* direction the list scrolls; vertical and horizontal lists are the same  *)
(* up to the direction of the axis.  Items are numbered from 0.            *)
(***************************************************************************)
EXTENDS Integers, SequencesExt, FiniteSetsExt

CONSTANTS
    Items,          \* what a provider has widgets for
    Sizes,          \* the lengths that the items' widgets may have
    Providers, NoProvider,
    InitialItems,   \* the items a provider may start with
    MaxCount,       \* the most items of a provider
    Lengths,        \* the lengths the list's rectangle may have
    Steps,          \* scroll factors are n / Steps
    MaxPosted,      \* the most calls waiting in the UI thread's queue
    NoIndex,        \* size_t(-1)
    FarScrolls      \* may one call scroll past all that is shown?

ASSUME ListAssumption ==
    /\ Sizes \subseteq [Items -> Nat \ {0}]
    /\ NoProvider \notin Providers
    /\ InitialItems \subseteq Seq(Items)
    /\ \A s \in InitialItems : Len(s) <= MaxCount
    /\ MaxCount \in Nat /\ MaxPosted \in Nat
    /\ Lengths \subseteq Nat
    /\ Steps \in Nat \ {0}
    /\ NoIndex \in Nat /\ NoIndex > 2 * MaxCount * Steps
    /\ FarScrolls \in BOOLEAN

VARIABLES
    size,           \* the length of each item's widget, which never changes
    items,          \* the sequence of items of each provider
    posted,         \* notifications in the queue of the UI thread
    provider,
    length,         \* of the list's rectangle
    children,       \* the widgets shown: each with the item it shows and
                    \* the index it was made for
    addedIndex,     \* the index of the first of them
    posIndex, posOffset,    \* the first item in view, and what is scrolled
                            \* away of it
    numTailItems, firstTailItemIndex, firstTailItemOffset,
    recycled        \* what the last operation gave back to the provider

tailVars  == <<numTailItems, firstTailItemIndex, firstTailItemOffset>>
shownVars == <<children, addedIndex, posIndex, posOffset, recycled>>
listVars == <<size, items, posted, provider, length, tailVars, shownVars>>

data  == items[provider]
count == Len(data)

\* The length of the items of d from number i up to, not including, number j.
Extent(d, i, j) ==
    LET upTo[k \in Nat] == IF k <= i THEN 0 ELSE upTo[k - 1] + size[d[k]]
    IN upTo[j]

\* Subtraction of size_t values.
Minus(m, n) == (m - n) % (NoIndex + 1)

-----------------------------------------------------------------------------
(* updateTailItemsInfo(): the items at the end of d that fill length l, *)
(* computed anew when numTailItems, here num, is 0                      *)

TailAligned(num, d, l) ==       \* mutant: the first tail item is never cut
    IF num # 0 \/ d = << >>
    THEN [num |-> num, first |-> firstTailItemIndex,
          offset |-> firstTailItemOffset]
    ELSE LET c == Len(d)
             n == Min({k \in 0 .. c : k = c \/ Extent(d, c - k, c) >= l})
         IN [num |-> n, first |-> c - n, offset |-> 0]

TailFor(num, d, l) ==
    IF num # 0 \/ d = << >>
    THEN [num |-> num, first |-> firstTailItemIndex,
          offset |-> firstTailItemOffset]
    ELSE LET c == Len(d)
             n == Min({k \in 0 .. c : k = c \/ Extent(d, c - k, c) >= l})
             extra == Extent(d, c - n, c) - l
         IN [num |-> n, first |-> c - n,
             offset |-> IF extra < 0 THEN -1 ELSE extra]

-----------------------------------------------------------------------------
(* updateChildrenList(), from position "index" and "offset", when the      *)
(* widgets in "kids" are shown and said to start at index "added"          *)

Unclamped(index, offset, tail) == <<index, offset>>     \* mutant: no limit

\* The position is not beyond the one that shows the tail.
Clamped(index, offset, tail) ==
    IF index < tail.first THEN <<index, offset>>
    ELSE IF index = tail.first THEN <<index, Min({offset, tail.offset})>>
    ELSE <<tail.first, tail.offset>>

NextWidget(i, d, kids, added) ==    \* mutant: off by one
    IF i - added + 2 \in DOMAIN kids THEN kids[i - added + 2]
    ELSE [index |-> i, item |-> d[i + 1]]

\* The widget for item i: the one that is said to show it, or a new one.
WidgetFor(i, d, kids, added) ==
    IF i - added + 1 \in DOMAIN kids THEN kids[i - added + 1]
    ELSE [index |-> i, item |-> d[i + 1]]

\* The loops, for items d and length l.
Arrange(d, l, from, kids, added) ==
    LET index == from[1]
        offset == from[2]
        \* widgets above the new position go first
        gone == IF added < index THEN Min({Len(kids), index - added}) ELSE 0
        kept == SubSeq(kids, gone + 1, Len(kids))
        start == added + gone
        \* the items whose widgets are arranged, old ones with their lengths
        arranged == [n \in DOMAIN d |->
                        WidgetFor(n - 1, d, kept, start).item]
        Right(i) == Extent(arranged, index, i + 1) - offset
        last == Min({i \in index .. Len(d) - 1 : Right(i) >= l}
                        \cup {Len(d) - 1})
        \* items whose widgets turn out to be before the list's rectangle
        before == {i \in index .. last : Right(i) <= 0}
        first == index + Cardinality(before)
        Widget(i) == WidgetFor(i, d, kept, start)
        oldBefore == {i \in before : i - start + 1 \in DOMAIN kept}
    IN /\ children' = [k \in 1 .. last - first + 1 |-> Widget(first + k - 1)]
       /\ addedIndex' = Min({start + Cardinality(oldBefore)} \cup
                            IF first <= last THEN {first} ELSE {})
       /\ posIndex' = first
       /\ posOffset' = offset - Extent(arranged, index, first)
       /\ recycled' = {<<added + k - 1, kids[k]>> : k \in 1 .. gone}
             \cup {<<i, Widget(i)>> : i \in before}
             \cup {<<start + k - 1, kept[k]>> :
                      k \in {j \in DOMAIN kept : start + j - 1 > last}}

updateChildrenList(index, offset, kids, added, num) ==
    IF provider' = NoProvider
    THEN /\ posIndex' = 0 /\ posOffset' = 0
         /\ children' = << >> /\ addedIndex' = NoIndex /\ recycled' = {}
         /\ numTailItems' = num
         /\ UNCHANGED <<firstTailItemIndex, firstTailItemOffset>>
    ELSE LET d == items'[provider']
             tail == TailFor(num, d, length')
         IN /\ numTailItems' = tail.num
            /\ firstTailItemIndex' = tail.first
            /\ firstTailItemOffset' = tail.offset
            /\ \E from \in {Clamped(index, offset, tail)} :
                   Arrange(d, length', from, kids, added)

-----------------------------------------------------------------------------
(* Calls from outside *)

\* layOut(), in particular when the list gets another length.
layOut(l) ==
    /\ length' = l
    /\ UNCHANGED <<size, items, posted, provider>>
    /\ updateChildrenList(posIndex, posOffset, children, addedIndex, 0)

\* The mean length of a tail item is (length + firstTailItemOffset) / num.
\* Before the first layout the code would divide by 0.
RoundDown(n, d) == n \div d         \* mutant: the fraction is cut off
Round(n, d) ==
    IF n < 0 THEN -((d - 2 * n) \div (2 * d)) ELSE (2 * n + d) \div (2 * d)

setScrollPosAsFactor(n) ==
    /\ provider # NoProvider /\ count # 0
    /\ length > 0
    /\ UNCHANGED <<size, items, posted, provider, length>>
    /\ LET tail == TailFor(numTailItems, data, length)
           above == Minus(count, tail.num)
           index == (n * above) \div Steps
           offset ==
               IF above = 0
               THEN Round(n * tail.offset, Steps)
               ELSE IF children = << >> THEN 0
               ELSE Round((length + tail.offset) * (n * above - index * Steps)
                              + n * tail.offset * tail.num,
                          Steps * tail.num)
       IN updateChildrenList(index, offset, children, addedIndex, numTailItems)
    /\ FarScrolls \/ posIndex' <= addedIndex + Len(children)

KeepWidgets ==                      \* mutant: no removeAll()
    updateChildrenList(posIndex, posOffset, children, addedIndex, 0)

\* What handleDataSetChanged() does, in the list, with nothing left to reuse.
Rebuild == updateChildrenList(posIndex, posOffset, << >>, NoIndex, 0)

\* A provider that still has a notification posted is not taken out of use:
\* the posted call would follow its null list pointer.
setItemsProvider(p) ==
    /\ p # provider
    /\ provider \notin ToSet(posted)
    /\ provider' = p
    /\ UNCHANGED <<size, items, posted, length>>
    /\ Rebuild

\* The program changes a provider's items and calls notifyDataSetChanged(),
\* which posts a call when the provider is in use.
notifyDataSetChanged(p) ==
    /\ posted' = IF provider = p THEN Append(posted, p) ELSE posted
    /\ Len(posted') <= MaxPosted

ItemAdded(p, i, x) ==
    /\ Len(items[p]) < MaxCount
    /\ items' = [items EXCEPT ![p] = InsertAt(@, i, x)]
    /\ notifyDataSetChanged(p)
    /\ UNCHANGED <<size, provider, length, tailVars, shownVars>>

ItemRemoved(p, i) ==
    /\ items' = [items EXCEPT ![p] = RemoveAt(@, i)]
    /\ notifyDataSetChanged(p)
    /\ UNCHANGED <<size, provider, length, tailVars, shownVars>>

\* The posted call runs.
handleDataSetChanged ==
    /\ posted # << >>
    /\ posted' = Tail(posted)
    /\ UNCHANGED <<size, items, provider, length>>
    /\ Rebuild

-----------------------------------------------------------------------------
ListInit ==
    /\ size \in Sizes
    /\ items \in [Providers -> InitialItems]
    /\ posted = << >> /\ provider = NoProvider
    /\ length = 0
    /\ children = << >> /\ addedIndex = NoIndex
    /\ posIndex = 0 /\ posOffset = 0
    /\ numTailItems = 0 /\ firstTailItemIndex = 0 /\ firstTailItemOffset = 0
    /\ recycled = {}

ListNext ==
    \/ \E l \in Lengths : layOut(l)
    \/ \E n \in 0 .. Steps : setScrollPosAsFactor(n)
    \/ \E p \in Providers \cup {NoProvider} : setItemsProvider(p)
    \/ \E p \in Providers :
           \/ \E i \in 1 .. Len(items[p]) + 1, x \in Items : ItemAdded(p, i, x)
           \/ \E i \in DOMAIN items[p] : ItemRemoved(p, i)
    \/ handleDataSetChanged

ListSpec == ListInit /\ [][ListNext]_listVars

-----------------------------------------------------------------------------
(* Properties *)

Widget == [index : Nat, item : Items]

ListTypeOK ==
    /\ items \in [Providers -> Seq(Items)]
    /\ posted \in Seq(Providers)
    /\ provider \in Providers \cup {NoProvider}
    /\ length \in Nat
    /\ children \in Seq(Widget) /\ addedIndex \in Nat
    /\ posIndex \in Nat /\ posOffset \in Int
    /\ numTailItems \in Nat /\ firstTailItemIndex \in Nat
    /\ firstTailItemOffset \in Nat \cup {-1}
    /\ recycled \subseteq Nat \X Widget

\* The list knows the provider's items: no change is yet to be told.
UpToDate == posted = << >> /\ provider # NoProvider

\* getWidget(): "Widget for the requested item."  What the list shows is a
\* stretch of the provider's items, in order, starting with the one at
\* posIndex.
ShowsItems ==
    UpToDate =>
        \A k \in DOMAIN children :
            children[k] = [index |-> posIndex + k - 1,
                           item |-> data[posIndex + k]]

\* recycle(): "index of item to recycle widget of".  What was got for an item
\* is given back as the widget of that item.
RecyclesWhatItGot == \A r \in recycled : r[1] = r[2].index

\* This is so as long as the list has been told of all changes but one.
RecyclesByIndex == Len(posted) <= 1 => RecyclesWhatItGot

EvenItems == \A x, y \in Items : size[x] = size[y]

\* When the items, all of the same length, fill the list, the widgets shown
\* cover it from end to end (but for the 1 that firstTailItemOffset = -1
\* may leave), however it was scrolled and whatever became of the items.
CoversList ==
    UpToDate /\ EvenItems /\ length > 0 /\ Extent(data, 0, count) >= length =>
        /\ posOffset >= -1
        /\ children # << >> /\ posOffset < size[children[1].item]
        /\ Extent(data, posIndex, posIndex + Len(children)) - posOffset >= length

\* The last item is in full view at factor 1, and the first one at factor 0.
ScrollsToEnds ==
    [][UpToDate /\ EvenItems =>
          /\ setScrollPosAsFactor(Steps) =>
                Extent(data, posIndex', count) - posOffset' <= length
          /\ setScrollPosAsFactor(0) =>
                posIndex' = 0 /\ posOffset' <= 0]_listVars

\* What scrollFactor() returns, a fraction.
scrollFactor ==
    LET above == count - numTailItems
        d == length + firstTailItemOffset       \* times numTailItems
    IN IF children = << >> \/ above = 0 \/ numTailItems = 0 \/ d <= 0
       THEN <<0, 1>>
       ELSE <<posIndex * d + posOffset * numTailItems,
              above * d + firstTailItemOffset * numTailItems>>

\* A scroll bar that is bound to the list stands where the list was scrolled
\* to: scrollFactor() gives back the factor that was set, up to the rounding
\* of posOffset.
FactorIsKept ==
    [][\A n \in 0 .. Steps :
          UpToDate /\ EvenItems /\ setScrollPosAsFactor(n)
                  /\ count > numTailItems' =>
              LET f == scrollFactor'
                  error == f[1] * Steps - n * f[2]
              IN 2 * Max({error, -error}) <= Steps * numTailItems']_listVars
=============================================================================

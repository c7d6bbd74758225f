------------------------------ MODULE TreeView ------------------------------
(***************************************************************************)
(* TreeView's ItemsProvider (TreeView.hpp, TreeView.cpp): it shows a tree  *)
(* of items, of which any subtree may be collapsed, as the flat sequence   *)
(* of items that the List inside the TreeView asks for by index.           *)
(*                                                                         *)
(* An item is named by its path: its number among its siblings, from 0,    *)
(* below the same of each of its parents.  << >> is the root, which is not *)
(* an item; as an iterator it is end().  The class Tree holds the items in *)
(* view; the items there are belong to the program that derives from       *)
(* ItemsProvider, and that says what it adds and removes.  Assertions are  *)
(* taken as they are in a release build: they do nothing.                  *)
(***************************************************************************)
EXTENDS Integers, SequencesExt, FiniteSetsExt

CONSTANTS MaxItems      \* the most items of the program

ASSUME TreeViewAssumption == MaxItems \in Nat

VARIABLES
    model,          \* the program's items: a set of paths
    size,           \* size_var of each node of visibleTree, by path
    iter,           \* the item that the list asked for last
    iterIndex       \* and its index

vars == <<model, size, iter, iterIndex>>

end == << >>
visible == DOMAIN size \ {<< >>}

ChildrenIn(paths, p) == {q \in paths : Len(q) = Len(p) + 1 /\ IsPrefix(p, q)}
count(p) == Cardinality(ChildrenIn(model, p))
numChildren(p) == Cardinality(ChildrenIn(visible, p))
Parent(p) == Front(p)

\* The order of std::vector, which for paths is the order in view.
Less(p, q) ==
    \/ IsStrictPrefix(p, q)
    \/ \E n \in DOMAIN p \cap DOMAIN q :
           p[n] < q[n] /\ \A m \in 1 .. n - 1 : p[m] = q[m]

Sibling(p, d) == [p EXCEPT ![Len(p)] = @ + d]

\* The path, after one is added at p, or the one at p is removed, of an item
\* that does not go with it.
Moved(q, p, d) ==
    IF Len(q) >= Len(p) /\ IsPrefix(Parent(p), q) /\ q[Len(p)] >= p[Len(p)]
    THEN [q EXCEPT ![Len(p)] = @ + d] ELSE q

-----------------------------------------------------------------------------
(* Tree::Iterator *)

begin == IF numChildren(<< >>) = 0 THEN end ELSE <<0>>

\* operator++
NextOf(p) ==
    IF p # end /\ numChildren(p) # 0 THEN Append(p, 0)
    ELSE LET up == {n \in DOMAIN p : Sibling(SubSeq(p, 1, n), 1) \in visible}
         IN IF up = {} THEN end ELSE Sibling(SubSeq(p, 1, Max(up)), 1)

\* operator--
PrevOf(p) ==
    LET last[q \in visible] ==
            IF numChildren(q) = 0 THEN q ELSE last[Append(q, numChildren(q) - 1)]
    IN IF p = end THEN end
       ELSE IF Last(p) = 0 THEN Parent(p)
       ELSE last[Sibling(p, -1)]

\* operator+= and operator-=
Advanced(p, d) ==
    LET after[n \in Nat]  == IF n = 0 THEN p ELSE NextOf(after[n - 1])
        before[n \in Nat] == IF n = 0 THEN p ELSE PrevOf(before[n - 1])
    IN IF d >= 0 THEN after[d] ELSE before[-d]

-----------------------------------------------------------------------------
(* Tree *)

\* pos(): it goes down as far as there are items.
pos(p) ==
    SubSeq(p, 1, Min({n \in DOMAIN p : SubSeq(p, 1, n) \notin visible}
                        \cup {Len(p)}))

KeepAncestors(p, n) ==          \* mutant: only the node's own size is set
    LET kept == {q \in DOMAIN size : ~IsStrictPrefix(p, q)}
        new == {Append(p, k) : k \in 0 .. n - 1}
    IN [q \in kept \cup new |->
           IF q = p THEN n ELSE IF q \in new THEN 0 ELSE size[q]]

\* removeAll() is the same with n = 0.
resetChildren(p, n) ==
    LET kept == {q \in DOMAIN size : ~IsStrictPrefix(p, q)}
        new == {Append(p, k) : k \in 0 .. n - 1}
    IN [q \in kept \cup new |->
           IF q \in new THEN 0
           ELSE IF IsPrefix(q, p) THEN size[q] - size[p] + n
           ELSE size[q]]

add(p) ==
    [q \in {Moved(r, p, 1) : r \in DOMAIN size} \cup {p} |->
        IF q = p THEN 0
        ELSE LET r == CHOOSE r \in DOMAIN size : Moved(r, p, 1) = q
             IN IF IsPrefix(q, p) THEN size[r] + 1 ELSE size[r]]

remove(p) ==
    LET kept == {r \in DOMAIN size : ~IsPrefix(p, r)}
    IN [q \in {Moved(r, p, -1) : r \in kept} |->
           LET r == CHOOSE r \in kept : Moved(r, p, -1) = q
           IN IF IsStrictPrefix(r, p) THEN size[r] - (size[p] + 1) ELSE size[r]]

correctIteratorAfterAddition(i, p) == Moved(i, p, 1)

StayAfterLast(i, p) ==          \* mutant: the loop at the end is missing
    IF IsPrefix(p, i) THEN p ELSE Moved(i, p, -1)

\* With the loop at the end, after the last child of a node was removed.
correctIteratorAfterDeletion(i, p) ==
    LET moved == IF IsPrefix(p, i) THEN p ELSE Moved(i, p, -1)
        up[q \in Seq(Nat)] ==
            IF q = end \/ q \in DOMAIN remove(p) THEN q
            ELSE IF Len(q) = 1 THEN end
            ELSE up[Sibling(Parent(q), 1)]
    IN up[moved]

-----------------------------------------------------------------------------
(* The list's calls *)

\* count(), which finds the tree empty after notifyDataSetChanged().
ListCounts ==
    /\ size[<< >>] = 0
    /\ size' = resetChildren(<< >>, count(<< >>))
    /\ iter' = begin' /\ iterIndex' = 0
    /\ UNCHANGED model

iterForIndex(k) ==
    /\ iter' = IF iter = end THEN Advanced(begin, k)
                             ELSE Advanced(iter, k - iterIndex)
    /\ iterIndex' = k

getWidget(k) ==
    /\ k < size[<< >>]
    /\ iterForIndex(k)
    /\ UNCHANGED <<model, size>>

\* The list may recycle a widget whose item is gone already.
recycle(k) ==
    /\ iterForIndex(k)
    /\ UNCHANGED <<model, size>>

-----------------------------------------------------------------------------
(* The program's calls *)

\* The n items in view from p on are about to go: where an iterator that is
\* not before them is moved to.
Left(p, n) ==
    LET steps[q \in {r \in visible : ~Less(r, p)}] ==
            IF q = p THEN 0 ELSE 1 + steps[PrevOf(q)]
    IN IF Less(iter, Sibling(p, 1))
       THEN [iter |-> p, iterIndex |-> iterIndex - steps[iter]]
       ELSE [iter |-> iter, iterIndex |-> iterIndex - n]

collapse(p) ==
    /\ IF Less(p, iter)
       THEN LET i == Left(p, size[p])
            IN iter' = i.iter /\ iterIndex' = i.iterIndex
       ELSE UNCHANGED <<iter, iterIndex>>
    /\ size' = resetChildren(p, 0)
    /\ UNCHANGED model

\* The program uncollapses what getWidget() was told is collapsed.
uncollapse(p) ==
    /\ count(p) # 0
    /\ numChildren(p) = 0
    /\ iterIndex' = IF Less(p, iter) THEN iterIndex + count(p) ELSE iterIndex
    /\ size' = resetChildren(p, count(p))
    /\ UNCHANGED <<model, iter>>

OnlyBetween(path) ==            \* mutant: >= for >
    LET p == pos(path)
    IN IF Last(p) >= numChildren(Parent(p)) \/ numChildren(Parent(p)) = 0
       THEN UNCHANGED <<size, iter, iterIndex>>
       ELSE /\ iterIndex' = IF iter = p \/ Less(p, iter)
                            THEN iterIndex + 1 ELSE iterIndex
            /\ size' = add(p)
            /\ iter' = correctIteratorAfterAddition(iter, p)

notifyItemAdded(path) ==
    LET p == pos(path)
    IN IF Last(p) > numChildren(Parent(p)) \/ numChildren(Parent(p)) = 0
       THEN UNCHANGED <<size, iter, iterIndex>>
       ELSE /\ iterIndex' = IF iter = p \/ Less(p, iter)
                            THEN iterIndex + 1 ELSE iterIndex
            /\ size' = add(p)
            /\ iter' = correctIteratorAfterAddition(iter, p)

notifyItemRemoved(p) ==
    LET i == IF iter = p \/ Less(p, iter) THEN Left(p, size[p] + 1)
             ELSE [iter |-> iter, iterIndex |-> iterIndex]
    IN /\ iterIndex' = i.iterIndex
       /\ size' = remove(p)
       /\ iter' = correctIteratorAfterDeletion(i.iter, p)

\* An item is added before the one at path, or as the last, and told of.
AddItem(path) ==
    /\ Cardinality(model) < MaxItems
    /\ model' = {Moved(q, path, 1) : q \in model} \cup {path}
    /\ notifyItemAdded(path)

\* One that is not in view, below a collapsed one, is not told of:
\* notifyItemRemoved() needs a path in the tree.
RemoveItem(p) ==
    /\ model' = {Moved(q, p, -1) : q \in {r \in model : ~IsPrefix(p, r)}}
    /\ IF p \in visible THEN notifyItemRemoved(p)
                        ELSE UNCHANGED <<size, iter, iterIndex>>

\* For changes of any kind: nothing is in view until the list counts again.
notifyDataSetChanged ==
    /\ model' \in {{}, model}
    /\ size' = resetChildren(<< >>, 0)
    /\ iter' = end /\ iterIndex' = 0

-----------------------------------------------------------------------------
\* iterIndex is not initialised.
Init ==
    /\ model = {}
    /\ size = [p \in {<< >>} |-> 0]
    /\ iter = end /\ iterIndex \in 0 .. MaxItems

Next ==
    \/ ListCounts
    \/ \E k \in 0 .. MaxItems : getWidget(k) \/ recycle(k)
    \/ \E p \in visible : collapse(p) \/ uncollapse(p)
    \/ \E p \in model \cup {<< >>} : AddItem(Append(p, count(p)))
    \/ \E p \in model : AddItem(p) \/ RemoveItem(p)
    \/ notifyDataSetChanged

Spec == Init /\ [][Next]_vars

-----------------------------------------------------------------------------
(* Properties *)

Path == Seq(Nat)

\* Numbers of the type size_t, iterIndex and the sizes, do not fall below 0.
TypeOK ==
    /\ model \subseteq Path
    /\ DOMAIN size \subseteq Path /\ << >> \in DOMAIN size
    /\ \A p \in DOMAIN size : size[p] \in Nat
    /\ iter \in Path /\ iterIndex \in Nat

\* The sizes that the nodes keep, each change of which is done in all nodes
\* above it, count the items in view below each node.
SizesCount ==
    \A p \in DOMAIN size :
        size[p] = Cardinality({q \in visible : IsStrictPrefix(p, q)})

\* Under each item in view either none or all of its items are in view, so
\* the program's items and the tree agree on every path that is in view.
AllOrNone ==
    \A p \in DOMAIN size :
        ChildrenIn(visible, p) \in {{}, ChildrenIn(model, p)}

Index(p) == Cardinality({q \in visible : Less(q, p)})

\* "cached values for faster lookup by index": the iterator that stays
\* between the list's calls is on an item in view and iterIndex is the index
\* of that item, whatever was collapsed, uncollapsed, added or removed.
IterAtIndex == iter # end => iter \in visible /\ Index(iter) = iterIndex

\* getWidget() dereferences the iterator: for every index below count(), which
\* is the size of the root, it gets to an item and not to the end.  This
\* follows from the sizes and the index, and is proved rather than run.
FindsItem == [][\A k \in 0 .. MaxItems : getWidget(k) => iter' # end]_vars

=============================================================================

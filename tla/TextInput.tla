------------------------------ MODULE TextInput ------------------------------
(***************************************************************************)
(* The editor of a TextInput: the text, the cursor and the selection, and  *)
(* the part of the text that is in view.  The text is drawn from character *)
(* firstVisibleCharIndex on, which begins at xOffset; positions are kept   *)
(* beside the indices they belong to and are used to draw only.            *)
(***************************************************************************)
EXTENDS Integers, SequencesExt

CONSTANTS
    Chars, Space,   \* the characters, and the one between words
    charAdvance,    \* the width of each character in the font
    CursorWidth,
    Widths,         \* the widths a layout may give to the widget
    UserCalls,      \* which methods the program calls
    MaxLength       \* the longest text

AllUserCalls ==
    {"setCursorIndex", "setText", "setTextLater", "resize", "focus"}

ASSUME TextInputAssumption ==
    /\ charAdvance \in [Chars -> Nat] /\ Space \in Chars
    /\ CursorWidth \in Nat /\ Widths \subseteq Nat
    /\ UserCalls \subseteq AllUserCalls /\ MaxLength \in Nat

VARIABLES
    text, cursorIndex, selectionStartIndex,
    firstVisibleCharIndex, xOffset,
    cursorPos, selectionStartPos,
    width,                      \* rect().d.x
    leftMouseButtonDown,
    pressed,                    \* the flags ctrlPressed and shiftPressed
    held,                       \* the modifier keys that are down
    focused                     \* isFocused()

view == <<firstVisibleCharIndex, xOffset, cursorPos, selectionStartPos>>
editor == <<text, cursorIndex, selectionStartIndex, view>>
keyboard == <<pressed, held, focused>>
vars == <<editor, width, leftMouseButtonDown, keyboard>>

Uninitialized == -100           \* cursorPos before the first setCursorIndex()
Modifiers == {"ctrl", "shift"}

-----------------------------------------------------------------------------
(* Positions.  A character of the text is named by the index before it. *)

\* The advance of the characters of t between the indices i and j.
Advance(t, i, j) ==
    LET sum[k \in i .. j] == IF k = i THEN 0
                             ELSE sum[k - 1] + charAdvance[t[k]]
    IN  sum[j]

\* The index i of t, if the text is drawn from index f on at offset o.
PosOf(t, f, o, i) == o + Advance(t, f, i)

indexToPos(t, f, o, w, i) ==
    IF i <= f THEN 0 ELSE Min({w, PosOf(t, f, o, Min({i, Len(t)}))})

\* Where a loop over indices stops: the set of the first or the last of S.
Least(S) == {i \in S : \A j \in S : i <= j}
Greatest(S) == {i \in S : \A j \in S : i >= j}

\* The index that a press at x designates: the loop passes each character
\* whose middle is not behind x.
LeftEdge(x) ==                      \* mutant: the edge of a character decides
    Least({Len(text)} \cup
          {i \in firstVisibleCharIndex .. (Len(text) - 1) :
              x < PosOf(text, firstVisibleCharIndex, xOffset, i + 1)})

posToIndex(x) ==
    Least({Len(text)} \cup
          {i \in firstVisibleCharIndex .. (Len(text) - 1) :
              2 * x < 2 * PosOf(text, firstVisibleCharIndex, xOffset, i)
                        + charAdvance[text[i + 1]]})

-----------------------------------------------------------------------------
(* setCursorIndex() *)

\* Where the walk back from index c ends: the first index at which what is
\* between it and c fills the widget up to the cursor at its right edge.
LeftmostShown(t, c) ==
    Greatest({i \in 0 .. c : Advance(t, i, c) >= width - CursorWidth})

ScrollToCursor(t, c) ==
    LET pos == PosOf(t, firstVisibleCharIndex, xOffset, c)
        rightmost == width - CursorWidth
    IN  \/ /\ c <= firstVisibleCharIndex
           /\ firstVisibleCharIndex' = c /\ xOffset' = 0 /\ cursorPos' = 0
        \/ /\ c > firstVisibleCharIndex /\ pos <= rightmost
           /\ cursorPos' = pos
           /\ UNCHANGED <<firstVisibleCharIndex, xOffset>>
        \/ /\ c > firstVisibleCharIndex /\ pos > rightmost
           /\ cursorPos' = rightmost
           /\ firstVisibleCharIndex' \in LeftmostShown(t, c)
           /\ xOffset' = rightmost - Advance(t, firstVisibleCharIndex', c)

\* The text becomes t, and setCursorIndex(index, selection) is called when
\* selectionStartIndex is start.
PutCursor(t, index, start, selection) ==
    LET c == IF index > Len(t) THEN Len(t) ELSE index
    IN  /\ text' = t
        /\ cursorIndex' = c
        /\ selectionStartIndex' = IF selection THEN start ELSE c
        /\ ScrollToCursor(t, c)
        /\ selectionStartPos' = indexToPos(t, firstVisibleCharIndex',
                                   xOffset', width, selectionStartIndex')
        /\ focused' = TRUE
        /\ pressed' = IF focused THEN pressed ELSE {}

MoveCursor(index, selection) ==
    /\ PutCursor(text, index, selectionStartIndex, selection)
    /\ UNCHANGED <<width, held>>

thereIsSelection == cursorIndex # selectionStartIndex

-----------------------------------------------------------------------------
(* The mouse.  A pointer that pressed is followed outside of the widget. *)

onMouseButton(isDown, x) ==
    /\ leftMouseButtonDown' = isDown
    /\ IF isDown THEN \E i \in posToIndex(x) : MoveCursor(i, FALSE)
       ELSE UNCHANGED <<editor, width, keyboard>>

onMouseMove(x) ==
    /\ leftMouseButtonDown
    /\ \E i \in posToIndex(x) : MoveCursor(i, TRUE)
    /\ UNCHANGED leftMouseButtonDown

-----------------------------------------------------------------------------
(* Keys: a modifier goes down or up; the widget is told if it is focused. *)

onKey(k) ==
    /\ held' = IF k \in held THEN held \ {k} ELSE held \cup {k}
    /\ pressed' = IF ~focused THEN pressed
                  ELSE (pressed \ {k}) \cup (held' \cap {k})
    /\ UNCHANGED <<editor, width, leftMouseButtonDown, focused>>

FlagsAreKept(is) ==                 \* mutant: flags survive a loss of focus
    /\ focused' = is
    /\ UNCHANGED <<editor, width, leftMouseButtonDown, pressed, held>>

onFocusChanged(is) ==
    /\ focused' = is
    /\ pressed' = IF is THEN {} ELSE pressed
    /\ UNCHANGED <<editor, width, leftMouseButtonDown, held>>

-----------------------------------------------------------------------------
(* onCharacterInput(), which only a focused widget gets *)

Input == focused /\ UNCHANGED <<width, leftMouseButtonDown, held>>
shiftPressed == "shift" \in pressed
ctrlPressed == "ctrl" \in pressed

\* The end of the next word and the beginning of the one before.
NextWord ==
    Least({Len(text)} \cup
          {i \in cursorIndex .. (Len(text) - 1) :
              /\ text[i + 1] = Space
              /\ \E k \in (cursorIndex + 1) .. i : text[k] # Space})

PreviousWord ==
    Greatest({0} \cup
             {i \in 1 .. cursorIndex :
                 /\ text[i] = Space
                 /\ \E k \in (i + 1) .. cursorIndex : text[k] # Space})

Move(i) == PutCursor(text, i, selectionStartIndex, shiftPressed)

Right ==
    /\ Input /\ cursorIndex # Len(text)
    /\ \E i \in IF ctrlPressed THEN NextWord ELSE {cursorIndex + 1} : Move(i)

Left ==
    /\ Input /\ cursorIndex # 0
    /\ \E i \in IF ctrlPressed THEN PreviousWord ELSE {cursorIndex - 1} :
           Move(i)

End == Input /\ Move(Len(text))
Home == Input /\ Move(0)

\* The text without what is between the indices i and j.
Without(i, j) == SubSeq(text, 1, i) \o SubSeq(text, j + 1, Len(text))

SelectionStart ==
    IF cursorIndex < selectionStartIndex THEN cursorIndex
    ELSE selectionStartIndex
SelectionEnd ==
    IF cursorIndex < selectionStartIndex THEN selectionStartIndex
    ELSE cursorIndex
deleteSelection == Without(SelectionStart, SelectionEnd)

Backspace ==
    /\ Input
    /\ \/ /\ thereIsSelection
          /\ PutCursor(deleteSelection, SelectionStart, 0, FALSE)
       \/ /\ ~thereIsSelection /\ cursorIndex # 0
          /\ PutCursor(Without(cursorIndex - 1, cursorIndex),
                       cursorIndex - 1, 0, FALSE)

DeleteOnly ==                       \* mutant: the cursor is left behind
    /\ Input
    /\ IF thereIsSelection THEN text' = deleteSelection
       ELSE /\ cursorIndex < Len(text)
            /\ text' = Without(cursorIndex, cursorIndex + 1)
    /\ UNCHANGED <<cursorIndex, selectionStartIndex, view, focused, pressed>>

Delete ==
    /\ Input
    /\ \/ /\ thereIsSelection
          /\ PutCursor(deleteSelection, SelectionStart, 0, FALSE)
       \/ /\ ~thereIsSelection /\ cursorIndex < Len(text)
          /\ text' = Without(cursorIndex, cursorIndex + 1)
          /\ UNCHANGED <<cursorIndex, selectionStartIndex, view,
                         focused, pressed>>

SelectAll ==
    /\ Input /\ ctrlPressed
    /\ PutCursor(text, Len(text), 0, TRUE)

\* The characters s are typed: they take the place of the selection.
Type(s) ==
    LET i == SelectionStart
        rest == IF thereIsSelection THEN deleteSelection ELSE text
    IN  /\ Input /\ Len(rest) + Len(s) <= MaxLength
        /\ PutCursor(SubSeq(rest, 1, i) \o s \o
                         SubSeq(rest, i + 1, Len(rest)),
                     i + Len(s), 0, FALSE)

-----------------------------------------------------------------------------
(* Calls of the program, and layouts *)

setCursorIndex(i, selection) ==
    /\ "setCursorIndex" \in UserCalls
    /\ MoveCursor(i, selection)
    /\ UNCHANGED leftMouseButtonDown

\* The program sets the text; nothing puts the indices back.
setText(t) ==
    /\ \/ /\ "setText" \in UserCalls
          /\ cursorIndex = 0 /\ selectionStartIndex = 0
       \/ "setTextLater" \in UserCalls
    /\ text' = t
    /\ UNCHANGED <<cursorIndex, selectionStartIndex, view, width,
                   leftMouseButtonDown, keyboard>>

StartIsLeft(w) ==                   \* mutant: the selection is not redrawn
    /\ "resize" \in UserCalls /\ w # width
    /\ width' = w
    /\ UNCHANGED <<editor, leftMouseButtonDown, keyboard>>

onResize(w) ==
    /\ "resize" \in UserCalls /\ w # width
    /\ width' = w
    /\ selectionStartPos' = indexToPos(text, firstVisibleCharIndex, xOffset,
                                       w, selectionStartIndex)
    /\ UNCHANGED <<text, cursorIndex, selectionStartIndex, cursorPos,
                   firstVisibleCharIndex, xOffset, leftMouseButtonDown,
                   keyboard>>

focus(is) ==
    /\ "focus" \in UserCalls /\ is # focused
    /\ onFocusChanged(is)

-----------------------------------------------------------------------------
Texts == SeqOf(Chars, MaxLength)

Init ==
    /\ text \in Texts /\ width \in Widths
    /\ cursorIndex = 0 /\ selectionStartIndex = 0
    /\ firstVisibleCharIndex = 0 /\ xOffset = 0
    /\ cursorPos = Uninitialized /\ selectionStartPos = 0
    /\ leftMouseButtonDown = FALSE
    /\ pressed = {} /\ held = {} /\ focused = FALSE

Mouse ==
    \/ \E x \in 0 .. (width - 1) : onMouseButton(TRUE, x)
    \/ leftMouseButtonDown /\ onMouseButton(FALSE, 0)
    \/ \E x \in -1 .. (width + 1) : onMouseMove(x)

CharacterInput ==
    \/ Right \/ Left \/ End \/ Home \/ Backspace \/ Delete \/ SelectAll
    \/ \E c \in Chars : Type(<< c >>)

Program ==
    \/ \E i \in 0 .. (MaxLength + 1), s \in BOOLEAN : setCursorIndex(i, s)
    \/ \E t \in Texts : setText(t)
    \/ \E w \in Widths : onResize(w)
    \/ \E is \in BOOLEAN : focus(is)

Next ==
    \/ Mouse \/ CharacterInput \/ Program
    \/ \E k \in Modifiers : onKey(k)

Spec == Init /\ [][Next]_vars

-----------------------------------------------------------------------------
(* Properties *)

TypeOK ==
    /\ text \in Seq(Chars) /\ width \in Nat
    /\ cursorIndex \in Nat /\ selectionStartIndex \in Nat
    /\ firstVisibleCharIndex \in Nat
    /\ leftMouseButtonDown \in BOOLEAN /\ focused \in BOOLEAN
    /\ pressed \subseteq Modifiers /\ held \subseteq Modifiers

\* Whatever is typed, deleted, selected or clicked, the cursor and the
\* selection are within the text and the cursor is not left of what is drawn:
\* the assertions of render() and of setCursorIndex() hold, and neither
\* erase() nor insert() is called behind the end of the text.
CursorInText ==
    /\ firstVisibleCharIndex <= cursorIndex /\ cursorIndex <= Len(text)
    /\ selectionStartIndex <= Len(text)

\* The cursor and the start of the selection are drawn where the text has
\* their indices, though only some of what changes the text or the view
\* computes their positions again.  The text begins at the left edge or before
\* it: there is no gap, and the walk back never runs out of characters.
DrawnAtIndex ==
    /\ xOffset <= 0
    /\ cursorPos # Uninitialized =>
           cursorPos = IF cursorIndex = firstVisibleCharIndex THEN 0
                       ELSE PosOf(text, firstVisibleCharIndex, xOffset,
                                  cursorIndex)
    /\ selectionStartPos = indexToPos(text, firstVisibleCharIndex, xOffset,
                                      width, selectionStartIndex)

\* A press puts the cursor at the index nearest to it, whatever is in view.
PressHitsNearest ==
    LET indices == firstVisibleCharIndex .. Len(text)
        edge == [k \in indices |->
                    PosOf(text, firstVisibleCharIndex, xOffset, k)]
        Distance(x, k) == IF edge[k] < x THEN x - edge[k] ELSE edge[k] - x
    IN  \A x \in 0 .. (width - 1) : \A i \in posToIndex(x), j \in indices :
            Distance(x, i) <= Distance(x, j)

\* A flag says that its key is down only if it is, though keys are released
\* while other widgets have the focus.
FlagsFollowKeys == focused => pressed \subseteq held

=============================================================================

---------------------------- MODULE MouseDispatch ----------------------------
(***************************************************************************)
(* How a tree of widgets handles the events of the mouse: Morda's entry    *)
(* points, Container::onMouseButton(), onMouseMove() and onHoverChanged(), *)
(* and the Widget members they use.                                        *)
(*                                                                         *)
(* A mouse event is handled by a chain of nested virtual calls, which the  *)
(* variable stack holds.  Every call of a method of a widget that is no    *)
(* container runs user code, and user code may change the tree and the     *)
(* widgets before it returns.                                              *)
(***************************************************************************)
EXTENDS Naturals, SequencesExt, FiniteSets

CONSTANTS
    Widgets,        \* the widgets of the program
    Root,           \* the root widget, a container
    Containers,     \* the widgets that are containers
    NoWidget,
    Pointers,       \* IDs of mouse pointers
    InitialChildren, \* the children the containers start with
    Programs,       \* the programs to look at: what user code calls of which
                    \* widgets, the pointers the user has, and how many
                    \* buttons of each are held down at a time at most
    Nested          \* does every widget lie inside its parent?

AllUserCalls ==
    {"add", "remove", "makeTopmost", "setVisible", "setEnabled", "move",
     "destroy", "layOut"}

ASSUME MouseAssumption ==
    /\ Root \in Containers /\ Containers \subseteq Widgets
    /\ NoWidget \notin Widgets
    /\ Pointers # {}
    /\ InitialChildren \in [Containers -> Seq(Widgets \ {Root})]
    /\ \A c \in Containers \ {Root} :
           ToSet(InitialChildren[c]) \cap Containers = {}
    /\ \A c, d \in Containers : \A i \in 1 .. Len(InitialChildren[c]) :
           \A j \in 1 .. Len(InitialChildren[d]) :
               InitialChildren[c][i] = InitialChildren[d][j] => c = d /\ i = j
    /\ Programs \subseteq [calls : SUBSET (AllUserCalls \X Widgets),
                           pointers : SUBSET Pointers, clicks : Nat]
    /\ \A pr \in Programs : \A c \in pr.calls : c[2] = Root => c[1] = "layOut"
    /\ Nested \in BOOLEAN

VARIABLES
    program,            \* the program that runs
    children,           \* of each container
    isBlocked,          \* of each container
    mouseCaptureMap,    \* of each container: for each pointer, who captures
    hovered,            \* of each widget: the pointers that hover it
    visible, enabled,   \* the widgets that are
    alive,              \* the widgets that are not destroyed
    stack,              \* the calls in progress, the innermost one last
    event,              \* the event being handled
    under,              \* the widgets whose rectangle holds its position
    consumed,           \* what the last onMouse...() call returned
    down,               \* of each pointer: the buttons held down
    owed                \* of each widget and pointer: presses it took and
                        \* saw no release for

treeVars  == <<children, visible, enabled, alive>>
inputVars == <<event, down>>
vars == <<program, treeVars, isBlocked, mouseCaptureMap, hovered, stack, under,
          consumed, inputVars, owed>>

-----------------------------------------------------------------------------
(* Widgets *)

Interactive(w) == w \in visible /\ w \in enabled
IsChild(w, c) == w \in ToSet(children[c])
HasParent(w) == \E c \in Containers : IsChild(w, c)

\* Widgets that can be reached from the root by going down from parents to
\* children.  (Containers other than the root have no containers in them.)
InTree(w) ==
    \/ w = Root
    \/ \E c \in Containers : IsChild(w, c) /\ (c = Root \/ IsChild(c, Root))

-----------------------------------------------------------------------------
(* The call stack *)

NoEvent ==
    [kind |-> "none", isDown |-> FALSE, by |-> CHOOSE p \in Pointers : TRUE]
pointer == event.by

\* A call of method m of widget w that is about to start: "at" is the
\* position of its loop over children.
Call(m, w) ==
    [proc |-> IF w \in Containers THEN m ELSE "user",
     of |-> w, at |-> 0,
     pc |-> IF w \in Containers THEN "enter" ELSE m]

Top == Last(stack)
InCall(m, pc) == stack # << >> /\ Top.proc = m /\ Top.pc = pc
Iterated == children[Top.of]            \* the list the innermost call reads
Child == Iterated[Top.at]

\* The innermost call goes on at pc with the child at position i, after the
\* calls in cs have been made.
Continue(pc, i, cs) ==
    stack' = Append(Front(stack), [Top EXCEPT !.pc = pc, !.at = i]) \o cs

\* The innermost call, a loop over a container's children, returns: the
\* destructor of its BlockedFlagGuard runs.
LeaveLoop ==
    /\ stack' = Front(stack)
    /\ isBlocked' = [isBlocked EXCEPT ![Top.of] = FALSE]

-----------------------------------------------------------------------------
(* Widget::setHovered(): the new value of hovered, and the call it makes *)

HoverSet(w, is) ==
    [hovered EXCEPT ![w] = IF is THEN @ \cup {pointer} ELSE @ \ {pointer}]

\* Container::onHoverChanged() does nothing when the container is hovered now.
HoverCall(w, is) ==
    IF (pointer \in hovered[w]) = is \/ (is /\ w \in Containers) THEN << >>
    ELSE << Call("onHoverChanged", w) >>

-----------------------------------------------------------------------------
(* Container::onHoverChanged() of a container that is hovered no more *)

HoverChangedEnter ==
    /\ InCall("onHoverChanged", "enter")
    /\ isBlocked' = [isBlocked EXCEPT ![Top.of] = TRUE]
    /\ Continue("loop", 1, << >>)
    /\ UNCHANGED <<treeVars, mouseCaptureMap, hovered, under, consumed,
                   inputVars, owed>>

ChildrenStayHovered ==      \* mutant: the children are not un-hovered
    /\ InCall("onHoverChanged", "loop")
    /\ LeaveLoop
    /\ UNCHANGED <<treeVars, hovered, mouseCaptureMap, under, consumed,
                   inputVars, owed>>

HoverChangedLoop ==
    /\ InCall("onHoverChanged", "loop")
    /\ IF Top.at <= Len(Iterated)
       THEN /\ hovered' = HoverSet(Child, FALSE)
            /\ Continue("loop", Top.at + 1, HoverCall(Child, FALSE))
            /\ UNCHANGED isBlocked
       ELSE LeaveLoop /\ UNCHANGED hovered
    /\ UNCHANGED <<treeVars, mouseCaptureMap, under, consumed, inputVars,
                   owed>>

-----------------------------------------------------------------------------
(* Container::onMouseMove() *)

MoveEnter ==
    /\ InCall("onMouseMove", "enter")
    /\ isBlocked' = [isBlocked EXCEPT ![Top.of] = TRUE]
    /\ Continue("loop", Len(Iterated), << >>)
    /\ UNCHANGED <<treeVars, mouseCaptureMap, hovered, under, consumed,
                   inputVars, owed>>

\* Each child, from the topmost one down, gets the event wherever it is.
MoveLoop ==
    /\ InCall("onMouseMove", "loop")
    /\ IF Top.at = 0
       THEN LeaveLoop /\ consumed' = FALSE
       ELSE /\ IF Interactive(Child)
               THEN Continue("moved", Top.at, << Call("onMouseMove", Child) >>)
               ELSE Continue("loop", Top.at - 1, << >>)
            /\ UNCHANGED <<isBlocked, consumed>>
    /\ UNCHANGED <<treeVars, mouseCaptureMap, hovered, under, inputVars, owed>>

RestLeftAlone ==            \* mutant: the rest is not un-hovered
    /\ InCall("onMouseMove", "moved")
    /\ LET is == Child \in under
       IN /\ hovered' = HoverSet(Child, is)
          /\ Continue(IF is /\ consumed THEN "rest" ELSE "loop",
                      IF is /\ consumed THEN 0 ELSE Top.at - 1,
                      HoverCall(Child, is))
    /\ UNCHANGED <<treeVars, isBlocked, mouseCaptureMap, under, consumed,
                   inputVars, owed>>

\* The child's method has returned: is the child hovered now?
Moved ==
    /\ InCall("onMouseMove", "moved")
    /\ LET is == Child \in under
       IN /\ hovered' = HoverSet(Child, is)
          /\ Continue(IF is /\ consumed THEN "rest" ELSE "loop", Top.at - 1,
                      HoverCall(Child, is))
    /\ UNCHANGED <<treeVars, isBlocked, mouseCaptureMap, under, consumed,
                   inputVars, owed>>

\* The event was consumed: un-hover the rest of the children.
MoveRest ==
    /\ InCall("onMouseMove", "rest")
    /\ IF Top.at = 0
       THEN LeaveLoop /\ consumed' = TRUE /\ UNCHANGED hovered
       ELSE /\ hovered' = HoverSet(Child, FALSE)
            /\ Continue("rest", Top.at - 1, HoverCall(Child, FALSE))
            /\ UNCHANGED <<isBlocked, consumed>>
    /\ UNCHANGED <<treeVars, mouseCaptureMap, under, inputVars, owed>>

-----------------------------------------------------------------------------
(* Container::onMouseButton() *)

NoCapture == [by |-> NoWidget, clicks |-> 0]
Capture == mouseCaptureMap[Top.of][pointer]
SetCapture(c) ==
    mouseCaptureMap' = [mouseCaptureMap EXCEPT ![Top.of][pointer] = c]

(* Three mutants of ButtonEnter *)
NotBlocked ==               \* mutant: no BlockedFlagGuard
    /\ InCall("onMouseButton", "enter")
    /\ LET w == Capture.by
           is == w \in under
       IN IF w \in alive
          THEN /\ hovered' = HoverSet(w, is)
               /\ Continue("captured", 0, HoverCall(w, is))
               /\ UNCHANGED mouseCaptureMap
          ELSE /\ SetCapture(NoCapture)
               /\ Continue("loop", Len(Iterated), << >>)
               /\ UNCHANGED hovered
    /\ UNCHANGED <<treeVars, isBlocked, under, consumed, inputVars, owed>>

CaptureInside ==            \* mutant: the widget has to be under the pointer
    /\ InCall("onMouseButton", "enter")
    /\ isBlocked' = [isBlocked EXCEPT ![Top.of] = TRUE]
    /\ LET w == Capture.by
           is == w \in under
       IN IF w \in alive /\ is
          THEN /\ hovered' = HoverSet(w, is)
               /\ Continue("captured", 0, HoverCall(w, is))
               /\ UNCHANGED mouseCaptureMap
          ELSE /\ SetCapture(NoCapture)
               /\ Continue("loop", Len(Iterated), << >>)
               /\ UNCHANGED hovered
    /\ UNCHANGED <<treeVars, under, consumed, inputVars, owed>>

DeadStaysCaptured ==        \* mutant: the dead widget's entry is kept
    /\ InCall("onMouseButton", "enter")
    /\ isBlocked' = [isBlocked EXCEPT ![Top.of] = TRUE]
    /\ LET w == Capture.by
           is == w \in under
       IN IF w \in alive
          THEN /\ hovered' = HoverSet(w, is)
               /\ Continue("captured", 0, HoverCall(w, is))
               /\ UNCHANGED mouseCaptureMap
          ELSE /\ UNCHANGED mouseCaptureMap
               /\ Continue("loop", Len(Iterated), << >>)
               /\ UNCHANGED hovered
    /\ UNCHANGED <<treeVars, under, consumed, inputVars, owed>>

\* The captured pointer's widget gets the event, unless it was destroyed.
ButtonEnter ==
    /\ InCall("onMouseButton", "enter")
    /\ isBlocked' = [isBlocked EXCEPT ![Top.of] = TRUE]
    /\ LET w == Capture.by
           is == w \in under
       IN IF w \in alive
          THEN /\ hovered' = HoverSet(w, is)
               /\ Continue("captured", 0, HoverCall(w, is))
               /\ UNCHANGED mouseCaptureMap
          ELSE /\ SetCapture(NoCapture)
               /\ Continue("loop", Len(Iterated), << >>)
               /\ UNCHANGED hovered
    /\ UNCHANGED <<treeVars, under, consumed, inputVars, owed>>

ButtonCaptured ==
    /\ InCall("onMouseButton", "captured")
    /\ Continue("count", 0, << Call("onMouseButton", Capture.by) >>)
    /\ UNCHANGED <<treeVars, isBlocked, mouseCaptureMap, hovered, under,
                   consumed, inputVars, owed>>

NeverErased ==              \* mutant: the entry stays when no click is left
    /\ InCall("onMouseButton", "count")
    /\ SetCapture([Capture EXCEPT
           !.clicks = IF event.isDown THEN @ + 1 ELSE @ - 1])
    /\ consumed' = TRUE
    /\ LeaveLoop
    /\ UNCHANGED <<treeVars, hovered, under, inputVars, owed>>

ButtonCount ==
    /\ InCall("onMouseButton", "count")
    /\ LET n == IF event.isDown THEN Capture.clicks + 1
                ELSE Capture.clicks - 1
       IN SetCapture(IF n = 0 THEN NoCapture
                     ELSE [Capture EXCEPT !.clicks = n])
    /\ consumed' = TRUE
    /\ LeaveLoop
    /\ UNCHANGED <<treeVars, hovered, under, inputVars, owed>>

\* The topmost interactive child at the position is tried next.
ButtonLoop ==
    /\ InCall("onMouseButton", "loop")
    /\ IF Top.at = 0
       THEN LeaveLoop /\ consumed' = FALSE /\ UNCHANGED hovered
       ELSE /\ IF Interactive(Child) /\ Child \in under
               THEN /\ hovered' = HoverSet(Child, TRUE)
                    /\ Continue("hovered", Top.at, HoverCall(Child, TRUE))
               ELSE /\ Continue("loop", Top.at - 1, << >>)
                    /\ UNCHANGED hovered
            /\ UNCHANGED <<isBlocked, consumed>>
    /\ UNCHANGED <<treeVars, mouseCaptureMap, under, inputVars, owed>>

ButtonHovered ==
    /\ InCall("onMouseButton", "hovered")
    /\ Continue("tried", Top.at, << Call("onMouseButton", Child) >>)
    /\ UNCHANGED <<treeVars, isBlocked, mouseCaptureMap, hovered, under,
                   consumed, inputVars, owed>>

\* A child that consumes a press captures the pointer.
ButtonTried ==
    /\ InCall("onMouseButton", "tried")
    /\ IF consumed
       THEN /\ LeaveLoop
            /\ IF event.isDown /\ Capture = NoCapture
               THEN SetCapture([by |-> Child, clicks |-> 1])
               ELSE UNCHANGED mouseCaptureMap
       ELSE /\ Continue("loop", Top.at - 1, << >>)
            /\ UNCHANGED <<isBlocked, mouseCaptureMap>>
    /\ UNCHANGED <<treeVars, hovered, under, consumed, inputVars, owed>>

-----------------------------------------------------------------------------
(* The sets of widgets that can be under a pointer at the same time *)

Positions ==
    IF Nested THEN {S \in SUBSET Widgets : \A c \in Containers :
                        \A w \in S : IsChild(w, c) => c \in S}
    ELSE SUBSET Widgets

-----------------------------------------------------------------------------
(* User code: the method of a widget that is no container, or a handler of *)
(* anything else when no mouse event is being handled                      *)

InUserCode == stack # << >> /\ Top.proc = "user"
UserCodeRuns(call, w) ==
    (event = NoEvent \/ InUserCode) /\ <<call, w>> \in program.calls

\* What user code calls changes no call in progress and no bookkeeping of
\* the mouse events, unless said otherwise.
UserCall == UNCHANGED <<mouseCaptureMap, stack, consumed, inputVars, owed>>

\* Container::remove(), setUnhovered() included.  It throws when isBlocked.
remove(c, w) ==
    /\ UserCodeRuns("remove", w)
    /\ IsChild(w, c) /\ ~isBlocked[c]
    /\ children' = [children EXCEPT ![c] = RemoveFirst(@, w)]
    /\ hovered' = [hovered EXCEPT ![w] = {}]
    /\ UserCall /\ UNCHANGED <<visible, enabled, alive, isBlocked, under>>

\* Container::add() before position i or at the end.  Containers are only
\* added to the root, which bounds the depth of the tree.
add(c, w, i) ==
    /\ UserCodeRuns("add", w) /\ w \in alive \ {c}
    /\ w \in Containers => c = Root
    /\ ~HasParent(w) /\ ~isBlocked[c]
    /\ i \in 1 .. Len(children[c]) + 1
    /\ children' = [children EXCEPT ![c] = InsertAt(@, i, w)]
    /\ UserCall
    /\ UNCHANGED <<visible, enabled, alive, isBlocked, hovered, under>>

\* Widget::makeTopmost() removes the widget and adds it as the last child.
makeTopmost(c, w) ==
    /\ UserCodeRuns("makeTopmost", w)
    /\ IsChild(w, c) /\ Last(children[c]) # w /\ ~isBlocked[c]
    /\ children' = [children EXCEPT ![c] = Append(RemoveFirst(@, w), w)]
    /\ hovered' = [hovered EXCEPT ![w] = {}]
    /\ UserCall /\ UNCHANGED <<visible, enabled, alive, isBlocked, under>>

setVisible(w) ==
    /\ UserCodeRuns("setVisible", w)
    /\ IF w \in visible
       THEN visible' = visible \ {w} /\ hovered' = [hovered EXCEPT ![w] = {}]
       ELSE visible' = visible \cup {w} /\ UNCHANGED hovered
    /\ UserCall /\ UNCHANGED <<children, enabled, alive, isBlocked, under>>

setEnabled(w) ==
    /\ UserCodeRuns("setEnabled", w)
    /\ enabled' = IF w \in enabled THEN enabled \ {w} ELSE enabled \cup {w}
    /\ UserCall
    /\ UNCHANGED <<children, visible, alive, isBlocked, hovered, under>>

\* The last reference to a widget without a parent is dropped.
destroy(w) ==
    /\ UserCodeRuns("destroy", w) /\ w \in alive \ Containers
    /\ ~HasParent(w) /\ \A i \in DOMAIN stack : stack[i].of # w
    /\ alive' = alive \ {w}
    /\ UserCall
    /\ UNCHANGED <<children, visible, enabled, isBlocked, hovered, under>>

\* A widget moves or resizes itself when it gets the event.
move(w) ==
    /\ UserCodeRuns("move", w) /\ InUserCode
    /\ Top.of = w /\ Top.pc # "onHoverChanged"
    /\ under' = IF w \in under THEN under \ {w} ELSE under \cup {w}
    /\ under' \in Positions
    /\ UserCall /\ UNCHANGED <<treeVars, isBlocked, hovered>>

\* Container::layOut(), whose BlockedFlagGuard clears the flag in the end.
layOut(c) ==
    /\ UserCodeRuns("layOut", c)
    /\ isBlocked' = [isBlocked EXCEPT ![c] = FALSE]
    /\ UserCall /\ UNCHANGED <<treeVars, hovered, under>>

\* The method returns: onMouse...() consumes the event or does not.
Owed(w) ==
    IF event.isDown
    THEN IF consumed' \/ owed[w][pointer] > 0 THEN owed[w][pointer] + 1 ELSE 0
    ELSE IF owed[w][pointer] > 0 THEN owed[w][pointer] - 1 ELSE 0

UserReturns ==
    /\ InUserCode
    /\ stack' = Front(stack)
    /\ consumed' \in IF Top.pc = "onHoverChanged" THEN {consumed} ELSE BOOLEAN
    /\ owed' = IF Top.pc = "onMouseButton"
               THEN [owed EXCEPT ![Top.of][pointer] = Owed(Top.of)]
               ELSE owed
    /\ UNCHANGED <<treeVars, isBlocked, mouseCaptureMap, hovered, under,
                   inputVars>>

-----------------------------------------------------------------------------
(* The events the main loop feeds in: Morda::onMouse...() *)

\* An event of pointer p begins: the root is hovered or not, and then its
\* method is called.
Begin(e, rootHovered, calls) ==
    /\ event = NoEvent
    /\ event' = e
    /\ hovered' = [hovered EXCEPT ![Root] =
                      IF rootHovered THEN @ \cup {e.by} ELSE @ \ {e.by}]
    /\ stack' = calls \o IF e.by \in hovered[Root] /\ ~rootHovered
                         THEN << Call("onHoverChanged", Root) >> ELSE << >>
    /\ UNCHANGED <<treeVars, isBlocked, mouseCaptureMap, consumed, owed>>

onMouseMove(p) ==
    /\ Interactive(Root)
    /\ under' \in Positions
    /\ Begin([kind |-> "move", isDown |-> FALSE, by |-> p], Root \in under',
             << Call("onMouseMove", Root) >>)
    /\ UNCHANGED down

onMouseButton(p, isDown) ==
    /\ Interactive(Root)
    /\ IF isDown THEN down[p] < program.clicks ELSE down[p] > 0
    /\ down' = [down EXCEPT ![p] = IF isDown THEN @ + 1 ELSE @ - 1]
    /\ under' \in Positions
    /\ Begin([kind |-> "button", isDown |-> isDown, by |-> p],
             Root \in under', << Call("onMouseButton", Root) >>)

onMouseHover(p, isHovered) ==
    /\ Begin([kind |-> "hover", isDown |-> FALSE, by |-> p], isHovered, << >>)
    /\ UNCHANGED <<under, down>>

\* The event has been handled.  (Its data are forgotten.)
EventHandled ==
    /\ stack = << >> /\ event # NoEvent
    /\ event' = NoEvent /\ under' = {} /\ consumed' = FALSE
    /\ UNCHANGED <<treeVars, isBlocked, mouseCaptureMap, hovered, stack, down,
                   owed>>

-----------------------------------------------------------------------------
Init ==
    /\ program \in Programs
    /\ children = InitialChildren
    /\ isBlocked = [c \in Containers |-> FALSE]
    /\ mouseCaptureMap = [c \in Containers |-> [p \in Pointers |-> NoCapture]]
    /\ hovered = [w \in Widgets |-> {}]
    /\ visible = Widgets /\ enabled = Widgets /\ alive = Widgets
    /\ stack = << >> /\ event = NoEvent /\ under = {} /\ consumed = FALSE
    /\ down = [p \in Pointers |-> 0]
    /\ owed = [w \in Widgets |-> [p \in Pointers |-> 0]]

UserCode ==
    \/ \E w \in Widgets :
           \/ setVisible(w) \/ setEnabled(w) \/ destroy(w) \/ move(w)
           \/ \E c \in Containers :
                  \/ remove(c, w) \/ makeTopmost(c, w)
                  \/ \E i \in 1 .. Len(children[c]) + 1 : add(c, w, i)
    \/ \E c \in Containers : layOut(c)

Events ==
    \E p \in program.pointers :
        \/ onMouseMove(p)
        \/ \E b \in BOOLEAN : onMouseButton(p, b) \/ onMouseHover(p, b)

Dispatch ==
    \/ HoverChangedEnter \/ HoverChangedLoop
    \/ MoveEnter \/ MoveLoop \/ Moved \/ MoveRest
    \/ ButtonEnter \/ ButtonCaptured \/ ButtonCount
    \/ ButtonLoop \/ ButtonHovered \/ ButtonTried
    \/ UserReturns \/ EventHandled

Next == (UserCode \/ Events \/ Dispatch) /\ UNCHANGED program

Spec == Init /\ [][Next]_vars

-----------------------------------------------------------------------------
(* Properties *)

Methods == {"onHoverChanged", "onMouseMove", "onMouseButton"}

CallType ==
    [proc : Methods \cup {"user"}, of : Widgets, at : Nat,
     pc : Methods \cup {"enter", "loop", "moved", "rest", "captured", "count",
                        "hovered", "tried"}]

TypeOK ==
    /\ children \in [Containers -> Seq(Widgets)]
    /\ isBlocked \in [Containers -> BOOLEAN]
    /\ mouseCaptureMap \in [Containers ->
           [Pointers -> [by : Widgets \cup {NoWidget}, clicks : Nat]]]
    /\ hovered \in [Widgets -> SUBSET Pointers]
    /\ visible \subseteq Widgets /\ enabled \subseteq Widgets
    /\ alive \subseteq Widgets /\ under \subseteq Widgets
    /\ stack \in Seq(CallType)
    /\ consumed \in BOOLEAN
    /\ event \in [kind : {"none", "move", "button", "hover"}, isDown : BOOLEAN, by : Pointers]
    /\ down \in [Pointers -> Nat]
    /\ owed \in [Widgets -> [Pointers -> Nat]]

\* The loops of container c over its children that are in progress.
Iterating(c) ==
    \E i \in DOMAIN stack :
        stack[i].of = c /\ stack[i].proc # "user" /\ stack[i].pc # "enter"

\* "cannot remove child while iterating through children": no list of
\* children changes under a loop that goes through it.
ChildrenStableInLoops ==
    [][\A c \in Containers :
          Iterating(c) => UNCHANGED children[c]]_vars

\* A widget that took a press gets a release for it, whatever is moved,
\* hidden, disabled or taken out of the tree in the meantime: when no button
\* of a pointer is held, no widget that is still there waits for a release.
PressesAreReleased ==
    \A p \in Pointers : event = NoEvent /\ down[p] = 0 =>
        \A w \in alive : owed[w][p] = 0

\* A pointer is captured no longer than one of its buttons is held.
CaptureEnds ==
    \A p \in Pointers : event = NoEvent /\ down[p] = 0 =>
        \A c \in Containers :
            mouseCaptureMap[c][p].by \notin alive

\* onMouseButton() asserts that the pointer is not captured when a child
\* consumed the event.
NotCapturedYet ==
    InCall("onMouseButton", "tried") /\ consumed => Capture = NoCapture

\* User code moves widgets and lays them out, but takes none out of the tree,
\* hides none and disables none.
TreeStays == {c[1] : c \in program.calls} \subseteq {"move", "layOut"}

\* When a mouse move has been handled, no widget in the tree is hovered by a
\* pointer that is not over it, wherever widgets moved in the meantime.
HoverFollowsPointer ==
    [][EventHandled /\ event.kind = "move" /\ TreeStays =>
          \A w \in Widgets :
              InTree(w) /\ pointer \in hovered[w] => w \in under]_vars

\* "un-hover all the children if container became un-hovered": a widget is
\* hovered inside a hovered container only.
HoveredInsideHovered ==
    event = NoEvent /\ TreeStays =>
        \A c \in Containers : \A w \in ToSet(children[c]) :
            hovered[w] \subseteq hovered[c]
=============================================================================

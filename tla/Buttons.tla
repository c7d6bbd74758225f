------------------------------- MODULE Buttons -------------------------------
(***************************************************************************)
(* Push buttons, toggle buttons and choice buttons in their groups, below  *)
(* a container that dispatches the mouse: Button::onMouseButton() and      *)
(* onHoverChanged(), PushButton::onPressedChanged(), the setChecked()      *)
(* methods and ChoiceGroup::setActiveChoiceButton().                       *)
(*                                                                         *)
(* The calls in progress are in the variable stack.  The signals           *)
(* pressedChanged and checkedChanged run user code, which may check        *)
(* buttons and show or hide them before it returns.                        *)
(***************************************************************************)
EXTENDS Naturals, Sequences

CONSTANTS
    Buttons,
    Toggles,        \* those that are ToggleButtons, the others are choices
    Groups,
    NoGroup,
    GroupOf,        \* the ChoiceGroup above a button, or NoGroup
    NoButton,
    Children,       \* the buttons in their container, the topmost one last
    Pointers,
    Keys,           \* the mouse buttons of a pointer
    UserCalls,      \* what user code calls, of which button
    UserCodeIn,     \* the signals that have a handler
    MaxCalls        \* the most calls in progress when user code makes one

ASSUME ButtonsAssumption ==
    /\ NoButton \notin Buttons /\ NoGroup \notin Groups
    /\ Toggles \subseteq Buttons
    /\ GroupOf \in [Buttons -> Groups \cup {NoGroup}]
    /\ \A b \in Toggles : GroupOf[b] = NoGroup
    /\ Children \in Seq(Buttons)
    /\ \A b \in Buttons : \E i \in 1 .. Len(Children) : Children[i] = b
    /\ Pointers # {} /\ Keys \subseteq {"LEFT", "RIGHT"}
    /\ UserCalls \subseteq
           {"setChecked", "setVisible", "hidePressed"} \X Buttons
    /\ UserCodeIn \subseteq {"pressedChanged", "checked", "unchecked"}
    /\ MaxCalls \in Nat

VARIABLES
    isChecked_v,            \* the buttons that are checked
    activeChoiceButton_v,   \* of each group, the button or NoButton
    isPressed_v,            \* the buttons that are pressed
    currentlyPressed,       \* what PushButton remembers of isPressed_v
    hovered,                \* of each button: the pointers that hover it
    visible,                \* the buttons that are
    over,                   \* of each pointer: the button at its position
    down,                   \* of each pointer: the keys held down
    captured,               \* of each pointer: who captures it, and clicks
    event,                  \* the mouse event being handled
    stack                   \* the calls in progress, the innermost one last

checkVars == <<isChecked_v, activeChoiceButton_v>>
pressVars == <<isPressed_v, currentlyPressed>>
mouseVars == <<hovered, visible, over, down, captured, event>>
vars == <<checkVars, pressVars, mouseVars, stack>>

-----------------------------------------------------------------------------
(* The call stack *)

\* A call of method proc of button b; "to" is the argument of setChecked().
Call(proc, pc, b, to) == [proc |-> proc, pc |-> pc, of |-> b, to |-> to]
PressedChanged(b) == Call("onPressedChanged", "pressedChanged", b, FALSE)
SetChecked(b, to) == Call("setChecked", "group", b, to)
Handler(b) == Call("onMouseButton", "hover", b, FALSE)
Passing(b) == Call("onMouseMove", "hover", b, FALSE)

Top == stack[Len(stack)]
InCall(proc, pc) == stack # << >> /\ Top.proc = proc /\ Top.pc = pc

\* The innermost call returns, or goes on at pc, or does so after a call.
Return == stack' = SubSeq(stack, 1, Len(stack) - 1)
GoOn(pc) == [stack EXCEPT ![Len(stack)].pc = pc]
Continue(pc) == stack' = GoOn(pc)
CallThen(c, pc) == stack' = Append(GoOn(pc), c)
CallLast(c) == stack' = [stack EXCEPT ![Len(stack)] = c]

-----------------------------------------------------------------------------
(* setChecked() of choice buttons and toggle buttons *)

Active(g) == activeChoiceButton_v[g]

BothChecked ==              \* mutant: the last active button stays checked
    /\ InCall("setChecked", "group")
    /\ LET g == GroupOf[Top.of]
       IN activeChoiceButton_v' =
              IF Top.to /\ g # NoGroup
              THEN [activeChoiceButton_v EXCEPT ![g] = Top.of]
              ELSE activeChoiceButton_v
    /\ Continue("set")
    /\ UNCHANGED <<pressVars, mouseVars, isChecked_v>>

\* A choice button that is about to be checked becomes the active one of its
\* group: setActiveChoiceButton() unchecks the one that was.
SwapGroup ==
    /\ InCall("setChecked", "group")
    /\ UNCHANGED <<pressVars, mouseVars, isChecked_v>>
    /\ LET b == Top.of
           g == GroupOf[b]
       IN IF ~Top.to \/ g = NoGroup \/ Active(g) = b
          THEN Continue("set") /\ UNCHANGED activeChoiceButton_v
          ELSE IF Active(g) = NoButton
          THEN /\ activeChoiceButton_v' =
                      [activeChoiceButton_v EXCEPT ![g] = b]
               /\ Continue("set")
          ELSE /\ CallThen(SetChecked(Active(g), FALSE), "activate")
               /\ UNCHANGED activeChoiceButton_v

\* The last active button is unchecked.
Activate ==
    /\ InCall("setChecked", "activate")
    /\ activeChoiceButton_v' =
           [activeChoiceButton_v EXCEPT ![GroupOf[Top.of]] = Top.of]
    /\ Continue("set")
    /\ UNCHANGED <<pressVars, mouseVars, isChecked_v>>

\* onCheckedChanged() is called when the state changes.
Set ==
    /\ InCall("setChecked", "set")
    /\ IF (Top.of \in isChecked_v) = Top.to
       THEN Return /\ UNCHANGED isChecked_v
       ELSE /\ isChecked_v' = IF Top.to THEN isChecked_v \cup {Top.of}
                              ELSE isChecked_v \ {Top.of}
            /\ Continue("checkedChanged")
    /\ UNCHANGED <<pressVars, mouseVars, activeChoiceButton_v>>

CheckedChangedReturns ==
    /\ InCall("setChecked", "checkedChanged")
    /\ Return
    /\ UNCHANGED <<checkVars, pressVars, mouseVars>>

-----------------------------------------------------------------------------
(* PushButton::onPressedChanged(), after the signal has been emitted *)

Clicks == Top.of \in currentlyPressed /\ hovered[Top.of] # {}

ClickToggles ==             \* mutant: a click may uncheck a choice button
    /\ InCall("onPressedChanged", "pressedChanged") /\ Clicks
    /\ CallThen(SetChecked(Top.of, Top.of \notin isChecked_v), "settle")
    /\ UNCHANGED <<checkVars, pressVars, mouseVars>>

\* onClicked() of a toggle button and of a choice button.
Click ==
    /\ InCall("onPressedChanged", "pressedChanged") /\ Clicks
    /\ CallThen(SetChecked(Top.of,
                    Top.of \in Toggles => Top.of \notin isChecked_v), "settle")
    /\ UNCHANGED <<checkVars, pressVars, mouseVars>>

NoClick ==
    /\ InCall("onPressedChanged", "pressedChanged") /\ ~Clicks
    /\ Continue("settle")
    /\ UNCHANGED <<checkVars, pressVars, mouseVars>>

NotRemembered ==            \* mutant: only a click updates the memory
    /\ InCall("onPressedChanged", "settle")
    /\ currentlyPressed' = currentlyPressed \ {Top.of}
    /\ Return
    /\ UNCHANGED <<checkVars, isPressed_v, mouseVars>>

Settle ==
    /\ InCall("onPressedChanged", "settle")
    /\ currentlyPressed' = IF Top.of \in isPressed_v
                           THEN currentlyPressed \cup {Top.of}
                           ELSE currentlyPressed \ {Top.of}
    /\ Return
    /\ UNCHANGED <<checkVars, isPressed_v, mouseVars>>

-----------------------------------------------------------------------------
(* The mouse *)

NoEvent ==
    [by |-> CHOOSE p \in Pointers : TRUE, key |-> "none", isDown |-> FALSE]
NoCapture == [by |-> NoButton, clicks |-> 0]

\* Widget::setHovered() and Button::onHoverChanged(): button b is hovered by
\* p or not, and is released when it is not any more.
StaysPressed(b, p, is) ==   \* mutant: no onHoverChanged()
    FALSE
Leaves(b, p, is) == p \in hovered[b] /\ ~is /\ b \in isPressed_v
HoverSet(b, p, is) ==
    /\ hovered' = [hovered EXCEPT ![b] = IF is THEN @ \cup {p} ELSE @ \ {p}]
    /\ isPressed_v' = IF Leaves(b, p, is) THEN isPressed_v \ {b}
                      ELSE isPressed_v

\* Container::onMouseMove() hovers and un-hovers the visible children, from
\* the topmost one down.
Move(p) ==
    /\ stack = << >>
    /\ \E b \in (Buttons \cup {NoButton}) \ {over[p]} :
           over' = [over EXCEPT ![p] = b]
    /\ stack' = [i \in 1 .. Len(Children) |-> Passing(Children[i])]
    /\ event' = [NoEvent EXCEPT !.by = p]
    /\ UNCHANGED <<checkVars, pressVars, hovered, visible, down, captured>>

Pass ==
    /\ InCall("onMouseMove", "hover")
    /\ LET is == over[event.by] = Top.of
       IN IF Top.of \in visible
          THEN /\ HoverSet(Top.of, event.by, is)
               /\ IF Leaves(Top.of, event.by, is)
                  THEN CallLast(PressedChanged(Top.of))
                  ELSE Return
          ELSE Return /\ UNCHANGED <<hovered, isPressed_v>>
    /\ UNCHANGED <<checkVars, currentlyPressed, visible, over, down,
                   captured, event>>

\* Container::onMouseButton(): who captures the pointer gets the event, or
\* else the button at the position.
ButtonEvent(p, k, isDown) ==
    /\ stack = << >>
    /\ isDown <=> k \notin down[p]
    /\ down' = [down EXCEPT ![p] = IF isDown THEN @ \cup {k} ELSE @ \ {k}]
    /\ event' = [by |-> p, key |-> k, isDown |-> isDown]
    /\ stack' = IF captured[p] # NoCapture
                THEN << Handler(captured[p].by) >>
                ELSE IF over[p] \in visible THEN << Handler(over[p]) >>
                ELSE << >>
    /\ UNCHANGED <<checkVars, pressVars, hovered, visible, over, captured>>

Hover ==
    /\ InCall("onMouseButton", "hover")
    /\ LET is == over[event.by] = Top.of
       IN /\ HoverSet(Top.of, event.by, is)
          /\ IF Leaves(Top.of, event.by, is)
             THEN CallThen(PressedChanged(Top.of), "handle")
             ELSE Continue("handle")
    /\ UNCHANGED <<checkVars, currentlyPressed, visible, over, down,
                   captured, event>>

\* Button::onMouseButton().
Handle ==
    /\ InCall("onMouseButton", "handle")
    /\ LET b == Top.of
           presses == event.key = "LEFT" /\ event.isDown
                          /\ over[event.by] = b
           releases == event.key = "LEFT" /\ ~event.isDown
                           /\ b \in isPressed_v
       IN /\ isPressed_v' = IF presses THEN isPressed_v \cup {b}
                            ELSE IF releases THEN isPressed_v \ {b}
                            ELSE isPressed_v
          /\ IF presses \/ releases
             THEN CallThen(PressedChanged(b), "count")
             ELSE Continue("count")
    /\ UNCHANGED <<checkVars, currentlyPressed, mouseVars>>

\* Container::onMouseButton(): a consumed press captures the pointer; then
\* every press and release of the pointer counts.
Count ==
    /\ InCall("onMouseButton", "count")
    /\ LET p == event.by
           c == captured[p]
           n == IF event.isDown THEN c.clicks + 1 ELSE c.clicks - 1
       IN captured' = [captured EXCEPT ![p] =
              IF c # NoCapture
              THEN IF n = 0 THEN NoCapture ELSE [c EXCEPT !.clicks = n]
              ELSE IF event.isDown /\ event.key = "LEFT"
              THEN [by |-> Top.of, clicks |-> 1]
              ELSE NoCapture]
    /\ Return
    /\ UNCHANGED <<checkVars, pressVars, hovered, visible, over, down, event>>

-----------------------------------------------------------------------------
(* User code: the program between two events, or a handler of a signal *)

Signal ==
    IF stack = << >> THEN "event"           \* of the main loop
    ELSE CASE Top.pc = "pressedChanged" -> "pressedChanged"
           [] Top.pc = "checkedChanged" -> IF Top.to THEN "checked"
                                           ELSE "unchecked"
           [] OTHER -> "none"

UserCodeRuns(call, b) ==
    /\ <<call, b>> \in UserCalls
    /\ Signal \in UserCodeIn \cup {"event"}
    /\ Len(stack) <= MaxCalls

setChecked(b, to) ==
    /\ UserCodeRuns("setChecked", b)
    /\ b \in Toggles \/ to      \* of a choice button: setChecked()
    /\ stack' = Append(stack, SetChecked(b, to))
    /\ event' = IF stack = << >> THEN NoEvent ELSE event
    /\ UNCHANGED <<checkVars, pressVars, hovered, visible, over, down,
                   captured>>

setVisible(b) ==
    /\ UserCodeRuns("setVisible", b)
    /\ b \in isPressed_v => <<"hidePressed", b>> \in UserCalls
    /\ IF b \in visible
       THEN visible' = visible \ {b} /\ hovered' = [hovered EXCEPT ![b] = {}]
       ELSE visible' = visible \cup {b} /\ UNCHANGED hovered
    /\ UNCHANGED <<checkVars, pressVars, over, down, captured, event, stack>>

-----------------------------------------------------------------------------
Init ==
    /\ isChecked_v = {}
    /\ activeChoiceButton_v = [g \in Groups |-> NoButton]
    /\ isPressed_v = {} /\ currentlyPressed = {}
    /\ hovered = [b \in Buttons |-> {}] /\ visible = Buttons
    /\ over = [p \in Pointers |-> NoButton]
    /\ down = [p \in Pointers |-> {}]
    /\ captured = [p \in Pointers |-> NoCapture]
    /\ event = NoEvent /\ stack = << >>

Checking == SwapGroup \/ Activate \/ Set \/ CheckedChangedReturns
Pressing == Click \/ NoClick \/ Settle
Mouse ==
    \/ \E p \in Pointers :
           \/ Move(p)
           \/ \E k \in Keys, d \in BOOLEAN : ButtonEvent(p, k, d)
    \/ Pass \/ Hover \/ Handle \/ Count
UserCode ==
    \E b \in Buttons :
        setVisible(b) \/ \E to \in BOOLEAN : setChecked(b, to)

Next == Checking \/ Pressing \/ Mouse \/ UserCode

Spec == Init /\ [][Next]_vars

-----------------------------------------------------------------------------
(* Properties *)

Calls ==
    UNION {[proc : {"onMouseButton"}, pc : {"hover", "handle", "count"},
            of : Buttons, to : BOOLEAN],
           [proc : {"onMouseMove"}, pc : {"hover"},
            of : Buttons, to : BOOLEAN],
           [proc : {"onPressedChanged"}, pc : {"pressedChanged", "settle"},
            of : Buttons, to : BOOLEAN],
           [proc : {"setChecked"},
            pc : {"group", "activate", "set", "checkedChanged"},
            of : Buttons, to : BOOLEAN]}

TypeOK ==
    /\ isChecked_v \subseteq Buttons
    /\ activeChoiceButton_v \in [Groups -> Buttons \cup {NoButton}]
    /\ isPressed_v \subseteq Buttons /\ currentlyPressed \subseteq Buttons
    /\ hovered \in [Buttons -> SUBSET Pointers] /\ visible \subseteq Buttons
    /\ over \in [Pointers -> Buttons \cup {NoButton}]
    /\ down \in [Pointers -> SUBSET Keys]
    /\ captured \in [Pointers ->
           [by : Buttons, clicks : Nat \ {0}] \cup {NoCapture}]
    /\ event \in [by : Pointers, key : {"LEFT", "RIGHT", "none"},
                  isDown : BOOLEAN]
    /\ stack \in Seq(Calls)

\* At any time, in the middle of a click or of a handler too, no two choice
\* buttons of a group are checked.
OneChecked ==
    \A a, b \in isChecked_v :
        GroupOf[a] = GroupOf[b] /\ GroupOf[a] # NoGroup => a = b

\* Between two events the active button of a group is a checked one: the
\* group does not remember a button that was unchecked behind its back.
ActiveIsChecked ==
    stack = << >> =>
        \A g \in Groups : Active(g) # NoButton => Active(g) \in isChecked_v

\* PushButton's memory of isPressed() is right between two events, so that
\* the next release of a pressed button is a click and no other call is.
MemoryAgrees == stack = << >> => currentlyPressed = isPressed_v

\* A button is pressed between two events only as long as a pointer that is
\* over it, or is captured by it, holds its left key down: no button is stuck.
PressedIsHeld ==
    stack = << >> =>
        \A b \in isPressed_v : \E p \in Pointers :
            "LEFT" \in down[p] /\ b \in {over[p], captured[p].by}

=============================================================================

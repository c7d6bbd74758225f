-------------------------------- MODULE Focus --------------------------------
(***************************************************************************)
(* Keyboard focus: Morda::setFocusedWidget(), Widget::focus() and          *)
(* unfocus(), the blinking cursor of a TextInput, and the delivery of key  *)
(* and character events.                                                   *)
(*                                                                         *)
(* Who is focused is known twice, to Morda (focusedWidget) and to every    *)
(* widget (isFocused), and setFocusedWidget() calls user code, through     *)
(* onFocusChanged(), while it changes the one and the other.               *)
(***************************************************************************)
EXTENDS Naturals, SequencesExt

CONSTANTS
    Widgets,
    TextInputs,     \* the widgets that are TextInputs
    NoWidget,
    Root,           \* the root widget
    Parent,         \* the parent of each widget, NoWidget for the root
    UserCodeIn,     \* where user code calls the methods of this module
    MaxDepth        \* the deepest nesting of calls

AllUserCodeIn == {"handlers", "gained", "lost"}

ASSUME FocusAssumption ==
    /\ TextInputs \subseteq Widgets /\ Root \in Widgets \ TextInputs
    /\ NoWidget \notin Widgets
    /\ Parent \in [Widgets -> Widgets \cup {NoWidget}]
    /\ UserCodeIn \subseteq AllUserCodeIn
    /\ MaxDepth \in Nat

VARIABLES
    focusedWidget,  \* Morda's weak reference
    isFocused,      \* the widgets that take themselves for focused
    blinking,       \* the TextInputs subscribed for updates
    interactive,    \* the widgets that are enabled and visible
    alive,          \* the widgets that are not destroyed
    stack,          \* the calls in progress, the innermost one last
    keyAt           \* the widget a key event is at, or NoWidget

focusVars == <<focusedWidget, isFocused, blinking>>
callVars == <<focusVars, interactive, alive, stack, keyAt>>

-----------------------------------------------------------------------------
(* Calls: "lose" and "gain" are the two halves of setFocusedWidget(of),    *)
(* "blink" is what TextInput::setCursorIndex() does last, "gained" and     *)
(* "lost" are the onFocusChanged() of a user's widget, "handlers" is any   *)
(* other method.                                                           *)

Call(m, w) == [proc |-> m, of |-> w]
Top == Last(stack)
InCall(m) == stack # << >> /\ Top.proc = m

\* The innermost call ends, or goes on, with the calls in cs.
Continue(cs) == stack' = Front(stack) \o cs

lock == IF focusedWidget \in alive THEN focusedWidget ELSE NoWidget

(* Morda::setFocusedWidget() *)

\* onFocusChanged() of w: a TextInput starts or stops blinking, any other
\* widget runs user code.  "then" is what follows when it has returned.
FocusChanged(w, is, then) ==
    IF w \in TextInputs
    THEN /\ blinking' = IF is THEN blinking \cup {w} ELSE blinking \ {w}
         /\ Continue(then)
    ELSE /\ UNCHANGED blinking
         /\ Continue(then \o << Call(IF is THEN "gained" ELSE "lost", w) >>)

\* The first half: the previous widget loses the focus.
KeepPrevious ==                     \* mutant: the previous widget is not told
    /\ InCall("lose")
    /\ Continue(<< Call("gain", Top.of) >>)
    /\ UNCHANGED <<focusVars, interactive, alive, keyAt>>

Lose ==
    /\ InCall("lose")
    /\ IF lock = NoWidget
       THEN /\ Continue(<< Call("gain", Top.of) >>)
            /\ UNCHANGED <<isFocused, blinking>>
       ELSE /\ isFocused' = isFocused \ {lock}
            /\ FocusChanged(lock, FALSE, << Call("gain", Top.of) >>)
    /\ UNCHANGED <<focusedWidget, interactive, alive, keyAt>>

Gain ==
    /\ InCall("gain")
    /\ focusedWidget' = Top.of
    /\ IF Top.of = NoWidget
       THEN Continue(<< >>) /\ UNCHANGED <<isFocused, blinking>>
       ELSE /\ isFocused' = isFocused \cup {Top.of}
            /\ FocusChanged(Top.of, TRUE, << >>)
    /\ UNCHANGED <<interactive, alive, keyAt>>

\* The end of TextInput::setCursorIndex().
Blink ==
    /\ InCall("blink")
    /\ blinking' = blinking \cup {Top.of}
    /\ Continue(<< >>)
    /\ UNCHANGED <<focusedWidget, isFocused, interactive, alive, keyAt>>

-----------------------------------------------------------------------------
(* The calls of user code *)

InUserCode == stack # << >> /\ Top.proc \in {"handlers", "gained", "lost"}

\* Outside of all calls, user code runs in handlers of other events.
UserCodeRuns ==
    IF stack = << >> THEN keyAt = NoWidget
    ELSE InUserCode /\ Top.proc \in UserCodeIn

Push(cs) == Len(stack) + Len(cs) <= MaxDepth /\ stack' = stack \o cs

UserCall == UserCodeRuns /\ UNCHANGED <<focusVars, keyAt>>

focus(w) ==
    /\ UserCall /\ w \in alive
    /\ w \notin isFocused             \* otherwise it returns at once
    /\ Push(<< Call("lose", w) >>)
    /\ UNCHANGED <<interactive, alive>>

unfocus(w) ==
    /\ UserCall /\ w \in alive
    /\ w \in isFocused                \* otherwise it returns at once
    /\ Push(<< Call("lose", NoWidget) >>)
    /\ UNCHANGED <<interactive, alive>>

\* What setCursorIndex() calls: focus() if needed, then startCursorBlinking().
BlinkOnly(t) == << Call("blink", t) >>      \* mutant: the focus is not taken
CursorCalls(t) ==
    IF t \in isFocused THEN << Call("blink", t) >>
    ELSE << Call("blink", t), Call("lose", t) >>

setCursorIndex(t) ==
    /\ UserCall /\ t \in TextInputs \cap alive
    /\ Push(CursorCalls(t))
    /\ UNCHANGED <<interactive, alive>>

\* setEnabled() or setVisible().
setInteractive(w) ==
    /\ UserCall /\ w \in alive
    /\ interactive' = IF w \in interactive THEN interactive \ {w}
                      ELSE interactive \cup {w}
    /\ UNCHANGED <<alive, stack>>

\* The last reference to a widget without children is dropped.  A widget whose
\* method runs is held by its caller, or removes itself later.
destroy(w) ==
    /\ UserCall /\ w \in alive \ {Root}
    /\ \A v \in alive : Parent[v] # w
    /\ w # keyAt /\ \A i \in DOMAIN stack : stack[i].of # w
    /\ alive' = alive \ {w}
    /\ UNCHANGED <<interactive, stack>>

-----------------------------------------------------------------------------
(* Keyboard events *)

onKeyEvent ==
    /\ stack = << >> /\ keyAt = NoWidget
    /\ keyAt' = IF lock = NoWidget THEN Root ELSE lock
    /\ UNCHANGED <<focusVars, interactive, alive, stack>>

\* onKeyInternal(): the key goes to the widget, if that is interactive, and
\* then on to its parent.  TextInput::onKey() never consumes it.
KeyHandled ==
    /\ stack = << >> /\ keyAt \in interactive \ TextInputs
    /\ stack' = << Call("handlers", keyAt) >>
    /\ UNCHANGED <<focusVars, interactive, alive, keyAt>>

KeyPassed ==
    /\ stack = << >> /\ keyAt # NoWidget
    /\ keyAt \notin interactive \/ keyAt \in TextInputs
    /\ keyAt' = Parent[keyAt]
    /\ UNCHANGED <<focusVars, interactive, alive, stack>>

\* User code returns.  A key handler consumes the key or passes it on.
UserReturns ==
    /\ InUserCode
    /\ Continue(<< >>)
    /\ keyAt' \in IF Top.proc = "handlers" THEN {NoWidget, Parent[keyAt]}
                  ELSE {keyAt}
    /\ UNCHANGED <<focusVars, interactive, alive>>

\* Characters go to the focused widget, which puts its cursor behind them.
onCharacterInput ==
    /\ stack = << >> /\ keyAt = NoWidget
    /\ lock \in TextInputs
    /\ stack' = CursorCalls(lock)
    /\ UNCHANGED <<focusVars, interactive, alive, keyAt>>

-----------------------------------------------------------------------------
FocusInit ==
    /\ focusedWidget = NoWidget /\ isFocused = {} /\ blinking = {}
    /\ interactive = Widgets /\ alive = Widgets
    /\ stack = << >> /\ keyAt = NoWidget

UserCode ==
    \E w \in Widgets :
        \/ focus(w) \/ unfocus(w) \/ setCursorIndex(w)
        \/ setInteractive(w) \/ destroy(w)

FocusNext ==
    \/ UserCode \/ Lose \/ Gain \/ Blink \/ UserReturns
    \/ onKeyEvent \/ KeyHandled \/ KeyPassed \/ onCharacterInput

FocusSpec == FocusInit /\ [][FocusNext]_callVars

-----------------------------------------------------------------------------
(* Properties *)

Calls == [proc : {"lose", "gain", "blink", "gained", "lost", "handlers"},
          of : Widgets \cup {NoWidget}]

FocusTypeOK ==
    /\ focusedWidget \in Widgets \cup {NoWidget}
    /\ isFocused \subseteq Widgets /\ blinking \subseteq TextInputs
    /\ interactive \subseteq Widgets /\ alive \subseteq Widgets
    /\ stack \in Seq(Calls)
    /\ keyAt \in Widgets \cup {NoWidget}

\* Morda and the widgets agree about who is focused: unfocus() asserts that a
\* widget which takes itself for focused is the one Morda knows.
FocusAgrees == \A w \in isFocused \cap alive : focusedWidget = w

\* "Focused widget will receive keyboard events": between events, Morda's
\* focused widget knows of it, and exactly the focused TextInput blinks.
FocusSettled ==
    stack = << >> =>
        /\ lock # NoWidget => lock \in isFocused
        /\ blinking \cap alive = isFocused \cap TextInputs \cap alive
=============================================================================

---------------------------- MODULE ButtonsProofs ----------------------------
(***************************************************************************)
(* Proofs about Buttons, whatever the buttons, groups and pointers are:    *)
(* PushButton's memory is right between two events; no two buttons of a    *)
(* group are checked at a time, and its active button is checked, as long  *)
(* as no handler of checkedChanged acts when a button is unchecked; and a  *)
(* pressed button is held, as long as none is hidden while pressed.        *)
(*                                                                         *)
(* What is checked depends on what the stack looks like while the active   *)
(* button of a group changes: no call below the one that unchecks the last *)
(* active button, but the one that waits for it, is about to change        *)
(* anything.  Swapping says so.  Who holds a button depends on how many    *)
(* keys the container has counted of a pointer: Holds says how.            *)
(***************************************************************************)
EXTENDS Buttons, SequenceTheorems, TLAPS

\* A checked button of a group is its active one.
OnlyActive ==
    \A b \in isChecked_v :
        GroupOf[b] # NoGroup => Active(GroupOf[b]) = b

\* The calls of setChecked() at 1 .. n have changed all they will.
Calm(n) ==
    \A i \in 1 .. n :
        stack[i].proc = "setChecked" => stack[i].pc = "checkedChanged"

\* A call that will make its button the active one of its group.
Activating(c) ==
    /\ c.proc = "setChecked" /\ c.pc = "activate" /\ c.to
    /\ GroupOf[c.of] \in Groups
    /\ Active(GroupOf[c.of]) \in Buttons

\* The innermost call is about to change a button.
Changing ==
    /\ stack # << >> /\ Calm(Len(stack) - 1)
    /\ Top.proc = "setChecked"
    /\ \/ Top.pc = "group"
       \/ /\ Top.pc = "set"
          /\ Top.to /\ GroupOf[Top.of] # NoGroup =>
                Active(GroupOf[Top.of]) = Top.of
       \/ /\ Activating(Top)
          /\ Active(GroupOf[Top.of]) \notin isChecked_v

\* It unchecks the button that the call below it wants to replace.
Unchecking ==
    /\ Len(stack) > 1 /\ Calm(Len(stack) - 2)
    /\ Activating(stack[Len(stack) - 1])
    /\ Top.proc = "setChecked" /\ ~Top.to
    /\ Top.of = Active(GroupOf[stack[Len(stack) - 1].of])
    /\ \/ Top.pc \in {"group", "set"}
       \/ Top.pc = "checkedChanged" /\ Top.of \notin isChecked_v

Swapping == Calm(Len(stack)) \/ Changing \/ Unchecking

\* A call of onPressedChanged() of button b is in progress.
Settling(b) ==
    \E i \in 1 .. Len(stack) :
        stack[i].proc = "onPressedChanged" /\ stack[i].of = b

\* The memory of a button is right, or a call will put it right.
Remembered ==
    \A b \in Buttons :
        (b \in currentlyPressed <=> b \in isPressed_v) \/ Settling(b)

PressInv == TypeOK /\ Remembered
CheckInv == TypeOK /\ OnlyActive /\ Swapping

\* A group's active button is one of the group.
GroupsAgree ==
    \A g \in Groups : Active(g) # NoButton => GroupOf[Active(g)] = g

\* A call is to change the active button of group g, or to check it.
Swaps(g) ==
    \E i \in 1 .. Len(stack) :
        /\ stack[i].proc = "setChecked" /\ stack[i].to
        /\ stack[i].pc \in {"activate", "set"}
        /\ GroupOf[stack[i].of] = g

ActiveOrSwaps ==
    \A g \in Groups :
        Active(g) = NoButton \/ Active(g) \in isChecked_v \/ Swaps(g)

\* Only toggle buttons are unchecked, and the active button of a group when
\* the innermost calls replace it.
UncheckedRightly ==
    \A i \in 1 .. Len(stack) :
        /\ stack[i].proc = "setChecked" /\ ~stack[i].to
        /\ stack[i].pc \in {"group", "set"}
        => stack[i].of \in Toggles \/ (i = Len(stack) /\ Unchecking)

ActiveInv == CheckInv /\ GroupsAgree /\ ActiveOrSwaps /\ UncheckedRightly

\* The container is in the middle of a button event of pointer p.
Handling(p) ==
    /\ stack # << >> /\ stack[1].proc = "onMouseButton"
    /\ event.by = p

\* The keys of p that were held when the container last counted.
Known(p) ==
    IF ~Handling(p) THEN down[p]
    ELSE IF event.isDown THEN down[p] \ {event.key}
    ELSE down[p] \cup {event.key}

Number(D) ==
    (IF "LEFT" \in D THEN 1 ELSE 0) + (IF "RIGHT" \in D THEN 1 ELSE 0)

\* A captured pointer has counted no more keys than are held.
Counted ==
    \A p \in Pointers : captured[p] # NoCapture =>
        captured[p].clicks <= Number(Known(p))

\* p holds its left key over button b.
HoldsOver(p, b) ==
    /\ over[p] = b /\ b \in visible /\ p \in hovered[b]
    /\ captured[p].by \in {b, NoButton}

\* p holds its left key and is captured by b, all its keys counted.
HoldsCaptor(p, b) ==
    /\ captured[p].by = b
    /\ captured[p].clicks = Number(Known(p))

\* p has left b, which will hear of it.
LeavesNext(p, b) ==
    /\ event.by = p /\ p \in hovered[b] /\ b \in visible /\ over[p] # b
    /\ \E i \in 1 .. Len(stack) :
           stack[i].proc = "onMouseMove" /\ stack[i].of = b

Holds(p, b) ==
    /\ "LEFT" \in down[p]
    /\ HoldsOver(p, b) \/ HoldsCaptor(p, b) \/ LeavesNext(p, b)

\* The left key was released, which b is about to hear of.
ReleasedNext(b) ==
    /\ stack # << >> /\ stack[1].proc = "onMouseButton"
    /\ stack[1].pc \in {"hover", "handle"} /\ stack[1].of = b
    /\ event.key = "LEFT" /\ ~event.isDown

PressedAreHeld ==
    \A b \in isPressed_v : ReleasedNext(b) \/ \E p \in Pointers : Holds(p, b)

\* Button events are handled by the outermost call, of the captor or of the
\* button at the position, which is hovered before it gets the event.
Handles ==
    /\ \A i \in 2 .. Len(stack) : stack[i].proc # "onMouseButton"
    /\ stack # << >> /\ stack[1].proc = "onMouseButton" =>
           LET p == event.by
               b == stack[1].of
           IN /\ event.key \in Keys
              /\ event.isDown <=> event.key \in down[p]
              /\ b = IF captured[p] # NoCapture THEN captured[p].by ELSE over[p]
              /\ stack[1].pc = "hover" \/ (stack[1].pc = "handle" /\ over[p] = b) =>
                     /\ Len(stack) = 1
                     /\ stack[1].pc = "handle" => p \in hovered[b]
                     /\ captured[p] = NoCapture => b \in visible

HeldInv == TypeOK /\ Handles /\ Counted /\ PressedAreHeld

-----------------------------------------------------------------------------
(* The stack *)

LEMMA CallParts ==
    ASSUME NEW c \in Calls
    PROVE  /\ c.of \in Buttons /\ c.to \in BOOLEAN
           /\ \/ c.proc = "onMouseButton"
              \/ c.proc = "onMouseMove"
              \/ c.proc = "onPressedChanged"
              \/ c.proc = "setChecked"
           /\ c.proc = "onMouseMove" => c.pc = "hover"
           /\ c.proc = "onMouseButton" =>
                  c.pc \in {"hover", "handle", "count"}
           /\ c.proc = "onPressedChanged" =>
                  c.pc \in {"pressedChanged", "settle"}
           /\ c.proc = "setChecked" =>
                  c.pc \in {"group", "activate", "set", "checkedChanged"}
  BY DEF Calls

LEMMA CallMoves ==
    ASSUME NEW c \in Calls, NEW pc,
           \/ c.proc = "onMouseButton" /\ pc \in {"hover", "handle", "count"}
           \/ /\ c.proc = "onPressedChanged"
              /\ pc \in {"pressedChanged", "settle"}
           \/ /\ c.proc = "setChecked"
              /\ pc \in {"group", "activate", "set", "checkedChanged"}
    PROVE  /\ [c EXCEPT !.pc = pc] \in Calls
           /\ [c EXCEPT !.pc = pc].proc = c.proc
           /\ [c EXCEPT !.pc = pc].pc = pc
           /\ [c EXCEPT !.pc = pc].of = c.of
           /\ [c EXCEPT !.pc = pc].to = c.to
  BY DEF Calls

LEMMA TopIsCall ==
    ASSUME stack \in Seq(Calls), stack # << >>
    PROVE  Top \in Calls /\ Len(stack) \in Nat /\ Len(stack) > 0
  BY DEF Top

LEMMA Returns ==
    ASSUME stack \in Seq(Calls), stack # << >>, Return
    PROVE  /\ stack' \in Seq(Calls)
           /\ Len(stack') = Len(stack) - 1
           /\ \A i \in 1 .. Len(stack) - 1 : stack'[i] = stack[i]
<1>1. Len(stack) \in Nat /\ Len(stack) > 0
  BY TopIsCall
<1> DEFINE n == Len(stack) - 1
<1>2. n \in Nat /\ \A i \in 1 .. n : i \in 1 .. Len(stack)
  BY <1>1
<1>3. \A i \in 1 .. n : stack[i] \in Calls
  BY <1>2
<1>4. /\ SubSeq(stack, 1, n) \in Seq(Calls)
      /\ Len(SubSeq(stack, 1, n)) = IF 1 <= n THEN n - 1 + 1 ELSE 0
      /\ \A i \in 1 .. n - 1 + 1 : SubSeq(stack, 1, n)[i] = stack[1 + i - 1]
  <2> HIDE DEF n
  <2> QED
    BY <1>2, <1>3, SubSeqProperties
<1>5. stack' = SubSeq(stack, 1, n)
  BY DEF Return
<1> HIDE DEF n
<1>6. Len(stack') = n /\ \A i \in 1 .. n : stack'[i] = stack[i]
  BY <1>2, <1>4, <1>5
<1>7. QED
  BY <1>4, <1>5, <1>6 DEF n

LEMMA GoesOn ==
    ASSUME stack \in Seq(Calls), stack # << >>, NEW pc,
           [Top EXCEPT !.pc = pc] \in Calls
    PROVE  /\ GoOn(pc) \in Seq(Calls)
           /\ Len(GoOn(pc)) = Len(stack)
           /\ GoOn(pc)[Len(stack)] = [Top EXCEPT !.pc = pc]
           /\ \A i \in 1 .. Len(stack) - 1 : GoOn(pc)[i] = stack[i]
<1>1. Len(stack) \in Nat /\ Len(stack) > 0
  BY TopIsCall
<1>2. DOMAIN stack = 1 .. Len(stack)
  OBVIOUS
<1>3. GoOn(pc) = [stack EXCEPT ![Len(stack)] = [Top EXCEPT !.pc = pc]]
  BY <1>1, <1>2 DEF GoOn, Top
<1>4. QED
  BY <1>1, <1>2, <1>3, ExceptSeq

LEMMA CallsThen ==
    ASSUME stack \in Seq(Calls), stack # << >>, NEW pc, NEW c \in Calls,
           [Top EXCEPT !.pc = pc] \in Calls, CallThen(c, pc)
    PROVE  /\ stack' \in Seq(Calls)
           /\ Len(stack') = Len(stack) + 1
           /\ stack'[Len(stack) + 1] = c
           /\ stack'[Len(stack)] = [Top EXCEPT !.pc = pc]
           /\ \A i \in 1 .. Len(stack) - 1 : stack'[i] = stack[i]
<1> DEFINE s == GoOn(pc)
<1>1. /\ s \in Seq(Calls) /\ Len(s) = Len(stack)
      /\ s[Len(stack)] = [Top EXCEPT !.pc = pc]
      /\ \A i \in 1 .. Len(stack) - 1 : s[i] = stack[i]
  BY GoesOn
<1>2. stack' = Append(s, c)
  BY DEF CallThen
<1> HIDE DEF s
<1>3. /\ stack' \in Seq(Calls) /\ Len(stack') = Len(s) + 1
      /\ stack'[Len(s) + 1] = c
      /\ \A i \in 1 .. Len(s) : stack'[i] = s[i]
  BY <1>1, <1>2, AppendProperties
<1>4. Len(stack) \in Nat /\ Len(stack) > 0
  BY TopIsCall
<1>5. /\ stack'[Len(stack)] = [Top EXCEPT !.pc = pc]
      /\ \A i \in 1 .. Len(stack) - 1 : stack'[i] = stack[i]
  BY <1>1, <1>3, <1>4
<1>6. QED
  BY <1>1, <1>3, <1>5

LEMMA CallsLast ==
    ASSUME stack \in Seq(Calls), stack # << >>, NEW c \in Calls, CallLast(c)
    PROVE  /\ stack' \in Seq(Calls)
           /\ Len(stack') = Len(stack)
           /\ stack'[Len(stack)] = c
           /\ \A i \in 1 .. Len(stack) - 1 : stack'[i] = stack[i]
<1>1. Len(stack) \in Nat /\ Len(stack) > 0
  BY TopIsCall
<1>2. stack' = [stack EXCEPT ![Len(stack)] = c]
  BY DEF CallLast
<1>3. QED
  BY <1>1, <1>2, ExceptSeq

-----------------------------------------------------------------------------
(* One button of a group is checked *)

\* Nothing is about to change when the innermost call runs user code that
\* may act, or is no call of setChecked().
LEMMA QuietIsCalm ==
    ASSUME TypeOK, Swapping,
           \/ stack = << >>
           \/ Top.proc # "setChecked"
           \/ Top.pc = "checkedChanged" /\ Top.to
    PROVE  Calm(Len(stack))
<1>1. ~Changing
  BY DEF Changing, Activating
<1>2. CASE stack = << >>
  BY <1>2 DEF Calm
<1>3. CASE stack # << >>
  <2>1. ~Unchecking
    BY <1>3 DEF Unchecking
  <2>2. QED
    BY <1>1, <2>1 DEF Swapping
<1>4. QED
  BY <1>2, <1>3

\* What the innermost call may do to the stack when nothing is about to
\* change.
LEMMA CalmSteps ==
    ASSUME TypeOK, Calm(Len(stack)), stack # << >>,
           \/ Return
           \/ /\ Top.proc # "setChecked"
              /\ \E c \in Calls : CallLast(c) /\ c.proc # "setChecked"
           \/ /\ Top.proc # "setChecked"
              /\ \E pc : /\ [Top EXCEPT !.pc = pc] \in Calls
                         /\ \/ Continue(pc)
                            \/ \E c \in Calls :
                                   /\ CallThen(c, pc)
                                   /\ c.proc = "setChecked" => c.pc = "group"
    PROVE  Swapping'
<1>1. /\ stack \in Seq(Calls) /\ Len(stack) \in Nat /\ Len(stack) > 0
      /\ Top \in Calls
  BY TopIsCall DEF TypeOK
<1>2. CASE Return
  <2>1. Len(stack') = Len(stack) - 1
        /\ \A i \in 1 .. Len(stack) - 1 : stack'[i] = stack[i]
    BY <1>1, <1>2, Returns
  <2>2. Calm(Len(stack))'
    BY <1>1, <2>1 DEF Calm
  <2>3. QED
    BY <2>2 DEF Swapping
<1>3. CASE Top.proc # "setChecked"
           /\ \E pc : [Top EXCEPT !.pc = pc] \in Calls /\ Continue(pc)
  <2>1. PICK pc : [Top EXCEPT !.pc = pc] \in Calls /\ Continue(pc)
    BY <1>3
  <2>2. /\ Len(stack') = Len(stack)
        /\ stack'[Len(stack)] = [Top EXCEPT !.pc = pc]
        /\ \A i \in 1 .. Len(stack) - 1 : stack'[i] = stack[i]
    BY <1>1, <2>1, GoesOn DEF Continue
  <2>3. stack'[Len(stack)].proc # "setChecked"
    BY <1>1, <1>3, <2>2, CallParts DEF Calls
  <2> HIDE DEF Top
  <2>4. \A i \in 1 .. Len(stack) :
            stack'[i].proc = "setChecked" => stack'[i] = stack[i]
    <3>1. \A i \in 1 .. Len(stack) :
              i \in 1 .. Len(stack) - 1 \/ i = Len(stack)
      BY <1>1
    <3>2. QED
      BY <2>2, <2>3, <3>1
  <2>5. Calm(Len(stack))'
    BY <2>2, <2>4 DEF Calm
  <2>6. QED
    BY <2>5 DEF Swapping
<1>4. CASE /\ Top.proc # "setChecked"
           /\ \E pc : /\ [Top EXCEPT !.pc = pc] \in Calls
                      /\ \E c \in Calls :
                             /\ CallThen(c, pc)
                             /\ c.proc = "setChecked" => c.pc = "group"
  <2>1. PICK pc : /\ [Top EXCEPT !.pc = pc] \in Calls
                  /\ \E c \in Calls :
                         /\ CallThen(c, pc)
                         /\ c.proc = "setChecked" => c.pc = "group"
    BY <1>4
  <2>2. PICK c \in Calls : /\ CallThen(c, pc)
                           /\ c.proc = "setChecked" => c.pc = "group"
    BY <2>1
  <2>3. /\ Len(stack') = Len(stack) + 1
        /\ stack'[Len(stack) + 1] = c
        /\ stack'[Len(stack)] = [Top EXCEPT !.pc = pc]
        /\ \A i \in 1 .. Len(stack) - 1 : stack'[i] = stack[i]
    BY <1>1, <2>1, <2>2, CallsThen
  <2>4. stack'[Len(stack)].proc # "setChecked"
    BY <1>1, <1>4, <2>3, CallParts DEF Calls
  <2>5. \A i \in 1 .. Len(stack) :
            stack'[i].proc = "setChecked" => stack'[i] = stack[i]
    <3>1. \A i \in 1 .. Len(stack) :
              i \in 1 .. Len(stack) - 1 \/ i = Len(stack)
      BY <1>1
    <3>2. QED
      BY <2>3, <2>4, <3>1
  <2>6. \A i \in 1 .. Len(stack) :
            stack'[i].proc = "setChecked" => stack'[i].pc = "checkedChanged"
    BY <2>5 DEF Calm
  <2>7. Top' = c /\ stack' # << >>
    BY <1>1, <2>3 DEF Top
  <2>8. CASE c.proc = "setChecked"
    <3>1. (Calm(Len(stack) - 1))'
      BY <1>1, <2>3, <2>6 DEF Calm
    <3>2. QED
      BY <2>2, <2>7, <2>8, <3>1 DEF Changing, Swapping
  <2>9. CASE c.proc # "setChecked"
    <3>1. \A i \in 1 .. Len(stack) + 1 :
              i \in 1 .. Len(stack) \/ i = Len(stack) + 1
      BY <1>1
    <3>2. (Calm(Len(stack)))'
      BY <2>3, <2>6, <2>9, <3>1 DEF Calm
    <3>3. QED
      BY <3>2 DEF Swapping
  <2>10. QED
    BY <2>8, <2>9
<1>5. CASE /\ Top.proc # "setChecked"
           /\ \E c \in Calls : CallLast(c) /\ c.proc # "setChecked"
  <2>1. PICK c \in Calls : CallLast(c) /\ c.proc # "setChecked"
    BY <1>5
  <2>2. /\ Len(stack') = Len(stack)
        /\ stack'[Len(stack)] = c
        /\ \A i \in 1 .. Len(stack) - 1 : stack'[i] = stack[i]
    BY <1>1, <2>1, CallsLast
  <2>3. \A i \in 1 .. Len(stack) :
            stack'[i].proc = "setChecked" => stack'[i] = stack[i]
    <3>1. \A i \in 1 .. Len(stack) :
              i \in 1 .. Len(stack) - 1 \/ i = Len(stack)
      BY <1>1
    <3>2. QED
      BY <2>1, <2>2, <3>1
  <2>4. Calm(Len(stack))'
    BY <2>2, <2>3 DEF Calm
  <2>5. QED
    BY <2>4 DEF Swapping
<1>6. QED
  BY <1>2, <1>3, <1>4, <1>5

\* The steps of setChecked() keep the two parts of the invariant.
LEMMA SwapGroupStep ==
    ASSUME TypeOK, OnlyActive, Swapping, SwapGroup
    PROVE  OnlyActive' /\ Swapping'
<1>1. /\ stack \in Seq(Calls) /\ Len(stack) \in Nat /\ Len(stack) > 0
      /\ stack # << >> /\ Top \in Calls /\ Top = stack[Len(stack)]
  BY TopIsCall DEF TypeOK, SwapGroup, InCall, Top
<1>2. Top.proc = "setChecked" /\ Top.pc = "group" /\ Top.of \in Buttons
  BY <1>1, CallParts DEF SwapGroup, InCall
<1>3. ~Calm(Len(stack))
  BY <1>1, <1>2 DEF Calm
<1>4. isChecked_v' = isChecked_v
  BY DEF SwapGroup
<1> PICK b \in Buttons : b = Top.of
  BY <1>2
<1> PICK g \in Groups \cup {NoGroup} : g = GroupOf[b]
  BY ButtonsAssumption
<1> PICK n \in Nat : n = Len(stack)
  BY <1>1
<1>5. CASE ~Top.to \/ g = NoGroup \/ Active(g) = b
  <2>1. Continue("set") /\ activeChoiceButton_v' = activeChoiceButton_v
    BY <1>5 DEF SwapGroup
  <2>2. /\ Len(stack') = Len(stack)
        /\ stack'[Len(stack)] = [Top EXCEPT !.pc = "set"]
        /\ \A i \in 1 .. Len(stack) - 1 : stack'[i] = stack[i]
        /\ stack' # << >>
    BY <1>1, <1>2, <2>1, CallMoves, GoesOn DEF Continue
  <2>3. /\ Top' = [Top EXCEPT !.pc = "set"]
        /\ Top'.proc = "setChecked" /\ Top'.pc = "set"
        /\ Top'.of = Top.of /\ Top'.to = Top.to
    BY <1>1, <1>2, <2>2, CallMoves DEF Top
  <2>4. OnlyActive'
    BY <1>4, <2>1 DEF OnlyActive, Active
  <2>5. CASE Changing
    <3>1. Calm(Len(stack) - 1)'
      BY <1>1, <2>2, <2>5 DEF Calm, Changing
    <3>2. QED
      BY <1>5, <2>1, <2>2, <2>3, <2>4, <3>1
         DEF Changing, Swapping, Active
  <2>6. CASE Unchecking
    <3>1. Calm(Len(stack) - 2)'
      <4>1. \A i \in 1 .. Len(stack) - 2 : i \in 1 .. Len(stack) - 1
        BY <1>1
      <4>2. QED
        BY <1>1, <2>2, <2>6, <4>1 DEF Calm, Unchecking
    <3>2. Len(stack) > 1 /\ stack'[Len(stack) - 1] = stack[Len(stack) - 1]
      BY <1>1, <2>2, <2>6 DEF Unchecking
    <3>3. QED
      BY <2>1, <2>2, <2>3, <2>4, <2>6, <3>1, <3>2
         DEF Unchecking, Swapping, Active, Activating
  <2>7. QED
    BY <1>3, <2>5, <2>6 DEF Swapping
<1>6. CASE Top.to /\ g # NoGroup /\ Active(g) # b
  <2>1. Changing
    BY <1>3, <1>6 DEF Swapping, Unchecking
  <2>2. g \in Groups
    BY <1>2, <1>6, ButtonsAssumption
  <2>3. CASE Active(g) = NoButton
    <3>1. /\ activeChoiceButton_v' = [activeChoiceButton_v EXCEPT ![g] = b]
          /\ Continue("set")
      BY <1>6, <2>3 DEF SwapGroup
    <3>2. /\ Len(stack') = Len(stack)
          /\ stack'[Len(stack)] = [Top EXCEPT !.pc = "set"]
          /\ \A i \in 1 .. Len(stack) - 1 : stack'[i] = stack[i]
          /\ stack' # << >>
      BY <1>1, <1>2, <3>1, CallMoves, GoesOn DEF Continue
    <3>3. /\ Top' = [Top EXCEPT !.pc = "set"]
          /\ Top'.proc = "setChecked" /\ Top'.pc = "set"
          /\ Top'.of = b
      BY <1>1, <1>2, <3>2, CallMoves DEF Top
    <3>4. \A h \in Groups : Active(h)' = IF h = g THEN b ELSE Active(h)
      BY <2>2, <3>1 DEF TypeOK, Active
    <3>5. OnlyActive'
      <4>1. SUFFICES ASSUME NEW c \in isChecked_v, GroupOf[c] # NoGroup
                     PROVE  Active(GroupOf[c])' = c
        BY <1>4 DEF OnlyActive, Active
      <4>2. Active(GroupOf[c]) = c /\ c \in Buttons /\ c # NoButton
        BY <4>1, ButtonsAssumption DEF OnlyActive, TypeOK
      <4>3. GroupOf[c] # g /\ GroupOf[c] \in Groups
        BY <2>3, <4>1, <4>2, ButtonsAssumption
      <4>4. QED
        BY <3>4, <4>2, <4>3
    <3>6. Calm(Len(stack) - 1)'
      BY <1>1, <2>1, <3>2 DEF Calm, Changing
    <3>7. Active(GroupOf[b])' = b
      BY <2>2, <3>4
    <3>8. Changing'
      BY <3>2, <3>3, <3>6, <3>7 DEF Changing, Active
    <3>9. QED
      BY <3>5, <3>8 DEF Swapping
  <2>4. CASE Active(g) # NoButton
    <3>1. /\ CallThen(SetChecked(Active(g), FALSE), "activate")
          /\ activeChoiceButton_v' = activeChoiceButton_v
      BY <1>6, <2>4 DEF SwapGroup
    <3>2. Active(g) \in Buttons
      BY <2>2, <2>4 DEF TypeOK, Active
    <3> PICK c : c = SetChecked(Active(g), FALSE)
      OBVIOUS
    <3>3. /\ c \in Calls /\ c.proc = "setChecked" /\ c.pc = "group"
          /\ c.of = Active(g) /\ c.to = FALSE
      BY <3>2 DEF SetChecked, Call, Calls
    <3>4. /\ Len(stack') = Len(stack) + 1
          /\ stack'[Len(stack) + 1] = c
          /\ stack'[Len(stack)] = [Top EXCEPT !.pc = "activate"]
          /\ \A i \in 1 .. Len(stack) - 1 : stack'[i] = stack[i]
      BY <1>1, <1>2, <3>1, <3>3, CallMoves, CallsThen
    <3>5. Top' = c
      BY <3>4 DEF Top
    <3> PICK d : d = [Top EXCEPT !.pc = "activate"]
      OBVIOUS
    <3>6. /\ d.proc = "setChecked" /\ d.pc = "activate" /\ d.of = b
          /\ d.to = Top.to
      BY <1>1, <1>2, CallMoves
    <3>7. Activating(d)'
      BY <1>6, <2>2, <3>1, <3>2, <3>6 DEF Activating, Active
    <3>8. stack'[Len(stack') - 1] = d
      BY <1>1, <3>4
    <3>9. Calm(n - 1)'
      BY <1>1, <2>1, <3>4 DEF Calm, Changing
    <3>10. Len(stack') > 1 /\ Len(stack') - 2 = n - 1
      BY <1>1, <3>4
    <3>11. OnlyActive'
      BY <1>4, <3>1 DEF OnlyActive, Active
    <3>12. Active(GroupOf[d.of])' = c.of
      BY <3>1, <3>3, <3>6 DEF Active
    <3>13. Unchecking'
      BY <3>3, <3>5, <3>7, <3>8, <3>9, <3>10, <3>12
         DEF Unchecking, Calm, Active, Activating
    <3>14. QED
      BY <3>11, <3>13 DEF Swapping
  <2>5. QED
    BY <2>3, <2>4
<1>7. QED
  BY <1>1, <1>5, <1>6, CallParts

LEMMA ActivateStep ==
    ASSUME TypeOK, OnlyActive, Swapping, Activate
    PROVE  OnlyActive' /\ Swapping'
<1>1. /\ stack \in Seq(Calls) /\ Len(stack) \in Nat /\ Len(stack) > 0
      /\ stack # << >> /\ Top \in Calls /\ Top = stack[Len(stack)]
  BY TopIsCall DEF TypeOK, Activate, InCall, Top
<1>2. Top.proc = "setChecked" /\ Top.pc = "activate" /\ Top.of \in Buttons
  BY <1>1, CallParts DEF Activate, InCall
<1>3. Changing
  BY <1>1, <1>2 DEF Swapping, Calm, Unchecking
<1> PICK b \in Buttons : b = Top.of
  BY <1>2
<1>4. /\ GroupOf[b] \in Groups /\ Active(GroupOf[b]) \notin isChecked_v
  BY <1>2, <1>3 DEF Changing, Activating
<1> PICK g \in Groups : g = GroupOf[b]
  BY <1>4
<1>5. \A h \in Groups : Active(h)' = IF h = g THEN b ELSE Active(h)
  BY DEF TypeOK, Active, Activate
<1>6. isChecked_v' = isChecked_v
  BY DEF Activate
<1>7. OnlyActive'
  <2>1. SUFFICES ASSUME NEW c \in isChecked_v, GroupOf[c] # NoGroup
                 PROVE  Active(GroupOf[c])' = c
    BY <1>6 DEF OnlyActive, Active
  <2>2. Active(GroupOf[c]) = c /\ c \in Buttons
    BY <2>1 DEF OnlyActive, TypeOK
  <2>3. GroupOf[c] # g /\ GroupOf[c] \in Groups
    BY <1>4, <2>1, <2>2, ButtonsAssumption
  <2>4. QED
    BY <1>5, <2>2, <2>3
<1>8. /\ Len(stack') = Len(stack)
      /\ stack'[Len(stack)] = [Top EXCEPT !.pc = "set"]
      /\ \A i \in 1 .. Len(stack) - 1 : stack'[i] = stack[i]
      /\ stack' # << >>
  BY <1>1, <1>2, CallMoves, GoesOn DEF Continue, Activate
<1>9. Top'.proc = "setChecked" /\ Top'.pc = "set" /\ Top'.of = b
  BY <1>1, <1>2, <1>8, CallMoves DEF Top
<1>10. Calm(Len(stack) - 1)'
  BY <1>1, <1>3, <1>8 DEF Calm, Changing
<1>11. Active(GroupOf[b])' = b
  BY <1>5
<1>12. Changing'
  BY <1>8, <1>9, <1>10, <1>11 DEF Changing, Active
<1>13. QED
  BY <1>7, <1>12 DEF Swapping

\* When the call that unchecks the last active button returns, the call that
\* waits for it is the innermost one.
LEMMA UncheckingReturns ==
    ASSUME TypeOK, Unchecking, Return, Top.of \notin isChecked_v,
           UNCHANGED checkVars
    PROVE  Swapping'
<1>1. stack \in Seq(Calls) /\ Len(stack) \in Nat /\ Len(stack) > 1
      /\ stack # << >>
  BY DEF TypeOK, Unchecking
<1> PICK n \in Nat : n = Len(stack) - 1 /\ n > 0
  BY <1>1
<1>2. /\ Len(stack') = n /\ stack' # << >>
      /\ \A i \in 1 .. n : stack'[i] = stack[i]
  BY <1>1, Returns
<1>3. Top' = stack[n]
  BY <1>2 DEF Top
<1>4. Calm(n - 1)'
  <2>1. \A i \in 1 .. n - 1 : i \in 1 .. n /\ i \in 1 .. Len(stack) - 2
    BY <1>1
  <2>2. QED
    BY <1>2, <2>1 DEF Calm, Unchecking
<1>5. Activating(stack[n]) /\ Top.of = Active(GroupOf[stack[n].of])
  BY DEF Unchecking
<1>6. Changing'
  BY <1>2, <1>3, <1>4, <1>5
     DEF Changing, Activating, Active, checkVars, Calm
<1>7. QED
  BY <1>6 DEF Swapping

LEMMA SetStep ==
    ASSUME TypeOK, OnlyActive, Swapping, Set
    PROVE  OnlyActive' /\ Swapping'
<1>1. /\ stack \in Seq(Calls) /\ Len(stack) \in Nat /\ Len(stack) > 0
      /\ stack # << >> /\ Top \in Calls /\ Top = stack[Len(stack)]
  BY TopIsCall DEF TypeOK, Set, InCall, Top
<1>2. /\ Top.proc = "setChecked" /\ Top.pc = "set" /\ Top.of \in Buttons
      /\ Top.to \in BOOLEAN
  BY <1>1, CallParts DEF Set, InCall
<1>3. Changing \/ Unchecking
  BY <1>1, <1>2 DEF Swapping, Calm
<1>4. activeChoiceButton_v' = activeChoiceButton_v
  BY DEF Set
<1> PICK n \in Nat : n = Len(stack)
  BY <1>1
<1>5. CASE (Top.of \in isChecked_v) = Top.to
  <2>1. Return /\ isChecked_v' = isChecked_v
    BY <1>5 DEF Set
  <2>2. OnlyActive'
    BY <1>4, <2>1 DEF OnlyActive, Active
  <2>3. CASE Changing
    <3>1. Len(stack') = n - 1 /\ \A i \in 1 .. n - 1 : stack'[i] = stack[i]
      BY <1>1, <2>1, Returns
    <3>2. Calm(Len(stack))'
      BY <2>3, <3>1 DEF Calm, Changing
    <3>3. QED
      BY <2>2, <3>2 DEF Swapping
  <2>4. CASE Unchecking
    <3>1. Top.of \notin isChecked_v
      BY <1>5, <2>4 DEF Unchecking
    <3>2. QED
      BY <1>4, <2>1, <2>2, <2>4, <3>1, UncheckingReturns DEF checkVars
  <2>5. QED
    BY <1>3, <2>3, <2>4
<1>6. CASE (Top.of \in isChecked_v) # Top.to
  <2>1. /\ Continue("checkedChanged")
        /\ isChecked_v' = IF Top.to THEN isChecked_v \cup {Top.of}
                          ELSE isChecked_v \ {Top.of}
    BY <1>6 DEF Set
  <2>2. /\ Len(stack') = n
        /\ stack'[n] = [Top EXCEPT !.pc = "checkedChanged"]
        /\ \A i \in 1 .. n - 1 : stack'[i] = stack[i]
        /\ stack' # << >>
    BY <1>1, <1>2, <2>1, CallMoves, GoesOn DEF Continue
  <2>3. /\ stack'[n].proc = "setChecked" /\ stack'[n].pc = "checkedChanged"
        /\ stack'[n].of = Top.of /\ stack'[n].to = Top.to
    BY <1>1, <1>2, <2>2, CallMoves
  <2>4. Top' = stack'[n]
    BY <2>2 DEF Top
  <2>5. CASE Changing
    <3>1. \A i \in 1 .. n : i \in 1 .. n - 1 \/ i = n
      OBVIOUS
    <3>2. Calm(Len(stack))'
      BY <2>2, <2>3, <2>5, <3>1 DEF Calm, Changing
    <3>3. OnlyActive'
      BY <1>2, <1>4, <2>1, <2>5 DEF OnlyActive, Active, Changing, Activating
    <3>4. QED
      BY <3>2, <3>3 DEF Swapping
  <2>6. CASE Unchecking
    <3>1. ~Top.to /\ isChecked_v' = isChecked_v \ {Top.of}
      BY <2>1, <2>6 DEF Unchecking
    <3>2. OnlyActive'
      BY <1>4, <3>1 DEF OnlyActive, Active
    <3>3. n > 1 /\ stack'[n - 1] = stack[n - 1]
      BY <2>2, <2>6 DEF Unchecking
    <3>4. Calm(n - 2)'
      <4>1. \A i \in 1 .. n - 2 : i \in 1 .. n - 1
        OBVIOUS
      <4>2. QED
        BY <2>2, <2>6, <4>1 DEF Calm, Unchecking
    <3>5. Unchecking'
      BY <1>4, <2>2, <2>3, <2>4, <2>6, <3>1, <3>3, <3>4
         DEF Unchecking, Active, Activating
    <3>6. QED
      BY <3>2, <3>5 DEF Swapping
  <2>7. QED
    BY <1>3, <2>5, <2>6
<1>7. QED
  BY <1>5, <1>6

LEMMA CheckedChangedStep ==
    ASSUME TypeOK, OnlyActive, Swapping, CheckedChangedReturns
    PROVE  OnlyActive' /\ Swapping'
<1>1. /\ stack # << >> /\ Top.pc = "checkedChanged" /\ Return
      /\ UNCHANGED checkVars
  BY DEF CheckedChangedReturns, InCall
<1>2. OnlyActive'
  BY <1>1 DEF OnlyActive, Active, checkVars
<1>3. CASE Calm(Len(stack))
  BY <1>1, <1>2, <1>3, CalmSteps
<1>4. CASE Unchecking
  BY <1>1, <1>2, <1>4, UncheckingReturns DEF Unchecking
<1>5. QED
  BY <1>1, <1>3, <1>4 DEF Swapping, Changing, Activating

\* The calls that press and release a button do not change what is checked,
\* and start no more than one call of setChecked().
LEMMA PressingStep ==
    ASSUME TypeOK, OnlyActive, Swapping,
           Click \/ NoClick \/ Settle \/ Pass \/ Hover \/ Handle \/ Count
    PROVE  OnlyActive' /\ Swapping'
<1>1. /\ stack # << >> /\ stack \in Seq(Calls)
      /\ Top.proc \in {"onPressedChanged", "onMouseMove", "onMouseButton"}
      /\ UNCHANGED checkVars
  BY DEF TypeOK, Click, NoClick, Settle, Pass, Hover, Handle, Count, InCall
<1>2. /\ Top \in Calls /\ Top.of \in Buttons
      /\ Calm(Len(stack))
  BY <1>1, TopIsCall, CallParts, QuietIsCalm
<1>3. OnlyActive'
  BY <1>1 DEF OnlyActive, Active, checkVars
<1>4. /\ PressedChanged(Top.of) \in Calls
      /\ PressedChanged(Top.of).proc # "setChecked"
  BY <1>2 DEF PressedChanged, Call, Calls
<1>5. CASE Click
  <2> PICK c : c = SetChecked(Top.of,
                       Top.of \in Toggles => Top.of \notin isChecked_v)
    OBVIOUS
  <2>1. c \in Calls /\ c.pc = "group"
    BY <1>2 DEF SetChecked, Call, Calls
  <2>2. CallThen(c, "settle") /\ Top.proc = "onPressedChanged"
    BY <1>5 DEF Click, InCall
  <2>3. [Top EXCEPT !.pc = "settle"] \in Calls
    BY <1>2, <2>2, CallMoves
  <2>4. QED
    BY <1>1, <1>2, <1>3, <2>1, <2>2, <2>3, CalmSteps
<1>6. CASE NoClick
  <2>1. Continue("settle") /\ Top.proc = "onPressedChanged"
    BY <1>6 DEF NoClick, InCall
  <2>2. [Top EXCEPT !.pc = "settle"] \in Calls
    BY <1>2, <2>1, CallMoves
  <2>3. QED
    BY <1>1, <1>2, <1>3, <2>1, <2>2, CalmSteps
<1>7. CASE Settle \/ Count
  BY <1>1, <1>2, <1>3, <1>7, CalmSteps DEF Settle, Count
<1>8. CASE Hover
  <2>1. /\ Top.proc = "onMouseButton"
        /\ Continue("handle") \/ CallThen(PressedChanged(Top.of), "handle")
    BY <1>8 DEF Hover, InCall
  <2>2. [Top EXCEPT !.pc = "handle"] \in Calls
    BY <1>2, <2>1, CallMoves
  <2>3. QED
    BY <1>1, <1>2, <1>3, <1>4, <2>1, <2>2, CalmSteps
<1>9. CASE Handle
  <2>1. /\ Top.proc = "onMouseButton"
        /\ Continue("count") \/ CallThen(PressedChanged(Top.of), "count")
    BY <1>9 DEF Handle, InCall
  <2>2. [Top EXCEPT !.pc = "count"] \in Calls
    BY <1>2, <2>1, CallMoves
  <2>3. QED
    BY <1>1, <1>2, <1>3, <1>4, <2>1, <2>2, CalmSteps
<1>10. CASE Pass
  <2>1. Return \/ CallLast(PressedChanged(Top.of))
    BY <1>10 DEF Pass
  <2>2. QED
    BY <1>1, <1>2, <1>3, <1>4, <2>1, CalmSteps
<1>11. QED
  BY <1>5, <1>6, <1>7, <1>8, <1>9, <1>10

\* Handlers only call setChecked() when nothing is about to change.
LEMMA UserSetCheckedStep ==
    ASSUME TypeOK, OnlyActive, Swapping, "unchecked" \notin UserCodeIn,
           NEW b \in Buttons, NEW to \in BOOLEAN, setChecked(b, to)
    PROVE  OnlyActive' /\ Swapping'
<1>1. /\ UNCHANGED checkVars /\ stack' = Append(stack, SetChecked(b, to))
      /\ Signal \in UserCodeIn \cup {"event"}
  BY DEF setChecked, UserCodeRuns
<1>2. \/ stack = << >>
      \/ Top.proc # "setChecked"
      \/ Top.pc = "checkedChanged" /\ Top.to
  <2>1. SUFFICES ASSUME stack # << >>, Top.proc = "setChecked"
                 PROVE  Top.pc = "checkedChanged" /\ Top.to
    OBVIOUS
  <2>2. Top.pc \in {"group", "activate", "set", "checkedChanged"}
        /\ Top.to \in BOOLEAN
    BY <2>1, TopIsCall, CallParts DEF TypeOK
  <2>3. Top.pc # "checkedChanged" => Signal = "none"
    BY <2>1, <2>2 DEF Signal
  <2>4. Top.pc = "checkedChanged" /\ ~Top.to => Signal = "unchecked"
    BY <2>1 DEF Signal
  <2>5. QED
    BY <1>1, <2>2, <2>3, <2>4, ButtonsAssumption
<1>3. Calm(Len(stack))
  BY <1>2, QuietIsCalm
<1> PICK c : c = SetChecked(b, to)
  OBVIOUS
<1>4. c \in Calls /\ c.proc = "setChecked" /\ c.pc = "group"
  BY DEF SetChecked, Call, Calls
<1> PICK n \in Nat : n = Len(stack)
  BY DEF TypeOK
<1>5. /\ Len(stack') = n + 1 /\ stack'[n + 1] = c /\ stack' # << >>
      /\ \A i \in 1 .. n : stack'[i] = stack[i]
  BY <1>1, <1>4, AppendProperties DEF TypeOK
<1>6. Calm(n)'
  BY <1>3, <1>5 DEF Calm
<1>7. Top' = c
  BY <1>5 DEF Top
<1>8. Changing'
  BY <1>4, <1>5, <1>6, <1>7 DEF Changing, Calm
<1>9. OnlyActive'
  BY <1>1 DEF OnlyActive, Active, checkVars
<1>10. QED
  BY <1>8, <1>9 DEF Swapping

\* An event starts with calls of other methods.
LEMMA EventStep ==
    ASSUME TypeOK, OnlyActive, NEW p \in Pointers,
           \/ Move(p)
           \/ \E k \in Keys, d \in BOOLEAN : ButtonEvent(p, k, d)
    PROVE  OnlyActive' /\ Swapping'
<1>1. UNCHANGED checkVars
  BY DEF Move, ButtonEvent
<1>2. (Calm(Len(stack)))'
  <2>1. /\ \A b : Passing(b).proc = "onMouseMove"
        /\ \A b : Handler(b).proc = "onMouseButton"
    BY DEF Handler, Passing, Call
  <2>2. CASE Move(p)
    <3>1. /\ stack' = [i \in 1 .. Len(Children) |-> Passing(Children[i])]
          /\ Len(Children) \in Nat
      BY <2>2, ButtonsAssumption DEF Move
    <3>2. Len(stack') = Len(Children)
      BY <3>1
    <3>3. QED
      BY <2>1, <3>1, <3>2 DEF Calm
  <2>3. CASE \E k \in Keys, d \in BOOLEAN : ButtonEvent(p, k, d)
    <3>1. stack' = << >> \/ \E b : stack' = << Handler(b) >>
      BY <2>3 DEF ButtonEvent
    <3>2. CASE stack' = << >>
      BY <3>2 DEF Calm
    <3>3. CASE \E b : stack' = << Handler(b) >>
      <4>1. PICK b : stack' = << Handler(b) >>
        BY <3>3
      <4>2. Len(stack') = 1 /\ stack'[1] = Handler(b)
        BY <4>1
      <4>3. QED
        BY <2>1, <4>2 DEF Calm
    <3>4. QED
      BY <3>1, <3>2, <3>3
  <2>4. QED
    BY <2>2, <2>3
<1>3. QED
  BY <1>1, <1>2 DEF OnlyActive, Active, checkVars, Swapping

-----------------------------------------------------------------------------
(* Types *)

\* Popping, going on and calling leave a sequence of calls.
LEMMA StackTyped ==
    ASSUME TypeOK, stack # << >>,
           \/ Return
           \/ \E c \in Calls : CallLast(c)
           \/ \E pc : /\ [Top EXCEPT !.pc = pc] \in Calls
                     /\ \/ Continue(pc)
                        \/ \E c \in Calls : CallThen(c, pc)
    PROVE  stack' \in Seq(Calls)
<1>1. stack \in Seq(Calls)
  BY DEF TypeOK
<1>2. CASE Return
  BY <1>1, <1>2, Returns
<1>3. CASE \E pc : [Top EXCEPT !.pc = pc] \in Calls /\ Continue(pc)
  BY <1>1, <1>3, GoesOn DEF Continue
<1>4. CASE \E pc : /\ [Top EXCEPT !.pc = pc] \in Calls
                  /\ \E c \in Calls : CallThen(c, pc)
  BY <1>1, <1>4, CallsThen
<1>5. CASE \E c \in Calls : CallLast(c)
  BY <1>1, <1>5, CallsLast
<1>6. QED
  BY <1>2, <1>3, <1>4, <1>5

LEMMA TypeStep ==
    ASSUME TypeOK, Next
    PROVE  TypeOK'
<1> USE DEF TypeOK, checkVars, pressVars, mouseVars
<1>1. \A b \in Buttons : /\ PressedChanged(b) \in Calls
                          /\ Handler(b) \in Calls
                          /\ Passing(b) \in Calls
                          /\ \A to \in BOOLEAN : SetChecked(b, to) \in Calls
  BY DEF PressedChanged, Handler, Passing, SetChecked, Call, Calls
<1>2. stack # << >> =>
          /\ Top.of \in Buttons /\ Top \in Calls
          /\ Top.proc = "onMouseButton" =>
                 \A pc \in {"handle", "count"} :
                     [Top EXCEPT !.pc = pc] \in Calls
          /\ Top.proc = "onPressedChanged" =>
                 [Top EXCEPT !.pc = "settle"] \in Calls
          /\ Top.proc = "setChecked" =>
                 \A pc \in {"activate", "set", "checkedChanged"} :
                     [Top EXCEPT !.pc = pc] \in Calls
  <2>1. SUFFICES ASSUME stack # << >>
                 PROVE  /\ Top.of \in Buttons /\ Top \in Calls
                        /\ Top.proc = "onMouseButton" =>
                             \A pc \in {"handle", "count"} :
                                 [Top EXCEPT !.pc = pc] \in Calls
                        /\ Top.proc = "onPressedChanged" =>
                             [Top EXCEPT !.pc = "settle"] \in Calls
                        /\ Top.proc = "setChecked" =>
                             \A pc \in {"activate", "set", "checkedChanged"} :
                                 [Top EXCEPT !.pc = pc] \in Calls
    OBVIOUS
  <2>2. Top \in Calls /\ Top.of \in Buttons
    BY <2>1, TopIsCall, CallParts
  <2>3. QED
    BY <2>2, CallMoves
<1>3. CASE SwapGroup
  <2>1. stack # << >> /\ Top.proc = "setChecked"
    BY <1>3 DEF SwapGroup, InCall
  <2>2. /\ activeChoiceButton_v' \in [Groups -> Buttons \cup {NoButton}]
        /\ \/ Continue("set")
           \/ /\ Active(GroupOf[Top.of]) \in Buttons
              /\ CallThen(SetChecked(Active(GroupOf[Top.of]), FALSE),
                          "activate")
    BY <1>2, <1>3, <2>1, ButtonsAssumption DEF SwapGroup, Active
  <2>3. stack' \in Seq(Calls)
    BY <1>1, <1>2, <2>1, <2>2, StackTyped
  <2>4. QED
    BY <1>3, <2>2, <2>3 DEF SwapGroup
<1>4. CASE Activate
  <2>1. stack # << >> /\ Top.proc = "setChecked" /\ Continue("set")
    BY <1>4 DEF Activate, InCall
  <2>2. stack' \in Seq(Calls)
    BY <1>2, <2>1, StackTyped
  <2>3. QED
    BY <1>2, <1>4, <2>1, <2>2 DEF Activate
<1>5. CASE Set
  <2>1. stack # << >> /\ Top.proc = "setChecked"
        /\ (Return \/ Continue("checkedChanged"))
    BY <1>5 DEF Set, InCall
  <2>2. stack' \in Seq(Calls)
    BY <1>2, <2>1, StackTyped
  <2>3. QED
    BY <1>2, <1>5, <2>1, <2>2 DEF Set
<1>6. CASE CheckedChangedReturns
  <2>1. stack # << >> /\ Return
    BY <1>6 DEF CheckedChangedReturns, InCall
  <2>2. stack' \in Seq(Calls)
    BY <2>1, StackTyped
  <2>3. QED
    BY <1>6, <2>2 DEF CheckedChangedReturns
<1>7. CASE Click
  <2> PICK to \in BOOLEAN :
           to = (Top.of \in Toggles => Top.of \notin isChecked_v)
    OBVIOUS
  <2>1. /\ stack # << >> /\ Top.proc = "onPressedChanged"
        /\ CallThen(SetChecked(Top.of, to), "settle")
    BY <1>7 DEF Click, InCall
  <2>2. stack' \in Seq(Calls)
    BY <1>1, <1>2, <2>1, StackTyped
  <2>3. QED
    BY <1>7, <2>2 DEF Click
<1>8. CASE NoClick
  <2>1. stack # << >> /\ Top.proc = "onPressedChanged" /\ Continue("settle")
    BY <1>8 DEF NoClick, InCall
  <2>2. stack' \in Seq(Calls)
    BY <1>2, <2>1, StackTyped
  <2>3. QED
    BY <1>8, <2>2 DEF NoClick
<1>9. CASE Settle
  <2>1. stack # << >> /\ Return
    BY <1>9 DEF Settle, InCall
  <2>2. stack' \in Seq(Calls)
    BY <2>1, StackTyped
  <2>3. QED
    BY <1>2, <1>9, <2>1, <2>2 DEF Settle
<1>10. CASE Hover
  <2>1. /\ stack # << >> /\ Top.proc = "onMouseButton"
        /\ Continue("handle") \/ CallThen(PressedChanged(Top.of), "handle")
    BY <1>10 DEF Hover, InCall
  <2>2. stack' \in Seq(Calls)
    BY <1>1, <1>2, <2>1, StackTyped
  <2>3. /\ hovered' \in [Buttons -> SUBSET Pointers]
        /\ isPressed_v' \subseteq Buttons
    BY <1>2, <1>10, <2>1 DEF Hover, HoverSet
  <2>4. QED
    BY <1>10, <2>2, <2>3 DEF Hover
<1>11. CASE Handle
  <2>1. /\ stack # << >> /\ Top.proc = "onMouseButton"
        /\ Continue("count") \/ CallThen(PressedChanged(Top.of), "count")
    BY <1>11 DEF Handle, InCall
  <2>2. stack' \in Seq(Calls)
    BY <1>1, <1>2, <2>1, StackTyped
  <2>3. QED
    BY <1>2, <1>11, <2>1, <2>2 DEF Handle
<1>12. CASE Count
  <2>1. stack # << >> /\ Return
    BY <1>12 DEF Count, InCall
  <2>2. stack' \in Seq(Calls)
    BY <2>1, StackTyped
  <2>3. captured' \in [Pointers -> [by : Buttons, clicks : Nat \ {0}]
                                       \cup {NoCapture}]
    <3>1. Top.of \in Buttons /\ event.by \in Pointers
      BY <1>2, <2>1
    <3> PICK c : c = captured[event.by]
      OBVIOUS
    <3>2. c \in [by : Buttons, clicks : Nat \ {0}] \cup {NoCapture}
      BY <3>1
    <3> PICK n : n = IF event.isDown THEN c.clicks + 1 ELSE c.clicks - 1
      OBVIOUS
    <3>3. c # NoCapture /\ n # 0 =>
              [c EXCEPT !.clicks = n] \in [by : Buttons, clicks : Nat \ {0}]
      BY <3>2
    <3>4. [by |-> Top.of, clicks |-> 1] \in [by : Buttons, clicks : Nat \ {0}]
      BY <3>1
    <3> PICK e : e = IF c # NoCapture
                     THEN IF n = 0 THEN NoCapture ELSE [c EXCEPT !.clicks = n]
                     ELSE IF event.isDown /\ event.key = "LEFT"
                     THEN [by |-> Top.of, clicks |-> 1]
                     ELSE NoCapture
      OBVIOUS
    <3>5. e \in [by : Buttons, clicks : Nat \ {0}] \cup {NoCapture}
      BY <3>3, <3>4
    <3>6. captured' = [captured EXCEPT ![event.by] = e]
      BY <1>12 DEF Count
    <3>7. QED
      BY <3>1, <3>5, <3>6
  <2>4. QED
    BY <1>12, <2>2, <2>3 DEF Count
<1>13. ASSUME NEW p \in Pointers, Move(p)
       PROVE  TypeOK'
  <2>1. PICK b \in Buttons \cup {NoButton} :
            over' = [over EXCEPT ![p] = b]
    BY <1>13 DEF Move
  <2>2. /\ stack' = [i \in 1 .. Len(Children) |-> Passing(Children[i])]
        /\ Len(Children) \in Nat
        /\ \A i \in 1 .. Len(Children) : Children[i] \in Buttons
    BY <1>13, ButtonsAssumption DEF Move
  <2>3. \A i \in 1 .. Len(Children) : Passing(Children[i]) \in Calls
    BY <1>1, <2>2
  <2>4. stack' \in Seq(Calls)
    <3> HIDE DEF TypeOK
    <3> QED
      BY <2>2, <2>3
  <2>5. event' \in [by : Pointers, key : {"LEFT", "RIGHT", "none"},
                    isDown : BOOLEAN]
    BY <1>13 DEF Move, NoEvent
  <2>6. QED
    BY <1>13, <2>1, <2>4, <2>5 DEF Move
<1>14. ASSUME NEW p \in Pointers, NEW k \in Keys, NEW d \in BOOLEAN,
              ButtonEvent(p, k, d)
       PROVE  TypeOK'
  <2>1. captured[p] # NoCapture => captured[p].by \in Buttons
    OBVIOUS
  <2>2. stack' = << >> \/ \E b \in Buttons : stack' = << Handler(b) >>
    BY <1>14, <2>1 DEF ButtonEvent
  <2>3. stack' \in Seq(Calls)
    <3>1. \A c \in Calls : << c >> \in Seq(Calls)
      OBVIOUS
    <3>2. << >> \in Seq(Calls)
      OBVIOUS
    <3> HIDE DEF TypeOK
    <3>3. \A b \in Buttons : << Handler(b) >> \in Seq(Calls)
      BY <1>1, <3>1
    <3>4. QED
      BY <2>2, <3>2, <3>3
  <2>4. event' \in [by : Pointers, key : {"LEFT", "RIGHT", "none"},
                    isDown : BOOLEAN]
    BY <1>14, ButtonsAssumption DEF ButtonEvent
  <2>5. down' \in [Pointers -> SUBSET Keys]
    BY <1>14 DEF ButtonEvent
  <2>6. QED
    BY <1>14, <2>3, <2>4, <2>5 DEF ButtonEvent
<1>15. ASSUME NEW b \in Buttons, NEW to \in BOOLEAN, setChecked(b, to)
       PROVE  TypeOK'
  <2>1. stack' \in Seq(Calls)
    BY <1>1, <1>15, AppendProperties DEF setChecked
  <2>2. event' \in [by : Pointers, key : {"LEFT", "RIGHT", "none"},
                    isDown : BOOLEAN]
    BY <1>15, ButtonsAssumption DEF setChecked, NoEvent
  <2>3. QED
    BY <1>15, <2>1, <2>2 DEF setChecked
<1>16. ASSUME NEW b \in Buttons, setVisible(b)
       PROVE  TypeOK'
  BY <1>16 DEF setVisible
<1>17. CASE Pass
  <2>1. /\ stack # << >>
        /\ Return \/ CallLast(PressedChanged(Top.of))
    BY <1>17 DEF Pass, InCall
  <2>2. stack' \in Seq(Calls)
    BY <1>1, <1>2, <2>1, StackTyped
  <2>3. /\ hovered' \in [Buttons -> SUBSET Pointers]
        /\ isPressed_v' \subseteq Buttons
    BY <1>2, <1>17, <2>1 DEF Pass, HoverSet
  <2>4. QED
    BY <1>17, <2>2, <2>3 DEF Pass
<1>18. QED
  BY <1>3, <1>4, <1>5, <1>6, <1>7, <1>8, <1>9, <1>10, <1>11, <1>12, <1>13,
     <1>14, <1>15, <1>16, <1>17 DEF Next, Checking, Pressing, Mouse, UserCode

-----------------------------------------------------------------------------
(* What PushButton remembers *)

\* Only the return of onPressedChanged() ends such a call.
LEMMA SettlingStays ==
    ASSUME TypeOK, stack # << >>, NEW b, Settling(b),
           \/ Return /\ (Top.proc # "onPressedChanged" \/ Top.of # b)
           \/ /\ Top.proc # "onPressedChanged"
              /\ \E c \in Calls : CallLast(c)
           \/ \E pc : /\ [Top EXCEPT !.pc = pc] \in Calls
                     /\ \/ Continue(pc)
                        \/ \E c \in Calls : CallThen(c, pc)
    PROVE  Settling(b)'
<1>1. /\ stack \in Seq(Calls) /\ Len(stack) \in Nat /\ Len(stack) > 0
      /\ Top \in Calls /\ Top = stack[Len(stack)]
  BY TopIsCall DEF TypeOK, Top
<1> PICK i \in 1 .. Len(stack) :
         stack[i].proc = "onPressedChanged" /\ stack[i].of = b
  BY DEF Settling
<1> PICK n \in Nat : n = Len(stack)
  BY <1>1
<1>2. i \in 1 .. n - 1 \/ (i = n /\ stack[i] = Top)
  BY <1>1
<1>3. CASE Return /\ (Top.proc # "onPressedChanged" \/ Top.of # b)
  <2>1. Len(stack') = n - 1 /\ \A j \in 1 .. n - 1 : stack'[j] = stack[j]
    BY <1>1, <1>3, Returns
  <2>2. i \in 1 .. n - 1
    BY <1>2, <1>3
  <2>3. QED
    BY <2>1, <2>2 DEF Settling
<1>4. CASE \E pc : /\ [Top EXCEPT !.pc = pc] \in Calls
                  /\ \/ Continue(pc)
                     \/ \E c \in Calls : CallThen(c, pc)
  <2>1. PICK pc : /\ [Top EXCEPT !.pc = pc] \in Calls
                  /\ \/ Continue(pc)
                     \/ \E c \in Calls : CallThen(c, pc)
    BY <1>4
  <2>2. /\ Len(stack') \in {n, n + 1}
        /\ stack'[n] = [Top EXCEPT !.pc = pc]
        /\ \A j \in 1 .. n - 1 : stack'[j] = stack[j]
    <3>1. CASE Continue(pc)
      BY <1>1, <2>1, <3>1, GoesOn DEF Continue
    <3>2. CASE \E c \in Calls : CallThen(c, pc)
      BY <1>1, <2>1, <3>2, CallsThen
    <3>3. QED
      BY <2>1, <3>1, <3>2
  <2>3. [Top EXCEPT !.pc = pc].proc = Top.proc
        /\ [Top EXCEPT !.pc = pc].of = Top.of
    BY <1>1 DEF Calls
  <2>4. i \in 1 .. Len(stack')
    BY <1>2, <2>2
  <2>5. stack'[i].proc = "onPressedChanged" /\ stack'[i].of = b
    BY <1>2, <2>2, <2>3
  <2>6. QED
    BY <2>4, <2>5 DEF Settling
<1>5. CASE Top.proc # "onPressedChanged" /\ \E c \in Calls : CallLast(c)
  <2>1. Len(stack') = n /\ \A j \in 1 .. n - 1 : stack'[j] = stack[j]
    BY <1>1, <1>5, CallsLast
  <2>2. i \in 1 .. n - 1
    BY <1>2, <1>5
  <2>3. QED
    BY <2>1, <2>2 DEF Settling
<1>6. QED
  BY <1>3, <1>4, <1>5

\* A call that has just started is in progress.
LEMMA SettlingStarts ==
    ASSUME TypeOK, stack # << >>, NEW b \in Buttons, NEW pc,
           [Top EXCEPT !.pc = pc] \in Calls,
           CallThen(PressedChanged(b), pc)
    PROVE  Settling(b)'
<1>1. /\ PressedChanged(b) \in Calls
      /\ PressedChanged(b).proc = "onPressedChanged"
      /\ PressedChanged(b).of = b
  BY DEF PressedChanged, Call, Calls
<1>2. /\ Len(stack') = Len(stack) + 1 /\ Len(stack) \in Nat
      /\ stack'[Len(stack) + 1] = PressedChanged(b)
  BY <1>1, CallsThen, TopIsCall DEF TypeOK
<1>3. QED
  BY <1>1, <1>2 DEF Settling

LEMMA RememberedStep ==
    ASSUME TypeOK, Remembered, Next
    PROVE  Remembered'
<1> SUFFICES ASSUME NEW b \in Buttons
             PROVE  (b \in currentlyPressed <=> b \in isPressed_v)'
                       \/ Settling(b)'
  BY DEF Remembered
<1>1. (b \in currentlyPressed <=> b \in isPressed_v) \/ Settling(b)
  BY DEF Remembered
<1>2. stack # << >> => Top \in Calls /\ Top.of \in Buttons
  BY TopIsCall, CallParts DEF TypeOK
<1>3. ASSUME UNCHANGED pressVars, stack # << >>,
             \/ Return /\ Top.proc # "onPressedChanged"
             \/ \E pc : /\ [Top EXCEPT !.pc = pc] \in Calls
                       /\ \/ Continue(pc)
                          \/ \E c \in Calls : CallThen(c, pc)
      PROVE  (b \in currentlyPressed <=> b \in isPressed_v)'
                \/ Settling(b)'
  BY <1>1, <1>3, SettlingStays DEF pressVars
<1>4. CASE SwapGroup \/ Activate \/ Set \/ CheckedChangedReturns
  <2>1. /\ UNCHANGED pressVars /\ stack # << >> /\ Top.proc = "setChecked"
        /\ \/ Return
           \/ \E pc \in {"activate", "set", "checkedChanged"} :
                  Continue(pc) \/ \E a : a = Active(GroupOf[Top.of])
                                        /\ a # NoButton
                                        /\ GroupOf[Top.of] # NoGroup
                                        /\ CallThen(SetChecked(a, FALSE), pc)
    <3>1. CASE SwapGroup
      BY <3>1, Zenon DEF SwapGroup, InCall
    <3>2. CASE Activate
      BY <3>2 DEF Activate, InCall
    <3>3. CASE Set
      BY <3>3 DEF Set, InCall
    <3>4. CASE CheckedChangedReturns
      BY <3>4 DEF CheckedChangedReturns, InCall
    <3>5. QED
      BY <1>4, <3>1, <3>2, <3>3, <3>4
  <2>2. \A pc \in {"activate", "set", "checkedChanged"} :
            [Top EXCEPT !.pc = pc] \in Calls
    BY <1>2, <2>1, CallMoves
  <2>3. \A a : /\ a = Active(GroupOf[Top.of]) /\ a # NoButton
               /\ GroupOf[Top.of] # NoGroup
               => SetChecked(a, FALSE) \in Calls
    BY <1>2, <2>1, ButtonsAssumption
       DEF TypeOK, Active, SetChecked, Call, Calls
  <2>4. QED
    BY <1>3, <2>1, <2>2, <2>3
<1>5. CASE Click \/ NoClick
  <2>1. /\ UNCHANGED pressVars /\ stack # << >>
        /\ Top.proc = "onPressedChanged"
        /\ \/ Continue("settle")
           \/ \E to \in BOOLEAN : CallThen(SetChecked(Top.of, to), "settle")
    <3> PICK to \in BOOLEAN :
             to = (Top.of \in Toggles => Top.of \notin isChecked_v)
      OBVIOUS
    <3> QED
      BY <1>5 DEF Click, NoClick, InCall
  <2>2. [Top EXCEPT !.pc = "settle"] \in Calls
    BY <1>2, <2>1, CallMoves
  <2>3. \A to \in BOOLEAN : SetChecked(Top.of, to) \in Calls
    BY <1>2, <2>1 DEF SetChecked, Call, Calls
  <2>4. QED
    BY <1>3, <2>1, <2>2, <2>3
<1>6. CASE Count
  BY <1>3, <1>6 DEF Count, InCall
<1>7. CASE Settle
  <2>1. CASE Top.of = b
    BY <1>7, <2>1 DEF Settle
  <2>2. CASE Top.of # b
    <3>1. (b \in currentlyPressed <=> b \in isPressed_v)'
             \/ ~(b \in currentlyPressed <=> b \in isPressed_v)
      BY <1>7, <2>2 DEF Settle
    <3>2. Settling(b) => Settling(b)'
      BY <1>7, <2>2, SettlingStays DEF Settle, InCall
    <3>3. QED
      BY <1>1, <3>1, <3>2
  <2>3. QED
    BY <2>1, <2>2
<1>8. CASE Hover \/ Handle
  <2>1. PICK pc \in {"handle", "count"} :
            /\ stack # << >> /\ Top.proc = "onMouseButton"
            /\ currentlyPressed' = currentlyPressed
            /\ \/ Continue(pc) /\ isPressed_v' = isPressed_v
               \/ /\ CallThen(PressedChanged(Top.of), pc)
                  /\ b # Top.of =>
                        (b \in isPressed_v' <=> b \in isPressed_v)
    <3>1. CASE Hover
      BY <3>1 DEF Hover, HoverSet, InCall
    <3>2. CASE Handle
      BY <3>2 DEF Handle, InCall
    <3>3. QED
      BY <1>8, <3>1, <3>2
  <2>2. [Top EXCEPT !.pc = pc] \in Calls
    BY <1>2, <2>1, CallMoves
  <2>3. PressedChanged(Top.of) \in Calls
    BY <1>2, <2>1 DEF PressedChanged, Call, Calls
  <2>4. CASE Continue(pc) /\ isPressed_v' = isPressed_v
    BY <1>3, <2>1, <2>2, <2>4 DEF pressVars
  <2>5. CASE CallThen(PressedChanged(Top.of), pc) /\ b = Top.of
    BY <2>1, <2>2, <2>5, SettlingStarts
  <2>6. CASE CallThen(PressedChanged(Top.of), pc) /\ b # Top.of
    <3>1. Settling(b) => Settling(b)'
      BY <2>1, <2>2, <2>3, <2>6, SettlingStays
    <3>2. b \in isPressed_v' <=> b \in isPressed_v
      BY <2>1, <2>6, <2>2
    <3>3. QED
      BY <1>1, <2>1, <3>1, <3>2
  <2>7. QED
    BY <2>1, <2>4, <2>5, <2>6
<1>9. ASSUME NEW p \in Pointers, Move(p)
      PROVE  (b \in currentlyPressed <=> b \in isPressed_v)'
  BY <1>1, <1>9 DEF Move, Settling, pressVars
<1>10. ASSUME NEW p \in Pointers, NEW k \in Keys, NEW d \in BOOLEAN,
              ButtonEvent(p, k, d)
       PROVE  (b \in currentlyPressed <=> b \in isPressed_v)'
  BY <1>1, <1>10 DEF ButtonEvent, Settling, pressVars
<1>11. ASSUME NEW c \in Buttons, NEW to \in BOOLEAN, setChecked(c, to)
       PROVE  (b \in currentlyPressed <=> b \in isPressed_v)' \/ Settling(b)'
  <2>1. stack' = Append(stack, SetChecked(c, to)) /\ UNCHANGED pressVars
    BY <1>11 DEF setChecked
  <2>2. SetChecked(c, to) \in Calls
    BY DEF SetChecked, Call, Calls
  <2>3. /\ Len(stack') = Len(stack) + 1 /\ Len(stack) \in Nat
        /\ \A i \in 1 .. Len(stack) : stack'[i] = stack[i]
    BY <2>1, <2>2, AppendProperties DEF TypeOK
  <2>4. Settling(b) => Settling(b)'
    BY <2>3 DEF Settling
  <2>5. QED
    BY <1>1, <2>1, <2>4 DEF pressVars
<1>12. ASSUME NEW c \in Buttons, setVisible(c)
       PROVE  (b \in currentlyPressed <=> b \in isPressed_v)' \/ Settling(b)'
  BY <1>1, <1>12 DEF setVisible, Settling, pressVars
<1>13. CASE Pass
  <2>1. /\ stack # << >> /\ Top.proc = "onMouseMove"
        /\ currentlyPressed' = currentlyPressed
        /\ \/ Return /\ isPressed_v' = isPressed_v
           \/ /\ CallLast(PressedChanged(Top.of))
              /\ b # Top.of => (b \in isPressed_v' <=> b \in isPressed_v)
    BY <1>13 DEF Pass, HoverSet, InCall
  <2>2. CASE Return /\ isPressed_v' = isPressed_v
    BY <1>3, <2>1, <2>2 DEF pressVars
  <2>3. CASE /\ CallLast(PressedChanged(Top.of))
             /\ b # Top.of => (b \in isPressed_v' <=> b \in isPressed_v)
    <3>1. /\ PressedChanged(Top.of) \in Calls
          /\ PressedChanged(Top.of).proc = "onPressedChanged"
          /\ PressedChanged(Top.of).of = Top.of
      BY <1>2, <2>1 DEF PressedChanged, Call, Calls
    <3>2. /\ Len(stack') = Len(stack) /\ Len(stack) \in Nat /\ Len(stack) > 0
          /\ stack'[Len(stack)] = PressedChanged(Top.of)
      BY <2>1, <2>3, <3>1, CallsLast, TopIsCall DEF TypeOK
    <3>3. CASE b = Top.of
      BY <3>1, <3>2, <3>3 DEF Settling
    <3>4. CASE b # Top.of
      <4>1. Settling(b) => Settling(b)'
        BY <2>1, <2>3, <3>1, SettlingStays
      <4>2. QED
        BY <1>1, <2>1, <2>3, <3>4, <4>1
    <3>5. QED
      BY <3>3, <3>4
  <2>4. QED
    BY <2>1, <2>2, <2>3
<1>14. QED
  BY <1>4, <1>5, <1>6, <1>7, <1>8, <1>9, <1>10, <1>11, <1>12, <1>13
     DEF Next, Checking, Pressing, Mouse, UserCode

-----------------------------------------------------------------------------
(* The active button of a group is checked *)

\* Whatever the innermost call does, the calls below it stay as they are.
LEMMA LowerStay ==
    ASSUME TypeOK, stack # << >>,
           \/ Return
           \/ \E c \in Calls : CallLast(c)
           \/ \E pc : /\ [Top EXCEPT !.pc = pc] \in Calls
                     /\ \/ Continue(pc)
                        \/ \E c \in Calls : CallThen(c, pc)
    PROVE  /\ Len(stack) \in Nat /\ Len(stack) > 0
           /\ Len(stack') \in Len(stack) - 1 .. Len(stack) + 1
           /\ \A i \in 1 .. Len(stack) - 1 : stack'[i] = stack[i]
<1>1. stack \in Seq(Calls) /\ Len(stack) \in Nat /\ Len(stack) > 0
  BY TopIsCall DEF TypeOK
<1>2. CASE Return
  BY <1>1, <1>2, Returns
<1>3. CASE \E c \in Calls : CallLast(c)
  BY <1>1, <1>3, CallsLast
<1>4. CASE \E pc : [Top EXCEPT !.pc = pc] \in Calls /\ Continue(pc)
  BY <1>1, <1>4, GoesOn DEF Continue
<1>5. CASE \E pc : /\ [Top EXCEPT !.pc = pc] \in Calls
                   /\ \E c \in Calls : CallThen(c, pc)
  BY <1>1, <1>5, CallsThen
<1>6. QED
  BY <1>2, <1>3, <1>4, <1>5

\* A call that is to activate or check a button of group g.
SwapsAt(i, g) ==
    /\ stack[i].proc = "setChecked" /\ stack[i].to
    /\ stack[i].pc \in {"activate", "set"}
    /\ GroupOf[stack[i].of] = g

LEMMA SwapsStay ==
    ASSUME Len(stack) \in Nat, Len(stack) > 0, Len(stack') \in Nat,
           Len(stack') >= Len(stack) - 1,
           \A i \in 1 .. Len(stack) - 1 : stack'[i] = stack[i],
           NEW g, Swaps(g), ~SwapsAt(Len(stack), g)
    PROVE  Swaps(g)'
<1>1. PICK i \in 1 .. Len(stack) : SwapsAt(i, g)
  BY DEF Swaps, SwapsAt
<1>2. i \in 1 .. Len(stack) - 1
  BY <1>1
<1>3. i \in 1 .. Len(stack') /\ stack'[i] = stack[i]
  BY <1>2
<1>4. QED
  BY <1>1, <1>3 DEF Swaps, SwapsAt

\* The call at i is none that unchecks a button that it should not.
NoUnchecker(i) ==
    /\ stack[i].proc = "setChecked" /\ ~stack[i].to
    /\ stack[i].pc \in {"group", "set"}
    => stack[i].of \in Toggles

\* The calls below the innermost one uncheck toggle buttons only; the new ones
\* are left to show.
LEMMA UncheckedStay ==
    ASSUME UncheckedRightly, Len(stack) \in Nat, Len(stack) > 0,
           Len(stack') \in Nat,
           \A i \in 1 .. Len(stack) - 1 : stack'[i] = stack[i],
           \A i \in Len(stack) .. Len(stack') :
               NoUnchecker(i)' \/ (i = Len(stack') /\ Unchecking')
    PROVE  UncheckedRightly'
<1>1. SUFFICES ASSUME NEW i \in 1 .. Len(stack')
               PROVE  NoUnchecker(i)' \/ (i = Len(stack') /\ Unchecking')
  BY <1>1 DEF UncheckedRightly, NoUnchecker
<1>2. CASE i \in 1 .. Len(stack) - 1
  BY <1>2 DEF UncheckedRightly, NoUnchecker
<1>3. CASE i \in Len(stack) .. Len(stack')
  BY <1>3
<1>4. QED
  BY <1>2, <1>3

\* Steps that change nothing that is checked or active, and start no more than
\* one call that checks a button or unchecks a toggle button.
LEMMA OtherKeepsActive ==
    ASSUME TypeOK, ActiveOrSwaps, UncheckedRightly, GroupsAgree,
           stack # << >>, UNCHANGED checkVars,
           Top.proc # "setChecked" \/ Top.pc = "checkedChanged",
           \/ Return
           \/ \E c \in Calls : CallLast(c) /\ c.proc # "setChecked"
           \/ \E pc : /\ [Top EXCEPT !.pc = pc] \in Calls
                     /\ Top.proc # "setChecked"
                     /\ \/ Continue(pc)
                        \/ \E c \in Calls :
                               /\ CallThen(c, pc)
                               /\ c.proc = "setChecked" =>
                                      c.to \/ c.of \in Toggles
    PROVE  ActiveOrSwaps' /\ UncheckedRightly' /\ GroupsAgree'
<1> PICK n \in Nat : n = Len(stack)
  BY DEF TypeOK
<1>1. /\ n > 0 /\ Len(stack') \in n - 1 .. n + 1
      /\ \A i \in 1 .. n - 1 : stack'[i] = stack[i]
  BY LowerStay
<1>2. /\ stack \in Seq(Calls) /\ Top \in Calls /\ Top = stack[n]
  BY TopIsCall DEF TypeOK, Top
<1>3. GroupsAgree'
  BY DEF GroupsAgree, Active, checkVars
<1>4. ActiveOrSwaps'
  <2>1. \A g : ~SwapsAt(n, g)
    BY <1>2 DEF SwapsAt
  <2>2. \A g : Swaps(g) => Swaps(g)'
    <3> TAKE g
    <3> HAVE Swaps(g)
    <3>1. ~SwapsAt(n, g)
      BY <2>1
    <3>2. Len(stack') \in Nat /\ Len(stack') >= n - 1
      BY <1>1
    <3>3. QED
      BY <1>1, <3>1, <3>2, SwapsStay
  <2>3. QED
    BY <2>2 DEF ActiveOrSwaps, Active, checkVars
<1>5. \A i \in n .. Len(stack') : NoUnchecker(i)'
  <2>1. CASE Return
    BY <1>1, <1>2, <2>1, Returns
  <2>2. CASE \E c \in Calls : CallLast(c) /\ c.proc # "setChecked"
    BY <1>1, <1>2, <2>2, CallsLast DEF NoUnchecker
  <2>3. CASE \E pc : /\ [Top EXCEPT !.pc = pc] \in Calls
                     /\ Top.proc # "setChecked" /\ Continue(pc)
    <3>1. PICK pc : /\ [Top EXCEPT !.pc = pc] \in Calls
                    /\ Top.proc # "setChecked" /\ Continue(pc)
      BY <2>3
    <3>2. /\ Len(stack') = n /\ stack'[n] = [Top EXCEPT !.pc = pc]
      BY <1>2, <3>1, GoesOn DEF Continue
    <3>3. [Top EXCEPT !.pc = pc].proc = Top.proc
      BY <1>2 DEF Calls
    <3>4. NoUnchecker(n)'
      BY <3>1, <3>2, <3>3 DEF NoUnchecker
    <3>5. QED
      BY <1>1, <3>2, <3>4
  <2>4. CASE \E pc : /\ [Top EXCEPT !.pc = pc] \in Calls
                     /\ Top.proc # "setChecked"
                     /\ \E c \in Calls :
                            /\ CallThen(c, pc)
                            /\ c.proc = "setChecked" =>
                                   c.to \/ c.of \in Toggles
    <3>1. PICK pc : /\ [Top EXCEPT !.pc = pc] \in Calls
                    /\ Top.proc # "setChecked"
                    /\ \E c \in Calls :
                           /\ CallThen(c, pc)
                           /\ c.proc = "setChecked" =>
                                  c.to \/ c.of \in Toggles
      BY <2>4
    <3>2. PICK c \in Calls : /\ CallThen(c, pc)
                             /\ c.proc = "setChecked" =>
                                    c.to \/ c.of \in Toggles
      BY <3>1
    <3>3. /\ Len(stack') = n + 1 /\ stack'[n] = [Top EXCEPT !.pc = pc]
          /\ stack'[n + 1] = c
      BY <1>2, <3>1, <3>2, CallsThen
    <3>4. [Top EXCEPT !.pc = pc].proc = Top.proc
      BY <1>2 DEF Calls
    <3>5. NoUnchecker(n)' /\ NoUnchecker(n + 1)'
      BY <3>1, <3>2, <3>3, <3>4 DEF NoUnchecker
    <3>6. QED
      BY <1>1, <3>3, <3>5
  <2>5. QED
    BY <2>1, <2>2, <2>3, <2>4
<1>6. UncheckedRightly'
  BY <1>1, <1>5, UncheckedStay
<1>7. QED
  BY <1>3, <1>4, <1>6


LEMMA SwapGroupKeepsActive ==
    ASSUME ActiveInv, Swapping', SwapGroup
    PROVE  ActiveOrSwaps' /\ UncheckedRightly' /\ GroupsAgree'
<1> PICK n \in Nat : n = Len(stack)
  BY DEF ActiveInv, CheckInv, TypeOK
<1>1. /\ TypeOK /\ stack # << >> /\ stack \in Seq(Calls) /\ n > 0
      /\ Top \in Calls /\ Top = stack[n] /\ Top.of \in Buttons
      /\ Top.to \in BOOLEAN
      /\ Top.proc = "setChecked" /\ Top.pc = "group"
  BY TopIsCall, CallParts
     DEF ActiveInv, CheckInv, TypeOK, SwapGroup, InCall, Top
<1> PICK b : b = Top.of
  OBVIOUS
<1> PICK g0 : g0 = GroupOf[b]
  OBVIOUS
<1>2. /\ isChecked_v' = isChecked_v
      /\ activeChoiceButton_v \in [Groups -> Buttons \cup {NoButton}]
      /\ \/ Continue("set") /\ activeChoiceButton_v' = activeChoiceButton_v
         \/ /\ Top.to /\ g0 \in Groups /\ Continue("set")
            /\ activeChoiceButton_v' = [activeChoiceButton_v EXCEPT ![g0] = b]
         \/ /\ Top.to /\ g0 \in Groups /\ Active(g0) \in Buttons
            /\ activeChoiceButton_v' = activeChoiceButton_v
            /\ CallThen(SetChecked(Active(g0), FALSE), "activate")
  BY <1>1, ButtonsAssumption DEF SwapGroup, TypeOK, Active
<1>3. /\ [Top EXCEPT !.pc = "set"] \in Calls
      /\ [Top EXCEPT !.pc = "activate"] \in Calls
      /\ Active(g0) \in Buttons => SetChecked(Active(g0), FALSE) \in Calls
  BY <1>1, CallMoves DEF SetChecked, Call, Calls
<1>4. /\ Len(stack') \in n - 1 .. n + 1
      /\ \A i \in 1 .. n - 1 : stack'[i] = stack[i]
  BY <1>1, <1>2, <1>3, LowerStay
<1>5. GroupsAgree'
  <2> SUFFICES ASSUME NEW g \in Groups, activeChoiceButton_v'[g] # NoButton
               PROVE  GroupOf[activeChoiceButton_v'[g]] = g
    BY DEF GroupsAgree, Active
  <2>1. activeChoiceButton_v[g] # NoButton =>
            GroupOf[activeChoiceButton_v[g]] = g
    BY DEF ActiveInv, GroupsAgree, Active
  <2>2. \/ activeChoiceButton_v'[g] = activeChoiceButton_v[g]
        \/ activeChoiceButton_v'[g] = b /\ g = g0
    <3>1. CASE activeChoiceButton_v' = activeChoiceButton_v
      BY <3>1
    <3>2. CASE activeChoiceButton_v' = [activeChoiceButton_v EXCEPT ![g0] = b]
      BY <1>2, <3>2
    <3>3. QED
      BY <1>2, <3>1, <3>2
  <2>3. QED
    BY <2>1, <2>2
<1>6. \A g : Swaps(g) => Swaps(g)'
  <2>1. \A g : ~SwapsAt(n, g)
    BY <1>1 DEF SwapsAt
  <2>2. Len(stack') \in Nat /\ Len(stack') >= n - 1
    BY <1>1, <1>4
  <2> TAKE g
  <2> HAVE Swaps(g)
  <2>3. ~SwapsAt(n, g)
    BY <2>1
  <2>4. QED
    BY <1>1, <1>4, <2>2, <2>3, SwapsStay
<1>7. CASE Continue("set")
  <2>1. Len(stack') = n /\ stack'[n] = [Top EXCEPT !.pc = "set"]
    BY <1>1, <1>3, <1>7, GoesOn DEF Continue
  <2>2. /\ stack'[n].proc = "setChecked" /\ stack'[n].to = Top.to
        /\ stack'[n].of = b /\ stack'[n].pc = "set"
    BY <1>1, <2>1, CallMoves
  <2>3. Top.to => Swaps(g0)'
    <3>1. n \in 1 .. Len(stack')
      BY <1>1, <2>1
    <3>2. QED
      BY <2>2, <3>1 DEF Swaps
  <2>4. ActiveOrSwaps'
    <3> SUFFICES ASSUME NEW g \in Groups
                 PROVE  (Active(g) = NoButton \/ Active(g) \in isChecked_v
                            \/ Swaps(g))'
      BY DEF ActiveOrSwaps
    <3>1. Active(g) = NoButton \/ Active(g) \in isChecked_v \/ Swaps(g)
      BY DEF ActiveInv, ActiveOrSwaps
    <3>2. activeChoiceButton_v'[g] = activeChoiceButton_v[g]
             \/ (g = g0 /\ Top.to)
      <4>1. CASE activeChoiceButton_v' = activeChoiceButton_v
        BY <4>1
      <4>2. CASE activeChoiceButton_v' = [activeChoiceButton_v EXCEPT ![g0] = b]
                    /\ Top.to
        BY <1>2, <4>2
      <4>3. QED
        BY <1>2, <4>1, <4>2
    <3>3. QED
      BY <1>2, <1>6, <2>3, <3>1, <3>2 DEF Active
  <2>5. NoUnchecker(n)' \/ Unchecking'
    <3>1. CASE Top.to
      BY <2>2, <3>1 DEF NoUnchecker
    <3>2. CASE b \in Toggles
      BY <2>2, <3>2 DEF NoUnchecker
    <3>3. CASE ~Top.to /\ b \notin Toggles
      <4>1. Unchecking
        BY <1>1, <3>3 DEF ActiveInv, UncheckedRightly
      <4>2. /\ n > 1 /\ stack[n - 1].proc = "setChecked"
            /\ stack[n - 1].pc = "activate"
        BY <4>1 DEF Unchecking, Activating
      <4>3. n - 1 \in 1 .. n - 1 /\ stack'[n - 1] = stack[n - 1]
        BY <1>4, <4>2
      <4>4. ~Calm(Len(stack))' /\ ~Changing'
        BY <2>1, <4>2, <4>3 DEF Calm, Changing
      <4>5. QED
        BY <4>4 DEF Swapping
    <3>4. QED
      BY <3>1, <3>2, <3>3
  <2>6. \A i \in n .. Len(stack') :
            NoUnchecker(i)' \/ (i = Len(stack') /\ Unchecking')
    <3>1. \A i \in n .. Len(stack') : i = n
      BY <2>1
    <3>2. QED
      BY <2>1, <2>5, <3>1
  <2>7. UncheckedRightly'
    BY <1>1, <1>4, <2>6, UncheckedStay DEF ActiveInv
  <2>8. QED
    BY <1>5, <2>4, <2>7
<1>8. CASE /\ Top.to /\ g0 \in Groups /\ Active(g0) \in Buttons
           /\ activeChoiceButton_v' = activeChoiceButton_v
           /\ CallThen(SetChecked(Active(g0), FALSE), "activate")
  <2> PICK c \in Calls : c = SetChecked(Active(g0), FALSE)
    BY <1>3, <1>8
  <2>1. /\ Len(stack') = n + 1 /\ stack'[n] = [Top EXCEPT !.pc = "activate"]
        /\ stack'[n + 1] = c
    BY <1>1, <1>3, <1>8, CallsThen
  <2>2. /\ stack'[n].proc = "setChecked" /\ stack'[n].pc = "activate"
        /\ c.proc = "setChecked" /\ c.pc = "group"
    BY <1>1, <2>1, CallMoves DEF SetChecked, Call
  <2>3. ~Calm(Len(stack))' /\ ~Changing'
    <3>1. n \in 1 .. Len(stack') /\ n \in 1 .. Len(stack') - 1
      BY <1>1, <2>1
    <3>2. QED
      BY <2>2, <3>1 DEF Calm, Changing
  <2>4. Unchecking'
    BY <2>3 DEF Swapping
  <2>5. NoUnchecker(n)'
    BY <2>2 DEF NoUnchecker
  <2>6. \A i \in n .. Len(stack') :
            NoUnchecker(i)' \/ (i = Len(stack') /\ Unchecking')
    <3>1. \A i \in n .. Len(stack') : i = n \/ i = Len(stack')
      BY <2>1
    <3>2. QED
      BY <2>4, <2>5, <3>1
  <2>7. UncheckedRightly'
    BY <1>1, <1>4, <2>6, UncheckedStay DEF ActiveInv
  <2>8. ActiveOrSwaps'
    BY <1>2, <1>6, <1>8 DEF ActiveInv, ActiveOrSwaps, Active
  <2>9. QED
    BY <1>5, <2>7, <2>8
<1>9. QED
  BY <1>2, <1>7, <1>8

LEMMA ActivateKeepsActive ==
    ASSUME ActiveInv, Swapping', Activate
    PROVE  ActiveOrSwaps' /\ UncheckedRightly' /\ GroupsAgree'
<1> PICK n \in Nat : n = Len(stack)
  BY DEF ActiveInv, CheckInv, TypeOK
<1>1. /\ TypeOK /\ stack # << >> /\ stack \in Seq(Calls) /\ n > 0
      /\ Top \in Calls /\ Top = stack[n] /\ Top.of \in Buttons
      /\ Top.proc = "setChecked" /\ Top.pc = "activate"
  BY TopIsCall, CallParts
     DEF ActiveInv, CheckInv, TypeOK, Activate, InCall, Top
<1> PICK b : b = Top.of
  OBVIOUS
<1> PICK g0 : g0 = GroupOf[b]
  OBVIOUS
<1>2. Top.to /\ g0 \in Groups
  <2>1. ~Calm(n) /\ ~Unchecking
    BY <1>1 DEF Calm, Unchecking
  <2>2. Activating(Top)
    BY <1>1, <2>1 DEF ActiveInv, CheckInv, Swapping, Changing
  <2>3. QED
    BY <2>2 DEF Activating
<1>3. /\ isChecked_v' = isChecked_v /\ Continue("set")
      /\ activeChoiceButton_v' = [activeChoiceButton_v EXCEPT ![g0] = b]
      /\ activeChoiceButton_v \in [Groups -> Buttons \cup {NoButton}]
      /\ [Top EXCEPT !.pc = "set"] \in Calls
  BY <1>1, CallMoves DEF Activate, TypeOK
<1>4. /\ Len(stack') = n /\ stack'[n] = [Top EXCEPT !.pc = "set"]
      /\ \A i \in 1 .. n - 1 : stack'[i] = stack[i]
  BY <1>1, <1>3, GoesOn DEF Continue
<1>5. /\ stack'[n].proc = "setChecked" /\ stack'[n].to
      /\ stack'[n].of = b /\ stack'[n].pc = "set"
  BY <1>1, <1>2, <1>4, CallMoves
<1>6. GroupsAgree'
  BY <1>2, <1>3 DEF ActiveInv, GroupsAgree, Active
<1>7. Swaps(g0)'
  <2>1. n \in 1 .. Len(stack')
    BY <1>1, <1>4
  <2>2. QED
    BY <1>5, <2>1 DEF Swaps
<1>8. \A g : g # g0 /\ Swaps(g) => Swaps(g)'
  <2> TAKE g
  <2> HAVE g # g0 /\ Swaps(g)
  <2>1. ~SwapsAt(n, g)
    BY <1>1 DEF SwapsAt
  <2>2. Len(stack') \in Nat /\ Len(stack') >= n - 1
    BY <1>4
  <2>3. QED
    BY <1>1, <1>4, <2>1, <2>2, SwapsStay
<1>9. ActiveOrSwaps'
  <2> SUFFICES ASSUME NEW g \in Groups, g # g0
               PROVE  (Active(g) = NoButton \/ Active(g) \in isChecked_v
                          \/ Swaps(g))'
    BY <1>7 DEF ActiveOrSwaps
  <2>1. activeChoiceButton_v'[g] = activeChoiceButton_v[g]
    BY <1>3
  <2>2. QED
    BY <1>3, <1>8, <2>1 DEF ActiveInv, ActiveOrSwaps, Active
<1>10. \A i \in n .. Len(stack') :
           NoUnchecker(i)' \/ (i = Len(stack') /\ Unchecking')
  <2>1. NoUnchecker(n)'
    BY <1>5 DEF NoUnchecker
  <2>2. \A i \in n .. Len(stack') : i = n
    BY <1>4
  <2>3. QED
    BY <2>1, <2>2
<1>11. UncheckedRightly'
  BY <1>1, <1>4, <1>10, UncheckedStay DEF ActiveInv
<1>12. QED
  BY <1>6, <1>9, <1>11


LEMMA SetKeepsActive ==
    ASSUME ActiveInv, Set
    PROVE  ActiveOrSwaps' /\ UncheckedRightly' /\ GroupsAgree'
<1> PICK n \in Nat : n = Len(stack)
  BY DEF ActiveInv, CheckInv, TypeOK
<1>1. /\ TypeOK /\ stack # << >> /\ stack \in Seq(Calls) /\ n > 0
      /\ Top \in Calls /\ Top = stack[n] /\ Top.of \in Buttons
      /\ Top.to \in BOOLEAN
      /\ Top.proc = "setChecked" /\ Top.pc = "set"
  BY TopIsCall, CallParts
     DEF ActiveInv, CheckInv, TypeOK, Set, InCall, Top
<1> PICK b : b = Top.of
  OBVIOUS
<1>2. /\ activeChoiceButton_v' = activeChoiceButton_v
      /\ isChecked_v' = IF Top.to THEN isChecked_v \cup {b}
                        ELSE isChecked_v \ {b}
      /\ Return \/ Continue("checkedChanged")
      /\ [Top EXCEPT !.pc = "checkedChanged"] \in Calls
  BY <1>1, CallMoves DEF Set
<1>3. /\ Len(stack') \in n - 1 .. n + 1
      /\ \A i \in 1 .. n - 1 : stack'[i] = stack[i]
  BY <1>1, <1>2, LowerStay
<1>4. Len(stack') = n - 1 \/ (Len(stack') = n /\ stack'[n].pc = "checkedChanged")
  <2>1. CASE Return
    BY <1>1, <2>1, Returns
  <2>2. CASE Continue("checkedChanged")
    <3>1. /\ Len(stack') = n
          /\ stack'[n] = [Top EXCEPT !.pc = "checkedChanged"]
      BY <1>1, <1>2, <2>2, GoesOn DEF Continue
    <3>2. [Top EXCEPT !.pc = "checkedChanged"].pc = "checkedChanged"
      BY <1>1 DEF Calls
    <3>3. QED
      BY <3>1, <3>2
  <2>3. QED
    BY <1>2, <2>1, <2>2
<1>5. GroupsAgree'
  BY <1>2 DEF ActiveInv, GroupsAgree, Active
<1>6. UncheckedRightly'
  <2>1. \A i \in n .. Len(stack') : i = n /\ Len(stack') = n
    BY <1>4
  <2>2. Len(stack') = n => NoUnchecker(n)'
    BY <1>4 DEF NoUnchecker
  <2>3. \A i \in n .. Len(stack') : NoUnchecker(i)'
    BY <2>1, <2>2
  <2>4. QED
    BY <1>1, <1>3, <2>3, UncheckedStay DEF ActiveInv
<1>7. \A g : Swaps(g) /\ ~SwapsAt(n, g) => Swaps(g)'
  <2>1. Len(stack') \in Nat /\ Len(stack') >= n - 1
    BY <1>1, <1>3
  <2> TAKE g
  <2> HAVE Swaps(g) /\ ~SwapsAt(n, g)
  <2>2. QED
    BY <1>1, <1>3, <2>1, SwapsStay
<1>8. ASSUME NEW g \in Groups, Active(g) # NoButton
      PROVE  Active(g) \in isChecked_v' \/ Swaps(g)'
  <2>1. /\ Active(g) \in isChecked_v \/ Swaps(g)
        /\ GroupOf[Active(g)] = g
    BY <1>8 DEF ActiveInv, ActiveOrSwaps, GroupsAgree
  <2>2. ~Calm(n)
    BY <1>1 DEF Calm
  <2>3. CASE Top.to
    <3>1. CASE SwapsAt(n, g)
      <4>1. Changing
        BY <1>1, <2>2, <2>3
           DEF ActiveInv, CheckInv, Swapping, Unchecking
      <4>2. Active(g) = b
        BY <1>1, <1>8, <2>3, <3>1, <4>1, ButtonsAssumption
           DEF SwapsAt, Changing, Activating
      <4>3. QED
        BY <1>2, <2>3, <4>2
    <3>2. CASE ~SwapsAt(n, g)
      BY <1>2, <1>7, <2>1, <2>3, <3>2
    <3>3. QED
      BY <3>1, <3>2
  <2>4. CASE ~Top.to
    <3>1. ~SwapsAt(n, g)
      BY <1>1, <2>4 DEF SwapsAt
    <3>2. CASE Active(g) # b
      BY <1>2, <1>7, <2>1, <2>4, <3>1, <3>2
    <3>3. CASE Active(g) = b
      <4>1. b \notin Toggles
        BY <1>8, <2>1, <3>3, ButtonsAssumption
      <4>2. Unchecking
        BY <1>1, <2>4, <4>1 DEF ActiveInv, UncheckedRightly
      <4>3. /\ n > 1 /\ Activating(stack[n - 1])
            /\ b = Active(GroupOf[stack[n - 1].of])
        BY <1>1, <4>2 DEF Unchecking
      <4>4. /\ GroupOf[stack[n - 1].of] \in Groups
            /\ Active(GroupOf[stack[n - 1].of]) # NoButton
        BY <4>3, ButtonsAssumption DEF Activating
      <4>5. GroupOf[b] = GroupOf[stack[n - 1].of]
        BY <4>3, <4>4 DEF ActiveInv, GroupsAgree
      <4>6. GroupOf[stack[n - 1].of] = g
        BY <2>1, <3>3, <4>5
      <4>7. SwapsAt(n - 1, g)
        BY <4>3, <4>6 DEF SwapsAt, Activating
      <4>8. n - 1 \in 1 .. Len(stack') /\ stack'[n - 1] = stack[n - 1]
        BY <1>3, <1>4, <4>3
      <4>9. QED
        BY <4>7, <4>8 DEF Swaps, SwapsAt
    <3>4. QED
      BY <3>2, <3>3
  <2>5. QED
    BY <1>1, <2>3, <2>4
<1>9. ActiveOrSwaps'
  <2>1. \A g \in Groups : activeChoiceButton_v'[g] = Active(g)
    BY <1>2 DEF Active
  <2>2. QED
    BY <1>8, <2>1 DEF ActiveOrSwaps, Active
<1>10. QED
  BY <1>5, <1>6, <1>9

\* The steps of other methods.
LEMMA PressingKeepsActive ==
    ASSUME ActiveInv,
           \/ Click \/ NoClick \/ Settle \/ Pass \/ Hover \/ Handle \/ Count
           \/ CheckedChangedReturns
    PROVE  ActiveOrSwaps' /\ UncheckedRightly' /\ GroupsAgree'
<1>1. /\ TypeOK /\ stack # << >> /\ UNCHANGED checkVars
      /\ Top \in Calls /\ Top.of \in Buttons
      /\ ActiveOrSwaps /\ UncheckedRightly /\ GroupsAgree
  BY TopIsCall, CallParts
     DEF ActiveInv, CheckInv, TypeOK, Click, NoClick, Settle, Pass, Hover,
         Handle, Count, CheckedChangedReturns, InCall
<1>2. /\ PressedChanged(Top.of) \in Calls
      /\ PressedChanged(Top.of).proc = "onPressedChanged"
  BY <1>1 DEF PressedChanged, Call, Calls
<1>3. CASE Settle \/ Count \/ CheckedChangedReturns
  <2>1. Return /\ (Top.proc # "setChecked" \/ Top.pc = "checkedChanged")
    BY <1>3 DEF Settle, Count, CheckedChangedReturns, InCall
  <2>2. QED
    BY <1>1, <2>1, OtherKeepsActive
<1>4. CASE Pass
  <2>1. /\ Top.proc # "setChecked"
        /\ Return \/ CallLast(PressedChanged(Top.of))
    BY <1>4 DEF Pass, InCall
  <2>2. QED
    BY <1>1, <1>2, <2>1, OtherKeepsActive
<1>5. CASE NoClick \/ Hover \/ Handle
  <2>1. PICK pc \in {"settle", "handle", "count"} :
            /\ Top.proc # "setChecked"
            /\ Top.proc = "onPressedChanged" <=> pc = "settle"
            /\ Top.proc = "onMouseButton" <=> pc \in {"handle", "count"}
            /\ Continue(pc) \/ CallThen(PressedChanged(Top.of), pc)
    <3>1. CASE NoClick
      BY <3>1 DEF NoClick, InCall
    <3>2. CASE Hover
      BY <3>2 DEF Hover, InCall
    <3>3. CASE Handle
      BY <3>3 DEF Handle, InCall
    <3>4. QED
      BY <1>5, <3>1, <3>2, <3>3
  <2>2. [Top EXCEPT !.pc = pc] \in Calls
    BY <1>1, <2>1, CallMoves
  <2>3. QED
    BY <1>1, <1>2, <2>1, <2>2, OtherKeepsActive
<1>6. CASE Click
  <2> PICK to \in BOOLEAN :
           to = (Top.of \in Toggles => Top.of \notin isChecked_v)
    OBVIOUS
  <2> PICK c : c = SetChecked(Top.of, to)
    OBVIOUS
  <2>1. c \in Calls /\ c.to = to /\ c.of = Top.of
    BY <1>1 DEF SetChecked, Call, Calls
  <2>2. /\ Top.proc = "onPressedChanged" /\ CallThen(c, "settle")
    BY <1>6 DEF Click, InCall
  <2>3. [Top EXCEPT !.pc = "settle"] \in Calls
    BY <1>1, <2>2, CallMoves
  <2>4. c.to \/ c.of \in Toggles
    BY <2>1
  <2>5. QED
    BY <1>1, <2>1, <2>2, <2>3, <2>4, OtherKeepsActive
<1>7. QED
  BY <1>3, <1>4, <1>5, <1>6

\* User code and events.
LEMMA UserKeepsActive ==
    ASSUME ActiveInv, Swapping', "unchecked" \notin UserCodeIn,
           NEW b \in Buttons, NEW to \in BOOLEAN, setChecked(b, to)
    PROVE  ActiveOrSwaps' /\ UncheckedRightly' /\ GroupsAgree'
<1> PICK n \in Nat : n = Len(stack)
  BY DEF ActiveInv, CheckInv, TypeOK
<1> PICK c : c = SetChecked(b, to)
  OBVIOUS
<1>1. c \in Calls /\ c.to = to /\ c.of = b
  BY DEF SetChecked, Call, Calls
<1>2. /\ UNCHANGED checkVars /\ stack' = Append(stack, c)
      /\ Signal \in UserCodeIn \cup {"event"}
      /\ to \/ b \in Toggles
  BY DEF setChecked, UserCodeRuns
<1>3. /\ Len(stack') = n + 1 /\ stack'[n + 1] = c
      /\ \A i \in 1 .. n : stack'[i] = stack[i]
  BY <1>1, <1>2, AppendProperties DEF ActiveInv, CheckInv, TypeOK
<1>4. GroupsAgree'
  BY <1>2 DEF ActiveInv, GroupsAgree, Active, checkVars
<1>5. ActiveOrSwaps'
  <2>1. \A g : Swaps(g) => Swaps(g)'
    BY <1>3 DEF Swaps
  <2>2. QED
    BY <1>2, <2>1 DEF ActiveInv, ActiveOrSwaps, Active, checkVars
<1>6. ASSUME NEW i \in 1 .. n
      PROVE  NoUnchecker(i)
  <2>1. CASE i = n /\ Unchecking
    <3>1. /\ stack # << >> /\ stack[n] = Top
          /\ Top.proc = "setChecked" /\ ~Top.to
      BY <2>1 DEF Unchecking, Top
    <3>2. Top.pc = "checkedChanged"
      <4>1. SUFFICES ASSUME Top.pc \in {"group", "set"}
                     PROVE  Signal = "none"
        BY <1>2, <2>1, <4>1, ButtonsAssumption DEF Unchecking
      <4>2. QED
        BY <3>1, <4>1 DEF Signal
    <3>3. QED
      BY <2>1, <3>1, <3>2 DEF NoUnchecker
  <2>2. CASE ~(i = n /\ Unchecking)
    BY <2>2 DEF ActiveInv, UncheckedRightly, NoUnchecker
  <2>3. QED
    BY <2>1, <2>2
<1>7. UncheckedRightly'
  <2> SUFFICES ASSUME NEW i \in 1 .. n + 1
               PROVE  NoUnchecker(i)'
    BY <1>3 DEF UncheckedRightly, NoUnchecker
  <2>1. CASE i \in 1 .. n
    BY <1>3, <1>6, <2>1 DEF NoUnchecker
  <2>2. CASE i = n + 1
    BY <1>1, <1>2, <1>3, <2>2 DEF NoUnchecker
  <2>3. QED
    BY <2>1, <2>2
<1>8. QED
  BY <1>4, <1>5, <1>7

LEMMA EventKeepsActive ==
    ASSUME ActiveInv, NEW p \in Pointers,
           \/ Move(p)
           \/ \E k \in Keys, d \in BOOLEAN : ButtonEvent(p, k, d)
    PROVE  ActiveOrSwaps' /\ UncheckedRightly' /\ GroupsAgree'
<1>1. /\ UNCHANGED checkVars /\ stack = << >>
      /\ \A i \in 1 .. Len(stack') : stack'[i].proc # "setChecked"
  <2>1. /\ \A b : Passing(b).proc = "onMouseMove"
        /\ \A b : Handler(b).proc = "onMouseButton"
    BY DEF Handler, Passing, Call
  <2>2. CASE Move(p)
    <3>1. /\ stack' = [i \in 1 .. Len(Children) |-> Passing(Children[i])]
          /\ Len(Children) \in Nat
      BY <2>2, ButtonsAssumption DEF Move
    <3>2. QED
      BY <2>1, <2>2, <3>1 DEF Move
  <2>3. CASE \E k \in Keys, d \in BOOLEAN : ButtonEvent(p, k, d)
    <3>1. stack' = << >> \/ \E b : stack' = << Handler(b) >>
      BY <2>3 DEF ButtonEvent
    <3>2. CASE stack' = << >>
      BY <2>3, <3>2 DEF ButtonEvent
    <3>3. CASE \E b : stack' = << Handler(b) >>
      <4>1. PICK b : stack' = << Handler(b) >>
        BY <3>3
      <4>2. Len(stack') = 1 /\ stack'[1] = Handler(b)
        BY <4>1
      <4>3. QED
        BY <2>1, <2>3, <4>2 DEF ButtonEvent
    <3>4. QED
      BY <3>1, <3>2, <3>3
  <2>4. QED
    BY <2>2, <2>3
<1>2. \A g : ~Swaps(g)
  BY <1>1 DEF Swaps
<1>3. QED
  BY <1>1, <1>2
     DEF ActiveInv, ActiveOrSwaps, UncheckedRightly, GroupsAgree, Active,
         checkVars

-----------------------------------------------------------------------------
(* Who holds a pressed button *)

LEMMA Numbers ==
    ASSUME NEW D
    PROVE  /\ Number(D) \in 0 .. 2
           /\ "LEFT" \in D => Number(D) >= 1
           /\ "LEFT" \notin D => Number(D) <= 1
           /\ \A k \in {"LEFT", "RIGHT"} \ D :
                  Number(D \cup {k}) = Number(D) + 1
           /\ \A k \in D \cap {"LEFT", "RIGHT"} :
                  Number(D \ {k}) = Number(D) - 1
  BY DEF Number

\* A button event is handled by the only call there is.
LEMMA HandlerIsAlone ==
    ASSUME HeldInv, stack # << >>, Top.proc = "onMouseButton"
    PROVE  /\ Len(stack) = 1 /\ stack[1] = Top /\ Top \in Calls
           /\ Top.of \in Buttons /\ event.by \in Pointers
           /\ event.key \in {"LEFT", "RIGHT"}
           /\ event.isDown <=> event.key \in down[event.by]
           /\ captured[event.by] # NoCapture =>
                  Top.of = captured[event.by].by
           /\ captured[event.by] = NoCapture => Top.of = over[event.by]
<1>1. /\ stack \in Seq(Calls) /\ Len(stack) \in Nat /\ Len(stack) > 0
      /\ Top \in Calls /\ Top = stack[Len(stack)] /\ Top.of \in Buttons
  BY TopIsCall, CallParts DEF HeldInv, TypeOK, Top
<1>2. Len(stack) = 1
  <2> PICK n \in Nat : n = Len(stack)
    BY <1>1
  <2>1. n > 0 /\ (n > 1 => n \in 2 .. n)
    BY <1>1
  <2>2. \A i \in 2 .. n : stack[i].proc # "onMouseButton"
    BY DEF HeldInv, Handles
  <2>3. QED
    BY <1>1, <2>1, <2>2
<1>3. /\ event.by \in Pointers /\ event.key \in {"LEFT", "RIGHT"}
      /\ event.isDown <=> event.key \in down[event.by]
      /\ captured[event.by] # NoCapture => Top.of = captured[event.by].by
      /\ captured[event.by] = NoCapture => Top.of = over[event.by]
  BY <1>1, <1>2, ButtonsAssumption DEF HeldInv, Handles, TypeOK
<1>4. QED
  BY <1>1, <1>2, <1>3

OfMouse(c) == c.proc \in {"onMouseMove", "onMouseButton"}

\* The calls of the container's handlers are the same before and after.
SameMouseCalls ==
    /\ \A i \in 1 .. Len(stack) : OfMouse(stack[i]) =>
           i \in 1 .. Len(stack') /\ stack'[i] = stack[i]
    /\ \A i \in 1 .. Len(stack') : OfMouse(stack'[i]) =>
           i \in 1 .. Len(stack) /\ stack'[i] = stack[i]

\* Calls of setChecked() and onPressedChanged() come and go.
LEMMA QuietKeepsHeld ==
    ASSUME HeldInv, stack' \in Seq(Calls), SameMouseCalls,
           stack = << >> \/ ~OfMouse(Top),
           UNCHANGED <<isPressed_v, hovered, visible, over, down, captured>>,
           stack = << >> \/ event' = event
    PROVE  Handles' /\ Counted' /\ PressedAreHeld'
<1>1. /\ Len(stack) \in Nat /\ Len(stack') \in Nat
      /\ stack # << >> => Len(stack) > 0
      /\ stack' # << >> <=> Len(stack') > 0
      /\ stack # << >> => Top = stack[Len(stack)]
  BY TopIsCall DEF HeldInv, TypeOK, Top
<1> DEFINE Handled == stack # << >> /\ stack[1].proc = "onMouseButton"
           HandledNext == stack' # << >> /\ stack'[1].proc = "onMouseButton"
<1>2. Handled <=> HandledNext
  <2>1. Handled => HandledNext
    <3> SUFFICES ASSUME Handled PROVE HandledNext
      OBVIOUS
    <3>1. 1 \in 1 .. Len(stack) /\ OfMouse(stack[1])
      BY <1>1 DEF OfMouse
    <3>2. QED
      BY <1>1, <3>1 DEF SameMouseCalls
  <2>2. HandledNext => Handled
    <3> SUFFICES ASSUME HandledNext PROVE Handled
      OBVIOUS
    <3>1. 1 \in 1 .. Len(stack') /\ OfMouse(stack'[1])
      BY <1>1 DEF OfMouse
    <3>2. QED
      BY <1>1, <3>1 DEF SameMouseCalls
  <2>3. QED
    BY <2>1, <2>2
<1>3. Handled => stack'[1] = stack[1] /\ Len(stack) # 1 /\ event' = event
  <2>1. Handled => 1 \in 1 .. Len(stack) /\ OfMouse(stack[1])
    BY <1>1 DEF OfMouse
  <2>2. QED
    BY <1>1, <2>1 DEF SameMouseCalls
<1> HIDE DEF Handled, HandledNext
<1>4. Handles'
  <2>1. \A i \in 2 .. Len(stack') : stack'[i].proc # "onMouseButton"
    <3> SUFFICES ASSUME NEW i \in 2 .. Len(stack'),
                        stack'[i].proc = "onMouseButton"
                 PROVE  FALSE
      OBVIOUS
    <3>1. i \in 1 .. Len(stack') /\ OfMouse(stack'[i])
      BY <1>1 DEF OfMouse
    <3>2. i \in 2 .. Len(stack) /\ stack[i].proc = "onMouseButton"
      BY <3>1 DEF SameMouseCalls
    <3>3. QED
      BY <3>2 DEF HeldInv, Handles
  <2>2. CASE Handled
    BY <1>3, <2>1, <2>2 DEF HeldInv, Handles, Handled
  <2>3. CASE ~Handled
    BY <1>2, <2>1, <2>3 DEF Handles, HandledNext
  <2>4. QED
    BY <2>2, <2>3
<1>5. \A p : Known(p)' = Known(p)
  BY <1>2, <1>3 DEF Known, Handling, Handled, HandledNext
<1>6. Counted'
  BY <1>5 DEF HeldInv, Counted
<1>7. \A b : ReleasedNext(b) => ReleasedNext(b)'
  BY <1>2, <1>3 DEF ReleasedNext, Handled, HandledNext
<1>8. \A p, b : Holds(p, b) => Holds(p, b)'
  <2> TAKE p, b
  <2>1. HoldsOver(p, b) => HoldsOver(p, b)'
    BY DEF HoldsOver
  <2>2. HoldsCaptor(p, b) => HoldsCaptor(p, b)'
    BY <1>5 DEF HoldsCaptor
  <2>3. LeavesNext(p, b) => LeavesNext(p, b)'
    <3> SUFFICES ASSUME LeavesNext(p, b) PROVE LeavesNext(p, b)'
      OBVIOUS
    <3>1. PICK i \in 1 .. Len(stack) :
              stack[i].proc = "onMouseMove" /\ stack[i].of = b
      BY DEF LeavesNext
    <3>2. i \in 1 .. Len(stack') /\ stack'[i] = stack[i]
      BY <3>1 DEF SameMouseCalls, OfMouse
    <3>3. stack # << >>
      BY <1>1, <3>1
    <3>4. QED
      BY <3>1, <3>2, <3>3 DEF LeavesNext
  <2>4. QED
    BY <2>1, <2>2, <2>3 DEF Holds
<1>9. PressedAreHeld'
  BY <1>7, <1>8 DEF HeldInv, PressedAreHeld
<1>10. QED
  BY <1>4, <1>6, <1>9

\* setChecked() and onPressedChanged() go on, call, or return.
LEMMA SameCalls ==
    ASSUME TypeOK, stack # << >>, ~OfMouse(Top),
           \/ Return
           \/ \E pc : /\ [Top EXCEPT !.pc = pc] \in Calls
                      /\ \/ Continue(pc)
                         \/ \E c \in Calls : CallThen(c, pc) /\ ~OfMouse(c)
    PROVE  SameMouseCalls /\ stack' \in Seq(Calls)
<1> PICK n \in Nat : n = Len(stack)
  BY DEF TypeOK
<1>1. /\ stack \in Seq(Calls) /\ n > 0 /\ Top \in Calls /\ Top = stack[n]
  BY TopIsCall DEF TypeOK, Top
<1>2. stack' \in Seq(Calls)
  BY StackTyped
<1>3. CASE Return
  <2>1. Len(stack') = n - 1 /\ \A i \in 1 .. n - 1 : stack'[i] = stack[i]
    BY <1>1, <1>3, Returns
  <2>2. \A i \in 1 .. n : i \in 1 .. n - 1 \/ i = n
    BY <1>1
  <2>3. QED
    BY <1>1, <1>2, <2>1, <2>2 DEF SameMouseCalls
<1>4. CASE \E pc : [Top EXCEPT !.pc = pc] \in Calls /\ Continue(pc)
  <2>1. PICK pc : [Top EXCEPT !.pc = pc] \in Calls /\ Continue(pc)
    BY <1>4
  <2>2. /\ Len(stack') = n /\ stack'[n] = [Top EXCEPT !.pc = pc]
        /\ \A i \in 1 .. n - 1 : stack'[i] = stack[i]
    BY <1>1, <2>1, GoesOn DEF Continue
  <2>3. ~OfMouse(stack'[n])
    BY <1>1, <2>2 DEF OfMouse, Calls
  <2>4. \A i \in 1 .. n : i \in 1 .. n - 1 \/ i = n
    BY <1>1
  <2>5. QED
    BY <1>1, <1>2, <2>2, <2>3, <2>4 DEF SameMouseCalls
<1>5. CASE \E pc : /\ [Top EXCEPT !.pc = pc] \in Calls
                   /\ \E c \in Calls : CallThen(c, pc) /\ ~OfMouse(c)
  <2>1. PICK pc : /\ [Top EXCEPT !.pc = pc] \in Calls
                  /\ \E c \in Calls : CallThen(c, pc) /\ ~OfMouse(c)
    BY <1>5
  <2>2. PICK c \in Calls : CallThen(c, pc) /\ ~OfMouse(c)
    BY <2>1
  <2>3. /\ Len(stack') = n + 1 /\ stack'[n + 1] = c
        /\ stack'[n] = [Top EXCEPT !.pc = pc]
        /\ \A i \in 1 .. n - 1 : stack'[i] = stack[i]
    BY <1>1, <2>1, <2>2, CallsThen
  <2>4. ~OfMouse(stack'[n]) /\ ~OfMouse(stack'[n + 1])
    BY <1>1, <2>2, <2>3 DEF OfMouse, Calls
  <2>5. /\ \A i \in 1 .. n : i \in 1 .. n - 1 \/ i = n
        /\ \A i \in 1 .. n + 1 : i \in 1 .. n - 1 \/ i = n \/ i = n + 1
        /\ \A i \in 1 .. n - 1 : i \in 1 .. n + 1
    BY <1>1
  <2>6. QED
    BY <1>1, <1>2, <2>3, <2>4, <2>5 DEF SameMouseCalls
<1>6. QED
  BY <1>2, <1>3, <1>4, <1>5

\* The steps of setChecked() and onPressedChanged(), and user code that checks.
LEMMA CheckingKeepsHeld ==
    ASSUME HeldInv, Checking \/ Pressing
    PROVE  Handles' /\ Counted' /\ PressedAreHeld'
<1>1. /\ TypeOK /\ stack # << >> /\ Top \in Calls /\ Top.of \in Buttons
      /\ UNCHANGED <<isPressed_v, hovered, visible, over, down, captured>>
      /\ event' = event /\ ~OfMouse(Top)
  <2>1. stack # << >> /\ TypeOK
    BY DEF HeldInv, Checking, Pressing, SwapGroup, Activate, Set,
           CheckedChangedReturns, Click, NoClick, Settle, InCall
  <2>2. /\ UNCHANGED <<isPressed_v, hovered, visible, over, down, captured>>
        /\ event' = event /\ ~OfMouse(Top)
    BY DEF OfMouse, Checking, Pressing, SwapGroup, Activate, Set, pressVars,
           CheckedChangedReturns, Click, NoClick, Settle, InCall, mouseVars
  <2>3. QED
    BY <2>1, <2>2, TopIsCall, CallParts DEF TypeOK
<1>2. \/ Return
      \/ \E pc : /\ [Top EXCEPT !.pc = pc] \in Calls
                 /\ \/ Continue(pc)
                    \/ \E c \in Calls : CallThen(c, pc) /\ ~OfMouse(c)
  <2>1. CASE CheckedChangedReturns \/ Settle
    BY <2>1 DEF CheckedChangedReturns, Settle
  <2>2. CASE Activate \/ Set \/ NoClick
    <3>1. Return \/ \E pc : [Top EXCEPT !.pc = pc] \in Calls /\ Continue(pc)
      <4>1. CASE Activate
        BY <1>1, <4>1, CallMoves DEF Activate, InCall
      <4>2. CASE Set
        BY <1>1, <4>2, CallMoves DEF Set, InCall
      <4>3. CASE NoClick
        BY <1>1, <4>3, CallMoves DEF NoClick, InCall
      <4>4. QED
        BY <2>2, <4>1, <4>2, <4>3
    <3>2. QED
      BY <3>1
  <2>3. CASE SwapGroup
    <3> PICK a : a = Active(GroupOf[Top.of])
      OBVIOUS
    <3>1. /\ Top.proc = "setChecked"
          /\ \/ Continue("set")
             \/ /\ a \in Buttons
                /\ CallThen(SetChecked(a, FALSE), "activate")
      BY <1>1, <2>3, ButtonsAssumption DEF SwapGroup, InCall, Active, TypeOK
    <3>2. /\ [Top EXCEPT !.pc = "set"] \in Calls
          /\ [Top EXCEPT !.pc = "activate"] \in Calls
      BY <1>1, <3>1, CallMoves
    <3>3. a \in Buttons => /\ SetChecked(a, FALSE) \in Calls
                           /\ ~OfMouse(SetChecked(a, FALSE))
      BY DEF SetChecked, Call, Calls, OfMouse
    <3>4. QED
      BY <3>1, <3>2, <3>3
  <2>4. CASE Click
    <3> PICK to \in BOOLEAN :
             to = (Top.of \in Toggles => Top.of \notin isChecked_v)
      OBVIOUS
    <3> PICK c : c = SetChecked(Top.of, to)
      OBVIOUS
    <3>1. c \in Calls /\ ~OfMouse(c)
      BY <1>1 DEF SetChecked, Call, Calls, OfMouse
    <3>2. /\ Top.proc = "onPressedChanged" /\ CallThen(c, "settle")
      BY <2>4 DEF Click, InCall
    <3>3. [Top EXCEPT !.pc = "settle"] \in Calls
      BY <1>1, <3>2, CallMoves
    <3>4. QED
      BY <3>1, <3>2, <3>3
  <2>5. QED
    BY <2>1, <2>2, <2>3, <2>4 DEF Checking, Pressing
<1>3. SameMouseCalls /\ stack' \in Seq(Calls)
  BY <1>1, <1>2, SameCalls
<1>4. QED
  BY <1>1, <1>3, QuietKeepsHeld

\* User code runs in calls of setChecked() and onPressedChanged() only.
LEMMA UserCodeIsQuiet ==
    ASSUME HeldInv, stack # << >>, Signal \in UserCodeIn \cup {"event"}
    PROVE  ~OfMouse(Top)
<1>1. Top \in Calls
  BY TopIsCall DEF HeldInv, TypeOK
<1>2. OfMouse(Top) => Top.pc \in {"hover", "handle", "count"}
  BY <1>1, CallParts DEF OfMouse
<1>3. OfMouse(Top) => Signal = "none"
  BY <1>2 DEF Signal
<1>4. QED
  BY <1>3, ButtonsAssumption

LEMMA UserChecksKeepsHeld ==
    ASSUME HeldInv, NEW b \in Buttons, NEW to \in BOOLEAN, setChecked(b, to)
    PROVE  Handles' /\ Counted' /\ PressedAreHeld'
<1> PICK n \in Nat : n = Len(stack)
  BY DEF HeldInv, TypeOK
<1> PICK c : c = SetChecked(b, to)
  OBVIOUS
<1>1. c \in Calls /\ ~OfMouse(c)
  BY DEF SetChecked, Call, Calls, OfMouse
<1>2. /\ stack' = Append(stack, c) /\ Signal \in UserCodeIn \cup {"event"}
      /\ UNCHANGED <<isPressed_v, hovered, visible, over, down, captured>>
      /\ stack = << >> \/ event' = event
  BY DEF setChecked, UserCodeRuns, pressVars
<1>3. stack = << >> \/ ~OfMouse(Top)
  BY <1>2, UserCodeIsQuiet
<1>4. /\ stack' \in Seq(Calls) /\ Len(stack') = n + 1 /\ stack'[n + 1] = c
      /\ \A i \in 1 .. n : stack'[i] = stack[i]
  BY <1>1, <1>2, AppendProperties DEF HeldInv, TypeOK
<1>5. SameMouseCalls
  <2>1. /\ \A i \in 1 .. n : i \in 1 .. n + 1
        /\ \A i \in 1 .. n + 1 : i \in 1 .. n \/ i = n + 1
    OBVIOUS
  <2>2. QED
    BY <1>1, <1>4, <2>1 DEF SameMouseCalls
<1>6. QED
  BY <1>2, <1>3, <1>4, <1>5, QuietKeepsHeld

\* A button is hidden or shown, which is not pressed.
LEMMA VisibleKeepsHeld ==
    ASSUME HeldInv, NEW b \in Buttons, setVisible(b), b \notin isPressed_v
    PROVE  Handles' /\ Counted' /\ PressedAreHeld'
<1>1. /\ UNCHANGED <<isPressed_v, over, down, captured, event, stack>>
      /\ \A a \in Buttons \ {b} : /\ hovered'[a] = hovered[a]
                                  /\ a \in visible' <=> a \in visible
      /\ Signal \in UserCodeIn \cup {"event"}
  BY DEF setVisible, UserCodeRuns, pressVars, HeldInv, TypeOK
<1>2. Handles'
  <2>1. CASE stack # << >> /\ stack[1].proc = "onMouseButton"
    <3>1. Len(stack) # 1
      <4> SUFFICES ASSUME Len(stack) = 1 PROVE FALSE
        OBVIOUS
      <4>1. Top = stack[1]
        BY DEF Top
      <4>2. ~OfMouse(Top)
        BY <1>1, <2>1, UserCodeIsQuiet
      <4>3. QED
        BY <2>1, <4>1, <4>2 DEF OfMouse
    <3>2. QED
      BY <1>1, <2>1, <3>1 DEF HeldInv, Handles
  <2>2. CASE ~(stack # << >> /\ stack[1].proc = "onMouseButton")
    BY <1>1, <2>2 DEF HeldInv, Handles
  <2>3. QED
    BY <2>1, <2>2
<1>3. \A p : Known(p)' = Known(p)
  BY <1>1 DEF Known, Handling
<1>4. Counted'
  BY <1>1, <1>3 DEF HeldInv, Counted
<1>5. PressedAreHeld'
  <2> SUFFICES ASSUME NEW a \in isPressed_v
               PROVE  ReleasedNext(a)' \/ \E p \in Pointers : Holds(p, a)'
    BY <1>1 DEF PressedAreHeld
  <2>1. a \in Buttons \ {b}
    BY DEF HeldInv, TypeOK
  <2>2. ReleasedNext(a) => ReleasedNext(a)'
    BY <1>1 DEF ReleasedNext
  <2>3. \A p : Holds(p, a) => Holds(p, a)'
    <3> TAKE p
    <3>1. hovered'[a] = hovered[a] /\ (a \in visible' <=> a \in visible)
      BY <1>1, <2>1
    <3>2. HoldsOver(p, a) => HoldsOver(p, a)'
      BY <1>1, <3>1 DEF HoldsOver
    <3>3. HoldsCaptor(p, a) => HoldsCaptor(p, a)'
      BY <1>1, <1>3 DEF HoldsCaptor
    <3>4. LeavesNext(p, a) => LeavesNext(p, a)'
      BY <1>1, <3>1 DEF LeavesNext
    <3>5. QED
      BY <1>1, <3>2, <3>3, <3>4 DEF Holds
  <2>4. QED
    BY <2>2, <2>3 DEF HeldInv, PressedAreHeld
<1>6. QED
  BY <1>2, <1>4, <1>5

\* A pointer moves: whoever it leaves will hear of it.
LEMMA MoveKeepsHeld ==
    ASSUME HeldInv, NEW p \in Pointers, Move(p)
    PROVE  Handles' /\ Counted' /\ PressedAreHeld'
<1>1. /\ stack = << >> /\ event'.by = p
      /\ UNCHANGED <<isPressed_v, hovered, visible, down, captured>>
      /\ over'[p] # over[p]
      /\ \A q \in Pointers \ {p} : over'[q] = over[q]
      /\ stack' = [i \in 1 .. Len(Children) |-> Passing(Children[i])]
      /\ Len(Children) \in Nat
  BY ButtonsAssumption DEF Move, pressVars, NoEvent, HeldInv, TypeOK
<1>2. /\ \A b : Passing(b).proc = "onMouseMove" /\ Passing(b).of = b
  BY DEF Passing, Call
<1>3. /\ Len(stack') = Len(Children)
      /\ \A i \in 1 .. Len(stack') : /\ stack'[i].proc = "onMouseMove"
                                     /\ stack'[i].of = Children[i]
      /\ stack' # << >> => stack'[1].proc = "onMouseMove"
  <2>1. Len(stack') = Len(Children)
    BY <1>1
  <2>2. \A i \in 1 .. Len(stack') : stack'[i] = Passing(Children[i])
    BY <1>1, <2>1
  <2>3. stack' # << >> => 1 \in 1 .. Len(stack')
    BY <1>1, <2>1
  <2>4. QED
    BY <1>2, <2>1, <2>2, <2>3
<1>4. Handles'
  BY <1>1, <1>3 DEF Handles
<1>5. \A q : Known(q)' = Known(q)
  BY <1>1, <1>3 DEF Known, Handling
<1>6. Counted'
  BY <1>1, <1>5 DEF HeldInv, Counted
<1>7. PressedAreHeld'
  <2> SUFFICES ASSUME NEW b \in isPressed_v
               PROVE  \E q \in Pointers : Holds(q, b)'
    BY <1>1 DEF PressedAreHeld
  <2>1. PICK q \in Pointers : Holds(q, b)
    BY <1>1 DEF HeldInv, PressedAreHeld, ReleasedNext
  <2>2. ~LeavesNext(q, b)
    BY <1>1 DEF LeavesNext
  <2>3. CASE HoldsCaptor(q, b)
    BY <1>1, <1>5, <2>1, <2>3 DEF Holds, HoldsCaptor
  <2>4. CASE HoldsOver(q, b) /\ q # p
    BY <1>1, <2>1, <2>4 DEF Holds, HoldsOver
  <2>5. CASE HoldsOver(q, b) /\ q = p
    <3>1. b \in Buttons
      BY DEF HeldInv, TypeOK
    <3>2. \E i \in 1 .. Len(stack') :
              stack'[i].proc = "onMouseMove" /\ stack'[i].of = b
      BY <1>3, <3>1, ButtonsAssumption
    <3>3. LeavesNext(p, b)'
      BY <1>1, <2>5, <3>2 DEF HoldsOver, LeavesNext
    <3>4. QED
      BY <1>1, <2>1, <2>5, <3>3 DEF Holds
  <2>6. QED
    BY <2>1, <2>2, <2>3, <2>4, <2>5 DEF Holds
<1>8. QED
  BY <1>4, <1>6, <1>7

\* A key goes down or up: a left key that is released is so for the button
\* that is pressed.
LEMMA ButtonEventKeepsHeld ==
    ASSUME HeldInv, NEW p \in Pointers, NEW k \in Keys, NEW d \in BOOLEAN,
           ButtonEvent(p, k, d)
    PROVE  Handles' /\ Counted' /\ PressedAreHeld'
<1>1. /\ stack = << >> /\ event' = [by |-> p, key |-> k, isDown |-> d]
      /\ UNCHANGED <<isPressed_v, hovered, visible, over, captured>>
      /\ d <=> k \notin down[p]
      /\ down' = [down EXCEPT ![p] = IF d THEN @ \cup {k} ELSE @ \ {k}]
      /\ down \in [Pointers -> SUBSET Keys]
  BY DEF ButtonEvent, pressVars, HeldInv, TypeOK
<1>2. /\ down'[p] = IF d THEN down[p] \cup {k} ELSE down[p] \ {k}
      /\ \A q \in Pointers \ {p} : down'[q] = down[q]
  BY <1>1
<1>3. PICK h : h = IF captured[p] # NoCapture THEN captured[p].by ELSE over[p]
  OBVIOUS
<1>4. \/ /\ stack' = << Handler(h) >>
         /\ captured[p] = NoCapture => over[p] \in visible
      \/ /\ stack' = << >> /\ captured[p] = NoCapture
         /\ over[p] \notin visible
  BY <1>3 DEF ButtonEvent
<1>5. /\ Handler(h).proc = "onMouseButton" /\ Handler(h).pc = "hover"
      /\ Handler(h).of = h
  BY DEF Handler, Call
<1>6. stack' # << >> => Len(stack') = 1 /\ stack'[1] = Handler(h)
  BY <1>4
<1>7. Handles'
  <2>1. \A i \in 2 .. Len(stack') : FALSE
    <3>1. PICK m \in {0, 1} : m = Len(stack')
      BY <1>4
    <3>2. \A i \in 2 .. m : FALSE
      OBVIOUS
    <3>3. QED
      BY <3>1, <3>2
  <2>2. CASE stack' = << >>
    BY <2>1, <2>2 DEF Handles
  <2>3. CASE stack' # << >>
    <3>1. event'.key \in Keys /\ (event'.isDown <=> event'.key \in down'[event'.by])
      BY <1>1, <1>2
    <3>2. stack'[1].of = IF captured'[event'.by] # NoCapture
                         THEN captured'[event'.by].by ELSE over'[event'.by]
      BY <1>1, <1>3, <1>5, <1>6, <2>3
    <3>3. captured'[event'.by] = NoCapture => stack'[1].of \in visible'
      BY <1>1, <1>3, <1>4, <1>5, <1>6, <2>3
    <3>4. stack'[1].pc # "handle" /\ Len(stack') = 1
      BY <1>5, <1>6, <2>3
    <3>5. QED
      BY <2>1, <3>1, <3>2, <3>3, <3>4 DEF Handles
  <2>4. QED
    BY <2>2, <2>3
<1>8. /\ \A q \in Pointers \ {p} : Known(q)' = Known(q)
      /\ captured[p] # NoCapture => Known(p)' = Known(p)
  <2>1. \A q : Known(q) = down[q]
    BY <1>1 DEF Known, Handling
  <2>2. \A q \in Pointers \ {p} : Known(q)' = down[q]
    BY <1>1, <1>2 DEF Known, Handling
  <2>3. captured[p] # NoCapture => Known(p)' = down[p]
    <3> SUFFICES ASSUME captured[p] # NoCapture PROVE Known(p)' = down[p]
      OBVIOUS
    <3>1. Handling(p)'
      BY <1>1, <1>4, <1>5, <1>6 DEF Handling
    <3>2. Known(p)' = IF d THEN down'[p] \ {k} ELSE down'[p] \cup {k}
      BY <1>1, <3>1 DEF Known
    <3>3. QED
      BY <1>1, <1>2, <3>2
  <2>4. QED
    BY <2>1, <2>2, <2>3
<1>9. Counted'
  BY <1>1, <1>8 DEF HeldInv, Counted
<1>10. PressedAreHeld'
  <2> SUFFICES ASSUME NEW b \in isPressed_v
               PROVE  ReleasedNext(b)' \/ \E q \in Pointers : Holds(q, b)'
    BY <1>1 DEF PressedAreHeld
  <2>1. PICK q \in Pointers : Holds(q, b)
    BY <1>1 DEF HeldInv, PressedAreHeld, ReleasedNext
  <2>2. ~LeavesNext(q, b) /\ b \in Buttons
    BY <1>1 DEF LeavesNext, HeldInv, TypeOK
  <2>3. CASE ~(q = p /\ k = "LEFT" /\ ~d)
    <3>1. "LEFT" \in down'[q]
      BY <1>2, <2>1, <2>3 DEF Holds
    <3>2. HoldsOver(q, b) => HoldsOver(q, b)'
      BY <1>1 DEF HoldsOver
    <3>3. HoldsCaptor(q, b) => HoldsCaptor(q, b)'
      <4>1. HoldsCaptor(q, b) => captured[q] # NoCapture
        BY <2>2, ButtonsAssumption DEF HoldsCaptor, NoCapture
      <4>2. QED
        BY <1>1, <1>8, <4>1 DEF HoldsCaptor
    <3>4. QED
      BY <2>1, <2>2, <3>1, <3>2, <3>3 DEF Holds
  <2>4. CASE q = p /\ k = "LEFT" /\ ~d
    <3>1. h = b /\ stack' # << >>
      <4>1. captured[p] # NoCapture => captured[p].by \in Buttons
        BY DEF HeldInv, TypeOK
      <4>2. CASE HoldsOver(q, b)
        <5>1. h = b
          BY <1>3, <2>4, <4>1, <4>2, ButtonsAssumption DEF HoldsOver
        <5>2. over[p] \in visible
          BY <2>4, <4>2 DEF HoldsOver
        <5>3. stack' = << Handler(h) >> /\ << Handler(h) >> # << >>
          BY <1>4, <5>2
        <5>4. QED
          BY <5>1, <5>3
      <4>3. CASE HoldsCaptor(q, b)
        <5>1. captured[p] # NoCapture
          BY <2>2, <2>4, <4>3, ButtonsAssumption DEF HoldsCaptor, NoCapture
        <5>2. QED
          <6>1. stack' = << Handler(h) >> /\ << Handler(h) >> # << >>
            BY <1>4, <5>1
          <6>2. QED
            BY <1>3, <2>4, <4>3, <5>1, <6>1 DEF HoldsCaptor
      <4>4. QED
        BY <2>1, <2>2, <4>2, <4>3 DEF Holds
    <3>2. ReleasedNext(b)'
      BY <1>1, <1>5, <1>6, <2>4, <3>1 DEF ReleasedNext
    <3>3. QED
      BY <3>2
  <2>5. QED
    BY <2>3, <2>4
<1>11. QED
  BY <1>7, <1>9, <1>10

LEMMA LongIsNotEmpty ==
    ASSUME NEW s, Len(s) # 0
    PROVE  s # << >>
  OBVIOUS

\* Who hovers whom after setHovered(), and who is released.
LEMMA HoverSets ==
    ASSUME TypeOK, NEW b \in Buttons, NEW p \in Pointers, NEW is \in BOOLEAN,
           HoverSet(b, p, is)
    PROVE  /\ is => p \in hovered'[b]
           /\ \A a \in Buttons \ {b} : hovered'[a] = hovered[a]
           /\ \A q : q \in hovered[b] /\ (is \/ q # p) => q \in hovered'[b]
           /\ isPressed_v' \subseteq isPressed_v
           /\ Leaves(b, p, is) => b \notin isPressed_v'
<1>1. /\ hovered \in [Buttons -> SUBSET Pointers]
      /\ hovered' = [hovered EXCEPT ![b] = IF is THEN @ \cup {p}
                                           ELSE @ \ {p}]
  BY DEF HoverSet, TypeOK
<1>2. /\ isPressed_v' \subseteq isPressed_v
      /\ Leaves(b, p, is) => b \notin isPressed_v'
  BY DEF HoverSet
<1>3. /\ hovered'[b] = IF is THEN hovered[b] \cup {p} ELSE hovered[b] \ {p}
      /\ \A a \in Buttons \ {b} : hovered'[a] = hovered[a]
  BY <1>1
<1>4. QED
  BY <1>2, <1>3

\* A child hears of the move: if the pointer leaves it, it is released.
LEMMA PassKeepsHeld ==
    ASSUME HeldInv, Pass
    PROVE  Handles' /\ Counted' /\ PressedAreHeld'
<1> PICK n \in Nat : n = Len(stack)
  BY DEF HeldInv, TypeOK
<1> PICK b0 : b0 = Top.of
  OBVIOUS
<1> PICK E : E = event.by
  OBVIOUS
<1> PICK is \in BOOLEAN : is = (over[E] = b0)
  OBVIOUS
<1>1. /\ stack \in Seq(Calls) /\ stack # << >> /\ n > 0 /\ Top \in Calls
      /\ Top = stack[n] /\ Top.proc = "onMouseMove" /\ b0 \in Buttons
      /\ E \in Pointers /\ TypeOK
  <2>1. stack \in Seq(Calls) /\ stack # << >> /\ TypeOK
    BY DEF HeldInv, TypeOK, Pass, InCall
  <2>2. QED
    BY <2>1, TopIsCall, CallParts DEF TypeOK, Pass, InCall, Top
<1>2. UNCHANGED <<visible, over, down, captured, event>>
  BY DEF Pass
<1>3. /\ PressedChanged(b0) \in Calls
      /\ PressedChanged(b0).proc = "onPressedChanged"
  BY <1>1 DEF PressedChanged, Call, Calls
<1>4. \/ b0 \in visible /\ HoverSet(b0, E, is)
      \/ b0 \notin visible /\ UNCHANGED <<hovered, isPressed_v>>
  BY DEF Pass
<1>5. /\ stack' \in Seq(Calls) /\ Len(stack') \in Nat
      /\ \A i \in 1 .. n - 1 : i \in 1 .. Len(stack') /\ stack'[i] = stack[i]
      /\ \/ Len(stack') = n - 1
         \/ Len(stack') = n /\ stack'[n].proc = "onPressedChanged"
  <2>1. Return \/ CallLast(PressedChanged(b0))
    BY DEF Pass
  <2>2. CASE Return
    BY <1>1, <2>2, Returns
  <2>3. CASE CallLast(PressedChanged(b0))
    <3>1. /\ stack' \in Seq(Calls) /\ Len(stack') = n
          /\ stack'[n] = PressedChanged(b0)
          /\ \A i \in 1 .. n - 1 : stack'[i] = stack[i]
      BY <1>1, <1>3, <2>3, CallsLast
    <3>2. \A i \in 1 .. n - 1 : i \in 1 .. n
      OBVIOUS
    <3>3. QED
      BY <1>3, <3>1, <3>2
  <2>4. QED
    BY <2>1, <2>2, <2>3
<1> DEFINE Handled == stack # << >> /\ stack[1].proc = "onMouseButton"
           HandledNext == stack' # << >> /\ stack'[1].proc = "onMouseButton"
<1>6. /\ Handled <=> HandledNext
      /\ Handled => n > 1 /\ stack'[1] = stack[1]
  <2>1. CASE n = 1
    <3>1. ~Handled
      BY <1>1, <2>1
    <3>2. stack' = << >> \/ stack'[1].proc = "onPressedChanged"
      BY <1>5, <2>1
    <3>3. QED
      BY <3>1, <3>2
  <2>2. CASE n > 1
    <3>1. 1 \in 1 .. n - 1
      BY <2>2
    <3>2. stack'[1] = stack[1] /\ stack' # << >>
      BY <1>5, <3>1
    <3>3. QED
      BY <1>1, <2>2, <3>2
  <2>3. QED
    BY <1>1, <2>1, <2>2
<1> HIDE DEF Handled, HandledNext
<1>7. Handles'
  <2>1. \A i \in 2 .. Len(stack') : stack'[i].proc # "onMouseButton"
    <3> SUFFICES ASSUME NEW i \in 2 .. Len(stack'),
                        stack'[i].proc = "onMouseButton"
                 PROVE  FALSE
      OBVIOUS
    <3>1. i \in 2 .. n - 1 \/ i = n
      BY <1>5
    <3>2. i \in 2 .. n - 1
      BY <1>5, <3>1
    <3>3. stack[i].proc = "onMouseButton" /\ i \in 2 .. n
      BY <1>5, <3>2
    <3>4. QED
      BY <3>3 DEF HeldInv, Handles
  <2>2. CASE Handled
    BY <1>2, <1>6, <2>1, <2>2 DEF HeldInv, Handles, Handled
  <2>3. CASE ~Handled
    BY <1>6, <2>1, <2>3 DEF Handles, HandledNext
  <2>4. QED
    BY <2>2, <2>3
<1>8. \A q : Known(q)' = Known(q)
  BY <1>2, <1>6 DEF Known, Handling, Handled, HandledNext
<1>9. Counted'
  BY <1>2, <1>8 DEF HeldInv, Counted
<1>10. PressedAreHeld'
  <2> SUFFICES ASSUME NEW b \in isPressed_v'
               PROVE  ReleasedNext(b)' \/ \E q \in Pointers : Holds(q, b)'
    BY DEF PressedAreHeld
  <2>1. b \in isPressed_v /\ b \in Buttons
    BY <1>1, <1>4, HoverSets DEF TypeOK
  <2>2. ReleasedNext(b) => ReleasedNext(b)'
    BY <1>2, <1>6 DEF ReleasedNext, Handled, HandledNext
  <2>3. ASSUME NEW q, Holds(q, b) PROVE Holds(q, b)'
    <3>1. HoldsOver(q, b) => HoldsOver(q, b)'
      <4> SUFFICES ASSUME HoldsOver(q, b) PROVE HoldsOver(q, b)'
        OBVIOUS
      <4>1. q \in hovered'[b]
        <5>1. b = b0 => is \/ q # E
          BY DEF HoldsOver
        <5>2. QED
          BY <1>1, <1>4, <2>1, <5>1, HoverSets DEF HoldsOver
      <4>2. QED
        BY <1>2, <4>1 DEF HoldsOver
    <3>2. HoldsCaptor(q, b) => HoldsCaptor(q, b)'
      BY <1>2, <1>8 DEF HoldsCaptor
    <3>3. LeavesNext(q, b) => LeavesNext(q, b)'
      <4> SUFFICES ASSUME LeavesNext(q, b) PROVE LeavesNext(q, b)'
        OBVIOUS
      <4>1. /\ q = E /\ q \in hovered[b] /\ b \in visible /\ over[E] # b
        BY DEF LeavesNext
      <4>2. b # b0
        <5> SUFFICES ASSUME b = b0 PROVE FALSE
          OBVIOUS
        <5>1. Leaves(b0, E, is)
          BY <2>1, <4>1 DEF Leaves
        <5>2. b0 \notin isPressed_v'
          BY <1>1, <1>4, <4>1, <5>1, HoverSets
        <5>3. QED
          BY <5>2
      <4>3. PICK i \in 1 .. n :
                stack[i].proc = "onMouseMove" /\ stack[i].of = b
        BY DEF LeavesNext
      <4>4. i \in 1 .. n - 1
        BY <1>1, <4>2, <4>3
      <4>5. i \in 1 .. Len(stack') /\ stack'[i] = stack[i]
        BY <1>5, <4>4
      <4>6. hovered'[b] = hovered[b]
        BY <1>1, <1>4, <2>1, <4>2, HoverSets
      <4>7. QED
        BY <1>2, <4>1, <4>3, <4>5, <4>6 DEF LeavesNext
    <3>4. QED
      BY <1>2, <2>3, <3>1, <3>2, <3>3 DEF Holds
  <2>4. QED
    BY <2>1, <2>2, <2>3 DEF HeldInv, PressedAreHeld
<1>11. QED
  BY <1>7, <1>9, <1>10

\* The button that gets a button event is hovered or not, and is released
\* if it is not any more: it only gets pressed over the button it is over.
LEMMA HoverKeepsHeld ==
    ASSUME HeldInv, Hover
    PROVE  Handles' /\ Counted' /\ PressedAreHeld'
<1> PICK b0 : b0 = Top.of
  OBVIOUS
<1> PICK E : E = event.by
  OBVIOUS
<1> PICK is \in BOOLEAN : is = (over[E] = b0)
  OBVIOUS
<1>1. /\ stack # << >> /\ Len(stack) = 1 /\ stack[1] = Top /\ Top \in Calls
      /\ Top.proc = "onMouseButton" /\ Top.pc = "hover"
      /\ b0 \in Buttons /\ E \in Pointers /\ TypeOK /\ stack \in Seq(Calls)
  BY HandlerIsAlone DEF Hover, InCall, HeldInv, TypeOK
<1>2. /\ UNCHANGED <<visible, over, down, captured, event>>
      /\ HoverSet(b0, E, is)
  BY DEF Hover
<1>3. /\ PressedChanged(b0) \in Calls
      /\ PressedChanged(b0).proc = "onPressedChanged"
  BY <1>1 DEF PressedChanged, Call, Calls
<1>4. PICK t : t = [Top EXCEPT !.pc = "handle"]
  OBVIOUS
<1>5. /\ t \in Calls /\ t.proc = "onMouseButton" /\ t.pc = "handle"
      /\ t.of = b0
  BY <1>1, <1>4, CallMoves
<1>6. PICK m \in {1, 2} :
          /\ m = Len(stack') /\ stack'[1] = t /\ stack' # << >>
          /\ m = 2 => stack'[2].proc = "onPressedChanged"
          /\ is => m = 1
  <2>1. \/ Continue("handle")
        \/ CallThen(PressedChanged(b0), "handle") /\ ~is
    BY DEF Hover, Leaves
  <2>2. CASE Continue("handle")
    <3>1. stack' \in Seq(Calls) /\ Len(stack') = 1 /\ stack'[1] = t
      BY <1>1, <1>4, <1>5, <2>2, GoesOn DEF Continue
    <3>2. stack' # << >>
      BY <3>1, LongIsNotEmpty
    <3>3. QED
      BY <3>1, <3>2
  <2>3. CASE CallThen(PressedChanged(b0), "handle") /\ ~is
    <3>1. /\ stack' \in Seq(Calls) /\ Len(stack') = 1 + 1 /\ stack'[1] = t
          /\ stack'[1 + 1] = PressedChanged(b0)
      BY <1>1, <1>3, <1>4, <1>5, <2>3, CallsThen
    <3>2. Len(stack') = 2 /\ stack'[2] = PressedChanged(b0)
      BY <3>1
    <3>3. stack' # << >>
      BY <3>2, LongIsNotEmpty
    <3>4. QED
      BY <1>3, <2>3, <3>1, <3>2, <3>3
  <2>4. QED
    BY <2>1, <2>2, <2>3
<1>7. Handles'
  <2>1. \A i \in 2 .. m : i = 2 /\ m = 2
    OBVIOUS
  <2>2. \A i \in 2 .. Len(stack') : stack'[i].proc # "onMouseButton"
    BY <1>6, <2>1
  <2>3. /\ event.key \in Keys /\ (event.isDown <=> event.key \in down[E])
        /\ b0 = IF captured[E] # NoCapture THEN captured[E].by ELSE over[E]
        /\ captured[E] = NoCapture => b0 \in visible
    BY <1>1 DEF HeldInv, Handles
  <2>4. over[E] = b0 => m = 1 /\ E \in hovered'[b0]
    BY <1>1, <1>2, <1>6, HoverSets
  <2>5. QED
    BY <1>2, <1>5, <1>6, <2>2, <2>3, <2>4 DEF Handles
<1>8. \A q : Known(q)' = Known(q)
  BY <1>1, <1>2, <1>5, <1>6 DEF Known, Handling
<1>9. Counted'
  BY <1>2, <1>8 DEF HeldInv, Counted
<1>10. PressedAreHeld'
  <2> SUFFICES ASSUME NEW b \in isPressed_v'
               PROVE  ReleasedNext(b)' \/ \E q \in Pointers : Holds(q, b)'
    BY DEF PressedAreHeld
  <2>1. b \in isPressed_v /\ b \in Buttons
    BY <1>1, <1>2, HoverSets DEF TypeOK
  <2>2. ReleasedNext(b) => ReleasedNext(b)'
    BY <1>1, <1>2, <1>5, <1>6 DEF ReleasedNext
  <2>3. ASSUME NEW q, Holds(q, b) PROVE Holds(q, b)'
    <3>1. HoldsOver(q, b) => HoldsOver(q, b)'
      <4> SUFFICES ASSUME HoldsOver(q, b) PROVE HoldsOver(q, b)'
        OBVIOUS
      <4>1. q \in hovered'[b]
        <5>1. b = b0 => is \/ q # E
          BY DEF HoldsOver
        <5>2. QED
          BY <1>1, <1>2, <2>1, <5>1, HoverSets DEF HoldsOver
      <4>2. QED
        BY <1>2, <4>1 DEF HoldsOver
    <3>2. HoldsCaptor(q, b) => HoldsCaptor(q, b)'
      BY <1>2, <1>8 DEF HoldsCaptor
    <3>3. ~LeavesNext(q, b)
      <4>1. \A i \in 1 .. 1 : i = 1
        OBVIOUS
      <4>2. QED
        BY <1>1, <4>1 DEF LeavesNext
    <3>4. QED
      BY <1>2, <2>3, <3>1, <3>2, <3>3 DEF Holds
  <2>4. QED
    BY <2>1, <2>2, <2>3 DEF HeldInv, PressedAreHeld
<1>11. QED
  BY <1>7, <1>9, <1>10

\* The button's handler: it is pressed when the left key is pressed over it,
\* and is released when the key is, wherever the pointer is.
LEMMA HandleKeepsHeld ==
    ASSUME HeldInv, Handle
    PROVE  Handles' /\ Counted' /\ PressedAreHeld'
<1> PICK b0 : b0 = Top.of
  OBVIOUS
<1> PICK E : E = event.by
  OBVIOUS
<1>1. /\ stack # << >> /\ Len(stack) = 1 /\ stack[1] = Top /\ Top \in Calls
      /\ Top.proc = "onMouseButton" /\ Top.pc = "handle"
      /\ b0 \in Buttons /\ E \in Pointers /\ TypeOK /\ stack \in Seq(Calls)
      /\ event.isDown <=> event.key \in down[E]
      /\ captured[E] # NoCapture => b0 = captured[E].by
  BY HandlerIsAlone DEF Handle, InCall, HeldInv, TypeOK
<1>2. UNCHANGED <<hovered, visible, over, down, captured, event>>
  BY DEF Handle, mouseVars
<1> PICK presses \in BOOLEAN :
         presses = (event.key = "LEFT" /\ event.isDown /\ over[E] = b0)
  OBVIOUS
<1> PICK releases \in BOOLEAN :
         releases = (event.key = "LEFT" /\ ~event.isDown /\ b0 \in isPressed_v)
  OBVIOUS
<1>3. /\ isPressed_v' = IF presses THEN isPressed_v \cup {b0}
                        ELSE IF releases THEN isPressed_v \ {b0}
                        ELSE isPressed_v
      /\ \/ Continue("count")
         \/ CallThen(PressedChanged(b0), "count")
  BY DEF Handle
<1>4. /\ PressedChanged(b0) \in Calls
      /\ PressedChanged(b0).proc = "onPressedChanged"
  BY <1>1 DEF PressedChanged, Call, Calls
<1>5. PICK t : t = [Top EXCEPT !.pc = "count"]
  OBVIOUS
<1>6. /\ t \in Calls /\ t.proc = "onMouseButton" /\ t.pc = "count"
      /\ t.of = b0
  BY <1>1, <1>5, CallMoves
<1>7. PICK m \in {1, 2} :
          /\ m = Len(stack') /\ stack'[1] = t /\ stack' # << >>
          /\ m = 2 => stack'[2].proc = "onPressedChanged"
  <2>1. CASE Continue("count")
    <3>1. stack' \in Seq(Calls) /\ Len(stack') = 1 /\ stack'[1] = t
      BY <1>1, <1>5, <1>6, <2>1, GoesOn DEF Continue
    <3>2. stack' # << >>
      BY <3>1, LongIsNotEmpty
    <3>3. QED
      BY <3>1, <3>2
  <2>2. CASE CallThen(PressedChanged(b0), "count")
    <3>1. /\ stack' \in Seq(Calls) /\ Len(stack') = 1 + 1 /\ stack'[1] = t
          /\ stack'[1 + 1] = PressedChanged(b0)
      BY <1>1, <1>4, <1>5, <1>6, <2>2, CallsThen
    <3>2. Len(stack') = 2 /\ stack'[2] = PressedChanged(b0)
      BY <3>1
    <3>3. stack' # << >>
      BY <3>2, LongIsNotEmpty
    <3>4. QED
      BY <1>4, <3>1, <3>2, <3>3
  <2>3. QED
    BY <1>3, <2>1, <2>2
<1>8. Handles'
  <2>1. \A i \in 2 .. m : i = 2 /\ m = 2
    OBVIOUS
  <2>2. \A i \in 2 .. Len(stack') : stack'[i].proc # "onMouseButton"
    BY <1>7, <2>1
  <2>3. /\ event.key \in Keys /\ (event.isDown <=> event.key \in down[E])
        /\ b0 = IF captured[E] # NoCapture THEN captured[E].by ELSE over[E]
    BY <1>1 DEF HeldInv, Handles
  <2>4. QED
    BY <1>2, <1>6, <1>7, <2>2, <2>3 DEF Handles
<1>9. \A q : Known(q)' = Known(q)
  BY <1>1, <1>2, <1>6, <1>7 DEF Known, Handling
<1>10. Counted'
  BY <1>2, <1>9 DEF HeldInv, Counted
<1>11. presses => Holds(E, b0)'
  <2> SUFFICES ASSUME presses PROVE Holds(E, b0)'
    OBVIOUS
  <2>1. /\ event.key = "LEFT" /\ event.isDown /\ over[E] = b0
        /\ "LEFT" \in down[E]
    BY <1>1
  <2>2. CASE captured[E] = NoCapture
    <3>1. b0 \in visible /\ E \in hovered[b0]
      BY <1>1, <2>1, <2>2 DEF HeldInv, Handles
    <3>2. captured[E].by = NoButton
      BY <2>2 DEF NoCapture
    <3>3. HoldsOver(E, b0)'
      BY <1>2, <2>1, <3>1, <3>2 DEF HoldsOver
    <3>4. QED
      BY <1>2, <2>1, <3>3 DEF Holds
  <2>3. CASE captured[E] # NoCapture
    <3>1. captured[E].clicks \in Nat \ {0}
      BY <1>1, <2>3 DEF TypeOK
    <3>2. PICK j : j = Number(Known(E))
      OBVIOUS
    <3>3. captured[E].clicks <= j
      BY <1>1, <2>3, <3>2 DEF HeldInv, Counted
    <3>4. "LEFT" \notin Known(E)
      BY <1>1, <2>1 DEF Known, Handling
    <3>5. j \in 0 .. 2 /\ j <= 1
      BY <3>2, <3>4, Numbers
    <3>6. captured[E].clicks = j
      BY <3>1, <3>3, <3>5
    <3>7. HoldsCaptor(E, b0)'
      BY <1>1, <1>2, <1>9, <2>3, <3>2, <3>6 DEF HoldsCaptor
    <3>8. QED
      BY <1>2, <2>1, <3>7 DEF Holds
  <2>4. QED
    BY <2>2, <2>3
<1>12. PressedAreHeld'
  <2> SUFFICES ASSUME NEW b \in isPressed_v'
               PROVE  \E q \in Pointers : Holds(q, b)'
    BY DEF PressedAreHeld
  <2>1. CASE presses /\ b = b0
    BY <1>1, <1>11, <2>1
  <2>2. CASE ~(presses /\ b = b0)
    <3>1. b \in isPressed_v /\ ~(releases /\ ~presses /\ b = b0)
      BY <1>3, <2>2
    <3>2. ~ReleasedNext(b)
      BY <1>1, <3>1 DEF ReleasedNext
    <3>3. PICK q \in Pointers : Holds(q, b)
      BY <3>1, <3>2 DEF HeldInv, PressedAreHeld
    <3>4. HoldsOver(q, b) => HoldsOver(q, b)'
      BY <1>2 DEF HoldsOver
    <3>5. HoldsCaptor(q, b) => HoldsCaptor(q, b)'
      BY <1>2, <1>9 DEF HoldsCaptor
    <3>6. ~LeavesNext(q, b)
      <4>1. \A i \in 1 .. 1 : i = 1
        OBVIOUS
      <4>2. QED
        BY <1>1, <4>1 DEF LeavesNext
    <3>7. QED
      BY <1>2, <3>3, <3>4, <3>5, <3>6 DEF Holds
  <2>3. QED
    BY <2>1, <2>2
<1>13. QED
  BY <1>8, <1>10, <1>12

\* The container counts: it lets go of a captor only when it has counted the
\* last key up, which was not the left one if that is held.
LEMMA CountKeepsHeld ==
    ASSUME HeldInv, Count
    PROVE  Handles' /\ Counted' /\ PressedAreHeld'
<1> PICK b0 : b0 = Top.of
  OBVIOUS
<1> PICK E : E = event.by
  OBVIOUS
<1>1. /\ stack # << >> /\ Len(stack) = 1 /\ stack[1] = Top /\ Top \in Calls
      /\ Top.proc = "onMouseButton" /\ Top.pc = "count"
      /\ b0 \in Buttons /\ E \in Pointers /\ TypeOK /\ stack \in Seq(Calls)
      /\ event.key \in {"LEFT", "RIGHT"}
      /\ event.isDown <=> event.key \in down[E]
      /\ captured[E] # NoCapture => b0 = captured[E].by
      /\ captured[E] = NoCapture => b0 = over[E]
  BY HandlerIsAlone DEF Count, InCall, HeldInv, TypeOK
<1>2. UNCHANGED <<isPressed_v, hovered, visible, over, down, event>>
  BY DEF Count, pressVars
<1>3. stack' = << >>
  <2>1. stack' \in Seq(Calls) /\ Len(stack') = 0
    BY <1>1, Returns DEF Count
  <2>2. QED
    BY <2>1, EmptySeq
<1>4. Handles'
  <2>1. \A i \in 2 .. 0 : FALSE
    OBVIOUS
  <2>2. Len(stack') = 0
    BY <1>3
  <2>3. QED
    BY <1>3, <2>1, <2>2 DEF Handles
<1>5. /\ \A q : Known(q)' = down[q]
      /\ \A q \in Pointers \ {E} : Known(q) = down[q]
      /\ Known(E) = IF event.isDown THEN down[E] \ {event.key}
                    ELSE down[E] \cup {event.key}
  BY <1>1, <1>2, <1>3 DEF Known, Handling
<1> PICK c : c = captured[E]
  OBVIOUS
<1> PICK n : n = IF event.isDown THEN c.clicks + 1 ELSE c.clicks - 1
  OBVIOUS
<1>6. /\ c # NoCapture => c \in [by : Buttons, clicks : Nat \ {0}]
      /\ c # NoCapture => n \in Nat
      /\ c = NoCapture => c.by = NoButton
  <2>1. c \in [by : Buttons, clicks : Nat \ {0}] \cup {NoCapture}
    BY <1>1 DEF TypeOK
  <2>2. QED
    BY <2>1 DEF NoCapture
<1>7. /\ \A q \in Pointers \ {E} : captured'[q] = captured[q]
      /\ c # NoCapture /\ n = 0 => captured'[E] = NoCapture
      /\ c # NoCapture /\ n # 0 => captured'[E] = [by |-> c.by, clicks |-> n]
      /\ c = NoCapture /\ event.isDown /\ event.key = "LEFT" =>
             captured'[E] = [by |-> b0, clicks |-> 1]
      /\ c = NoCapture /\ ~(event.isDown /\ event.key = "LEFT") =>
             captured'[E] = NoCapture
  <2>1. PICK d : d = IF c # NoCapture
                     THEN IF n = 0 THEN NoCapture ELSE [c EXCEPT !.clicks = n]
                     ELSE IF event.isDown /\ event.key = "LEFT"
                     THEN [by |-> b0, clicks |-> 1] ELSE NoCapture
    OBVIOUS
  <2>2. captured' = [captured EXCEPT ![E] = d]
    BY <2>1 DEF Count
  <2>3. c # NoCapture => [c EXCEPT !.clicks = n] = [by |-> c.by, clicks |-> n]
    BY <1>6
  <2>4. captured'[E] = d /\ \A q \in Pointers \ {E} : captured'[q] = captured[q]
    BY <1>1, <2>2 DEF TypeOK
  <2>5. QED
    BY <2>1, <2>3, <2>4
<1> PICK j : j = Number(down[E])
  OBVIOUS
<1> PICK k : k = Number(Known(E))
  OBVIOUS
<1>8. /\ j \in 0 .. 2 /\ k \in 0 .. 2
      /\ "LEFT" \in down[E] => j >= 1
      /\ k = IF event.isDown THEN j - 1 ELSE j + 1
  BY <1>1, <1>5, Numbers
<1>9. Counted'
  <2> SUFFICES ASSUME NEW q \in Pointers, captured'[q] # NoCapture
               PROVE  captured'[q].clicks <= Number(Known(q)')
    BY DEF Counted
  <2>1. CASE q # E
    BY <1>5, <1>7, <2>1 DEF HeldInv, Counted
  <2>2. CASE q = E /\ c # NoCapture
    <3>1. c.clicks <= k /\ c.clicks \in Nat
      BY <1>1, <1>6, <2>2 DEF HeldInv, Counted
    <3>2. captured'[q].clicks = n
      BY <1>7, <2>2
    <3>3. n <= j
      BY <1>8, <3>1
    <3>4. QED
      BY <1>5, <2>2, <3>2, <3>3
  <2>3. CASE q = E /\ c = NoCapture
    <3>1. event.isDown /\ event.key = "LEFT" /\ captured'[q].clicks = 1
      BY <1>7, <2>3
    <3>2. j >= 1
      BY <1>1, <1>8, <3>1
    <3>3. QED
      BY <1>5, <1>8, <2>3, <3>1, <3>2
  <2>4. QED
    BY <2>1, <2>2, <2>3
<1>10. PressedAreHeld'
  <2> SUFFICES ASSUME NEW b \in isPressed_v
               PROVE  \E q \in Pointers : Holds(q, b)'
    BY <1>2 DEF PressedAreHeld
  <2>1. ~ReleasedNext(b) /\ b \in Buttons
    BY <1>1 DEF ReleasedNext, TypeOK
  <2>2. PICK q \in Pointers : Holds(q, b)
    BY <2>1 DEF HeldInv, PressedAreHeld
  <2>3. ~LeavesNext(q, b)
    <3>1. \A i \in 1 .. 1 : i = 1
      OBVIOUS
    <3>2. QED
      BY <1>1, <3>1 DEF LeavesNext
  <2>4. HoldsOver(q, b) => HoldsOver(q, b)'
    <3> SUFFICES ASSUME HoldsOver(q, b) PROVE HoldsOver(q, b)'
      OBVIOUS
    <3>1. captured'[q].by \in {b, NoButton}
      <4>1. CASE q # E
        BY <1>7, <4>1 DEF HoldsOver
      <4>2. CASE q = E /\ c # NoCapture
        BY <1>6, <1>7, <4>2 DEF HoldsOver, NoCapture
      <4>3. CASE q = E /\ c = NoCapture
        BY <1>1, <1>7, <4>3 DEF HoldsOver, NoCapture
      <4>4. QED
        BY <4>1, <4>2, <4>3
    <3>2. QED
      BY <1>2, <3>1 DEF HoldsOver
  <2>5. HoldsCaptor(q, b) => HoldsCaptor(q, b)'
    <3> SUFFICES ASSUME HoldsCaptor(q, b) PROVE HoldsCaptor(q, b)'
      OBVIOUS
    <3>1. CASE q # E
      BY <1>5, <1>7, <3>1 DEF HoldsCaptor
    <3>2. CASE q = E
      <4>1. c # NoCapture /\ c.clicks = k /\ c.by = b
        BY <1>6, <2>1, <3>2, ButtonsAssumption DEF HoldsCaptor
      <4>2. n = j /\ n # 0
        BY <1>8, <2>2, <3>2, <4>1 DEF Holds
      <4>3. captured'[E] = [by |-> b, clicks |-> j]
        BY <1>7, <4>1, <4>2
      <4>4. QED
        BY <1>5, <3>2, <4>3 DEF HoldsCaptor
    <3>3. QED
      BY <3>1, <3>2
  <2>6. QED
    BY <1>2, <2>2, <2>3, <2>4, <2>5 DEF Holds
<1>11. QED
  BY <1>4, <1>9, <1>10

-----------------------------------------------------------------------------
(* The theorems *)

LEMMA Initially == Init => PressInv /\ CheckInv
<1> SUFFICES ASSUME Init PROVE PressInv /\ CheckInv
  OBVIOUS
<1>1. TypeOK
  BY ButtonsAssumption DEF Init, TypeOK, NoEvent, NoCapture
<1>2. OnlyActive /\ Remembered
  BY DEF Init, OnlyActive, Remembered
<1>3. Swapping
  BY DEF Init, Swapping, Calm
<1>4. QED
  BY <1>1, <1>2, <1>3 DEF PressInv, CheckInv

LEMMA PressInductive == PressInv /\ [Next]_vars => PressInv'
<1> SUFFICES ASSUME PressInv, [Next]_vars PROVE PressInv'
  OBVIOUS
<1> USE DEF PressInv
<1>1. CASE UNCHANGED vars
  <2>1. TypeOK'
    BY <1>1 DEF TypeOK, vars, checkVars, pressVars, mouseVars
  <2>2. Remembered'
    BY <1>1 DEF Remembered, Settling, vars, pressVars
  <2>3. QED
    BY <2>1, <2>2
<1>2. CASE Next
  BY <1>2, TypeStep, RememberedStep
<1>3. QED
  BY <1>1, <1>2

LEMMA CheckInductive ==
    ASSUME "unchecked" \notin UserCodeIn
    PROVE  CheckInv /\ [Next]_vars => CheckInv'
<1> SUFFICES ASSUME CheckInv, [Next]_vars PROVE CheckInv'
  OBVIOUS
<1> USE DEF CheckInv
<1>1. CASE UNCHANGED vars
  <2>1. stack' = stack
    BY <1>1 DEF vars
  <2>2. TypeOK'
    BY <1>1 DEF TypeOK, vars, checkVars, pressVars, mouseVars
  <2>3. OnlyActive'
    BY <1>1 DEF OnlyActive, Active, vars, checkVars
  <2>4. Swapping'
    BY <1>1 DEF Swapping, Calm, Changing, Unchecking, Activating, Active,
                Top, vars, checkVars
  <2>5. QED
    BY <2>2, <2>3, <2>4
<1>2. CASE Next
  <2>1. TypeOK'
    BY <1>2, TypeStep
  <2>2. ASSUME NEW b \in Buttons, setVisible(b)
        PROVE  OnlyActive' /\ Swapping'
    BY <2>2 DEF setVisible, OnlyActive, Swapping, Calm, Changing, Unchecking,
                Activating, Active, Top, checkVars
  <2>3. OnlyActive' /\ Swapping'
    BY <1>2, <2>2, SwapGroupStep, ActivateStep, SetStep, CheckedChangedStep,
       PressingStep, EventStep, UserSetCheckedStep
       DEF Next, Checking, Pressing, Mouse, UserCode
  <2>4. QED
    BY <2>1, <2>3
<1>3. QED
  BY <1>1, <1>2

\* No two choice buttons of a group are checked at any time, whoever checks
\* them, from inside or outside of the handlers of other buttons, unless a
\* handler acts when a button is being unchecked.
THEOREM OneIsChecked ==
    ASSUME "unchecked" \notin UserCodeIn
    PROVE  Spec => []OneChecked
<1>1. CheckInv => OneChecked
  <2>1. SUFFICES ASSUME CheckInv, NEW a \in isChecked_v, NEW b \in isChecked_v,
                        GroupOf[a] = GroupOf[b], GroupOf[a] # NoGroup
                 PROVE  a = b
    BY DEF OneChecked
  <2>2. QED
    BY <2>1 DEF CheckInv, OnlyActive
<1>2. QED
  BY <1>1, Initially, CheckInductive, PTL DEF Spec

LEMMA ActiveInductive ==
    ASSUME "unchecked" \notin UserCodeIn
    PROVE  ActiveInv /\ [Next]_vars => ActiveInv'
<1> SUFFICES ASSUME ActiveInv, [Next]_vars PROVE ActiveInv'
  OBVIOUS
<1>1. CheckInv'
  BY CheckInductive DEF ActiveInv
<1>2. Swapping'
  BY <1>1 DEF CheckInv
<1>3. CASE UNCHANGED vars
  BY <1>1, <1>3
     DEF ActiveInv, GroupsAgree, ActiveOrSwaps, UncheckedRightly, Swaps,
         Unchecking, Calm, Activating, Active, Top, vars, checkVars
<1>4. CASE Next
  <2>1. ASSUME NEW b \in Buttons, setVisible(b)
        PROVE  ActiveOrSwaps' /\ UncheckedRightly' /\ GroupsAgree'
    BY <2>1
       DEF ActiveInv, GroupsAgree, ActiveOrSwaps, UncheckedRightly, Swaps,
           Unchecking, Calm, Activating, Active, Top, setVisible, checkVars
  <2>2. ActiveOrSwaps' /\ UncheckedRightly' /\ GroupsAgree'
    BY <1>2, <1>4, <2>1, SwapGroupKeepsActive, ActivateKeepsActive,
       SetKeepsActive, PressingKeepsActive, UserKeepsActive, EventKeepsActive
       DEF Next, Checking, Pressing, Mouse, UserCode
  <2>3. QED
    BY <1>1, <2>2 DEF ActiveInv
<1>5. QED
  BY <1>3, <1>4

\* Between two events the active button of a group is checked, whoever checks
\* buttons from inside or outside of handlers, unless a handler acts when a
\* button is being unchecked.
THEOREM ActiveStaysChecked ==
    ASSUME "unchecked" \notin UserCodeIn
    PROVE  Spec => []ActiveIsChecked
<1>1. ActiveInv => ActiveIsChecked
  <2> SUFFICES ASSUME ActiveInv, stack = << >>
               PROVE  \A g \in Groups :
                          Active(g) # NoButton => Active(g) \in isChecked_v
    BY DEF ActiveIsChecked
  <2>1. \A g : ~Swaps(g)
    BY DEF Swaps
  <2>2. QED
    BY <2>1 DEF ActiveInv, ActiveOrSwaps
<1>2. Init => ActiveInv
  <2> SUFFICES ASSUME Init PROVE ActiveInv
    OBVIOUS
  <2>1. CheckInv
    BY Initially
  <2>2. GroupsAgree /\ ActiveOrSwaps /\ UncheckedRightly
    BY DEF Init, GroupsAgree, ActiveOrSwaps, UncheckedRightly, Active
  <2>3. QED
    BY <2>1, <2>2 DEF ActiveInv
<1>3. QED
  BY <1>1, <1>2, ActiveInductive, PTL DEF Spec

\* Between two events PushButton remembers whether the button is pressed,
\* also with any number of pointers and of buttons hidden while pressed.
THEOREM MemoryIsRight == Spec => []MemoryAgrees
<1>1. PressInv => MemoryAgrees
  <2>1. SUFFICES ASSUME PressInv, stack = << >>
                 PROVE  currentlyPressed = isPressed_v
    BY DEF MemoryAgrees
  <2>2. \A b \in Buttons : ~Settling(b)
    BY <2>1 DEF Settling
  <2>3. QED
    BY <2>1, <2>2 DEF PressInv, Remembered, TypeOK
<1>2. QED
  BY <1>1, Initially, PressInductive, PTL DEF Spec

LEMMA HeldInductive ==
    ASSUME \A b \in Buttons : <<"hidePressed", b>> \notin UserCalls
    PROVE  HeldInv /\ [Next]_vars => HeldInv'
<1> SUFFICES ASSUME HeldInv, [Next]_vars PROVE HeldInv'
  OBVIOUS
<1>1. CASE UNCHANGED vars
  <2>1. TypeOK'
    BY <1>1 DEF HeldInv, TypeOK, vars, checkVars, pressVars, mouseVars
  <2>2. UNCHANGED <<isPressed_v, hovered, visible, over, down, captured,
                    event, stack>>
    BY <1>1 DEF vars, pressVars, mouseVars
  <2>3. \A p : Known(p)' = Known(p)
    BY <2>2 DEF Known, Handling
  <2>4. Handles' /\ Counted'
    BY <2>2, <2>3 DEF HeldInv, Handles, Counted
  <2>5. PressedAreHeld'
    BY <2>2, <2>3 DEF HeldInv, PressedAreHeld, ReleasedNext, Holds,
                      HoldsOver, HoldsCaptor, LeavesNext
  <2>6. QED
    BY <2>1, <2>4, <2>5 DEF HeldInv
<1>2. CASE Next
  <2>1. TypeOK'
    BY <1>2, TypeStep DEF HeldInv
  <2>2. ASSUME NEW b \in Buttons, setVisible(b)
        PROVE  Handles' /\ Counted' /\ PressedAreHeld'
    <3>1. b \notin isPressed_v
      BY <2>2 DEF setVisible
    <3>2. QED
      BY <2>2, <3>1, VisibleKeepsHeld
  <2>3. ASSUME NEW p \in Pointers,
               \/ Move(p)
               \/ \E k \in Keys, d \in BOOLEAN : ButtonEvent(p, k, d)
        PROVE  Handles' /\ Counted' /\ PressedAreHeld'
    BY <2>3, MoveKeepsHeld, ButtonEventKeepsHeld
  <2>4. ASSUME Pass \/ Hover \/ Handle \/ Count
        PROVE  Handles' /\ Counted' /\ PressedAreHeld'
    BY <2>4, PassKeepsHeld, HoverKeepsHeld, HandleKeepsHeld, CountKeepsHeld
  <2>5. ASSUME NEW b \in Buttons, NEW to \in BOOLEAN, setChecked(b, to)
        PROVE  Handles' /\ Counted' /\ PressedAreHeld'
    BY <2>5, UserChecksKeepsHeld
  <2>6. Handles' /\ Counted' /\ PressedAreHeld'
    BY <1>2, <2>2, <2>3, <2>4, <2>5, CheckingKeepsHeld
       DEF Next, Mouse, UserCode
  <2>7. QED
    BY <2>1, <2>6 DEF HeldInv
<1>3. QED
  BY <1>1, <1>2

\* Between two events every pressed button has a pointer that holds its left
\* key over it or is captured by it, with any pointers, keys and user code, as
\* long as no code hides a button while it is pressed.
THEOREM PressedStaysHeld ==
    ASSUME \A b \in Buttons : <<"hidePressed", b>> \notin UserCalls
    PROVE  Spec => []PressedIsHeld
<1>1. HeldInv => PressedIsHeld
  <2> SUFFICES ASSUME HeldInv, stack = << >>, NEW b \in isPressed_v
               PROVE  \E p \in Pointers :
                          "LEFT" \in down[p] /\ b \in {over[p], captured[p].by}
    BY DEF PressedIsHeld
  <2>1. PICK p \in Pointers : Holds(p, b)
    BY DEF HeldInv, PressedAreHeld, ReleasedNext
  <2>2. ~LeavesNext(p, b)
    BY DEF LeavesNext
  <2>3. QED
    BY <2>1, <2>2 DEF Holds, HoldsOver, HoldsCaptor
<1>2. Init => HeldInv
  <2> SUFFICES ASSUME Init PROVE HeldInv
    OBVIOUS
  <2>1. TypeOK
    BY Initially DEF PressInv
  <2>2. Handles
    <3>1. \A i \in 2 .. 0 : FALSE
      OBVIOUS
    <3>2. Len(stack) = 0 /\ stack = << >>
      BY DEF Init
    <3>3. QED
      BY <3>1, <3>2 DEF Handles
  <2>3. Counted /\ PressedAreHeld
    BY DEF Init, Counted, PressedAreHeld
  <2>4. QED
    BY <2>1, <2>2, <2>3 DEF HeldInv
<1>3. QED
  BY <1>1, <1>2, HeldInductive, PTL DEF Spec
=============================================================================

----------------------------- MODULE MouseProofs -----------------------------
(***************************************************************************)
(* Proofs about MouseDispatch, for every tree of widgets, every set of     *)
(* pointers and every program that lays no container out, or lays some out *)
(* and changes no list of children (LayOutsApart).  Without that the       *)
(* containers' lists do change under their loops, as a run shows.          *)
(*                                                                         *)
(* StackInv says what the calls in progress are: each goes on at a place   *)
(* its container has, the calls above one that goes through a list are of  *)
(* widgets below that container, and so each list has one loop at most,    *)
(* which blocks it.  CaptureInv, on top of it, relates what containers at  *)
(* both levels remember of a pointer, what widgets wait for and what       *)
(* buttons are held, while a button event is half way through.  HoverInv   *)
(* is about programs that leave the tree as it is, with widgets that lie   *)
(* inside their parents: a hovered child is in a hovered container, or in  *)
(* one that is to un-hover it, or in one that handles a move it will be    *)
(* hovered after; and a move has left, or will get to, every hovered child *)
(* that is no longer under the pointer.                                    *)
(***************************************************************************)
EXTENDS MouseDispatch, SequenceTheorems, WellFoundedInduction, TLAPS

\* No program changes a list of children and lays containers out as well.
LayOutsApart ==
    \A pr \in Programs : \A c, d \in pr.calls :
        c[1] = "layOut" => d[1] \notin {"add", "remove", "makeTopmost"}

-----------------------------------------------------------------------------
(* The calls in progress *)

\* The widgets that can be children of container c.
Below(c) == {w \in Widgets \ {Root} : w \in Containers => c = Root}

IsCall(f) ==
    /\ f.of \in Containers <=> f.proc # "user"
    /\ \/ f.proc = "user" /\ f.pc \in Methods
       \/ f.proc = "onHoverChanged" /\ f.pc \in {"enter", "loop"}
       \/ f.proc = "onMouseMove" /\ f.pc \in {"enter", "loop", "moved", "rest"}
       \/ /\ f.proc = "onMouseButton"
          /\ f.pc \in {"enter", "captured", "count", "loop", "hovered", "tried"}

\* Call f is in the middle of its loop.
Loops(f) == f.proc # "user" /\ f.pc # "enter"

\* Call f goes on at a place that the list s of children has.
Within(f, s) ==
    /\ f.at <= Len(s) + (IF f.proc = "onHoverChanged" THEN 1 ELSE 0)
    /\ f.proc = "onHoverChanged" /\ f.pc = "loop" => f.at >= 1
    /\ f.pc \in {"moved", "hovered", "tried"} => f.at >= 1

\* Call f at another place.
At(f, pc, k) == [f EXCEPT !.pc = pc, !.at = k]

Method(f) == IF f.proc = "user" THEN f.pc ELSE f.proc

\* The method that call f, which has begun, calls where it is.
Calls(f) ==
    IF f.pc = "moved" THEN "onMouseMove"
    ELSE IF f.pc \in {"count", "tried"} THEN "onMouseButton"
    ELSE "onHoverChanged"

\* g may be called by f, at position i of the stack.  (An event that leaves
\* the root has its onHoverChanged() run before its own method begins.)
CalledBy(g, f, i) ==
    /\ f.proc # "user"
    /\ IF f.pc = "enter"
       THEN i = 1 /\ g.of = Root /\ Method(g) = "onHoverChanged"
       ELSE Method(g) = Calls(f)

StackOK(s) ==
    /\ \A i \in 1 .. Len(s) : IsCall(s[i])
    /\ \A i, j \in 1 .. Len(s) :
           i < j /\ s[i].pc # "enter" => s[j].of \in Below(s[i].of)
    /\ \A i \in 1 .. Len(s) : i < Len(s) => CalledBy(s[i + 1], s[i], i)
    /\ s # << >> => s[1].of = Root

\* Every loop goes through its list within bounds, and blocks its container
\* unless the program lays containers out.
LoopsOK(s, ch, blocked) ==
    \A i \in 1 .. Len(s) : Loops(s[i]) =>
        /\ Within(s[i], ch[s[i].of])
        /\ \/ blocked[s[i].of]
           \/ \E c \in Containers : <<"layOut", c>> \in program.calls

TreeTyped ==
    /\ program \in Programs
    /\ children \in [Containers -> Seq(Widgets)]
    /\ \A c \in Containers : children[c] \in Seq(Below(c))
    /\ visible \subseteq Widgets /\ enabled \subseteq Widgets
    /\ alive \subseteq Widgets /\ Containers \subseteq alive
    /\ isBlocked \in [Containers -> BOOLEAN]
    /\ hovered \in [Widgets -> SUBSET Pointers]
    /\ under \subseteq Widgets

EventTyped ==
    /\ event \in [kind : {"none", "move", "button", "hover"}, isDown : BOOLEAN, by : Pointers]
    /\ consumed \in BOOLEAN
    /\ down \in [Pointers -> Nat]
    /\ event.isDown => down[pointer] > 0

CaptureTyped ==
    /\ mouseCaptureMap \in [Containers ->
           [Pointers -> [by : Widgets \cup {NoWidget}, clicks : Nat]]]
    /\ \A c \in Containers : \A p \in Pointers :
           /\ mouseCaptureMap[c][p].by \in Below(c) \cup {NoWidget}
           /\ mouseCaptureMap[c][p].clicks = 0 => mouseCaptureMap[c][p].by = NoWidget
    /\ owed \in [Widgets -> [Pointers -> Nat]]

\* The widget of the call that the i-th call waits for, if there is one.
Awaited(s, i) == IF i < Len(s) THEN {s[i + 1].of} ELSE {}

\* Call f of onMouseButton() waits for ws.  If it found entry e it passes the
\* event to the widget that has the pointer, one of those in there until then;
\* otherwise the entry is free and f tries the children in list s.
Passes(f, e, ws, there, s) ==
    /\ f.pc \in {"captured", "count"} => e.by \in there /\ ws \subseteq {e.by}
    /\ f.pc \in {"loop", "hovered", "tried"} => e = NoCapture
    /\ f.pc = "tried" => ws \subseteq {s[f.at]}

PassingOK(s) ==
    \A i \in 1 .. Len(s) : s[i].proc = "onMouseButton" =>
        Passes(s[i], mouseCaptureMap[s[i].of][pointer], Awaited(s, i), alive,
               children[s[i].of])

Stacked ==
    /\ stack \in Seq(CallType)
    /\ StackOK(stack)
    /\ LoopsOK(stack, children, isBlocked)
    /\ PassingOK(stack)
    /\ event = NoEvent => stack = << >>

StackInv == TreeTyped /\ EventTyped /\ CaptureTyped /\ Stacked

-----------------------------------------------------------------------------
(* Captured pointers *)

After(n) == IF event.isDown THEN n + 1 ELSE n - 1

\* What container c remembers of pointer p, once what the call it made has
\* returned is taken into account.
Entry(c, p) ==
    LET e == mouseCaptureMap[c][p]
    IN IF p = pointer /\ stack # << >> /\ Top.proc = "onMouseButton" /\ Top.of = c
       THEN IF Top.pc = "count" THEN [by |-> e.by, clicks |-> After(e.clicks)]
            ELSE IF Top.pc = "tried" /\ consumed /\ event.isDown
                 THEN [by |-> Child, clicks |-> 1]
            ELSE e
       ELSE e

\* The buttons of pointer p that the root knows to be held.
Held(p) ==
    IF p = pointer /\ stack # << >> /\ stack[1].proc = "onMouseButton"
    THEN IF event.isDown THEN down[p] - 1 ELSE down[p] + 1
    ELSE down[p]

CaptureInv ==
    /\ \A p \in Pointers :
           LET r == mouseCaptureMap[Root][p]
           IN r.by \in alive => 1 <= r.clicks /\ r.clicks <= Held(p)
    /\ \A p \in Pointers : \A c \in Containers \ {Root} :
           LET e == mouseCaptureMap[c][p]
           IN e.by \in alive =>
                  /\ Entry(Root, p).by = c
                  /\ 1 <= e.clicks /\ e.clicks <= Entry(Root, p).clicks
    /\ \A p \in Pointers : \A c \in Containers : \A w \in alive \ Containers :
           Entry(c, p).by = w => owed[w][p] = Entry(c, p).clicks
    /\ \A p \in Pointers : \A w \in alive :
           owed[w][p] > 0 =>
               w \notin Containers /\ \E c \in Containers : Entry(c, p).by = w
-----------------------------------------------------------------------------
(* Stacks: the innermost call is dropped, goes on, or calls another *)

LEMMA WithoutTop ==
    ASSUME NEW S, NEW s \in Seq(S), s # << >>
    PROVE  /\ Len(s) \in Nat \ {0}
           /\ Last(s) = s[Len(s)] /\ Last(s) \in S
           /\ Front(s) \in Seq(S) /\ Len(Front(s)) = Len(s) - 1
           /\ \A i \in 1 .. Len(s) - 1 : Front(s)[i] = s[i]
<1>1. Len(s) \in Nat \ {0}
  BY LenProperties, EmptySeq
<1>2. s[Len(s)] \in S
  BY <1>1, ElementOfSeq
<1>3. Front(s) = SubSeq(s, 1, Len(s) - 1)
  BY DEF Front
<1>4. /\ SubSeq(s, 1, Len(s) - 1) \in Seq(S)
      /\ Len(SubSeq(s, 1, Len(s) - 1)) = Len(s) - 1
      /\ \A i \in 1 .. Len(s) - 1 : SubSeq(s, 1, Len(s) - 1)[i] = s[i]
  <2>1. /\ 1 \in Int /\ Len(s) - 1 \in Int
        /\ \A i \in 1 .. Len(s) - 1 : s[i] \in S
    BY <1>1, ElementOfSeq
  <2> DEFINE m == Len(s) - 1
             q == SubSeq(s, 1, m)
  <2>2. /\ q \in Seq(S) /\ Len(q) = IF 1 <= m THEN m - 1 + 1 ELSE 0
        /\ \A i \in 1 .. m - 1 + 1 : q[i] = s[1 + i - 1]
    BY <2>1, SubSeqProperties
  <2>3. m \in Nat
    BY <1>1
  <2> HIDE DEF q, m
  <2>4. q \in Seq(S) /\ Len(q) = m /\ \A i \in 1 .. m : q[i] = s[i]
    BY <2>2, <2>3
  <2>5. QED
    BY <2>4 DEF q, m
<1>5. QED
  BY <1>1, <1>2, <1>3, <1>4 DEF Last

LEMMA NewTop ==
    ASSUME NEW s \in Seq(CallType), s # << >>, NEW f \in CallType, NEW cs \in Seq(CallType)
    PROVE  LET t == Append(Front(s), f) \o cs
           IN /\ t \in Seq(CallType) /\ t # << >> /\ Len(t) = Len(s) + Len(cs)
              /\ \A i \in 1 .. Len(s) - 1 : t[i] = s[i]
              /\ t[Len(s)] = f
              /\ \A i \in 1 .. Len(cs) : t[Len(s) + i] = cs[i]
<1> DEFINE r == Append(Front(s), f)
           t == r \o cs
<1>1. /\ Len(s) \in Nat \ {0}
      /\ Front(s) \in Seq(CallType) /\ Len(Front(s)) = Len(s) - 1
      /\ \A i \in 1 .. Len(s) - 1 : Front(s)[i] = s[i]
  BY WithoutTop
<1>2. /\ r \in Seq(CallType) /\ Len(r) = Len(s)
      /\ \A i \in 1 .. Len(s) - 1 : r[i] = s[i]
      /\ r[Len(s)] = f
  BY <1>1, AppendProperties
<1> HIDE DEF r
<1>3. /\ t \in Seq(CallType) /\ Len(t) = Len(r) + Len(cs)
      /\ \A i \in 1 .. Len(r) + Len(cs) :
             t[i] = IF i <= Len(r) THEN r[i] ELSE cs[i - Len(r)]
  <2>1. /\ r \o cs \in Seq(CallType) /\ Len(r \o cs) = Len(r) + Len(cs)
        /\ \A i \in 1 .. Len(r) + Len(cs) :
               (r \o cs)[i] = IF i <= Len(r) THEN r[i] ELSE cs[i - Len(r)]
    BY <1>2, ConcatProperties
  <2>2. QED
    BY <2>1
<1> HIDE DEF t
<1>4. Len(cs) \in Nat
  BY LenProperties
<1>5. \A i \in 1 .. Len(cs) : t[Len(s) + i] = cs[i]
  <2>1. TAKE i \in 1 .. Len(cs)
  <2>2. Len(s) + i \in 1 .. Len(r) + Len(cs) /\ ~(Len(s) + i <= Len(r))
        /\ (Len(s) + i) - Len(r) = i
    BY <1>1, <1>2, <1>4
  <2>3. QED
    BY <1>3, <2>2
<1>6. t # << >>
  BY <1>1, <1>2, <1>3, <1>4, EmptySeq
<1>7. /\ t \in Seq(CallType) /\ t # << >> /\ Len(t) = Len(s) + Len(cs)
      /\ \A i \in 1 .. Len(s) - 1 : t[i] = s[i]
      /\ t[Len(s)] = f
      /\ \A i \in 1 .. Len(cs) : t[Len(s) + i] = cs[i]
  BY <1>1, <1>2, <1>3, <1>4, <1>5, <1>6
<1>8. QED
  BY <1>7 DEF t, r

\* A call that a container makes has not begun its own loop.
LEMMA CallIsNew ==
    ASSUME NEW m \in Methods, NEW w \in Widgets
    PROVE  /\ Call(m, w) \in CallType /\ IsCall(Call(m, w))
           /\ Method(Call(m, w)) = m
           /\ Call(m, w).of = w /\ ~Loops(Call(m, w))
<1>1. m # "user" /\ m \in {"onHoverChanged", "onMouseMove", "onMouseButton"}
  BY DEF Methods
<1>2. CASE w \in Containers
  <2>1. Call(m, w) = [proc |-> m, of |-> w, at |-> 0, pc |-> "enter"]
    BY <1>2 DEF Call
  <2> DEFINE g == [proc |-> m, of |-> w, at |-> 0, pc |-> "enter"]
  <2>2. g \in CallType
    BY DEF CallType, Methods
  <2>3. g.proc = m /\ g.of = w /\ g.pc = "enter"
    OBVIOUS
  <2> HIDE DEF g
  <2>4. IsCall(g) /\ Method(g) = m /\ ~Loops(g)
    BY <1>1, <1>2, <2>3 DEF IsCall, Method, Loops
  <2>5. QED
    BY <2>1, <2>2, <2>3, <2>4 DEF g
<1>3. CASE w \notin Containers
  <2>1. Call(m, w) = [proc |-> "user", of |-> w, at |-> 0, pc |-> m]
    BY <1>3 DEF Call
  <2> DEFINE g == [proc |-> "user", of |-> w, at |-> 0, pc |-> m]
  <2>2. g \in CallType
    BY <1>1 DEF CallType, Methods
  <2>3. g.proc = "user" /\ g.of = w /\ g.pc = m
    OBVIOUS
  <2> HIDE DEF g
  <2>4. IsCall(g) /\ Method(g) = m /\ ~Loops(g)
    BY <1>1, <1>3, <2>3 DEF IsCall, Method, Loops, Methods
  <2>5. QED
    BY <2>1, <2>2, <2>3, <2>4 DEF g
<1>4. QED
  BY <1>2, <1>3

\* The calls that f makes where it is: of a widget below, or none.
MakesCall(c, m, cs) == cs = << >> \/ \E w \in Below(c) : cs = << Call(m, w) >>
Makes(f, cs) == MakesCall(f.of, Calls(f), cs)

\* The innermost call goes on as f, and may call a method of a widget below.
LEMMA StackGoesOn ==
    ASSUME NEW s \in Seq(CallType), s # << >>, StackOK(s),
           NEW f \in CallType, f.proc = Last(s).proc, f.of = Last(s).of,
           f.proc # "user", f.pc # "enter", IsCall(f),
           NEW cs, Makes(f, cs)
    PROVE  LET t == Append(Front(s), f) \o cs
           IN /\ t \in Seq(CallType) /\ t # << >> /\ StackOK(t)
              /\ Len(s) \in Nat \ {0}
              /\ Len(t) = IF cs = << >> THEN Len(s) ELSE Len(s) + 1
              /\ \A i \in 1 .. Len(s) - 1 : t[i] = s[i]
              /\ t[Len(s)] = f
              /\ cs # << >> => t[Len(s) + 1] = cs[1] /\ ~Loops(cs[1])
<1> DEFINE n == Len(s)
           t == Append(Front(s), f) \o cs
<1>1. /\ n \in Nat \ {0}
      /\ Last(s) = s[n] /\ Last(s) \in CallType
  BY WithoutTop
<1>2. f.of \in Containers
  BY DEF IsCall
<1>3. /\ cs \in Seq(CallType)
      /\ Len(cs) = IF cs = << >> THEN 0 ELSE 1
      /\ cs # << >> => /\ IsCall(cs[1]) /\ ~Loops(cs[1])
                       /\ Method(cs[1]) = Calls(f) /\ cs[1].of \in Below(f.of)
  <2>1. CASE cs = << >>
    BY <2>1
  <2>2. CASE cs # << >>
    <3>1. PICK w \in Below(f.of) : cs = << Call(Calls(f), w) >>
      BY <2>2 DEF Makes, MakesCall
    <3> DEFINE g == Call(Calls(f), w)
    <3>2. w \in Widgets /\ Calls(f) \in Methods
      BY DEF Below, Calls, Methods
    <3>3. /\ g \in CallType /\ IsCall(g) /\ Method(g) = Calls(f) /\ g.of = w
          /\ ~Loops(g)
      BY <3>2, CallIsNew
    <3> HIDE DEF g
    <3>4. cs = << g >>
      BY <3>1 DEF g
    <3>5. QED
      BY <2>2, <3>3, <3>4
  <2>3. QED
    BY <2>1, <2>2
<1>4. /\ t \in Seq(CallType) /\ t # << >>
      /\ Len(t) = n + Len(cs)
      /\ \A i \in 1 .. n - 1 : t[i] = s[i]
      /\ t[n] = f
      /\ \A i \in 1 .. Len(cs) : t[n + i] = cs[i]
  <2> HIDE DEF n
  <2>1. LET u == Append(Front(s), f) \o cs
        IN /\ u \in Seq(CallType) /\ u # << >> /\ Len(u) = Len(s) + Len(cs)
           /\ \A i \in 1 .. Len(s) - 1 : u[i] = s[i]
           /\ u[Len(s)] = f
           /\ \A i \in 1 .. Len(cs) : u[Len(s) + i] = cs[i]
    BY <1>3, NewTop
  <2>2. QED
    BY <2>1 DEF n
<1>5. cs # << >> => t[n + 1] = cs[1]
  <2>1. cs # << >> => 1 \in 1 .. Len(cs)
    BY <1>3
  <2>2. QED
    BY <1>4, <2>1
<1>6. Len(t) = IF cs = << >> THEN n ELSE n + 1
  BY <1>1, <1>3, <1>4
<1>7. /\ \A i \in 1 .. n : IsCall(s[i])
      /\ \A i, j \in 1 .. n :
             i < j /\ s[i].pc # "enter" => s[j].of \in Below(s[i].of)
      /\ \A i \in 1 .. n : i < n => CalledBy(s[i + 1], s[i], i)
      /\ s[1].of = Root
  BY DEF StackOK
<1> HIDE DEF n, t
<1>8. ASSUME NEW i \in 1 .. Len(t)
      PROVE  IsCall(t[i])
  <2>1. CASE i < n
    BY <1>1, <1>4, <1>7, <2>1
  <2>2. CASE i = n
    BY <1>4, <2>2
  <2>3. CASE i > n
    <3>1. cs # << >> /\ i = n + 1
      BY <1>1, <1>6, <2>3
    <3>2. QED
      BY <1>3, <1>5, <3>1
  <2>4. QED
    BY <1>1, <1>6, <2>1, <2>2, <2>3
<1>9. ASSUME NEW i \in 1 .. Len(t), NEW j \in 1 .. Len(t), i < j, t[i].pc # "enter"
      PROVE  t[j].of \in Below(t[i].of)
  <2>1. i < n => i \in 1 .. n - 1 /\ i \in 1 .. n /\ t[i] = s[i]
    BY <1>1, <1>4
  <2>2. CASE j < n
    <3>1. j \in 1 .. n /\ t[j] = s[j] /\ i < n
      BY <1>1, <1>4, <1>9, <2>2
    <3>2. QED
      BY <1>7, <1>9, <2>1, <3>1
  <2>3. CASE j = n
    <3>1. i < n /\ n \in 1 .. n
      BY <1>1, <1>9, <2>3
    <3>2. s[n].of \in Below(s[i].of)
      BY <1>7, <1>9, <2>1, <2>3, <3>1
    <3>3. QED
      BY <1>1, <1>4, <2>1, <2>3, <3>1, <3>2
  <2>4. CASE j > n
    <3>1. cs # << >> /\ j = n + 1
      BY <1>1, <1>6, <2>4
    <3>2. t[j].of \in Below(f.of)
      BY <1>3, <1>5, <3>1
    <3>3. CASE i = n
      BY <1>4, <3>2, <3>3
    <3>4. CASE i < n
      <4>1. s[n].of \in Below(s[i].of)
        <5>1. n \in 1 .. n /\ i \in 1 .. n /\ s[i].pc # "enter"
          BY <1>1, <1>9, <2>1, <3>4
        <5>2. QED
          BY <1>7, <3>4, <5>1
      <4>2. f.of \in Below(t[i].of)
        BY <1>1, <2>1, <3>4, <4>1
      <4>3. t[i].of = Root
        BY <1>2, <4>2 DEF Below
      <4>4. QED
        BY <3>2, <4>3 DEF Below
    <3>5. QED
      BY <1>1, <1>9, <3>1, <3>3, <3>4
  <2>5. QED
    BY <1>1, <1>6, <2>2, <2>3, <2>4
<1>10. ASSUME NEW i \in 1 .. Len(t), i < Len(t)
       PROVE  CalledBy(t[i + 1], t[i], i)
  <2>1. CASE i < n - 1
    <3>1. i \in 1 .. n - 1 /\ i + 1 \in 1 .. n - 1 /\ i \in 1 .. n /\ i < n
      BY <1>1, <2>1
    <3>2. t[i] = s[i] /\ t[i + 1] = s[i + 1]
      BY <1>4, <3>1
    <3>3. QED
      BY <1>7, <3>1, <3>2
  <2>2. CASE i = n - 1
    <3>1. i \in 1 .. n - 1 /\ i \in 1 .. n /\ i < n /\ i + 1 = n
      BY <1>1, <2>2
    <3>2. t[i] = s[i] /\ t[i + 1] = f /\ CalledBy(Last(s), s[i], i)
      BY <1>1, <1>4, <1>7, <3>1
    <3>3. CASE f.pc = Last(s).pc \/ Last(s).proc # "user"
      <4>1. Method(f) = Method(Last(s))
        BY DEF Method
      <4>2. QED
        BY <3>2, <4>1 DEF CalledBy
    <3>4. QED
      BY <3>3
  <2>3. CASE i = n
    <3>1. cs # << >>
      BY <1>6, <1>10, <2>3
    <3>2. QED
      BY <1>3, <1>4, <1>5, <2>3, <3>1 DEF CalledBy
  <2>4. QED
    BY <1>1, <1>6, <1>10, <2>1, <2>2, <2>3
<1>11. t[1].of = Root
  <2>1. CASE n = 1
    BY <1>1, <1>4, <1>7, <2>1
  <2>2. CASE n # 1
    BY <1>1, <1>4, <1>7, <2>2
  <2>3. QED
    BY <2>1, <2>2
<1>12. StackOK(t)
  BY <1>8, <1>9, <1>10, <1>11 DEF StackOK
<1>13. /\ t \in Seq(CallType) /\ t # << >> /\ StackOK(t)
       /\ n \in Nat \ {0}
       /\ Len(t) = IF cs = << >> THEN n ELSE n + 1
       /\ \A i \in 1 .. n - 1 : t[i] = s[i]
       /\ t[n] = f
       /\ cs # << >> => t[n + 1] = cs[1] /\ ~Loops(cs[1])
  BY <1>1, <1>3, <1>4, <1>5, <1>6, <1>12
<1>14. QED
  BY <1>13 DEF n, t

\* The innermost call returns.
LEMMA StackReturns ==
    ASSUME NEW s \in Seq(CallType), s # << >>, StackOK(s)
    PROVE  /\ Front(s) \in Seq(CallType) /\ StackOK(Front(s))
           /\ Len(Front(s)) = Len(s) - 1 /\ Len(s) \in Nat \ {0}
           /\ \A i \in 1 .. Len(s) - 1 : Front(s)[i] = s[i]
<1> DEFINE t == Front(s)
<1>1. /\ Len(s) \in Nat \ {0} /\ t \in Seq(CallType) /\ Len(t) = Len(s) - 1
      /\ \A i \in 1 .. Len(s) - 1 : t[i] = s[i]
  BY WithoutTop
<1> HIDE DEF t
<1>2. \A i \in 1 .. Len(t) : i \in 1 .. Len(s) /\ i < Len(s) /\ t[i] = s[i]
  BY <1>1
<1>3. \A i \in 1 .. Len(t) : i < Len(t) => t[i + 1] = s[i + 1]
  BY <1>1
<1>4. t # << >> => t[1] = s[1]
  BY <1>1, EmptySeq
<1>5. StackOK(t)
  BY <1>2, <1>3, <1>4 DEF StackOK
<1>6. QED
  BY <1>1, <1>5 DEF t

-----------------------------------------------------------------------------
(* Lists of children *)

LEMMA PartTyped ==
    ASSUME NEW S, NEW s \in Seq(S), NEW a \in Nat \ {0}, NEW b \in Nat, b <= Len(s)
    PROVE  SubSeq(s, a, b) \in Seq(S)
<1>1. Len(s) \in Nat
  BY LenProperties
<1>2. \A i \in a .. b : i \in 1 .. Len(s)
  BY <1>1
<1>3. a \in Int /\ b \in Int /\ \A i \in a .. b : s[i] \in S
  BY <1>2, ElementOfSeq
<1>4. QED
  BY <1>3, SubSeqProperties

LEMMA InsertTyped ==
    ASSUME NEW S, NEW s \in Seq(S), NEW i \in 1 .. Len(s) + 1, NEW e \in S
    PROVE  InsertAt(s, i, e) \in Seq(S)
<1> DEFINE front == SubSeq(s, 1, i - 1)
           rest  == SubSeq(s, i, Len(s))
<1>1. /\ Len(s) \in Nat /\ 1 \in Nat \ {0} /\ i \in Nat \ {0}
      /\ i - 1 \in Nat /\ i - 1 <= Len(s)
  BY LenProperties
<1>2. front \in Seq(S) /\ rest \in Seq(S)
  BY <1>1, PartTyped
<1> HIDE DEF front, rest
<1>3. front \o <<e>> \in Seq(S)
  BY <1>2, ConcatProperties
<1> DEFINE begin == front \o <<e>>
<1> HIDE DEF begin
<1>4. begin \o rest \in Seq(S)
  BY <1>2, <1>3, ConcatProperties DEF begin
<1>5. QED
  BY <1>4 DEF InsertAt, begin, front, rest

LEMMA RemoveTyped ==
    ASSUME NEW S, NEW s \in Seq(S), NEW e
    PROVE  RemoveFirst(s, e) \in Seq(S)
<1>1. CASE \E i \in 1 .. Len(s) : s[i] = e
  <2> DEFINE I == {i \in 1 .. Len(s) : s[i] = e}
             m == Min(I)
  <2>1. I \in SUBSET Nat /\ I # {} /\ I \subseteq 1 .. Len(s)
    BY <1>1, LenProperties
  <2>2. SelectInSeq(s, LAMBDA v : v = e) = m
    BY <1>1 DEF SelectInSeq
  <2> HIDE DEF I
  <2>3. PICK x \in I : \A y \in I : ~(<<y, x>> \in OpToRel(<, Nat))
    BY <2>1, WFMin, NatLessThanWellFounded
  <2>4. \A y \in I : ~(y < x)
    BY <2>1, <2>3, Zenon DEF OpToRel
  <2>5. \A y \in I : x <= y
    BY <2>1, <2>4
  <2>6. m \in I
    BY <2>5 DEF Min
  <2> HIDE DEF m
  <2>7. /\ Len(s) \in Nat /\ 1 \in Nat \ {0} /\ m - 1 \in Nat /\ m - 1 <= Len(s)
        /\ m + 1 \in Nat \ {0}
    BY <2>1, <2>6, LenProperties
  <2>8. SubSeq(s, 1, m - 1) \in Seq(S) /\ SubSeq(s, m + 1, Len(s)) \in Seq(S)
    BY <2>7, PartTyped
  <2>9. RemoveFirst(s, e) = SubSeq(s, 1, m - 1) \o SubSeq(s, m + 1, Len(s))
    BY <1>1, <2>2 DEF RemoveFirst, RemoveAt
  <2>10. QED
    BY <2>8, <2>9, ConcatProperties
<1>2. CASE ~ \E i \in 1 .. Len(s) : s[i] = e
  BY <1>2 DEF RemoveFirst
<1>3. QED
  BY <1>1, <1>2

-----------------------------------------------------------------------------
(* The stack invariant, action by action *)

LEMMA ChildTyped ==
    ASSUME TreeTyped, NEW c \in Containers
    PROVE  /\ children[c] \in Seq(Below(c)) /\ Len(children[c]) \in Nat
           /\ \A i \in 1 .. Len(children[c]) : children[c][i] \in Below(c)
BY LenProperties, ElementOfSeq DEF TreeTyped

LEMMA TopTyped ==
    ASSUME Stacked, stack # << >>
    PROVE  /\ Len(stack) \in Nat \ {0} /\ Top = stack[Len(stack)]
           /\ Top \in CallType /\ IsCall(Top)
           /\ Top.proc # "user" <=> Top.of \in Containers
           /\ Loops(Top) => Within(Top, children[Top.of])
<1>1. stack \in Seq(CallType) /\ StackOK(stack) /\ LoopsOK(stack, children, isBlocked)
  BY DEF Stacked
<1>2. Len(stack) \in Nat \ {0} /\ Top = stack[Len(stack)] /\ Top \in CallType
  BY <1>1, WithoutTop DEF Top
<1>3. Len(stack) \in 1 .. Len(stack)
  BY <1>2
<1>4. IsCall(Top) /\ (Loops(Top) => Within(Top, children[Top.of]))
  BY <1>1, <1>2, <1>3 DEF StackOK, LoopsOK
<1>5. QED
  BY <1>2, <1>4 DEF IsCall

\* The calls below the innermost one are of containers above it, unless they
\* have not begun.
LEMMA OthersAbove ==
    ASSUME Stacked, stack # << >>, NEW i \in 1 .. Len(stack), i < Len(stack),
           stack[i].pc # "enter"
    PROVE  /\ Loops(stack[i]) /\ stack[i].of \in Containers
           /\ Top.of \in Below(stack[i].of) /\ Top.of # stack[i].of
<1>1. StackOK(stack) /\ Len(stack) \in Nat \ {0} /\ Top = stack[Len(stack)]
  BY TopTyped DEF Stacked
<1>2. i < Len(stack) /\ Len(stack) \in 1 .. Len(stack)
  BY <1>1
<1>3. Top.of \in Below(stack[i].of) /\ CalledBy(stack[i + 1], stack[i], i) /\ IsCall(stack[i])
  BY <1>1, <1>2 DEF StackOK
<1>4. stack[i].proc # "user" /\ stack[i].of \in Containers
  BY <1>3 DEF CalledBy, IsCall
<1>5. stack[i].of \notin Below(stack[i].of)
  BY <1>4 DEF Below
<1>6. QED
  BY <1>3, <1>4, <1>5 DEF Loops

\* What the calls below the innermost one rely on: no list of theirs changes,
\* no entry of theirs, and nothing they wait for.
LEMMA OthersKept ==
    ASSUME Stacked, stack # << >>,
           NEW i \in 1 .. Len(stack), i < Len(stack),
           isBlocked \in [Containers -> BOOLEAN],
           UNCHANGED <<program, children, event, alive>>,
           \A c \in Containers \ {Top.of} :
               /\ isBlocked'[c] = isBlocked[c]
               /\ mouseCaptureMap'[c] = mouseCaptureMap[c],
           NEW ws, ws \subseteq Awaited(stack, i)
    PROVE  /\ Loops(stack[i]) =>
                  /\ Within(stack[i], children[stack[i].of])
                  /\ \/ isBlocked'[stack[i].of]
                     \/ \E c \in Containers : <<"layOut", c>> \in program.calls
           /\ stack[i].proc = "onMouseButton" =>
                  Passes(stack[i], mouseCaptureMap'[stack[i].of][pointer], ws,
                         alive, children[stack[i].of])
<1>1. LoopsOK(stack, children, isBlocked) /\ PassingOK(stack)
  BY DEF Stacked
<1>2. ASSUME Loops(stack[i])
      PROVE  /\ Within(stack[i], children[stack[i].of])
             /\ \/ isBlocked'[stack[i].of]
                \/ \E c \in Containers : <<"layOut", c>> \in program.calls
  <2>1. stack[i].of \in Containers \ {Top.of}
    BY <1>2, OthersAbove DEF Loops
  <2>2. QED
    BY <1>1, <1>2, <2>1 DEF LoopsOK
<1>3. ASSUME stack[i].proc = "onMouseButton"
      PROVE  /\ stack[i].pc # "enter" =>
                    mouseCaptureMap'[stack[i].of] = mouseCaptureMap[stack[i].of]
             /\ Passes(stack[i], mouseCaptureMap[stack[i].of][pointer],
                       Awaited(stack, i), alive, children[stack[i].of])
  BY <1>1, <1>3, OthersAbove DEF PassingOK
<1>4. ASSUME stack[i].proc = "onMouseButton"
      PROVE  Passes(stack[i], mouseCaptureMap'[stack[i].of][pointer], ws,
                    alive, children[stack[i].of])
  BY <1>3, <1>4 DEF Passes
<1>5. QED
  BY <1>2, <1>4

\* The innermost call goes on at m in its list and calls a child, or does not.
LEMMA GoesOn ==
    ASSUME Stacked, stack # << >>, Top.proc # "user",
           NEW m, NEW k \in Nat, NEW cs, Continue(m, k, cs),
           NEW f, f = At(Top, m, k),
           f \in CallType, IsCall(f), m # "enter", Within(f, children[Top.of]),
           Makes(f, cs),
           UNCHANGED <<program, children, event, alive>>,
           isBlocked \in [Containers -> BOOLEAN],
           \/ isBlocked' = isBlocked /\ Top.pc # "enter"
           \/ isBlocked' = [isBlocked EXCEPT ![Top.of] = TRUE],
           \A c \in Containers \ {Top.of} : mouseCaptureMap'[c] = mouseCaptureMap[c],
           f.proc = "onMouseButton" =>
               Passes(f, mouseCaptureMap'[Top.of][pointer],
                      IF cs = << >> THEN {} ELSE {cs[1].of}, alive,
                      children[Top.of])
    PROVE  Stacked'
<1> DEFINE n == Len(stack)
<1>1. /\ n \in Nat \ {0} /\ Top = stack[n] /\ Top \in CallType /\ IsCall(Top)
      /\ Top.of \in Containers
  BY TopTyped
<1>2. f.proc = Top.proc /\ f.of = Top.of /\ f.pc = m
  BY <1>1 DEF CallType, At
<1>3. stack' = Append(Front(stack), f) \o cs
  BY DEF Continue, At
<1>4. /\ stack' \in Seq(CallType) /\ stack' # << >> /\ StackOK(stack')
      /\ Len(stack') = IF cs = << >> THEN n ELSE n + 1
      /\ \A i \in 1 .. n - 1 : stack'[i] = stack[i]
      /\ stack'[n] = f
      /\ cs # << >> => stack'[n + 1] = cs[1] /\ ~Loops(cs[1])
  <2>1. stack \in Seq(CallType) /\ StackOK(stack)
    BY DEF Stacked
  <2>2. /\ f.proc = Last(stack).proc /\ f.of = Last(stack).of /\ f.proc # "user"
        /\ f.pc # "enter"
    BY <1>2 DEF Top
  <2>3. LET t == Append(Front(stack), f) \o cs
        IN /\ t \in Seq(CallType) /\ t # << >> /\ StackOK(t)
           /\ Len(stack) \in Nat \ {0}
           /\ Len(t) = IF cs = << >> THEN Len(stack) ELSE Len(stack) + 1
           /\ \A i \in 1 .. Len(stack) - 1 : t[i] = stack[i]
           /\ t[Len(stack)] = f
           /\ cs # << >> => t[Len(stack) + 1] = cs[1] /\ ~Loops(cs[1])
    BY ONLY <2>1, <2>2, StackGoesOn, stack # << >>, f \in CallType, IsCall(f),
      Makes(f, cs), Zenon
  <2>4. QED
    BY <1>3, <2>3
<1>5. \A c \in Containers \ {Top.of} : isBlocked'[c] = isBlocked[c]
  BY <1>1
<1>6. \/ isBlocked'[Top.of]
      \/ \E c \in Containers : <<"layOut", c>> \in program.calls
  <2>1. CASE isBlocked' = isBlocked /\ Top.pc # "enter"
    <3>1. Loops(stack[n]) /\ n \in 1 .. n
      BY <1>1, <2>1 DEF Loops
    <3>2. LoopsOK(stack, children, isBlocked)
      BY DEF Stacked
    <3>3. \/ isBlocked[stack[n].of]
          \/ \E c \in Containers : <<"layOut", c>> \in program.calls
      BY <3>1, <3>2 DEF LoopsOK
    <3>4. QED
      BY <1>1, <2>1, <3>3
  <2>2. CASE isBlocked' = [isBlocked EXCEPT ![Top.of] = TRUE]
    BY <1>1, <2>2
  <2>3. QED
    BY <2>1, <2>2
<1>7. Awaited(stack', n) = IF cs = << >> THEN {} ELSE {cs[1].of}
  <2>1. CASE cs = << >>
    BY <1>1, <1>4, <2>1 DEF Awaited
  <2>2. CASE cs # << >>
    <3>1. n < Len(stack') /\ stack'[n + 1].of = cs[1].of
      BY <1>1, <1>4, <2>2
    <3>2. QED
      BY <2>2, <3>1 DEF Awaited
  <2>3. QED
    BY <2>1, <2>2
<1>8. \A i \in 1 .. n - 1 : /\ Awaited(stack', i) = Awaited(stack, i)
                           /\ i \in 1 .. n /\ i < n
  <2>1. TAKE i \in 1 .. n - 1
  <2>2. i < Len(stack') /\ i < Len(stack) /\ i \in 1 .. n
    BY <1>1, <1>4
  <2>3. CASE i = n - 1
    <3>1. i + 1 = n
      BY <1>1, <2>3
    <3>2. stack'[i + 1].of = stack[i + 1].of
      BY <1>1, <1>2, <1>4, <3>1
    <3>3. QED
      BY <2>2, <3>2 DEF Awaited
  <2>4. CASE i # n - 1
    <3>1. i + 1 \in 1 .. n - 1
      BY <1>1, <2>4
    <3>2. stack'[i + 1] = stack[i + 1]
      BY <1>4, <3>1
    <3>3. QED
      BY <2>2, <3>2 DEF Awaited
  <2>5. QED
    BY <2>3, <2>4
<1> HIDE DEF n
<1>9. ASSUME NEW i \in 1 .. Len(stack')
      PROVE  /\ Loops(stack'[i]) =>
                    /\ Within(stack'[i], children[stack'[i].of])
                    /\ \/ isBlocked'[stack'[i].of]
                       \/ \E c \in Containers : <<"layOut", c>> \in program.calls
             /\ stack'[i].proc = "onMouseButton" =>
                    Passes(stack'[i], mouseCaptureMap'[stack'[i].of][pointer],
                           Awaited(stack', i), alive, children[stack'[i].of])
  <2>1. CASE i < n
    <3>1. i \in 1 .. n - 1 /\ stack'[i] = stack[i]
      BY <1>1, <1>4, <2>1
    <3>2. /\ i \in 1 .. Len(stack) /\ i < Len(stack)
          /\ Awaited(stack', i) \subseteq Awaited(stack, i)
      BY <1>8, <3>1 DEF n
    <3>3. /\ Loops(stack[i]) =>
                 /\ Within(stack[i], children[stack[i].of])
                 /\ \/ isBlocked'[stack[i].of]
                    \/ \E c \in Containers : <<"layOut", c>> \in program.calls
          /\ stack[i].proc = "onMouseButton" =>
                 Passes(stack[i], mouseCaptureMap'[stack[i].of][pointer],
                        Awaited(stack', i), alive, children[stack[i].of])
      BY <1>5, <3>2, OthersKept
    <3>4. QED
      BY <3>1, <3>3
  <2>2. CASE i = n
    BY <1>2, <1>4, <1>6, <1>7, <2>2
  <2>3. CASE i > n
    <3>1. cs # << >> /\ i = n + 1
      BY <1>1, <1>4, <2>3
    <3>2. stack'[i] = cs[1] /\ ~Loops(cs[1]) /\ IsCall(stack'[i])
      BY <1>4, <3>1 DEF StackOK
    <3>3. stack'[i].proc = "onMouseButton" => stack'[i].pc = "enter"
      BY <3>2 DEF Loops
    <3>4. QED
      BY <3>2, <3>3 DEF Passes
  <2>4. n \in Nat /\ Len(stack') \in Nat /\ i \in 1 .. Len(stack')
    BY <1>1, <1>4
  <2>5. i < n \/ i = n \/ i > n
    BY <2>4
  <2>6. QED
    BY <2>1, <2>2, <2>3, <2>5
<1>10. LoopsOK(stack, children, isBlocked)' /\ PassingOK(stack)'
  BY <1>9 DEF LoopsOK, PassingOK, pointer
<1>11. stack' \in Seq(CallType) /\ StackOK(stack)'
  BY <1>4 DEF StackOK
<1>12. (event = NoEvent => stack = << >>)'
  <2>1. event # NoEvent /\ event' = event
    BY DEF Stacked
  <2>2. QED
    BY <2>1 DEF NoEvent
<1>13. QED
  BY <1>10, <1>11, <1>12 DEF Stacked

\* The innermost call returns; a container's does not block it any more.
LEMMA Returns ==
    ASSUME Stacked, stack # << >>, stack' = Front(stack),
           UNCHANGED <<program, children, event, alive>>,
           isBlocked \in [Containers -> BOOLEAN],
           \A c \in Containers \ {Top.of} :
               /\ isBlocked'[c] = isBlocked[c]
               /\ mouseCaptureMap'[c] = mouseCaptureMap[c]
    PROVE  /\ Stacked'
           /\ Len(stack) \in Nat \ {0} /\ Len(stack') = Len(stack) - 1
           /\ \A i \in 1 .. Len(stack) - 1 : stack'[i] = stack[i]
<1> DEFINE n == Len(stack)
<1>1. stack \in Seq(CallType) /\ StackOK(stack)
  BY DEF Stacked
<1>2. /\ n \in Nat \ {0} /\ stack' \in Seq(CallType) /\ StackOK(stack')
      /\ Len(stack') = n - 1
      /\ \A i \in 1 .. n - 1 : stack'[i] = stack[i]
  BY <1>1, StackReturns
<1>3. ASSUME NEW i \in 1 .. Len(stack')
      PROVE  /\ Loops(stack'[i]) =>
                    /\ Within(stack'[i], children[stack'[i].of])
                    /\ \/ isBlocked'[stack'[i].of]
                       \/ \E c \in Containers : <<"layOut", c>> \in program.calls
             /\ stack'[i].proc = "onMouseButton" =>
                    Passes(stack'[i], mouseCaptureMap'[stack'[i].of][pointer],
                           Awaited(stack', i), alive, children[stack'[i].of])
  <2>1. i \in 1 .. n - 1 /\ i \in 1 .. Len(stack) /\ i < Len(stack)
        /\ stack'[i] = stack[i]
    BY <1>2
  <2>2. Awaited(stack', i) \subseteq Awaited(stack, i)
    <3>1. CASE i < Len(stack')
      <4>1. i + 1 \in 1 .. n - 1
        BY <1>2, <2>1, <3>1
      <4>2. stack'[i + 1] = stack[i + 1]
        BY <1>2, <4>1
      <4>3. QED
        BY <2>1, <3>1, <4>2 DEF Awaited
    <3>2. CASE ~(i < Len(stack'))
      BY <3>2 DEF Awaited
    <3>3. QED
      BY <3>1, <3>2
  <2>3. /\ Loops(stack[i]) =>
               /\ Within(stack[i], children[stack[i].of])
               /\ \/ isBlocked'[stack[i].of]
                  \/ \E c \in Containers : <<"layOut", c>> \in program.calls
        /\ stack[i].proc = "onMouseButton" =>
               Passes(stack[i], mouseCaptureMap'[stack[i].of][pointer],
                      Awaited(stack', i), alive, children[stack[i].of])
    BY <2>1, <2>2, OthersKept
  <2>4. QED
    BY <2>1, <2>3
<1>4. LoopsOK(stack, children, isBlocked)' /\ PassingOK(stack)'
  BY <1>3 DEF LoopsOK, PassingOK, pointer
<1>5. (event = NoEvent => stack = << >>)'
  <2>1. event # NoEvent /\ event' = event
    BY DEF Stacked
  <2>2. QED
    BY <2>1 DEF NoEvent
<1>6. stack' \in Seq(CallType) /\ StackOK(stack)'
  BY <1>2 DEF StackOK
<1>7. QED
  BY <1>2, <1>4, <1>5, <1>6 DEF Stacked

LEMMA HoverTyped ==
    ASSUME TreeTyped, EventTyped, NEW w \in Widgets, NEW is
    PROVE  HoverSet(w, is) \in [Widgets -> SUBSET Pointers]
BY DEF TreeTyped, EventTyped, HoverSet, pointer

LEMMA HoverCalled ==
    ASSUME NEW c, NEW w \in Below(c), NEW is
    PROVE  /\ MakesCall(c, "onHoverChanged", HoverCall(w, is))
           /\ HoverCall(w, is) # << >> => HoverCall(w, is)[1].of = w
<1>1. w \in Widgets /\ Call("onHoverChanged", w).of = w
  BY DEF Below, Call
<1>2. CASE HoverCall(w, is) = << >>
  BY <1>2 DEF MakesCall
<1>3. CASE HoverCall(w, is) = << Call("onHoverChanged", w) >>
  BY <1>1, <1>3 DEF MakesCall
<1>4. QED
  BY <1>2, <1>3 DEF HoverCall

\* The event, the tree and the rest stay as they are typed.
LEMMA OthersTyped ==
    ASSUME StackInv, UNCHANGED <<program, treeVars, under, inputVars, owed>>,
           isBlocked' \in [Containers -> BOOLEAN],
           hovered' \in [Widgets -> SUBSET Pointers],
           consumed' \in BOOLEAN,
           UNCHANGED mouseCaptureMap \/ CaptureTyped',
           Stacked'
    PROVE  StackInv'
<1>1. TreeTyped'
  BY DEF StackInv, TreeTyped, treeVars
<1>2. EventTyped'
  BY DEF StackInv, EventTyped, inputVars, pointer
<1>3. CaptureTyped'
  BY DEF StackInv, CaptureTyped
<1>4. QED
  BY <1>1, <1>2, <1>3 DEF StackInv

LEMMA BlockedTyped ==
    ASSUME TreeTyped, NEW c \in Containers, NEW b \in BOOLEAN
    PROVE  [isBlocked EXCEPT ![c] = b] \in [Containers -> BOOLEAN]
BY DEF TreeTyped

\* The innermost call in method m at pc: what is known of it.
LEMMA InCallTyped ==
    ASSUME StackInv, NEW m \in Methods, NEW pc, InCall(m, pc)
    PROVE  /\ stack # << >> /\ Top.proc = m /\ Top.pc = pc /\ Top.proc # "user"
           /\ Len(stack) \in Nat \ {0} /\ Top = stack[Len(stack)]
           /\ Top \in CallType /\ IsCall(Top) /\ Top.of \in Containers
           /\ Len(Iterated) \in Nat
           /\ \A i \in 1 .. Len(Iterated) : Iterated[i] \in Below(Top.of)
           /\ pc # "enter" => Within(Top, Iterated)
           /\ TreeTyped /\ EventTyped /\ CaptureTyped /\ Stacked
           /\ isBlocked \in [Containers -> BOOLEAN]
           /\ pointer \in Pointers
<1>1. /\ stack # << >> /\ Top.proc = m /\ Top.pc = pc /\ Top.proc # "user"
      /\ TreeTyped /\ EventTyped /\ CaptureTyped /\ Stacked
  BY DEF InCall, StackInv, Methods
<1>2. /\ Len(stack) \in Nat \ {0} /\ Top = stack[Len(stack)]
      /\ Top \in CallType /\ IsCall(Top) /\ Top.of \in Containers
      /\ Loops(Top) => Within(Top, children[Top.of])
  BY <1>1, TopTyped
<1>3. Len(Iterated) \in Nat /\ \A i \in 1 .. Len(Iterated) : Iterated[i] \in Below(Top.of)
  BY <1>1, <1>2, ChildTyped DEF Iterated
<1>4. isBlocked \in [Containers -> BOOLEAN] /\ pointer \in Pointers
  BY <1>1 DEF TreeTyped, EventTyped, pointer
<1>5. QED
  BY <1>1, <1>2, <1>3, <1>4 DEF Loops, Iterated

\* A call that goes on in onHoverChanged() or onMouseMove().
LEMMA GoesOnHovering ==
    ASSUME StackInv, NEW pc0, NEW p \in {"onHoverChanged", "onMouseMove"},
           InCall(p, pc0),
           NEW m, NEW k \in Nat, NEW cs, Continue(m, k, cs),
           m # "enter",
           NEW f, f = At(Top, m, k),
           f \in CallType, IsCall(f), Within(f, Iterated), Makes(f, cs),
           UNCHANGED <<program, treeVars, mouseCaptureMap, under, inputVars, owed>>,
           \/ isBlocked' = isBlocked /\ pc0 # "enter"
           \/ isBlocked' = [isBlocked EXCEPT ![Top.of] = TRUE],
           hovered' \in [Widgets -> SUBSET Pointers],
           consumed' \in BOOLEAN
    PROVE  StackInv'
<1>1. p \in Methods
  BY DEF Methods
<1>2. /\ stack # << >> /\ Top.proc = p /\ Top.pc = pc0 /\ Top.proc # "user"
      /\ Top \in CallType /\ IsCall(Top) /\ Top.of \in Containers
      /\ TreeTyped /\ EventTyped /\ CaptureTyped /\ Stacked
      /\ isBlocked \in [Containers -> BOOLEAN]
  BY <1>1, InCallTyped
<1>3. f.proc = p /\ f.of = Top.of /\ f.pc = m
  BY <1>2 DEF CallType, At
<1>4. f.proc # "onMouseButton"
  BY <1>3
<1>5. isBlocked' \in [Containers -> BOOLEAN]
  BY <1>2, BlockedTyped
<1>6. UNCHANGED <<program, children, event, alive>>
  BY DEF treeVars, inputVars
<1>7. Stacked'
  BY <1>2, <1>3, <1>4, <1>6, GoesOn DEF Iterated
<1>8. QED
  BY <1>5, <1>7, OthersTyped

LEMMA LeavesLoop ==
    ASSUME StackInv, NEW pc0, NEW p \in Methods, InCall(p, pc0), LeaveLoop,
           UNCHANGED <<program, treeVars, under, inputVars, owed>>,
           \A c \in Containers \ {Top.of} : mouseCaptureMap'[c] = mouseCaptureMap[c],
           UNCHANGED mouseCaptureMap \/ CaptureTyped',
           hovered' \in [Widgets -> SUBSET Pointers],
           consumed' \in BOOLEAN
    PROVE  /\ StackInv'
           /\ Len(stack) \in Nat \ {0} /\ Len(stack') = Len(stack) - 1
           /\ \A i \in 1 .. Len(stack) - 1 : stack'[i] = stack[i]
<1>1. /\ stack # << >> /\ Top.of \in Containers
      /\ TreeTyped /\ Stacked /\ isBlocked \in [Containers -> BOOLEAN]
  BY InCallTyped
<1>2. /\ stack' = Front(stack) /\ isBlocked' \in [Containers -> BOOLEAN]
      /\ \A c \in Containers \ {Top.of} : isBlocked'[c] = isBlocked[c]
  BY <1>1 DEF LeaveLoop
<1>3. UNCHANGED <<program, children, event, alive>>
  BY DEF treeVars, inputVars
<1>4. /\ Stacked'
      /\ Len(stack) \in Nat \ {0} /\ Len(stack') = Len(stack) - 1
      /\ \A i \in 1 .. Len(stack) - 1 : stack'[i] = stack[i]
  BY <1>1, <1>2, <1>3, Returns
<1>5. StackInv'
  BY <1>2, <1>4, OthersTyped
<1>6. QED
  BY <1>4, <1>5

\* Where a container's method m goes on.
Places(m) ==
    IF m = "onHoverChanged" THEN {"loop"}
    ELSE IF m = "onMouseMove" THEN {"loop", "moved", "rest"}
    ELSE {"captured", "count", "loop", "hovered", "tried"}

\* The innermost call, of method m, when it goes on at pc and position k.
LEMMA WentOn ==
    ASSUME StackInv, NEW m \in Methods, NEW pc0, InCall(m, pc0),
           NEW pc \in Places(m), NEW k \in Nat,
           NEW f, f = At(Top, pc, k)
    PROVE  /\ f \in CallType /\ IsCall(f) /\ pc # "enter"
           /\ f.proc = m /\ f.of = Top.of /\ f.pc = pc /\ f.at = k
<1>1. Top \in CallType /\ Top.proc = m /\ Top.of \in Containers
  BY InCallTyped
<1>2. f.proc = m /\ f.of = Top.of /\ f.pc = pc /\ f.at = k
  BY <1>1 DEF CallType, At
<1>3. m \in {"onHoverChanged", "onMouseMove", "onMouseButton"} /\ pc \in Places(m)
  BY DEF Methods
<1>4. f \in CallType
  BY <1>1, <1>3 DEF CallType, Methods, Places, At
<1>5. IsCall(f) /\ pc # "enter"
  BY <1>1, <1>2, <1>3 DEF IsCall, Places
<1>6. QED
  BY <1>2, <1>4, <1>5

LEMMA HoverChangedKeeps ==
    ASSUME StackInv, UNCHANGED program, HoverChangedEnter \/ HoverChangedLoop
    PROVE  StackInv'
<1> DEFINE m == "onHoverChanged"
<1>1. m \in Methods
  BY DEF Methods
<1>2. hovered \in [Widgets -> SUBSET Pointers] /\ consumed \in BOOLEAN
  BY DEF StackInv, TreeTyped, EventTyped
<1>3. CASE HoverChangedEnter
  <2> DEFINE f == At(Top, "loop", 1)
  <2>1. /\ InCall(m, "enter") /\ Continue("loop", 1, << >>)
        /\ UNCHANGED <<treeVars, mouseCaptureMap, hovered, under, consumed, inputVars, owed>>
        /\ isBlocked' = [isBlocked EXCEPT ![Top.of] = TRUE]
    BY <1>3 DEF HoverChangedEnter
  <2>2. Len(Iterated) \in Nat
    BY <1>1, <2>1, InCallTyped
  <2>3. f = At(Top, "loop", 1)
    OBVIOUS
  <2> HIDE DEF f
  <2>4. /\ f \in CallType /\ IsCall(f)
        /\ f.at = 1 /\ f.pc = "loop" /\ f.proc = "onHoverChanged"
    <3>1. "loop" \in Places(m) /\ 1 \in Nat
      BY DEF Places
    <3>2. QED
      BY <1>1, <2>1, <2>3, <3>1, WentOn
  <2>5. Within(f, Iterated) /\ Makes(f, << >>)
    BY <2>2, <2>4 DEF Within, Makes, MakesCall
  <2>6. hovered' \in [Widgets -> SUBSET Pointers] /\ consumed' \in BOOLEAN
    BY <1>2, <2>1
  <2>7. m \in {"onHoverChanged", "onMouseMove"} /\ "loop" # "enter" /\ 1 \in Nat
    OBVIOUS
  <2>8. QED
    BY <2>1, <2>3, <2>4, <2>5, <2>6, <2>7, GoesOnHovering
<1>4. CASE HoverChangedLoop /\ Top.at <= Len(Iterated)
  <2> DEFINE f == At(Top, "loop", Top.at + 1)
             cs == HoverCall(Child, FALSE)
  <2>1. /\ InCall(m, "loop") /\ Continue("loop", Top.at + 1, cs)
        /\ UNCHANGED <<treeVars, mouseCaptureMap, under, consumed, inputVars, owed>>
        /\ isBlocked' = isBlocked
        /\ hovered' = HoverSet(Child, FALSE)
    BY <1>4 DEF HoverChangedLoop
  <2>2. /\ Top \in CallType /\ Top.proc = m /\ Len(Iterated) \in Nat
        /\ Within(Top, Iterated) /\ Top.pc = "loop"
        /\ \A i \in 1 .. Len(Iterated) : Iterated[i] \in Below(Top.of)
        /\ TreeTyped /\ EventTyped
    BY <1>1, <2>1, InCallTyped
  <2>3. Top.at \in 1 .. Len(Iterated) /\ Top.at + 1 \in Nat
    BY <1>4, <2>2 DEF Within, CallType
  <2>4. Child \in Below(Top.of) /\ Child \in Widgets
    BY <2>2, <2>3 DEF Child, Below
  <2>5. f = At(Top, "loop", Top.at + 1)
    OBVIOUS
  <2> HIDE DEF f
  <2>6. /\ f \in CallType /\ IsCall(f) /\ f.at = Top.at + 1 /\ f.pc = "loop"
        /\ f.proc = "onHoverChanged" /\ f.of = Top.of
    <3>1. "loop" \in Places(m)
      BY DEF Places
    <3>2. QED
      BY <1>1, <2>1, <2>3, <2>5, <3>1, WentOn
  <2>7. Within(f, Iterated)
    BY <2>2, <2>3, <2>6 DEF Within
  <2>8. Makes(f, cs)
    BY <2>4, <2>6, HoverCalled DEF Makes, Calls
  <2>9. hovered' \in [Widgets -> SUBSET Pointers]
    BY <2>1, <2>2, <2>4, HoverTyped
  <2> HIDE DEF cs
  <2>10. /\ consumed' \in BOOLEAN /\ m \in {"onHoverChanged", "onMouseMove"}
         /\ isBlocked' = isBlocked /\ "loop" # "enter"
    BY <1>2, <2>1
  <2>11. QED
    BY <2>1, <2>3, <2>5, <2>6, <2>7, <2>8, <2>9, <2>10, GoesOnHovering
<1>5. CASE HoverChangedLoop /\ ~(Top.at <= Len(Iterated))
  <2>1. /\ InCall(m, "loop") /\ LeaveLoop
        /\ UNCHANGED <<treeVars, mouseCaptureMap, hovered, under, consumed, inputVars, owed>>
    BY <1>5 DEF HoverChangedLoop
  <2>2. QED
    BY <1>1, <1>2, <2>1, LeavesLoop
<1>6. QED
  BY <1>3, <1>4, <1>5

\* The child at a position of the list is below the container, and calling
\* it, or hovering it, is what the call may do.
LEMMA ChildIsBelow ==
    ASSUME StackInv, NEW m \in Methods, NEW pc, InCall(m, pc),
           pc # "enter", Top.at >= 1, Top.at <= Len(Iterated)
    PROVE  /\ Top.at \in 1 .. Len(Iterated) /\ Top.at - 1 \in Nat
           /\ Child \in Below(Top.of) /\ Child \in Widgets
<1>1. /\ Top \in CallType /\ Len(Iterated) \in Nat
      /\ \A i \in 1 .. Len(Iterated) : Iterated[i] \in Below(Top.of)
  BY InCallTyped
<1>2. Top.at \in 1 .. Len(Iterated) /\ Top.at - 1 \in Nat
  BY <1>1 DEF CallType
<1>3. QED
  BY <1>1, <1>2 DEF Child, Below

\* A call that goes on in onMouseMove().
LEMMA GoesOnMoving ==
    ASSUME StackInv, NEW pc0, InCall("onMouseMove", pc0),
           NEW pc \in {"loop", "moved", "rest"},
           NEW k \in Nat, k <= Len(Iterated), pc = "moved" => k >= 1,
           NEW cs, Continue(pc, k, cs),
           MakesCall(Top.of, IF pc = "moved" THEN "onMouseMove"
                                            ELSE "onHoverChanged", cs),
           UNCHANGED <<program, treeVars, mouseCaptureMap, under, inputVars, owed>>,
           \/ isBlocked' = isBlocked /\ pc0 # "enter"
           \/ isBlocked' = [isBlocked EXCEPT ![Top.of] = TRUE],
           hovered' \in [Widgets -> SUBSET Pointers],
           consumed' \in BOOLEAN
    PROVE  StackInv'
<1> DEFINE f == At(Top, pc, k)
           m == "onMouseMove"
<1>1. m \in Methods /\ m \in {"onHoverChanged", "onMouseMove"}
  BY DEF Methods
<1>2. f = At(Top, pc, k)
  OBVIOUS
<1> HIDE DEF f
<1>3. /\ f \in CallType /\ IsCall(f) /\ pc # "enter"
      /\ f.proc = m /\ f.of = Top.of /\ f.pc = pc /\ f.at = k
  <2>1. pc \in Places(m)
    BY DEF Places
  <2>2. QED
    BY <1>1, <1>2, <2>1, WentOn
<1>4. Len(Iterated) \in Nat
  BY <1>1, InCallTyped
<1>5. Within(f, Iterated)
  BY <1>3, <1>4 DEF Within
<1>6. Calls(f) = IF pc = "moved" THEN "onMouseMove" ELSE "onHoverChanged"
  BY <1>3 DEF Calls
<1>7. Makes(f, cs)
  BY <1>3, <1>6 DEF Makes
<1>8. QED
  BY <1>1, <1>2, <1>3, <1>5, <1>7, GoesOnHovering

LEMMA MouseMoveKeeps ==
    ASSUME StackInv, UNCHANGED program, MoveEnter \/ MoveLoop \/ Moved \/ MoveRest
    PROVE  StackInv'
<1> DEFINE m == "onMouseMove"
<1>1. m \in Methods /\ m \in {"onHoverChanged", "onMouseMove"}
  BY DEF Methods
<1>2. hovered \in [Widgets -> SUBSET Pointers] /\ consumed \in BOOLEAN
      /\ TreeTyped /\ EventTyped
  BY DEF StackInv, TreeTyped, EventTyped
<1>3. MakesCall(Top.of, "onHoverChanged", << >>)
  BY DEF MakesCall
<1>4. CASE MoveEnter
  <2> DEFINE k == Len(Iterated)
  <2>1. /\ InCall(m, "enter") /\ Continue("loop", k, << >>)
        /\ UNCHANGED <<treeVars, mouseCaptureMap, hovered, under, consumed, inputVars, owed>>
        /\ isBlocked' = [isBlocked EXCEPT ![Top.of] = TRUE]
    BY <1>4 DEF MoveEnter
  <2>2. k \in Nat /\ k <= Len(Iterated)
    BY <1>1, <2>1, InCallTyped
  <2>3. hovered' \in [Widgets -> SUBSET Pointers] /\ consumed' \in BOOLEAN
    BY <1>2, <2>1
  <2> HIDE DEF k
  <2>4. QED
    BY <1>3, <2>1, <2>2, <2>3, GoesOnMoving
<1>5. CASE MoveLoop
  <2>1. /\ InCall(m, "loop")
        /\ UNCHANGED <<treeVars, mouseCaptureMap, hovered, under, inputVars, owed>>
    BY <1>5 DEF MoveLoop
  <2>2. hovered' \in [Widgets -> SUBSET Pointers]
    BY <1>2, <2>1
  <2>3. /\ Top \in CallType /\ Within(Top, Iterated) /\ Top.proc = m
        /\ Top.of \in Containers /\ Len(Iterated) \in Nat
    BY <1>1, <2>1, InCallTyped
  <2>4. Top.at \in Nat /\ Top.at <= Len(Iterated)
    BY <2>3 DEF Within, CallType
  <2>5. CASE Top.at = 0
    <3>1. LeaveLoop /\ consumed' \in BOOLEAN
      BY <1>5, <2>5 DEF MoveLoop
    <3>2. QED
      BY <1>1, <2>1, <2>2, <3>1, LeavesLoop
  <2>6. CASE Top.at # 0
    <3>1. /\ Top.at \in 1 .. Len(Iterated) /\ Top.at - 1 \in Nat
          /\ Child \in Below(Top.of) /\ Child \in Widgets
      BY <1>1, <2>1, <2>4, <2>6, ChildIsBelow
    <3>2. isBlocked' = isBlocked /\ consumed' \in BOOLEAN
      BY <1>2, <1>5, <2>6 DEF MoveLoop
    <3>3. CASE Interactive(Child)
      <4> DEFINE cs == << Call("onMouseMove", Child) >>
      <4>1. Continue("moved", Top.at, cs)
        BY <1>5, <2>6, <3>3 DEF MoveLoop
      <4>2. Top.at >= 1
        BY <3>1
      <4>3. MakesCall(Top.of, "onMouseMove", cs)
        BY <3>1 DEF MakesCall
      <4> HIDE DEF cs
      <4>4. QED
        BY <2>1, <2>2, <2>4, <3>2, <4>1, <4>2, <4>3, GoesOnMoving
    <3>4. CASE ~Interactive(Child)
      <4> DEFINE k == Top.at - 1
      <4>1. Continue("loop", k, << >>)
        BY <1>5, <2>6, <3>4 DEF MoveLoop
      <4>2. k \in Nat /\ k <= Len(Iterated)
        BY <2>3, <2>4, <3>1
      <4> HIDE DEF k
      <4>3. QED
        BY <1>3, <2>1, <2>2, <3>2, <4>1, <4>2, GoesOnMoving
    <3>5. QED
      BY <3>3, <3>4
  <2>7. QED
    BY <2>5, <2>6
<1>6. CASE Moved
  <2> DEFINE is == Child \in under
             pc == IF is /\ consumed THEN "rest" ELSE "loop"
             k == Top.at - 1
             cs == HoverCall(Child, is)
  <2>1. /\ InCall(m, "moved") /\ Continue(pc, k, cs)
        /\ UNCHANGED <<treeVars, mouseCaptureMap, under, inputVars, owed>>
        /\ isBlocked' = isBlocked /\ consumed' = consumed
        /\ hovered' = HoverSet(Child, is)
    BY <1>6 DEF Moved
  <2>2. Within(Top, Iterated) /\ Top.pc = "moved" /\ Top.proc = m /\ Len(Iterated) \in Nat
    BY <1>1, <2>1, InCallTyped
  <2>3. Top.at >= 1 /\ Top.at <= Len(Iterated)
    BY <2>2 DEF Within
  <2>4. /\ Top.at \in 1 .. Len(Iterated) /\ k \in Nat
        /\ Child \in Below(Top.of) /\ Child \in Widgets
    BY <1>1, <2>1, <2>3, ChildIsBelow
  <2>5. k <= Len(Iterated)
    BY <2>2, <2>4
  <2>6. pc \in {"loop", "moved", "rest"} /\ pc # "moved"
    OBVIOUS
  <2>7. hovered' \in [Widgets -> SUBSET Pointers] /\ consumed' \in BOOLEAN
    BY <1>2, <2>1, <2>4, HoverTyped
  <2>8. MakesCall(Top.of, "onHoverChanged", cs)
    BY <2>4, HoverCalled
  <2> HIDE DEF k, pc, is, cs
  <2>9. QED
    BY <2>1, <2>4, <2>5, <2>6, <2>7, <2>8, GoesOnMoving
<1>7. CASE MoveRest
  <2>1. /\ InCall(m, "rest")
        /\ UNCHANGED <<treeVars, mouseCaptureMap, under, inputVars, owed>>
    BY <1>7 DEF MoveRest
  <2>2. /\ Top \in CallType /\ Within(Top, Iterated) /\ Top.proc = m
        /\ Len(Iterated) \in Nat
    BY <1>1, <2>1, InCallTyped
  <2>3. Top.at \in Nat /\ Top.at <= Len(Iterated)
    BY <2>2 DEF Within, CallType
  <2>4. CASE Top.at = 0
    <3>1. LeaveLoop /\ consumed' \in BOOLEAN /\ hovered' = hovered
      BY <1>7, <2>4 DEF MoveRest
    <3>2. hovered' \in [Widgets -> SUBSET Pointers]
      BY <1>2, <3>1
    <3>3. QED
      BY <1>1, <2>1, <3>1, <3>2, LeavesLoop
  <2>5. CASE Top.at # 0
    <3> DEFINE pc == "rest"
               k == Top.at - 1
               cs == HoverCall(Child, FALSE)
    <3>1. /\ Continue(pc, k, cs) /\ hovered' = HoverSet(Child, FALSE)
          /\ isBlocked' = isBlocked /\ consumed' = consumed
      BY <1>7, <2>5 DEF MoveRest
    <3>2. /\ Top.at \in 1 .. Len(Iterated) /\ k \in Nat
          /\ Child \in Below(Top.of) /\ Child \in Widgets
      BY <1>1, <2>1, <2>3, <2>5, ChildIsBelow
    <3>3. k <= Len(Iterated)
      BY <2>2, <3>2
    <3>4. hovered' \in [Widgets -> SUBSET Pointers] /\ consumed' \in BOOLEAN
      BY <1>2, <3>1, <3>2, HoverTyped
    <3>5. MakesCall(Top.of, "onHoverChanged", cs)
      BY <3>2, HoverCalled
    <3>6. pc \in {"loop", "moved", "rest"} /\ pc # "moved"
      OBVIOUS
    <3> HIDE DEF pc, k, cs
    <3>7. Continue(pc, k, cs) /\ isBlocked' = isBlocked /\ "rest" # "enter"
      BY <3>1
    <3>8. k \in Nat
      BY <3>2
    <3>9. QED
      BY <2>1, <3>3, <3>4, <3>5, <3>6, <3>7, <3>8, GoesOnMoving
  <2>6. QED
    BY <2>4, <2>5
<1>8. QED
  BY <1>4, <1>5, <1>6, <1>7

\* What is known of the entry of a call in onMouseButton().
LEMMA TopPasses ==
    ASSUME StackInv, NEW pc, InCall("onMouseButton", pc)
    PROVE  /\ Capture = mouseCaptureMap[Top.of][pointer]
           /\ Capture \in [by : Widgets \cup {NoWidget}, clicks : Nat]
           /\ Capture.by \in Below(Top.of) \cup {NoWidget}
           /\ Capture.by \in alive =>
                  Capture.by \in Below(Top.of) /\ Capture.by \in Widgets /\ Capture.clicks >= 1
           /\ pc \in {"captured", "count"} => Capture.by \in alive
           /\ pc \in {"loop", "hovered", "tried"} => Capture = NoCapture
<1>1. "onMouseButton" \in Methods
  BY DEF Methods
<1>2. /\ Top.proc = "onMouseButton" /\ Top.pc = pc /\ Top.of \in Containers
      /\ Len(stack) \in Nat \ {0} /\ Top = stack[Len(stack)]
      /\ TreeTyped /\ CaptureTyped /\ PassingOK(stack) /\ pointer \in Pointers
  BY <1>1, InCallTyped DEF Stacked
<1>3. Len(stack) \in 1 .. Len(stack)
  BY <1>2
<1>4. Passes(Top, Capture, Awaited(stack, Len(stack)), alive, children[Top.of])
  BY <1>2, <1>3 DEF PassingOK, Capture
<1>5. /\ pc \in {"captured", "count"} => Capture.by \in alive
      /\ pc \in {"loop", "hovered", "tried"} => Capture = NoCapture
  BY <1>2, <1>4 DEF Passes
<1>6. /\ Capture \in [by : Widgets \cup {NoWidget}, clicks : Nat]
      /\ Capture.by \in Below(Top.of) \cup {NoWidget}
      /\ Capture.clicks = 0 => Capture.by = NoWidget
  BY <1>2 DEF CaptureTyped, Capture
<1>7. alive \subseteq Widgets /\ NoWidget \notin Widgets
  BY <1>2, MouseAssumption DEF TreeTyped
<1>8. ASSUME Capture.by \in alive
      PROVE  Capture.by \in Below(Top.of) /\ Capture.by \in Widgets /\ Capture.clicks >= 1
  BY <1>6, <1>7, <1>8
<1>9. QED
  BY <1>5, <1>6, <1>8 DEF Capture

\* The entry of the innermost call changes.
LEMMA SetsCapture ==
    ASSUME CaptureTyped, Top.of \in Containers, pointer \in Pointers,
           NEW e \in [by : Widgets \cup {NoWidget}, clicks : Nat],
           e.by \in Below(Top.of) \cup {NoWidget}, e.clicks = 0 => e.by = NoWidget,
           SetCapture(e), UNCHANGED owed
    PROVE  /\ CaptureTyped' /\ mouseCaptureMap'[Top.of][pointer] = e
           /\ \A c \in Containers : \A p \in Pointers :
                  mouseCaptureMap'[c][p] = IF c = Top.of /\ p = pointer THEN e
                                           ELSE mouseCaptureMap[c][p]
           /\ \A c \in Containers \ {Top.of} : mouseCaptureMap'[c] = mouseCaptureMap[c]
<1> DEFINE E == [by : Widgets \cup {NoWidget}, clicks : Nat]
           g == [mouseCaptureMap[Top.of] EXCEPT ![pointer] = e]
<1>1. mouseCaptureMap \in [Containers -> [Pointers -> E]]
  BY DEF CaptureTyped
<1>2. mouseCaptureMap' = [mouseCaptureMap EXCEPT ![Top.of] = g]
  BY <1>1 DEF SetCapture
<1>3. /\ g \in [Pointers -> E]
      /\ \A p \in Pointers : g[p] = IF p = pointer THEN e ELSE mouseCaptureMap[Top.of][p]
  BY <1>1
<1> HIDE DEF g
<1>4. /\ mouseCaptureMap' \in [Containers -> [Pointers -> E]]
      /\ mouseCaptureMap'[Top.of] = g
      /\ \A c \in Containers \ {Top.of} : mouseCaptureMap'[c] = mouseCaptureMap[c]
  BY <1>1, <1>2, <1>3
<1>5. \A c \in Containers : \A p \in Pointers :
          mouseCaptureMap'[c][p] = IF c = Top.of /\ p = pointer THEN e
                                   ELSE mouseCaptureMap[c][p]
  BY <1>3, <1>4
<1>6. ASSUME NEW c \in Containers, NEW p \in Pointers
      PROVE  /\ mouseCaptureMap'[c][p].by \in Below(c) \cup {NoWidget}
             /\ mouseCaptureMap'[c][p].clicks = 0 => mouseCaptureMap'[c][p].by = NoWidget
  BY <1>5 DEF CaptureTyped
<1>7. CaptureTyped'
  BY <1>4, <1>6 DEF CaptureTyped
<1>8. QED
  BY <1>4, <1>5, <1>7

\* A call that goes on in onMouseButton().
LEMMA GoesOnPassing ==
    ASSUME StackInv, NEW pc0, InCall("onMouseButton", pc0),
           NEW pc \in {"captured", "count", "loop", "hovered", "tried"},
           NEW k \in Nat, k <= Len(Iterated), pc \in {"hovered", "tried"} => k >= 1,
           NEW cs, Continue(pc, k, cs),
           MakesCall(Top.of, IF pc \in {"count", "tried"} THEN "onMouseButton"
                             ELSE "onHoverChanged", cs),
           UNCHANGED <<program, treeVars, under, inputVars, owed>>,
           \/ isBlocked' = isBlocked /\ pc0 # "enter"
           \/ isBlocked' = [isBlocked EXCEPT ![Top.of] = TRUE],
           hovered' \in [Widgets -> SUBSET Pointers],
           consumed' \in BOOLEAN,
           UNCHANGED mouseCaptureMap \/ CaptureTyped',
           \A c \in Containers \ {Top.of} : mouseCaptureMap'[c] = mouseCaptureMap[c],
           NEW e, e = mouseCaptureMap'[Top.of][pointer],
           pc \in {"captured", "count"} =>
               e.by \in alive /\ (cs # << >> => cs[1].of = e.by),
           pc \in {"loop", "hovered", "tried"} => e = NoCapture,
           pc = "tried" /\ cs # << >> => cs[1].of = Iterated[k]
    PROVE  StackInv'
<1> DEFINE f == At(Top, pc, k)
           m == "onMouseButton"
           ws == IF cs = << >> THEN {} ELSE {cs[1].of}
<1>1. m \in Methods
  BY DEF Methods
<1>2. f = At(Top, pc, k)
  OBVIOUS
<1> HIDE DEF f
<1>3. /\ f \in CallType /\ IsCall(f) /\ pc # "enter"
      /\ f.proc = m /\ f.of = Top.of /\ f.pc = pc /\ f.at = k
  <2>1. pc \in Places(m)
    BY DEF Places
  <2>2. QED
    BY <1>1, <1>2, <2>1, WentOn
<1>4. /\ Len(Iterated) \in Nat /\ stack # << >> /\ Top.proc # "user" /\ Stacked
      /\ isBlocked \in [Containers -> BOOLEAN] /\ Top.of \in Containers
      /\ TreeTyped /\ Top.pc = pc0
  BY <1>1, InCallTyped
<1>5. Within(f, children[Top.of])
  BY <1>3, <1>4 DEF Within, Iterated
<1>6. Makes(f, cs)
  <2>1. Calls(f) = IF pc \in {"count", "tried"} THEN "onMouseButton"
                   ELSE "onHoverChanged"
    BY <1>3 DEF Calls
  <2>2. QED
    BY <1>3, <2>1 DEF Makes
<1>7. Passes(f, e, ws, alive, children[Top.of])
  <2>1. pc \in {"captured", "count"} => e.by \in alive /\ ws \subseteq {e.by}
    OBVIOUS
  <2>2. pc = "tried" => ws \subseteq {children[Top.of][k]}
    BY DEF Iterated
  <2>3. QED
    BY <1>3, <2>1, <2>2 DEF Passes
<1>8. UNCHANGED <<program, children, event, alive>>
  BY DEF treeVars, inputVars
<1>9. isBlocked' \in [Containers -> BOOLEAN]
  BY <1>4, BlockedTyped
<1>10. Stacked'
  <2>1. \/ isBlocked' = isBlocked /\ Top.pc # "enter"
        \/ isBlocked' = [isBlocked EXCEPT ![Top.of] = TRUE]
    BY <1>4
  <2>2. f.proc = "onMouseButton" =>
            Passes(f, mouseCaptureMap'[Top.of][pointer],
                   IF cs = << >> THEN {} ELSE {cs[1].of}, alive, children[Top.of])
    BY <1>7
  <2>3. QED
    BY <1>2, <1>3, <1>4, <1>5, <1>6, <1>8, <2>1, <2>2, GoesOn
<1>11. QED
  BY <1>9, <1>10, OthersTyped

LEMMA ButtonEnterKeeps ==
    ASSUME StackInv, UNCHANGED program, ButtonEnter
    PROVE  StackInv'
<1> DEFINE m == "onMouseButton"
           w == Capture.by
           k == Len(Iterated)
           is == w \in under
           cs == HoverCall(w, is)
           e == mouseCaptureMap'[Top.of][pointer]
<1>1. /\ InCall(m, "enter") /\ m \in Methods
      /\ UNCHANGED <<program, treeVars, under, inputVars, owed>>
      /\ isBlocked' = [isBlocked EXCEPT ![Top.of] = TRUE]
      /\ consumed' = consumed
  BY DEF ButtonEnter, Methods
<1>2. /\ TreeTyped /\ EventTyped /\ CaptureTyped /\ Top.of \in Containers
      /\ k \in Nat /\ k <= Len(Iterated) /\ pointer \in Pointers
  BY <1>1, InCallTyped
<1>3. consumed' \in BOOLEAN
  BY <1>1, <1>2 DEF EventTyped
<1>4. CASE w \in alive
  <2>1. /\ Continue("captured", 0, cs) /\ mouseCaptureMap' = mouseCaptureMap
        /\ hovered' = HoverSet(w, is)
    BY <1>4 DEF ButtonEnter
  <2>2. w \in Below(Top.of) /\ w \in Widgets
    BY <1>1, <1>4, TopPasses
  <2>3. hovered' \in [Widgets -> SUBSET Pointers]
    BY <1>2, <2>1, <2>2, HoverTyped
  <2>4. /\ MakesCall(Top.of, "onHoverChanged", cs)
        /\ cs # << >> => cs[1].of = w
    BY <2>2, HoverCalled
  <2>5. e.by = w /\ \A c \in Containers \ {Top.of} : mouseCaptureMap'[c] = mouseCaptureMap[c]
    BY <2>1 DEF Capture
  <2> HIDE DEF cs, is, w
  <2>6. /\ "captured" \in {"captured", "count", "loop", "hovered", "tried"}
        /\ "captured" \notin {"count", "tried"} /\ 0 \in Nat /\ 0 <= Len(Iterated)
    BY <1>2
  <2>7. e = mouseCaptureMap'[Top.of][pointer]
    OBVIOUS
  <2> HIDE DEF e
  <2>8. QED
    BY <1>1, <1>3, <1>4, <2>1, <2>3, <2>4, <2>5, <2>6, <2>7, GoesOnPassing
<1>5. CASE w \notin alive
  <2>1. /\ Continue("loop", k, << >>) /\ SetCapture(NoCapture) /\ hovered' = hovered
    BY <1>5 DEF ButtonEnter
  <2>2. hovered' \in [Widgets -> SUBSET Pointers]
    BY <1>2, <2>1 DEF TreeTyped
  <2>3. /\ NoCapture \in [by : Widgets \cup {NoWidget}, clicks : Nat]
        /\ NoCapture.by = NoWidget
    BY DEF NoCapture
  <2>4. /\ CaptureTyped' /\ e = NoCapture
        /\ \A c \in Containers \ {Top.of} : mouseCaptureMap'[c] = mouseCaptureMap[c]
    BY <1>1, <1>2, <2>1, <2>3, SetsCapture
  <2>5. MakesCall(Top.of, "onHoverChanged", << >>)
    BY DEF MakesCall
  <2>6. e = mouseCaptureMap'[Top.of][pointer]
    OBVIOUS
  <2> HIDE DEF e, k, m
  <2>7. QED
    BY <1>1, <1>2, <1>3, <2>1, <2>2, <2>4, <2>5, <2>6, GoesOnPassing DEF m
<1>6. QED
  BY <1>4, <1>5

LEMMA ButtonCapturedKeeps ==
    ASSUME StackInv, UNCHANGED program, ButtonCaptured
    PROVE  StackInv'
<1> DEFINE m == "onMouseButton"
           w == Capture.by
           cs == << Call(m, w) >>
           e == mouseCaptureMap'[Top.of][pointer]
<1>1. /\ InCall(m, "captured") /\ m \in Methods /\ Continue("count", 0, cs)
      /\ UNCHANGED <<program, treeVars, under, inputVars, owed>>
      /\ UNCHANGED mouseCaptureMap
      /\ isBlocked' = isBlocked /\ consumed' = consumed /\ hovered' = hovered
  BY DEF ButtonCaptured, Methods
<1>2. /\ TreeTyped /\ EventTyped /\ Len(Iterated) \in Nat
  BY <1>1, InCallTyped
<1>3. consumed' \in BOOLEAN /\ hovered' \in [Widgets -> SUBSET Pointers]
  BY <1>1, <1>2 DEF EventTyped, TreeTyped
<1>4. w \in alive /\ w \in Below(Top.of)
  BY <1>1, TopPasses
<1>5. MakesCall(Top.of, m, cs) /\ cs[1].of = w
  BY <1>4 DEF MakesCall, Call
<1>6. /\ e = mouseCaptureMap'[Top.of][pointer] /\ e.by = w
      /\ \A c \in Containers \ {Top.of} : mouseCaptureMap'[c] = mouseCaptureMap[c]
      /\ 0 \in Nat /\ 0 <= Len(Iterated)
  BY <1>1, <1>2 DEF Capture
<1> HIDE DEF e, w, cs
<1>7. QED
  BY <1>1, <1>3, <1>4, <1>5, <1>6, GoesOnPassing

\* The entry that ButtonCount leaves, and the one that it found.
LEMMA Counts ==
    ASSUME StackInv, ButtonCount
    PROVE  LET e == IF After(Capture.clicks) = 0 THEN NoCapture
                    ELSE [by |-> Capture.by, clicks |-> After(Capture.clicks)]
           IN /\ SetCapture(e) /\ LeaveLoop /\ consumed' = TRUE
              /\ e \in [by : Widgets \cup {NoWidget}, clicks : Nat]
              /\ e.by \in Below(Top.of) \cup {NoWidget}
              /\ e.clicks = 0 => e.by = NoWidget
              /\ Capture.by \in alive /\ Capture.clicks >= 1
              /\ UNCHANGED <<treeVars, hovered, under, inputVars, owed>>
<1> DEFINE n == IF event.isDown THEN Capture.clicks + 1 ELSE Capture.clicks - 1
           e == IF n = 0 THEN NoCapture ELSE [by |-> Capture.by, clicks |-> n]
<1>1. InCall("onMouseButton", "count")
  BY DEF ButtonCount
<1>2. /\ Capture \in [by : Widgets \cup {NoWidget}, clicks : Nat]
      /\ Capture.by \in alive /\ Capture.clicks >= 1
      /\ Capture.by \in Below(Top.of)
  BY <1>1, TopPasses
<1>3. [Capture EXCEPT !.clicks = n] = [by |-> Capture.by, clicks |-> n]
  BY <1>2
<1>4. SetCapture(e) /\ LeaveLoop /\ consumed' = TRUE
  BY <1>3 DEF ButtonCount
<1>5. /\ n \in Nat /\ n = After(Capture.clicks)
  BY <1>2 DEF After
<1>6. /\ e \in [by : Widgets \cup {NoWidget}, clicks : Nat]
      /\ e.by \in Below(Top.of) \cup {NoWidget}
      /\ e.clicks = 0 => e.by = NoWidget
  BY <1>2, <1>5 DEF NoCapture
<1>7. UNCHANGED <<treeVars, hovered, under, inputVars, owed>>
  BY DEF ButtonCount
<1> HIDE DEF n
<1>8. QED
  BY <1>2, <1>4, <1>5, <1>6, <1>7

LEMMA ButtonCountKeeps ==
    ASSUME StackInv, UNCHANGED program, ButtonCount
    PROVE  StackInv'
<1> DEFINE m == "onMouseButton"
           e == IF After(Capture.clicks) = 0 THEN NoCapture
                ELSE [by |-> Capture.by, clicks |-> After(Capture.clicks)]
<1>1. InCall(m, "count") /\ m \in Methods
  BY DEF ButtonCount, Methods
<1>2. /\ TreeTyped /\ CaptureTyped /\ Top.of \in Containers /\ pointer \in Pointers
  BY <1>1, InCallTyped
<1>3. /\ SetCapture(e) /\ LeaveLoop /\ consumed' = TRUE
      /\ e \in [by : Widgets \cup {NoWidget}, clicks : Nat]
      /\ e.by \in Below(Top.of) \cup {NoWidget}
      /\ e.clicks = 0 => e.by = NoWidget
      /\ UNCHANGED <<treeVars, hovered, under, inputVars, owed>>
  BY Counts
<1> HIDE DEF e
<1>4. /\ CaptureTyped'
      /\ \A c \in Containers \ {Top.of} : mouseCaptureMap'[c] = mouseCaptureMap[c]
  BY <1>2, <1>3, SetsCapture
<1>5. hovered' \in [Widgets -> SUBSET Pointers] /\ consumed' \in BOOLEAN
  BY <1>2, <1>3 DEF TreeTyped
<1>6. QED
  BY <1>1, <1>3, <1>4, <1>5, LeavesLoop

LEMMA ButtonLoopKeeps ==
    ASSUME StackInv, UNCHANGED program, ButtonLoop
    PROVE  StackInv'
<1> DEFINE m == "onMouseButton"
           e == mouseCaptureMap'[Top.of][pointer]
<1>1. /\ InCall(m, "loop") /\ m \in Methods
      /\ UNCHANGED <<program, treeVars, under, inputVars, owed>>
      /\ UNCHANGED mouseCaptureMap
  BY DEF ButtonLoop, Methods
<1>2. /\ TreeTyped /\ EventTyped /\ Len(Iterated) \in Nat
      /\ Top \in CallType /\ Within(Top, Iterated) /\ Top.proc = m
  BY <1>1, InCallTyped
<1>3. Top.at \in Nat /\ Top.at <= Len(Iterated)
  BY <1>2 DEF Within, CallType
<1>4. Capture = NoCapture /\ Capture = mouseCaptureMap[Top.of][pointer]
  BY <1>1, TopPasses
<1>5. /\ e = mouseCaptureMap'[Top.of][pointer] /\ e = NoCapture
      /\ \A c \in Containers \ {Top.of} : mouseCaptureMap'[c] = mouseCaptureMap[c]
  BY <1>1, <1>4
<1> HIDE DEF e
<1>6. CASE Top.at = 0
  <2>1. LeaveLoop /\ consumed' \in BOOLEAN /\ hovered' = hovered
    BY <1>6 DEF ButtonLoop
  <2>2. hovered' \in [Widgets -> SUBSET Pointers]
    BY <1>2, <2>1 DEF TreeTyped
  <2>3. QED
    BY <1>1, <1>5, <2>1, <2>2, LeavesLoop
<1>7. CASE Top.at # 0
  <2>1. /\ Top.at \in 1 .. Len(Iterated) /\ Top.at - 1 \in Nat
        /\ Child \in Below(Top.of) /\ Child \in Widgets
    BY <1>1, <1>3, <1>7, ChildIsBelow
  <2>2. isBlocked' = isBlocked /\ consumed' \in BOOLEAN
    BY <1>2, <1>7 DEF ButtonLoop, EventTyped
  <2>3. CASE Interactive(Child) /\ Child \in under
    <3> DEFINE cs == HoverCall(Child, TRUE)
               k == Top.at
    <3>1. hovered' = HoverSet(Child, TRUE) /\ Continue("hovered", k, cs)
      BY <1>7, <2>3 DEF ButtonLoop
    <3>2. hovered' \in [Widgets -> SUBSET Pointers]
      BY <1>2, <2>1, <3>1, HoverTyped
    <3>3. MakesCall(Top.of, "onHoverChanged", cs)
      BY <2>1, HoverCalled
    <3>4. k \in Nat /\ k <= Len(Iterated) /\ k >= 1
      BY <1>3, <2>1
    <3> HIDE DEF cs, k
    <3>5. Continue("hovered", k, cs)
      BY <3>1
    <3>6. QED
      BY <1>1, <1>5, <2>2, <3>2, <3>3, <3>4, <3>5, GoesOnPassing
  <2>4. CASE ~(Interactive(Child) /\ Child \in under)
    <3> DEFINE k == Top.at - 1
    <3>1. Continue("loop", k, << >>) /\ hovered' = hovered
      BY <1>7, <2>4 DEF ButtonLoop
    <3>2. hovered' \in [Widgets -> SUBSET Pointers]
      BY <1>2, <3>1 DEF TreeTyped
    <3>3. MakesCall(Top.of, "onHoverChanged", << >>)
      BY DEF MakesCall
    <3>4. k \in Nat /\ k <= Len(Iterated)
      BY <1>2, <1>3, <2>1
    <3> HIDE DEF k
    <3>5. QED
      BY <1>1, <1>5, <2>2, <3>1, <3>2, <3>3, <3>4, GoesOnPassing
  <2>5. QED
    BY <2>3, <2>4
<1>8. QED
  BY <1>6, <1>7

LEMMA ButtonHoveredKeeps ==
    ASSUME StackInv, UNCHANGED program, ButtonHovered
    PROVE  StackInv'
<1> DEFINE m == "onMouseButton"
           k == Top.at
           cs == << Call(m, Child) >>
           e == mouseCaptureMap'[Top.of][pointer]
<1>1. /\ InCall(m, "hovered") /\ m \in Methods /\ Continue("tried", k, cs)
      /\ UNCHANGED <<program, treeVars, under, inputVars, owed>>
      /\ UNCHANGED mouseCaptureMap
      /\ isBlocked' = isBlocked /\ consumed' = consumed /\ hovered' = hovered
  BY DEF ButtonHovered, Methods
<1>2. /\ TreeTyped /\ EventTyped /\ Len(Iterated) \in Nat
      /\ Within(Top, Iterated) /\ Top.proc = m /\ Top.pc = "hovered"
  BY <1>1, InCallTyped
<1>3. consumed' \in BOOLEAN /\ hovered' \in [Widgets -> SUBSET Pointers]
  BY <1>1, <1>2 DEF EventTyped, TreeTyped
<1>4. k >= 1 /\ k <= Len(Iterated)
  BY <1>2 DEF Within
<1>5. k \in Nat /\ Child \in Below(Top.of) /\ Child = Iterated[k]
  BY <1>1, <1>2, <1>4, ChildIsBelow DEF Child
<1>6. MakesCall(Top.of, m, cs) /\ cs[1].of = Iterated[k]
  BY <1>5 DEF MakesCall, Call
<1>7. Capture = NoCapture /\ Capture = mouseCaptureMap[Top.of][pointer]
  BY <1>1, TopPasses
<1>8. /\ e = mouseCaptureMap'[Top.of][pointer] /\ e = NoCapture
      /\ \A c \in Containers \ {Top.of} : mouseCaptureMap'[c] = mouseCaptureMap[c]
  BY <1>1, <1>7
<1> HIDE DEF e, cs, k
<1>9. QED
  BY <1>1, <1>3, <1>4, <1>5, <1>6, <1>8, GoesOnPassing

\* The entry that a press leaves when a child consumes it.
LEMMA Captures ==
    ASSUME StackInv, ButtonTried
    PROVE  LET e == IF event.isDown THEN [by |-> Child, clicks |-> 1] ELSE NoCapture
           IN /\ Capture = NoCapture
              /\ Child \in Below(Top.of) /\ Child = Iterated[Top.at]
              /\ Top.at \in 1 .. Len(Iterated)
              /\ e \in [by : Widgets \cup {NoWidget}, clicks : Nat]
              /\ e.by \in Below(Top.of) \cup {NoWidget}
              /\ e.clicks = 0 => e.by = NoWidget
              /\ UNCHANGED <<treeVars, hovered, under, inputVars, owed, consumed>>
              /\ consumed => LeaveLoop /\ SetCapture(e)
              /\ ~consumed => /\ Continue("loop", Top.at - 1, << >>)
                              /\ UNCHANGED <<isBlocked, mouseCaptureMap>>
<1> DEFINE e == IF event.isDown THEN [by |-> Child, clicks |-> 1] ELSE NoCapture
<1>1. InCall("onMouseButton", "tried") /\ "onMouseButton" \in Methods
  BY DEF ButtonTried, Methods
<1>2. /\ TreeTyped /\ CaptureTyped /\ Top.of \in Containers /\ pointer \in Pointers
      /\ Within(Top, Iterated) /\ Top.pc = "tried" /\ Top.proc = "onMouseButton"
      /\ Len(Iterated) \in Nat
  BY <1>1, InCallTyped
<1>3. Capture = NoCapture /\ Capture = mouseCaptureMap[Top.of][pointer]
  BY <1>1, TopPasses
<1>4. Top.at >= 1 /\ Top.at <= Len(Iterated)
  BY <1>2 DEF Within
<1>5. /\ Top.at \in 1 .. Len(Iterated) /\ Child \in Below(Top.of) /\ Child \in Widgets
      /\ Child = Iterated[Top.at]
  BY <1>1, <1>4, ChildIsBelow DEF Child
<1>6. /\ e \in [by : Widgets \cup {NoWidget}, clicks : Nat]
      /\ e.by \in Below(Top.of) \cup {NoWidget}
      /\ e.clicks = 0 => e.by = NoWidget
  BY <1>5 DEF NoCapture
<1>7. UNCHANGED mouseCaptureMap => SetCapture(NoCapture)
  BY <1>2, <1>3 DEF SetCapture, CaptureTyped
<1>8. /\ UNCHANGED <<treeVars, hovered, under, inputVars, owed, consumed>>
      /\ consumed => LeaveLoop /\ SetCapture(e)
      /\ ~consumed => /\ Continue("loop", Top.at - 1, << >>)
                      /\ UNCHANGED <<isBlocked, mouseCaptureMap>>
  BY <1>3, <1>7 DEF ButtonTried
<1> HIDE DEF e
<1>9. /\ Capture = NoCapture /\ Child \in Below(Top.of) /\ Child = Iterated[Top.at]
      /\ Top.at \in 1 .. Len(Iterated)
      /\ e \in [by : Widgets \cup {NoWidget}, clicks : Nat]
      /\ e.by \in Below(Top.of) \cup {NoWidget}
      /\ e.clicks = 0 => e.by = NoWidget
      /\ UNCHANGED <<treeVars, hovered, under, inputVars, owed, consumed>>
      /\ consumed => LeaveLoop /\ SetCapture(e)
      /\ ~consumed => /\ Continue("loop", Top.at - 1, << >>)
                      /\ UNCHANGED <<isBlocked, mouseCaptureMap>>
  BY <1>3, <1>5, <1>6, <1>8
<1>10. QED
  BY <1>9 DEF e

LEMMA ButtonTriedKeeps ==
    ASSUME StackInv, UNCHANGED program, ButtonTried
    PROVE  StackInv'
<1> DEFINE m == "onMouseButton"
           e == IF event.isDown THEN [by |-> Child, clicks |-> 1] ELSE NoCapture
           k == Top.at - 1
<1>1. InCall(m, "tried") /\ m \in Methods
  BY DEF ButtonTried, Methods
<1>2. /\ TreeTyped /\ EventTyped /\ CaptureTyped /\ Top.of \in Containers
      /\ pointer \in Pointers /\ Len(Iterated) \in Nat
  BY <1>1, InCallTyped
<1>3. /\ Capture = NoCapture
      /\ Top.at \in 1 .. Len(Iterated)
      /\ e \in [by : Widgets \cup {NoWidget}, clicks : Nat]
      /\ e.by \in Below(Top.of) \cup {NoWidget}
      /\ e.clicks = 0 => e.by = NoWidget
      /\ UNCHANGED <<treeVars, hovered, under, inputVars, owed, consumed>>
      /\ consumed => LeaveLoop /\ SetCapture(e)
      /\ ~consumed => /\ Continue("loop", k, << >>)
                      /\ UNCHANGED <<isBlocked, mouseCaptureMap>>
  BY Captures
<1>4. k \in Nat /\ k <= Len(Iterated)
  BY <1>2, <1>3
<1> HIDE DEF e, k
<1>5. hovered' \in [Widgets -> SUBSET Pointers] /\ consumed' \in BOOLEAN
  BY <1>2, <1>3 DEF TreeTyped, EventTyped
<1>6. CASE consumed
  <2>1. /\ CaptureTyped'
        /\ \A c \in Containers \ {Top.of} : mouseCaptureMap'[c] = mouseCaptureMap[c]
    BY <1>2, <1>3, <1>6, SetsCapture
  <2>2. QED
    BY <1>1, <1>3, <1>5, <1>6, <2>1, LeavesLoop
<1>7. CASE ~consumed
  <2> DEFINE d == mouseCaptureMap'[Top.of][pointer]
  <2>1. /\ Continue("loop", k, << >>) /\ mouseCaptureMap' = mouseCaptureMap
        /\ isBlocked' = isBlocked
    BY <1>3, <1>7
  <2>2. /\ d = mouseCaptureMap'[Top.of][pointer] /\ d = NoCapture
        /\ \A c \in Containers \ {Top.of} : mouseCaptureMap'[c] = mouseCaptureMap[c]
    BY <1>3, <2>1 DEF Capture
  <2> HIDE DEF d
  <2>3. MakesCall(Top.of, "onHoverChanged", << >>)
    BY DEF MakesCall
  <2>4. UNCHANGED <<program, treeVars, under, inputVars, owed>>
    BY <1>3
  <2>5. QED
    BY <1>1, <1>4, <1>5, <2>1, <2>2, <2>3, <2>4, GoesOnPassing
<1>8. QED
  BY <1>6, <1>7

LEMMA UserReturnsKeeps ==
    ASSUME StackInv, UNCHANGED program, UserReturns
    PROVE  /\ StackInv'
           /\ Len(stack) \in Nat \ {0} /\ Len(stack') = Len(stack) - 1
           /\ \A i \in 1 .. Len(stack) - 1 : stack'[i] = stack[i]
           /\ Top.of \in Widgets \ Containers
           /\ owed[Top.of][pointer] \in Nat /\ Owed(Top.of) \in Nat
<1>1. /\ stack # << >> /\ Top.proc = "user" /\ stack' = Front(stack)
      /\ UNCHANGED <<treeVars, isBlocked, mouseCaptureMap, hovered, under, inputVars>>
      /\ TreeTyped /\ EventTyped /\ CaptureTyped /\ Stacked
  BY DEF UserReturns, InUserCode, StackInv
<1>2. /\ Top \in CallType /\ IsCall(Top) /\ Top.of \in Widgets \ Containers
  <2>1. Top \in CallType /\ (Top.proc # "user" <=> Top.of \in Containers) /\ IsCall(Top)
    BY <1>1, TopTyped
  <2>2. QED
    BY <1>1, <2>1 DEF CallType
<1>3. /\ owed \in [Widgets -> [Pointers -> Nat]] /\ pointer \in Pointers
      /\ consumed \in BOOLEAN /\ isBlocked \in [Containers -> BOOLEAN]
  BY <1>1 DEF CaptureTyped, EventTyped, TreeTyped, pointer
<1>4. owed[Top.of][pointer] \in Nat /\ Owed(Top.of) \in Nat
  BY <1>2, <1>3 DEF Owed
<1>5. owed' \in [Widgets -> [Pointers -> Nat]] /\ consumed' \in BOOLEAN
  <2>1. CASE Top.pc = "onMouseButton"
    <3>1. owed' = [owed EXCEPT ![Top.of][pointer] = Owed(Top.of)]
      BY <2>1 DEF UserReturns
    <3>2. QED
      BY <1>2, <1>3, <1>4, <2>1, <3>1 DEF UserReturns
  <2>2. CASE Top.pc # "onMouseButton"
    BY <1>3, <2>2 DEF UserReturns
  <2>3. QED
    BY <2>1, <2>2
<1>6. UNCHANGED <<program, children, event, alive>>
  BY <1>1 DEF treeVars, inputVars
<1>7. /\ Stacked'
      /\ Len(stack) \in Nat \ {0} /\ Len(stack') = Len(stack) - 1
      /\ \A i \in 1 .. Len(stack) - 1 : stack'[i] = stack[i]
  BY <1>1, <1>3, <1>6, Returns
<1>8. TreeTyped'
  BY <1>1 DEF TreeTyped, treeVars
<1>9. EventTyped' /\ CaptureTyped'
  BY <1>1, <1>5 DEF EventTyped, CaptureTyped, inputVars, pointer
<1>10. QED
  BY <1>2, <1>4, <1>7, <1>8, <1>9 DEF StackInv

\* The stacks that an event may begin with.
LEMMA NewStacks ==
    ASSUME NEW m \in Methods, NEW s,
           s \in {<< >>, << Call("onHoverChanged", Root) >>, << Call(m, Root) >>,
                  << Call(m, Root), Call("onHoverChanged", Root) >>}
    PROVE  /\ s \in Seq(CallType) /\ StackOK(s)
           /\ \A i \in 1 .. Len(s) : s[i].pc = "enter"
           /\ s # << >> => s[1] = Call(m, Root) \/ s[1] = Call("onHoverChanged", Root)
<1> DEFINE g == Call(m, Root)
           h == Call("onHoverChanged", Root)
<1>1. Root \in Widgets /\ Root \in Containers /\ "onHoverChanged" \in Methods
  BY MouseAssumption DEF Methods
<1>2. /\ g \in CallType /\ IsCall(g) /\ g.of = Root /\ g.pc = "enter" /\ g.proc = m
      /\ h \in CallType /\ IsCall(h) /\ h.of = Root /\ Method(h) = "onHoverChanged"
      /\ h.pc = "enter"
  <2>1. g.pc = "enter" /\ h.pc = "enter" /\ g.proc = m
    BY <1>1 DEF Call
  <2>2. QED
    BY <1>1, <2>1, CallIsNew
<1>3. CalledBy(h, g, 1)
  BY <1>2 DEF CalledBy, Methods
<1>4. s \in {<< >>, << h >>, << g >>, << g, h >>}
  OBVIOUS
<1> HIDE DEF g, h
<1>5. CASE s = << >>
  BY <1>5 DEF StackOK
<1>6. CASE s = << h >>
  <2>1. /\ s \in Seq(CallType) /\ Len(s) = 1 /\ s[1] = h
    BY <1>2, <1>6
  <2>2. StackOK(s)
    BY <1>2, <2>1 DEF StackOK
  <2>3. QED
    BY <1>2, <2>1, <2>2 DEF h
<1>7. CASE s = << g >>
  <2>1. /\ s \in Seq(CallType) /\ Len(s) = 1 /\ s[1] = g
    BY <1>2, <1>7
  <2>2. StackOK(s)
    BY <1>2, <2>1 DEF StackOK
  <2>3. QED
    BY <1>2, <2>1, <2>2 DEF g
<1>8. CASE s = << g, h >>
  <2>1. /\ s \in Seq(CallType) /\ Len(s) = 2 /\ s[1] = g /\ s[2] = h
    BY <1>2, <1>8
  <2>2. \A i \in 1 .. Len(s) : s[i].pc = "enter" /\ IsCall(s[i])
    BY <1>2, <2>1
  <2>3. \A i \in 1 .. Len(s) : i < Len(s) => i = 1 /\ CalledBy(s[i + 1], s[i], i)
    BY <1>3, <2>1
  <2>4. StackOK(s)
    BY <1>2, <2>1, <2>2, <2>3 DEF StackOK
  <2>5. QED
    BY <2>1, <2>2, <2>4 DEF g
<1>9. QED
  BY <1>4, <1>5, <1>6, <1>7, <1>8

\* A stack whose calls have not begun yet, if there are any.
LEMMA NotBegun ==
    ASSUME stack' \in Seq(CallType), StackOK(stack'),
           \A i \in 1 .. Len(stack') : stack'[i].pc = "enter",
           event' = NoEvent => stack' = << >>
    PROVE  Stacked'
<1>1. \A i \in 1 .. Len(stack') : ~Loops(stack'[i])
  BY DEF Loops
<1>2. LoopsOK(stack, children, isBlocked)'
  BY <1>1 DEF LoopsOK
<1>3. PassingOK(stack)'
  BY DEF PassingOK, Passes
<1>4. StackOK(stack)' /\ (event = NoEvent => stack = << >>)'
  BY DEF StackOK, NoEvent
<1>5. QED
  BY <1>2, <1>3, <1>4 DEF Stacked

LEMMA EventHandledKeeps ==
    ASSUME StackInv, UNCHANGED program, EventHandled
    PROVE  StackInv'
<1>1. /\ stack' = << >> /\ event' = NoEvent /\ under' = {} /\ consumed' = FALSE
      /\ UNCHANGED <<treeVars, isBlocked, mouseCaptureMap, hovered, down, owed>>
  BY DEF EventHandled
<1>2. Stacked'
  <2>1. << >> \in Seq(CallType) /\ StackOK(<< >>)
    BY DEF StackOK
  <2>2. QED
    BY <1>1, <2>1, NotBegun
<1>3. NoEvent.by \in Pointers /\ NoEvent.kind = "none" /\ NoEvent.isDown = FALSE
  BY MouseAssumption DEF NoEvent
<1>4. NoEvent \in [kind : {"none", "move", "button", "hover"}, isDown : BOOLEAN, by : Pointers]
  BY <1>3 DEF NoEvent
<1>5. EventTyped'
  BY <1>1, <1>3, <1>4 DEF StackInv, EventTyped
<1>6. TreeTyped' /\ CaptureTyped'
  BY <1>1 DEF StackInv, TreeTyped, CaptureTyped, treeVars
<1>7. QED
  BY <1>2, <1>5, <1>6 DEF StackInv

LEMMA Joined ==
    ASSUME NEW g, NEW k
    PROVE  /\ << >> \o << k >> = << k >> /\ << g >> \o << k >> = << g, k >>
           /\ << >> \o << >> = << >> /\ << g >> \o << >> = << g >>
<1> DEFINE S == {g, k}
<1>1. << >> \in Seq(S) /\ << g >> \in Seq(S) /\ << k >> \in Seq(S)
  OBVIOUS
<1>2. /\ << >> \o << k >> = << k >> /\ << >> \o << >> = << >>
      /\ << g >> \o << >> = << g >>
  BY <1>1, ConcatEmptySeq
<1>3. << g >> \o << k >> = << g, k >>
  <2>1. << g >> \o << k >> = Append(<< g >>, k)
    BY <1>1, AppendIsConcat
  <2>2. Append(<< g >>, k) = << g, k >>
    <3> DEFINE s == Append(<< g >>, k)
               t == << g, k >>
    <3>1. s \in Seq(S) /\ Len(s) = 2 /\ s[1] = g /\ s[2] = k
      BY <1>1, AppendProperties
    <3>2. t \in Seq(S) /\ Len(t) = 2 /\ t[1] = g /\ t[2] = k
      OBVIOUS
    <3> HIDE DEF s, t, S
    <3>3. \A i \in 1 .. Len(s) : s[i] = t[i]
      BY <3>1, <3>2
    <3>4. s = t
      BY <3>1, <3>2, <3>3, SeqEqual
    <3>5. QED
      BY <3>4 DEF s, t
  <2>3. QED
    BY <2>1, <2>2
<1>4. QED
  BY <1>2, <1>3

\* An event of a pointer of the user's begins.
LEMMA Begins ==
    ASSUME StackInv, UNCHANGED program, NEW p \in Pointers,
           NEW kind \in {"move", "button", "hover"}, NEW isDown \in BOOLEAN,
           NEW over \in BOOLEAN, NEW cs,
           NEW m \in Methods, cs = << >> \/ cs = << Call(m, Root) >>,
           Begin([kind |-> kind, isDown |-> isDown, by |-> p], over, cs),
           under' \subseteq Widgets,
           down' \in [Pointers -> Nat], isDown => down'[p] > 0
    PROVE  /\ StackInv'
           /\ \A i \in 1 .. Len(stack') : stack'[i].pc = "enter"
           /\ stack = << >> /\ event = NoEvent
           /\ pointer' = p /\ event'.isDown = isDown
           /\ UNCHANGED <<treeVars, isBlocked, mouseCaptureMap, consumed, owed>>
<1> DEFINE e == [kind |-> kind, isDown |-> isDown, by |-> p]
           h == << Call("onHoverChanged", Root) >>
           is == p \in hovered[Root] /\ ~over
<1>1. /\ event = NoEvent /\ event' = e
      /\ hovered' = [hovered EXCEPT ![Root] = IF over THEN @ \cup {p} ELSE @ \ {p}]
      /\ stack' = cs \o (IF is THEN h ELSE << >>)
      /\ UNCHANGED <<treeVars, isBlocked, mouseCaptureMap, consumed, owed>>
  BY DEF Begin
<1>2. e.isDown = isDown /\ e.by = p /\ e.kind = kind /\ NoEvent.kind = "none"
  BY DEF NoEvent
<1>3. stack' \in {<< >>, h, << Call(m, Root) >>,
                  << Call(m, Root), Call("onHoverChanged", Root) >>}
  <2> DEFINE g == Call(m, Root)
             k == Call("onHoverChanged", Root)
  <2>1. h = << k >> /\ (cs = << >> \/ cs = << g >>)
    OBVIOUS
  <2>2. stack' = cs \o << k >> \/ stack' = cs \o << >>
    BY <1>1, <2>1
  <2> HIDE DEF g, k, h
  <2>3. /\ << >> \o << k >> = << k >> /\ << g >> \o << k >> = << g, k >>
        /\ << >> \o << >> = << >> /\ << g >> \o << >> = << g >>
    BY Joined
  <2>4. stack' \in {<< >>, h, << g >>, << g, k >>}
    BY <2>1, <2>2, <2>3
  <2>5. QED
    BY <2>4 DEF g, k
<1>4. /\ stack' \in Seq(CallType) /\ StackOK(stack')
      /\ \A i \in 1 .. Len(stack') : stack'[i].pc = "enter"
  BY <1>3, NewStacks
<1>5. event' # NoEvent
  BY <1>1, <1>2
<1>6. Stacked'
  BY <1>4, <1>5, NotBegun
<1>7. EventTyped'
  <2>1. e \in [kind : {"none", "move", "button", "hover"}, isDown : BOOLEAN, by : Pointers]
    OBVIOUS
  <2>2. QED
    BY <1>1, <1>2, <2>1 DEF StackInv, EventTyped, pointer
<1>8. hovered' \in [Widgets -> SUBSET Pointers]
  BY <1>1 DEF StackInv, TreeTyped
<1>9. TreeTyped' /\ CaptureTyped'
  BY <1>1, <1>8 DEF StackInv, TreeTyped, CaptureTyped, treeVars
<1>10. stack = << >>
  BY <1>1 DEF StackInv, Stacked
<1>11. pointer' = p /\ event'.isDown = isDown
  BY <1>1, <1>2 DEF pointer
<1>12. StackInv'
  BY <1>6, <1>7, <1>9 DEF StackInv
<1>13. QED
  BY <1>1, <1>4, <1>10, <1>11, <1>12

LEMMA ProgramTyped ==
    ASSUME program \in Programs
    PROVE  /\ program.pointers \subseteq Pointers /\ program.clicks \in Nat
           /\ \A call, w : <<call, w>> \in program.calls =>
                  call \in AllUserCalls /\ w \in Widgets /\ (w = Root => call = "layOut")
<1>1. program \in [calls : SUBSET (AllUserCalls \X Widgets),
                   pointers : SUBSET Pointers, clicks : Nat]
  BY MouseAssumption
<1>2. program.pointers \subseteq Pointers /\ program.clicks \in Nat
      /\ program.calls \subseteq AllUserCalls \X Widgets
  BY <1>1
<1>3. ASSUME NEW call, NEW w, <<call, w>> \in program.calls
      PROVE  call \in AllUserCalls /\ w \in Widgets /\ (w = Root => call = "layOut")
  <2>1. <<call, w>> \in AllUserCalls \X Widgets
    BY <1>2, <1>3
  <2>2. <<call, w>>[2] = Root => <<call, w>>[1] = "layOut"
    BY <1>3, MouseAssumption
  <2>3. QED
    BY <2>1, <2>2
<1>4. QED
  BY <1>2, <1>3

LEMMA EventsKeep ==
    ASSUME StackInv, UNCHANGED program, Events
    PROVE  /\ StackInv'
           /\ stack = << >> /\ event = NoEvent
           /\ UNCHANGED <<treeVars, isBlocked, mouseCaptureMap, consumed, owed>>
           /\ \A i \in 1 .. Len(stack') : stack'[i].pc = "enter"
           /\ \/ /\ UNCHANGED down
                 /\ stack' = << >> \/ stack'[1].proc # "onMouseButton"
              \/ /\ stack' # << >> /\ stack'[1].proc = "onMouseButton"
                 /\ IF event'.isDown THEN down' = [down EXCEPT ![pointer'] = @ + 1]
                    ELSE down[pointer'] > 0 /\ down' = [down EXCEPT ![pointer'] = @ - 1]
<1>1. PICK p \in program.pointers :
          \/ onMouseMove(p)
          \/ \E b \in BOOLEAN : onMouseButton(p, b) \/ onMouseHover(p, b)
  BY DEF Events
<1>2. /\ p \in Pointers /\ down \in [Pointers -> Nat] /\ under \subseteq Widgets
      /\ Root \in Containers
  BY <1>1, ProgramTyped, MouseAssumption DEF StackInv, TreeTyped, EventTyped
<1>3. \A P \in Positions : P \subseteq Widgets
  BY DEF Positions
<1>4. "onMouseMove" \in Methods /\ "onMouseButton" \in Methods
  BY DEF Methods
<1>5. \A m \in Methods : Call(m, Root).proc = m
  BY <1>2 DEF Call
<1>6. \A m \in Methods : \A cs :
          stack' = << Call(m, Root) >> \o cs /\ (cs = << >> \/ \E g : cs = << g >>) =>
              stack' # << >> /\ stack'[1] = Call(m, Root)
  <2>1. \A g, h : /\ << g >> \o << h >> # << >> /\ (<< g >> \o << h >>)[1] = g
                 /\ << g >> \o << >> # << >> /\ (<< g >> \o << >>)[1] = g
    BY Joined
  <2>2. QED
    BY <2>1
<1>7. CASE onMouseMove(p)
  <2>1. /\ Begin([kind |-> "move", isDown |-> FALSE, by |-> p], Root \in under',
                 << Call("onMouseMove", Root) >>)
        /\ down' = down /\ under' \subseteq Widgets
    BY <1>3, <1>7 DEF onMouseMove
  <2>2. /\ StackInv'
        /\ \A i \in 1 .. Len(stack') : stack'[i].pc = "enter"
        /\ stack = << >> /\ event = NoEvent
        /\ UNCHANGED <<treeVars, isBlocked, mouseCaptureMap, consumed, owed>>
    <3> DEFINE over == Root \in under'
               cs == << Call("onMouseMove", Root) >>
    <3>1. over \in BOOLEAN /\ "move" \in {"move", "button", "hover"} /\ FALSE \in BOOLEAN
      OBVIOUS
    <3>2. Begin([kind |-> "move", isDown |-> FALSE, by |-> p], over, cs)
      BY <2>1
    <3>3. cs = << Call("onMouseMove", Root) >> /\ down' \in [Pointers -> Nat]
          /\ (FALSE => down'[p] > 0)
      BY <1>2, <2>1
    <3> HIDE DEF over, cs
    <3>4. QED
      BY <1>2, <1>4, <2>1, <3>1, <3>2, <3>3, Begins
  <2>3. stack'[1].proc # "onMouseButton"
    BY <1>4, <1>5, <1>6, <2>1 DEF Begin
  <2>4. QED
    BY <2>1, <2>2, <2>3
<1>8. ASSUME NEW b \in BOOLEAN, onMouseButton(p, b)
      PROVE  /\ StackInv'
             /\ \A i \in 1 .. Len(stack') : stack'[i].pc = "enter"
             /\ stack = << >> /\ event = NoEvent
             /\ UNCHANGED <<treeVars, isBlocked, mouseCaptureMap, consumed, owed>>
             /\ stack' # << >> /\ stack'[1].proc = "onMouseButton"
             /\ IF event'.isDown THEN down' = [down EXCEPT ![pointer'] = @ + 1]
                ELSE down[pointer'] > 0 /\ down' = [down EXCEPT ![pointer'] = @ - 1]
  <2>1. /\ Begin([kind |-> "button", isDown |-> b, by |-> p], Root \in under',
                 << Call("onMouseButton", Root) >>)
        /\ down' = [down EXCEPT ![p] = IF b THEN @ + 1 ELSE @ - 1]
        /\ ~b => down[p] > 0
        /\ under' \subseteq Widgets
    BY <1>3, <1>8 DEF onMouseButton
  <2>2. down' \in [Pointers -> Nat] /\ (b => down'[p] > 0)
    BY <1>2, <2>1
  <2>3. /\ StackInv'
        /\ \A i \in 1 .. Len(stack') : stack'[i].pc = "enter"
        /\ stack = << >> /\ event = NoEvent /\ pointer' = p /\ event'.isDown = b
        /\ UNCHANGED <<treeVars, isBlocked, mouseCaptureMap, consumed, owed>>
    <3> DEFINE over == Root \in under'
               cs == << Call("onMouseButton", Root) >>
    <3>1. over \in BOOLEAN /\ "button" \in {"move", "button", "hover"}
      OBVIOUS
    <3>2. Begin([kind |-> "button", isDown |-> b, by |-> p], over, cs)
      BY <2>1
    <3>3. cs = << Call("onMouseButton", Root) >>
      OBVIOUS
    <3> HIDE DEF over, cs
    <3>4. QED
      BY <1>2, <1>4, <2>1, <2>2, <3>1, <3>2, <3>3, Begins
  <2>4. stack' # << >> /\ stack'[1].proc = "onMouseButton"
    BY <1>4, <1>5, <1>6, <2>1 DEF Begin
  <2>5. QED
    BY <2>1, <2>3, <2>4
<1>9. ASSUME NEW b \in BOOLEAN, onMouseHover(p, b)
      PROVE  /\ StackInv'
             /\ \A i \in 1 .. Len(stack') : stack'[i].pc = "enter"
             /\ stack = << >> /\ event = NoEvent
             /\ UNCHANGED <<treeVars, isBlocked, mouseCaptureMap, consumed, owed, down>>
             /\ stack' = << >> \/ stack'[1].proc # "onMouseButton"
  <2>1. /\ Begin([kind |-> "hover", isDown |-> FALSE, by |-> p], b, << >>)
        /\ down' = down /\ under' = under
    BY <1>9 DEF onMouseHover
  <2>2. /\ StackInv'
        /\ \A i \in 1 .. Len(stack') : stack'[i].pc = "enter"
        /\ stack = << >> /\ event = NoEvent
        /\ UNCHANGED <<treeVars, isBlocked, mouseCaptureMap, consumed, owed>>
    BY <1>2, <1>4, <2>1, Begins
  <2>3. stack' = << >> \/ stack' = << Call("onHoverChanged", Root) >>
    <3>1. \/ stack' = << >> \o << Call("onHoverChanged", Root) >>
          \/ stack' = << >> \o << >>
      BY <2>1 DEF Begin
    <3>2. QED
      BY <3>1, Joined
  <2>4. stack' = << >> \/ stack'[1].proc = "onHoverChanged"
    BY <1>5, <2>3 DEF Methods
  <2>5. QED
    BY <2>1, <2>2, <2>4
<1>10. QED
  BY <1>1, <1>7, <1>8, <1>9

-----------------------------------------------------------------------------
(* What user code calls *)

\* No call in progress loops through the list of children that changes, if one
\* does; containers that loop stay blocked, or the program lays some out; and
\* no widget that is called or waited for is destroyed.
LEMMA UserStacked ==
    ASSUME Stacked, UNCHANGED <<program, mouseCaptureMap, stack, event>>,
           \A i \in 1 .. Len(stack) : Loops(stack[i]) =>
               /\ children'[stack[i].of] = children[stack[i].of]
               /\ \/ isBlocked'[stack[i].of] = isBlocked[stack[i].of]
                  \/ \E c \in Containers : <<"layOut", c>> \in program.calls,
           alive' \subseteq alive,
           \/ alive' = alive
           \/ /\ event = NoEvent \/ InUserCode
              /\ \A i \in 1 .. Len(stack) : stack[i].of \notin alive \ alive'
    PROVE  Stacked'
<1>1. /\ stack \in Seq(CallType) /\ StackOK(stack)
      /\ LoopsOK(stack, children, isBlocked) /\ PassingOK(stack)
      /\ event = NoEvent => stack = << >>
  BY DEF Stacked
<1>2. LoopsOK(stack, children, isBlocked)'
  BY <1>1 DEF LoopsOK
<1>3. ASSUME NEW i \in 1 .. Len(stack), stack[i].proc = "onMouseButton"
      PROVE  Passes(stack[i], mouseCaptureMap[stack[i].of][pointer],
                    Awaited(stack, i), alive', children'[stack[i].of])
  <2> DEFINE e == mouseCaptureMap[stack[i].of][pointer]
  <2>1. Passes(stack[i], e, Awaited(stack, i), alive, children[stack[i].of])
    BY <1>1, <1>3 DEF PassingOK
  <2>2. stack[i].pc # "enter" => children'[stack[i].of] = children[stack[i].of]
    BY <1>3 DEF Loops
  <2>3. stack[i].pc \in {"captured", "count"} => e.by \in alive'
    <3>1. CASE alive' = alive
      BY <2>1, <3>1 DEF Passes
    <3>2. CASE InUserCode /\ \A j \in 1 .. Len(stack) : stack[j].of \notin alive \ alive'
      <4>1. /\ stack # << >> /\ Len(stack) \in Nat \ {0} /\ Top = stack[Len(stack)]
            /\ Top.proc = "user"
        BY <3>2, TopTyped DEF InUserCode
      <4>2. i < Len(stack) /\ i + 1 \in 1 .. Len(stack)
        BY <1>3, <4>1
      <4>3. Awaited(stack, i) = {stack[i + 1].of}
        BY <4>2 DEF Awaited
      <4>4. stack[i].pc \in {"captured", "count"} =>
                e.by \in alive /\ e.by = stack[i + 1].of
        BY <2>1, <4>3 DEF Passes
      <4>5. QED
        BY <3>2, <4>2, <4>4
    <3>3. CASE event = NoEvent
      <4>1. stack = << >> /\ Len(stack) = 0
        BY <1>1, <3>3, EmptySeq
      <4>2. QED
        BY <4>1
    <3>4. QED
      BY <3>1, <3>2, <3>3
  <2>4. QED
    BY <2>1, <2>2, <2>3 DEF Passes
<1>4. PassingOK(stack)'
  BY <1>3 DEF PassingOK, pointer
<1>5. QED
  BY <1>1, <1>2, <1>4 DEF Stacked

\* A list of children changes that is not blocked: no loop goes through it.
LEMMA ListChanges ==
    ASSUME StackInv, LayOutsApart, NEW c \in Containers, ~isBlocked[c],
           NEW call \in {"add", "remove", "makeTopmost"}, NEW w \in Widgets,
           <<call, w>> \in program.calls,
           NEW s \in Seq(Below(c)), children' = [children EXCEPT ![c] = s],
           hovered' \in [Widgets -> SUBSET Pointers],
           UNCHANGED <<program, visible, enabled, alive, isBlocked, under>>, UserCall
    PROVE  /\ StackInv'
           /\ \A i \in 1 .. Len(stack) : Loops(stack[i]) => stack[i].of # c
<1>1. /\ TreeTyped /\ EventTyped /\ CaptureTyped /\ Stacked
      /\ UNCHANGED <<mouseCaptureMap, stack, consumed, event, down, owed>>
  BY DEF StackInv, UserCall, inputVars
<1>2. ASSUME NEW d \in Containers
      PROVE  <<"layOut", d>> \notin program.calls
  <2>1. ASSUME <<"layOut", d>> \in program.calls
        PROVE  FALSE
    <3>1. \A x, y \in program.calls :
              x[1] = "layOut" => y[1] \notin {"add", "remove", "makeTopmost"}
      BY <1>1 DEF LayOutsApart, TreeTyped
    <3>2. <<"layOut", d>>[1] = "layOut" /\ <<call, w>>[1] = call
      OBVIOUS
    <3>3. QED
      BY <2>1, <3>1, <3>2
  <2>2. QED
    BY <2>1
<1>3. ASSUME NEW i \in 1 .. Len(stack), Loops(stack[i])
      PROVE  stack[i].of # c
  <2>1. isBlocked[stack[i].of]
    BY <1>1, <1>2, <1>3 DEF Stacked, LoopsOK
  <2>2. QED
    BY <2>1
<1>4. /\ children' \in [Containers -> Seq(Widgets)]
      /\ \A d \in Containers : children'[d] \in Seq(Below(d))
      /\ \A d \in Containers \ {c} : children'[d] = children[d]
  <2>1. s \in Seq(Widgets)
    <3>1. Below(c) \subseteq Widgets
      BY DEF Below
    <3>2. QED
      BY <3>1, SeqMonotonic
  <2>2. children \in [Containers -> Seq(Widgets)]
        /\ \A d \in Containers : children[d] \in Seq(Below(d))
    BY <1>1 DEF TreeTyped
  <2>3. QED
    BY <2>1, <2>2
<1>5. \A i \in 1 .. Len(stack) : Loops(stack[i]) =>
          children'[stack[i].of] = children[stack[i].of]
  <2>1. TAKE i \in 1 .. Len(stack)
  <2>2. HAVE Loops(stack[i])
  <2>3. stack[i].of \in Containers \ {c}
    BY <1>1, <1>3, <2>2 DEF Stacked, StackOK, IsCall, Loops
  <2>4. QED
    BY <1>4, <2>3
<1>6. Stacked'
  BY <1>1, <1>5, UserStacked
<1>7. TreeTyped'
  BY <1>1, <1>4 DEF TreeTyped
<1>8. EventTyped' /\ CaptureTyped'
  BY <1>1 DEF EventTyped, CaptureTyped, pointer
<1>9. QED
  BY <1>3, <1>6, <1>7, <1>8 DEF StackInv

\* What user code calls keeps the stack invariant, destroys no container, and
\* changes no list that a loop goes through.
LEMMA UserCodeKeeps ==
    ASSUME StackInv, LayOutsApart, UNCHANGED program, UserCode
    PROVE  /\ StackInv' /\ UserCall /\ alive' \subseteq alive
           /\ \A i \in 1 .. Len(stack) : Loops(stack[i]) =>
                  children'[stack[i].of] = children[stack[i].of]
           /\ event = NoEvent \/ InUserCode
<1>1. /\ TreeTyped /\ EventTyped /\ CaptureTyped /\ Stacked
  BY DEF StackInv
<1>2. /\ hovered \in [Widgets -> SUBSET Pointers] /\ children \in [Containers -> Seq(Widgets)]
      /\ alive \subseteq Widgets /\ Containers \subseteq alive
      /\ isBlocked \in [Containers -> BOOLEAN] /\ program \in Programs
  BY <1>1 DEF TreeTyped
<1>3. \A i \in 1 .. Len(stack) : Loops(stack[i]) => stack[i].of \in Containers
  BY <1>1 DEF Stacked, StackOK, IsCall, Loops
<1>4. ASSUME NEW c \in Containers, NEW w \in Widgets,
             \/ remove(c, w) \/ makeTopmost(c, w)
             \/ \E i \in 1 .. Len(children[c]) + 1 : add(c, w, i)
      PROVE  /\ StackInv' /\ UserCall /\ alive' = alive
             /\ \A i \in 1 .. Len(stack) : Loops(stack[i]) =>
                    children'[stack[i].of] = children[stack[i].of]
             /\ event = NoEvent \/ InUserCode
  <2>1. [hovered EXCEPT ![w] = {}] \in [Widgets -> SUBSET Pointers]
    BY <1>2
  <2>2. children[c] \in Seq(Below(c))
    BY <1>1 DEF TreeTyped
  <2>3. w \in ToSet(children[c]) => w \in Below(c)
    <3>1. DOMAIN children[c] = 1 .. Len(children[c])
      BY <2>2, LenProperties
    <3>2. QED
      BY <2>2, <3>1, ElementOfSeq DEF ToSet
  <2>4. RemoveFirst(children[c], w) \in Seq(Below(c))
    BY <2>2, RemoveTyped
  <2>5. CASE remove(c, w)
    <3> DEFINE s == RemoveFirst(children[c], w)
               call == "remove"
    <3>1. /\ children' = [children EXCEPT ![c] = s]
          /\ ~isBlocked[c] /\ <<call, w>> \in program.calls
          /\ hovered' = [hovered EXCEPT ![w] = {}] /\ UserCall
          /\ UNCHANGED <<visible, enabled, alive, isBlocked, under>>
          /\ event = NoEvent \/ InUserCode
      BY <2>5 DEF remove, UserCodeRuns
    <3>2. /\ s \in Seq(Below(c)) /\ call \in {"add", "remove", "makeTopmost"}
          /\ hovered' \in [Widgets -> SUBSET Pointers]
      BY <2>1, <2>4, <3>1
    <3> HIDE DEF s, call
    <3>3. /\ StackInv'
          /\ \A i \in 1 .. Len(stack) : Loops(stack[i]) => stack[i].of # c
      BY <3>1, <3>2, ListChanges
    <3>4. QED
      BY <1>2, <1>3, <3>1, <3>3
  <2>6. CASE makeTopmost(c, w)
    <3> DEFINE s == Append(RemoveFirst(children[c], w), w)
               call == "makeTopmost"
    <3>1. /\ children' = [children EXCEPT ![c] = s]
          /\ ~isBlocked[c] /\ <<call, w>> \in program.calls /\ IsChild(w, c)
          /\ hovered' = [hovered EXCEPT ![w] = {}] /\ UserCall
          /\ UNCHANGED <<visible, enabled, alive, isBlocked, under>>
          /\ event = NoEvent \/ InUserCode
      BY <2>6 DEF makeTopmost, UserCodeRuns
    <3>2. s \in Seq(Below(c))
      BY <2>3, <2>4, <3>1, AppendProperties DEF IsChild
    <3>3. call \in {"add", "remove", "makeTopmost"} /\ hovered' \in [Widgets -> SUBSET Pointers]
      BY <2>1, <3>1
    <3> HIDE DEF s, call
    <3>4. /\ StackInv'
          /\ \A i \in 1 .. Len(stack) : Loops(stack[i]) => stack[i].of # c
      BY <3>1, <3>2, <3>3, ListChanges
    <3>5. QED
      BY <1>2, <1>3, <3>1, <3>4
  <2>7. CASE \E i \in 1 .. Len(children[c]) + 1 : add(c, w, i)
    <3>1. PICK i \in 1 .. Len(children[c]) + 1 : add(c, w, i)
      BY <2>7
    <3> DEFINE s == InsertAt(children[c], i, w)
               call == "add"
    <3>2. /\ children' = [children EXCEPT ![c] = s]
          /\ ~isBlocked[c] /\ <<call, w>> \in program.calls
          /\ w \in Containers => c = Root
          /\ hovered' = hovered /\ UserCall
          /\ UNCHANGED <<visible, enabled, alive, isBlocked, under>>
          /\ event = NoEvent \/ InUserCode
      BY <3>1 DEF add, UserCodeRuns
    <3>3. w # Root
      BY <1>2, <3>2, ProgramTyped
    <3>4. s \in Seq(Below(c))
      BY <2>2, <3>2, <3>3, InsertTyped DEF Below
    <3>5. call \in {"add", "remove", "makeTopmost"} /\ hovered' \in [Widgets -> SUBSET Pointers]
      BY <1>2, <3>2
    <3> HIDE DEF s, call
    <3>6. /\ StackInv'
          /\ \A j \in 1 .. Len(stack) : Loops(stack[j]) => stack[j].of # c
      BY <3>2, <3>4, <3>5, ListChanges
    <3>7. QED
      BY <1>2, <1>3, <3>2, <3>6
  <2>8. QED
    BY <1>4, <2>5, <2>6, <2>7
<1>5. ASSUME NEW w \in Widgets, setVisible(w) \/ setEnabled(w) \/ move(w)
      PROVE  /\ StackInv' /\ UserCall /\ UNCHANGED <<children, alive>>
             /\ event = NoEvent \/ InUserCode
  <2>1. /\ UserCall /\ UNCHANGED <<children, alive, isBlocked>>
        /\ visible' \subseteq Widgets /\ enabled' \subseteq Widgets
        /\ hovered' \in [Widgets -> SUBSET Pointers] /\ under' \subseteq Widgets
        /\ event = NoEvent \/ InUserCode
    <3>1. visible \subseteq Widgets /\ enabled \subseteq Widgets /\ under \subseteq Widgets
      BY <1>1 DEF TreeTyped
    <3>2. [hovered EXCEPT ![w] = {}] \in [Widgets -> SUBSET Pointers]
      BY <1>2
    <3>3. CASE setVisible(w)
      BY <1>2, <3>1, <3>2, <3>3 DEF setVisible, UserCodeRuns
    <3>4. CASE setEnabled(w)
      BY <1>2, <3>1, <3>4 DEF setEnabled, UserCodeRuns
    <3>5. CASE move(w)
      BY <1>2, <3>1, <3>5 DEF move, UserCodeRuns, treeVars
    <3>6. QED
      BY <1>5, <3>3, <3>4, <3>5
  <2>2. UNCHANGED <<mouseCaptureMap, stack, consumed, event, down, owed>>
    BY <2>1 DEF UserCall, inputVars
  <2>3. Stacked'
    BY <1>1, <2>1, <2>2, UserStacked
  <2>4. TreeTyped' /\ EventTyped' /\ CaptureTyped'
    BY <1>1, <2>1, <2>2 DEF TreeTyped, EventTyped, CaptureTyped, pointer
  <2>5. QED
    BY <2>1, <2>3, <2>4 DEF StackInv
<1>6. ASSUME NEW w \in Widgets, destroy(w)
      PROVE  /\ StackInv' /\ UserCall /\ UNCHANGED children /\ alive' = alive \ {w}
             /\ event = NoEvent \/ InUserCode
  <2>1. /\ UserCall /\ UNCHANGED <<children, visible, enabled, isBlocked, hovered, under>>
        /\ alive' = alive \ {w} /\ w \notin Containers
        /\ event = NoEvent \/ InUserCode
        /\ \A i \in DOMAIN stack : stack[i].of # w
    BY <1>6 DEF destroy, UserCodeRuns
  <2>2. UNCHANGED <<mouseCaptureMap, stack, consumed, event, down, owed>>
    BY <2>1 DEF UserCall, inputVars
  <2>3. \A i \in 1 .. Len(stack) : stack[i].of # w
    <3>1. DOMAIN stack = 1 .. Len(stack)
      BY <1>1, LenProperties DEF Stacked
    <3>2. QED
      BY <2>1, <3>1
  <2>4. \A i \in 1 .. Len(stack) : stack[i].of \notin alive \ alive'
    BY <2>1, <2>3
  <2>5. Stacked'
    BY <1>1, <2>1, <2>2, <2>4, UserStacked
  <2>6. TreeTyped' /\ EventTyped' /\ CaptureTyped'
    BY <1>1, <2>1, <2>2 DEF TreeTyped, EventTyped, CaptureTyped, pointer
  <2>7. QED
    BY <2>1, <2>5, <2>6 DEF StackInv
<1>7. ASSUME NEW c \in Containers, layOut(c)
      PROVE  /\ StackInv' /\ UserCall /\ UNCHANGED <<children, alive>>
             /\ event = NoEvent \/ InUserCode
  <2>1. /\ UserCall /\ UNCHANGED <<children, visible, enabled, alive, hovered, under>>
        /\ isBlocked' = [isBlocked EXCEPT ![c] = FALSE]
        /\ <<"layOut", c>> \in program.calls
        /\ event = NoEvent \/ InUserCode
    BY <1>7 DEF layOut, UserCodeRuns, treeVars
  <2>2. UNCHANGED <<mouseCaptureMap, stack, consumed, event, down, owed>>
    BY <2>1 DEF UserCall, inputVars
  <2>3. Stacked'
    BY <1>1, <2>1, <2>2, UserStacked
  <2>4. TreeTyped' /\ EventTyped' /\ CaptureTyped'
    BY <1>1, <2>1, <2>2 DEF TreeTyped, EventTyped, CaptureTyped, pointer
  <2>5. QED
    BY <2>1, <2>3, <2>4 DEF StackInv
<1>8. \/ \E c \in Containers, w \in Widgets :
            \/ remove(c, w) \/ makeTopmost(c, w)
            \/ \E i \in 1 .. Len(children[c]) + 1 : add(c, w, i)
      \/ \E w \in Widgets : setVisible(w) \/ setEnabled(w) \/ move(w)
      \/ \E w \in Widgets : destroy(w)
      \/ \E c \in Containers : layOut(c)
  BY DEF UserCode
<1>9. QED
  BY <1>4, <1>5, <1>6, <1>7, <1>8

-----------------------------------------------------------------------------
(* The stack invariant holds, and with it the theorems about the stack *)

LEMMA InitStack ==
    Init => StackInv
<1> SUFFICES ASSUME Init PROVE StackInv
  OBVIOUS
<1> USE DEF Init
<1>1. \A c \in Containers : InitialChildren[c] \in Seq(Below(c))
  <2>1. TAKE c \in Containers
  <2>2. InitialChildren[c] \in Seq(Widgets \ {Root}) /\ Containers \subseteq Widgets
    BY MouseAssumption
  <2>3. CASE c = Root
    <3>1. Below(c) = Widgets \ {Root}
      BY <2>3 DEF Below
    <3>2. QED
      BY <2>2, <3>1
  <2>4. CASE c # Root
    <3>1. ToSet(InitialChildren[c]) \cap Containers = {}
      BY <2>1, <2>4, MouseAssumption
    <3>2. InitialChildren[c] \in [1 .. Len(InitialChildren[c]) -> Widgets \ {Root}]
          /\ DOMAIN InitialChildren[c] = 1 .. Len(InitialChildren[c])
          /\ Len(InitialChildren[c]) \in Nat
      BY <2>2, LenProperties
    <3>3. \A i \in 1 .. Len(InitialChildren[c]) : InitialChildren[c][i] \in Below(c)
      BY <3>1, <3>2 DEF ToSet, Below
    <3>4. InitialChildren[c] \in [1 .. Len(InitialChildren[c]) -> Below(c)]
      BY <3>2, <3>3
    <3>5. QED
      BY <3>2, <3>4, SeqDef
  <2>5. QED
    BY <2>3, <2>4
<1>2. children \in [Containers -> Seq(Widgets)]
  <2>1. Seq(Widgets \ {Root}) \subseteq Seq(Widgets)
    BY SeqMonotonic
  <2>2. InitialChildren \in [Containers -> Seq(Widgets \ {Root})]
    BY MouseAssumption
  <2>3. QED
    BY <2>1, <2>2
<1>3. TreeTyped
  BY <1>1, <1>2, MouseAssumption DEF TreeTyped
<1>4. NoEvent.by \in Pointers /\ NoEvent.isDown = FALSE
      /\ NoEvent \in [kind : {"none", "move", "button", "hover"}, isDown : BOOLEAN, by : Pointers]
  <2>1. NoEvent.by \in Pointers
    BY MouseAssumption DEF NoEvent
  <2>2. QED
    BY <2>1 DEF NoEvent
<1>5. EventTyped
  BY <1>4 DEF EventTyped
<1>6. CaptureTyped
  BY DEF CaptureTyped, NoCapture
<1>7. Stacked
  <2>1. << >> \in Seq(CallType) /\ StackOK(<< >>)
    BY DEF StackOK
  <2>2. QED
    BY <2>1 DEF Stacked, LoopsOK, PassingOK
<1>8. QED
  BY <1>3, <1>5, <1>6, <1>7 DEF StackInv

LEMMA StackStays ==
    StackInv /\ UNCHANGED vars => StackInv'
<1> SUFFICES ASSUME StackInv, UNCHANGED vars
             PROVE  StackInv'
  OBVIOUS
<1>1. UNCHANGED <<program, children, visible, enabled, alive, isBlocked,
                  mouseCaptureMap, hovered, stack, under, consumed, event, down, owed>>
  BY DEF vars, treeVars, inputVars
<1>2. TreeTyped' /\ EventTyped' /\ CaptureTyped'
  BY <1>1 DEF StackInv, TreeTyped, EventTyped, CaptureTyped, pointer
<1>3. Stacked'
  BY <1>1, UserStacked DEF StackInv
<1>4. QED
  BY <1>2, <1>3 DEF StackInv

LEMMA StackKept ==
    LayOutsApart /\ StackInv /\ [Next]_vars => StackInv'
<1> SUFFICES ASSUME LayOutsApart, StackInv, [Next]_vars
             PROVE  StackInv'
  OBVIOUS
<1>1. CASE UNCHANGED vars
  BY <1>1, StackStays
<1>2. CASE Next
  <2>1. UNCHANGED program
    BY <1>2 DEF Next
  <2>2. CASE UserCode
    BY <2>1, <2>2, UserCodeKeeps
  <2>3. CASE Events
    BY <2>1, <2>3, EventsKeep
  <2>4. CASE Dispatch
    <3>1. CASE HoverChangedEnter \/ HoverChangedLoop
      BY <2>1, <3>1, HoverChangedKeeps
    <3>2. CASE MoveEnter \/ MoveLoop \/ Moved \/ MoveRest
      BY <2>1, <3>2, MouseMoveKeeps
    <3>3. CASE ButtonEnter
      BY <2>1, <3>3, ButtonEnterKeeps
    <3>4. CASE ButtonCaptured
      BY <2>1, <3>4, ButtonCapturedKeeps
    <3>5. CASE ButtonCount
      BY <2>1, <3>5, ButtonCountKeeps
    <3>6. CASE ButtonLoop
      BY <2>1, <3>6, ButtonLoopKeeps
    <3>7. CASE ButtonHovered
      BY <2>1, <3>7, ButtonHoveredKeeps
    <3>8. CASE ButtonTried
      BY <2>1, <3>8, ButtonTriedKeeps
    <3>9. CASE UserReturns
      BY <2>1, <3>9, UserReturnsKeeps
    <3>10. CASE EventHandled
      BY <2>1, <3>10, EventHandledKeeps
    <3>11. QED
      BY <2>4, <3>1, <3>2, <3>3, <3>4, <3>5, <3>6, <3>7, <3>8, <3>9, <3>10 DEF Dispatch
  <2>5. QED
    BY <1>2, <2>2, <2>3, <2>4 DEF Next
<1>3. QED
  BY <1>1, <1>2

LEMMA StackHolds ==
    ASSUME LayOutsApart
    PROVE  Spec => []StackInv
BY InitStack, StackKept, PTL DEF Spec

\* The state of the tree, of the entry maps and of the call stack stays within
\* its types in every program that changes no list of children or lays no
\* container out; among other things, the number of clicks that an entry of
\* mouseCaptureMap counts never goes below 0.
THEOREM TypeCorrect ==
    ASSUME LayOutsApart
    PROVE  Spec => []TypeOK
<1>1. StackInv => TypeOK
  BY DEF StackInv, TreeTyped, EventTyped, CaptureTyped, Stacked, TypeOK
<1>2. QED
  BY <1>1, StackHolds, PTL

\* No step changes the list of children of a container while a call of the
\* container's onMouseButton(), onMouseMove() or onHoverChanged() goes through
\* it, however deep the calls are nested and whatever user code does in the
\* innermost one.
THEOREM ChildrenAreStable ==
    ASSUME LayOutsApart
    PROVE  Spec => ChildrenStableInLoops
<1>1. ASSUME StackInv, [Next]_vars
      PROVE  [\A c \in Containers : Iterating(c) => UNCHANGED children[c]]_vars
  <2>1. ASSUME Next, UserCode, NEW c \in Containers, Iterating(c)
        PROVE  UNCHANGED children[c]
    <3>1. \A i \in 1 .. Len(stack) : Loops(stack[i]) =>
              children'[stack[i].of] = children[stack[i].of]
      BY <1>1, <2>1, UserCodeKeeps DEF Next
    <3>2. DOMAIN stack = 1 .. Len(stack)
      BY <1>1, LenProperties DEF StackInv, Stacked
    <3>3. QED
      BY <2>1, <3>1, <3>2 DEF Iterating, Loops
  <2>2. ASSUME Events \/ Dispatch
        PROVE  UNCHANGED children
    <3>1. CASE Events
      BY <1>1, <3>1 DEF Events, onMouseMove, onMouseButton, onMouseHover, Begin, treeVars
    <3>2. CASE Dispatch
      BY <3>2 DEF Dispatch, HoverChangedEnter, HoverChangedLoop, MoveEnter, MoveLoop,
        Moved, MoveRest, ButtonEnter, ButtonCaptured, ButtonCount, ButtonLoop,
        ButtonHovered, ButtonTried, UserReturns, EventHandled, treeVars
    <3>3. QED
      BY <2>2, <3>1, <3>2
  <2>3. QED
    BY <1>1, <2>1, <2>2 DEF Next
<1>2. QED
  BY <1>1, StackHolds, PTL DEF Spec, ChildrenStableInLoops

\* When a child consumed a press or a release that its container tried on it,
\* the pointer is not captured by any child of the container: what the
\* assertion in Container::onMouseButton() says.
THEOREM NoneCapturesTwice ==
    ASSUME LayOutsApart
    PROVE  Spec => []NotCapturedYet
<1>1. StackInv => NotCapturedYet
  BY TopPasses DEF NotCapturedYet
<1>2. QED
  BY <1>1, StackHolds, PTL

-----------------------------------------------------------------------------
(* What captures a pointer, and who waits for a release *)

\* The call that a call of onMouseButton() was made by, and what its
\* container remembers of the pointer.
LEMMA Caller ==
    ASSUME StackInv, NEW i \in 1 .. Len(stack), i > 1,
           Method(stack[i]) = "onMouseButton",
           NEW f, f = stack[i - 1],
           NEW e, e = mouseCaptureMap[f.of][pointer]
    PROVE  /\ f.proc = "onMouseButton" /\ f.of \in Containers
           /\ stack[i].of \in Below(f.of)
           /\ \/ f.pc = "count" /\ e.by = stack[i].of /\ e.by \in alive
              \/ f.pc = "tried" /\ e = NoCapture /\ stack[i].of = children[f.of][f.at]
<1>1. /\ stack \in Seq(CallType) /\ StackOK(stack) /\ PassingOK(stack)
      /\ Len(stack) \in Nat
  BY LenProperties DEF StackInv, Stacked
<1>2. /\ i - 1 \in 1 .. Len(stack) /\ i - 1 < Len(stack) /\ (i - 1) + 1 = i
      /\ i - 1 < i
  BY <1>1
<1>3. CalledBy(stack[i], f, i - 1) /\ IsCall(f)
  BY <1>1, <1>2 DEF StackOK
<1>4. f.proc # "user" /\ f.pc # "enter" /\ Calls(f) = "onMouseButton"
  BY <1>3 DEF CalledBy
<1>5. f.proc = "onMouseButton" /\ f.pc \in {"count", "tried"} /\ f.of \in Containers
  BY <1>3, <1>4 DEF Calls, IsCall
<1>6. stack[i].of \in Below(f.of)
  BY <1>1, <1>2, <1>4 DEF StackOK
<1>7. Passes(f, e, Awaited(stack, i - 1), alive, children[f.of])
  BY <1>1, <1>2, <1>5 DEF PassingOK
<1>8. Awaited(stack, i - 1) = {stack[i].of}
  BY <1>2 DEF Awaited
<1>9. QED
  BY <1>5, <1>6, <1>7, <1>8 DEF Passes

\* The innermost call of onMouseButton() is the root's, or is of a container
\* in the root that the root passes the event to.
LEMMA CalledByRoot ==
    ASSUME StackInv, NEW i \in 1 .. Len(stack),
           Method(stack[i]) = "onMouseButton", stack[i].of \in Containers,
           NEW f, f = stack[i - 1],
           NEW r, r = mouseCaptureMap[Root][pointer]
    PROVE  /\ i = 1 <=> stack[i].of = Root
           /\ i > 1 => /\ f.proc = "onMouseButton" /\ f.of = Root
                       /\ \/ f.pc = "count" /\ r.by = stack[i].of /\ r.by \in alive
                          \/ /\ f.pc = "tried" /\ r = NoCapture
                             /\ stack[i].of = children[Root][f.at]
<1>1. Len(stack) \in Nat /\ stack # << >> /\ stack[1].of = Root
  <2>1. stack \in Seq(CallType) /\ StackOK(stack) /\ Len(stack) \in Nat
    BY LenProperties DEF StackInv, Stacked
  <2>2. stack # << >>
    BY <2>1, EmptySeq
  <2>3. QED
    BY <2>1, <2>2 DEF StackOK
<1>2. CASE i = 1
  BY <1>1, <1>2
<1>3. CASE i > 1
  <2> DEFINE e == mouseCaptureMap[f.of][pointer]
  <2>1. e = mouseCaptureMap[f.of][pointer]
    OBVIOUS
  <2> HIDE DEF e
  <2>2. /\ f.proc = "onMouseButton" /\ f.of \in Containers
        /\ stack[i].of \in Below(f.of)
        /\ \/ f.pc = "count" /\ e.by = stack[i].of /\ e.by \in alive
           \/ f.pc = "tried" /\ e = NoCapture /\ stack[i].of = children[f.of][f.at]
    BY <1>3, <2>1, Caller
  <2>3. f.of = Root /\ stack[i].of # Root
    BY <2>2 DEF Below
  <2>4. e = r
    BY <2>1, <2>3
  <2>5. QED
    BY <1>1, <1>3, <2>2, <2>3, <2>4
<1>4. i = 1 \/ i > 1
  BY <1>1
<1>5. QED
  BY <1>2, <1>3, <1>4

\* The call that is made, if one is.
Called(cs) == cs = << >> \/ \E m, w : cs = << Call(m, w) >>

\* After a call that goes on, every entry says what its container remembers.
LEMMA GoesOnView ==
    ASSUME StackInv, stack # << >>, Top.proc # "user",
           NEW pc, NEW k, NEW cs, Continue(pc, k, cs), StackInv',
           Top.proc = "onMouseButton" /\ pc \in {"count", "tried"} => cs # << >>,
           Called(cs), UNCHANGED <<event, down>>
    PROVE  /\ \A c \in Containers : \A p \in Pointers :
                  Entry(c, p)' = mouseCaptureMap'[c][p]
           /\ \A p \in Pointers : Held(p)' = Held(p)
<1> DEFINE f == [Top EXCEPT !.pc = pc, !.at = k]
           n == Len(stack)
<1>1. /\ stack \in Seq(CallType) /\ n \in Nat \ {0} /\ Top \in CallType /\ Top = stack[n]
  BY TopTyped DEF StackInv, Stacked
<1>2. f.proc = Top.proc /\ f.pc = pc /\ f.of = Top.of
  BY <1>1 DEF CallType
<1>3. stack' = Append(Front(stack), f) \o cs
  BY DEF Continue
<1>4. /\ Front(stack) \in Seq(CallType) /\ Len(Front(stack)) = n - 1
      /\ \A i \in 1 .. n - 1 : Front(stack)[i] = stack[i]
  BY <1>1, WithoutTop
<1>5. CASE cs = << >>
  <2> DEFINE S == CallType \cup {f}
             s == Append(Front(stack), f)
  <2>1. s \in Seq(S) /\ Len(s) = n /\ s[n] = f /\ \A i \in 1 .. n - 1 : s[i] = stack[i]
    <3>1. Front(stack) \in Seq(S) /\ f \in S
      BY <1>4, SeqMonotonic
    <3>2. QED
      BY <1>1, <1>4, <3>1, AppendProperties
  <2>2. stack' = s
    <3>1. s \o << >> = s
      BY <2>1, ConcatEmptySeq
    <3>2. QED
      BY <1>3, <1>5, <3>1
  <2> HIDE DEF s, f
  <2>3. stack' # << >> /\ Top' = f
    BY <1>1, <2>1, <2>2, EmptySeq DEF Top, Last
  <2>4. stack'[1].proc = stack[1].proc
    <3>1. CASE n = 1
      BY <1>1, <1>2, <2>1, <2>2, <3>1
    <3>2. CASE n # 1
      BY <1>1, <2>1, <2>2, <3>2
    <3>3. QED
      BY <3>1, <3>2
  <2>5. ~(Top'.proc = "onMouseButton" /\ Top'.pc \in {"count", "tried"})
    BY <1>2, <1>5, <2>3
  <2>6. \A c \in Containers : \A p \in Pointers :
            Entry(c, p)' = mouseCaptureMap'[c][p]
    BY <2>5 DEF Entry
  <2>7. \A p \in Pointers : Held(p)' = Held(p)
    BY <2>3, <2>4 DEF Held, pointer
  <2>8. QED
    BY <2>6, <2>7
<1>6. CASE cs # << >>
  <2>1. PICK m, w : cs = << Call(m, w) >>
    BY <1>6 DEF Called
  <2> DEFINE g == Call(m, w)
             S == CallType \cup {f, g}
             r == Append(Front(stack), f)
             s == r \o << g >>
  <2>2. g.proc = "user" \/ g.pc = "enter"
    BY DEF Call
  <2>3. g \in S
    OBVIOUS
  <2>4. /\ r \in Seq(S) /\ Len(r) = n /\ r[n] = f /\ \A i \in 1 .. n - 1 : r[i] = stack[i]
    <3>1. Front(stack) \in Seq(S) /\ f \in S
      BY <1>4, SeqMonotonic
    <3>2. QED
      BY <1>1, <1>4, <3>1, AppendProperties
  <2>5. stack' = s
    BY <1>3, <2>1
  <2> HIDE DEF r, g, f
  <2>6. s = Append(r, g)
    BY <2>3, <2>4, AppendIsConcat
  <2>7. /\ s \in Seq(S) /\ Len(s) = n + 1 /\ s[n + 1] = g
        /\ \A i \in 1 .. n : s[i] = r[i]
    BY <1>1, <2>3, <2>4, <2>6, AppendProperties
  <2> HIDE DEF s
  <2>8. stack' # << >> /\ Top' = g
    BY <1>1, <2>5, <2>7, EmptySeq DEF Top, Last
  <2>9. stack'[1].proc = stack[1].proc
    <3>1. CASE n = 1
      BY <1>1, <1>2, <2>4, <2>5, <2>7, <3>1
    <3>2. CASE n # 1
      BY <1>1, <2>4, <2>5, <2>7, <3>2
    <3>3. QED
      BY <3>1, <3>2
  <2>10. ~(Top'.proc = "onMouseButton" /\ Top'.pc \in {"count", "tried"})
    BY <2>2, <2>8
  <2>11. \A c \in Containers : \A p \in Pointers :
            Entry(c, p)' = mouseCaptureMap'[c][p]
    BY <2>10 DEF Entry
  <2>12. \A p \in Pointers : Held(p)' = Held(p)
    BY <2>8, <2>9 DEF Held, pointer
  <2>13. QED
    BY <2>11, <2>12
<1>7. QED
  BY <1>5, <1>6

\* After the innermost call has returned, the one below is the innermost.
LEMMA ReturnsView ==
    ASSUME StackInv, StackInv', stack # << >>,
           NEW n, n = Len(stack), Len(stack') = n - 1,
           \A i \in 1 .. n - 1 : stack'[i] = stack[i],
           UNCHANGED <<event, down>>
    PROVE  /\ n \in Nat \ {0} /\ n \in 1 .. Len(stack) /\ Top = stack[n]
           /\ n = 1 => /\ stack' = << >>
                       /\ \A c \in Containers : \A p \in Pointers :
                              Entry(c, p)' = mouseCaptureMap'[c][p]
                       /\ \A p \in Pointers : Held(p)' = down[p]
           /\ n > 1 => /\ stack' # << >> /\ Top' = stack[n - 1]
                       /\ \A p \in Pointers : Held(p)' = Held(p)
<1>1. /\ n \in Nat \ {0} /\ n \in 1 .. Len(stack) /\ Top = stack[n]
  BY TopTyped DEF StackInv
<1>2. stack' \in Seq(CallType)
  BY DEF StackInv, Stacked
<1>3. ASSUME n = 1
      PROVE  /\ stack' = << >>
             /\ \A c \in Containers : \A p \in Pointers :
                    Entry(c, p)' = mouseCaptureMap'[c][p]
             /\ \A p \in Pointers : Held(p)' = down[p]
  <2>1. stack' = << >>
    BY <1>2, <1>3, EmptySeq
  <2>2. QED
    BY <2>1 DEF Entry, Held
<1>4. ASSUME n > 1
      PROVE  /\ stack' # << >> /\ Top' = stack[n - 1]
             /\ \A p \in Pointers : Held(p)' = Held(p)
  <2>1. stack' # << >> /\ n - 1 \in 1 .. n - 1 /\ 1 \in 1 .. n - 1
    BY <1>1, <1>2, <1>4, EmptySeq
  <2>2. Top' = stack[n - 1] /\ stack'[1] = stack[1]
    BY <2>1 DEF Top, Last
  <2>3. QED
    BY <2>1, <2>2 DEF Held, pointer
<1>5. QED
  BY <1>1, <1>3, <1>4

\* Nothing that CaptureInv is about changes, but for widgets destroyed.
LEMMA CaptureStays ==
    ASSUME CaptureInv, alive' \subseteq alive, UNCHANGED <<mouseCaptureMap, owed>>,
           \A c \in Containers : \A p \in Pointers : Entry(c, p)' = Entry(c, p),
           \A p \in Pointers : Held(p)' = Held(p), Root \in Containers
    PROVE  CaptureInv'
<1>1. \A p \in Pointers :
          LET r == mouseCaptureMap'[Root][p]
          IN r.by \in alive' => 1 <= r.clicks /\ r.clicks <= Held(p)'
  BY DEF CaptureInv
<1>2. \A p \in Pointers : \A c \in Containers \ {Root} :
          LET e == mouseCaptureMap'[c][p]
          IN e.by \in alive' =>
                 /\ Entry(Root, p)'.by = c
                 /\ 1 <= e.clicks /\ e.clicks <= Entry(Root, p)'.clicks
  BY DEF CaptureInv
<1>3. \A p \in Pointers : \A c \in Containers : \A w \in alive' \ Containers :
          Entry(c, p)'.by = w => owed'[w][p] = Entry(c, p)'.clicks
  BY DEF CaptureInv
<1>4. \A p \in Pointers : \A w \in alive' :
          owed'[w][p] > 0 =>
              w \notin Containers /\ \E c \in Containers : Entry(c, p)'.by = w
  BY DEF CaptureInv
<1>5. QED
  BY <1>1, <1>2, <1>3, <1>4 DEF CaptureInv

\* The innermost call is one of onMouseButton() that sets its entry next.
Answered ==
    /\ stack # << >> /\ Top.proc = "onMouseButton"
    /\ Top.pc = "count" \/ (Top.pc = "tried" /\ consumed)

\* While it is not, every entry says what its container remembers.
LEMMA EntryIsKept ==
    ASSUME ~Answered
    PROVE  \A c \in Containers : \A p \in Pointers :
               Entry(c, p) = mouseCaptureMap[c][p]
BY DEF Entry, Answered

\* A call goes on, and changes no entry.
LEMMA GoesOnCapture ==
    ASSUME StackInv, CaptureInv, StackInv', stack # << >>, Top.proc # "user",
           ~Answered,
           NEW pc, NEW k, NEW cs, Continue(pc, k, cs),
           Top.proc = "onMouseButton" /\ pc \in {"count", "tried"} => cs # << >>,
           Called(cs), UNCHANGED <<event, down, mouseCaptureMap, owed, alive>>
    PROVE  CaptureInv'
<1>1. \A c \in Containers : \A p \in Pointers : Entry(c, p) = mouseCaptureMap[c][p]
  BY EntryIsKept
<1>2. /\ \A c \in Containers : \A p \in Pointers :
             Entry(c, p)' = mouseCaptureMap'[c][p]
      /\ \A p \in Pointers : Held(p)' = Held(p)
  BY GoesOnView
<1>3. \A c \in Containers : \A p \in Pointers : Entry(c, p)' = Entry(c, p)
  BY <1>1, <1>2
<1>4. QED
  BY <1>2, <1>3, CaptureStays, MouseAssumption

\* A call returns that is none of onMouseButton().
LEMMA ReturnsCapture ==
    ASSUME StackInv, CaptureInv, StackInv', stack # << >>,
           Method(Top) # "onMouseButton",
           Len(stack') = Len(stack) - 1,
           \A i \in 1 .. Len(stack) - 1 : stack'[i] = stack[i],
           UNCHANGED <<event, down, mouseCaptureMap, owed, alive>>
    PROVE  CaptureInv'
<1> DEFINE n == Len(stack)
<1>1. n = Len(stack)
  OBVIOUS
<1> HIDE DEF n
<1>2. /\ n \in Nat \ {0} /\ n \in 1 .. Len(stack) /\ Top = stack[n]
      /\ n = 1 => /\ stack' = << >>
                  /\ \A c \in Containers : \A p \in Pointers :
                         Entry(c, p)' = mouseCaptureMap'[c][p]
                  /\ \A p \in Pointers : Held(p)' = down[p]
      /\ n > 1 => /\ stack' # << >> /\ Top' = stack[n - 1]
                  /\ \A p \in Pointers : Held(p)' = Held(p)
  BY <1>1, ReturnsView
<1>3. Top.proc # "onMouseButton"
  BY DEF Method
<1>4. \A c \in Containers : \A p \in Pointers : Entry(c, p) = mouseCaptureMap[c][p]
  BY <1>3, EntryIsKept DEF Answered
<1>5. CASE n = 1
  <2>1. stack[1] = Top
    BY <1>2, <1>5
  <2>2. \A p \in Pointers : Held(p) = down[p]
    BY <1>3, <2>1 DEF Held
  <2>3. QED
    <3>1. /\ \A c \in Containers : \A p \in Pointers : Entry(c, p)' = Entry(c, p)
          /\ \A p \in Pointers : Held(p)' = Held(p)
      BY <1>2, <1>4, <1>5, <2>2
    <3>2. QED
      BY <3>1, CaptureStays, MouseAssumption
<1>6. CASE n > 1
  <2> DEFINE f == stack[n - 1]
  <2>1. n - 1 \in 1 .. Len(stack) /\ n - 1 < Len(stack) /\ (n - 1) + 1 = n
    BY <1>1, <1>2, <1>6
  <2>2. CalledBy(Top, f, n - 1)
    BY <1>2, <2>1 DEF StackInv, Stacked, StackOK
  <2>3. ~(f.pc \in {"count", "tried"})
    BY <2>2 DEF CalledBy, Calls
  <2>4. Top' = f
    BY <1>2, <1>6
  <2>5. \A c \in Containers : \A p \in Pointers :
            Entry(c, p)' = mouseCaptureMap'[c][p]
    BY <2>3, <2>4 DEF Entry
  <2>6. QED
    BY <1>2, <1>4, <1>6, <2>5, CaptureStays, MouseAssumption
<1>7. QED
  BY <1>2, <1>5, <1>6

LEMMA HoverCalls ==
    /\ \A w, is : Called(HoverCall(w, is))
    /\ \A m, w : Called(<< Call(m, w) >>)
    /\ Called(<< >>)
BY DEF Called, HoverCall

LEMMA HoveringCaptures ==
    ASSUME StackInv, CaptureInv, StackInv',
           \/ HoverChangedEnter \/ HoverChangedLoop
           \/ MoveEnter \/ MoveLoop \/ Moved \/ MoveRest
    PROVE  CaptureInv'
<1>1. /\ UNCHANGED <<event, down, mouseCaptureMap, owed, alive>>
      /\ \E m \in {"onHoverChanged", "onMouseMove"}, pc \in {"enter", "loop", "moved", "rest"} :
             InCall(m, pc)
  <2>1. CASE HoverChangedEnter
    BY <2>1 DEF HoverChangedEnter, treeVars, inputVars
  <2>2. CASE HoverChangedLoop
    BY <2>2 DEF HoverChangedLoop, treeVars, inputVars
  <2>3. CASE MoveEnter
    BY <2>3 DEF MoveEnter, treeVars, inputVars
  <2>4. CASE MoveLoop
    BY <2>4 DEF MoveLoop, treeVars, inputVars
  <2>5. CASE Moved
    BY <2>5 DEF Moved, treeVars, inputVars
  <2>6. CASE MoveRest
    BY <2>6 DEF MoveRest, treeVars, inputVars
  <2>7. QED
    BY <2>1, <2>2, <2>3, <2>4, <2>5, <2>6
<1>2. /\ stack # << >> /\ Top.proc \in {"onHoverChanged", "onMouseMove"}
      /\ Top.proc # "user" /\ Top.proc # "onMouseButton"
  BY <1>1 DEF InCall
<1>3. Method(Top) # "onMouseButton"
  BY <1>2 DEF Method
<1>4. CASE LeaveLoop
  <2>1. stack' = Front(stack) /\ stack \in Seq(CallType)
    BY <1>4 DEF LeaveLoop, StackInv, Stacked
  <2>2. Len(stack') = Len(stack) - 1 /\ \A i \in 1 .. Len(stack) - 1 : stack'[i] = stack[i]
    BY <1>2, <2>1, WithoutTop
  <2>3. QED
    BY <1>1, <1>2, <1>3, <2>2, ReturnsCapture
<1>5. ASSUME NEW pc, NEW k, NEW cs, Continue(pc, k, cs), Called(cs)
      PROVE  CaptureInv'
  BY <1>1, <1>2, <1>5, GoesOnCapture DEF Answered
<1>6. LeaveLoop \/ \E pc, k, cs : Continue(pc, k, cs) /\ Called(cs)
  <2>1. CASE HoverChangedEnter
    BY <2>1, HoverCalls DEF HoverChangedEnter
  <2>2. CASE HoverChangedLoop
    BY <2>2, HoverCalls DEF HoverChangedLoop
  <2>3. CASE MoveEnter
    BY <2>3, HoverCalls DEF MoveEnter
  <2>4. CASE MoveLoop
    BY <2>4, HoverCalls DEF MoveLoop
  <2>5. CASE Moved
    BY <2>5, HoverCalls DEF Moved
  <2>6. CASE MoveRest
    BY <2>6, HoverCalls DEF MoveRest
  <2>7. QED
    BY <2>1, <2>2, <2>3, <2>4, <2>5, <2>6
<1>7. QED
  BY <1>4, <1>5, <1>6

LEMMA UserCodeCaptures ==
    ASSUME StackInv, CaptureInv, StackInv', LayOutsApart, UNCHANGED program, UserCode
    PROVE  CaptureInv'
<1>1. /\ UserCall /\ alive' \subseteq alive
      /\ event = NoEvent \/ InUserCode
  BY UserCodeKeeps
<1>2. UNCHANGED <<mouseCaptureMap, stack, consumed, event, down, owed>>
  BY <1>1 DEF UserCall, inputVars
<1>3. stack = << >> \/ Top.proc = "user"
  BY <1>1 DEF StackInv, Stacked, InUserCode
<1>4. ~Answered /\ ~Answered'
  BY <1>2, <1>3 DEF Answered, Top
<1>5. \A c \in Containers : \A p \in Pointers : Entry(c, p) = mouseCaptureMap[c][p]
  BY <1>4, EntryIsKept
<1>6. \A c \in Containers : \A p \in Pointers : Entry(c, p)' = mouseCaptureMap'[c][p]
  BY <1>4 DEF Entry, Answered
<1>7. \A p \in Pointers : Held(p)' = Held(p)
  BY <1>2 DEF Held, pointer
<1>8. QED
  BY <1>1, <1>2, <1>5, <1>6, <1>7, CaptureStays, MouseAssumption

LEMMA EventsCapture ==
    ASSUME StackInv, CaptureInv, StackInv', UNCHANGED program, Events
    PROVE  CaptureInv'
<1>1. /\ stack = << >> /\ event = NoEvent
      /\ UNCHANGED <<treeVars, isBlocked, mouseCaptureMap, consumed, owed>>
      /\ \A i \in 1 .. Len(stack') : stack'[i].pc = "enter"
      /\ \/ /\ UNCHANGED down
            /\ stack' = << >> \/ stack'[1].proc # "onMouseButton"
         \/ /\ stack' # << >> /\ stack'[1].proc = "onMouseButton"
            /\ IF event'.isDown THEN down' = [down EXCEPT ![pointer'] = @ + 1]
               ELSE down[pointer'] > 0 /\ down' = [down EXCEPT ![pointer'] = @ - 1]
  BY EventsKeep
<1>2. UNCHANGED <<mouseCaptureMap, owed, alive>>
  BY <1>1 DEF treeVars
<1>3. down \in [Pointers -> Nat] /\ pointer' \in Pointers
  BY DEF StackInv, EventTyped, pointer
<1>4. \A p \in Pointers : Held(p)' = Held(p)
  <2>1. \A p \in Pointers : Held(p) = down[p]
    BY <1>1 DEF Held
  <2>2. CASE UNCHANGED down /\ (stack' = << >> \/ stack'[1].proc # "onMouseButton")
    BY <2>1, <2>2 DEF Held
  <2>3. CASE /\ stack' # << >> /\ stack'[1].proc = "onMouseButton"
             /\ IF event'.isDown THEN down' = [down EXCEPT ![pointer'] = @ + 1]
                ELSE down[pointer'] > 0 /\ down' = [down EXCEPT ![pointer'] = @ - 1]
    <3>1. TAKE p \in Pointers
    <3>2. Held(p)' = IF p = pointer' THEN IF event'.isDown THEN down'[p] - 1 ELSE down'[p] + 1
                     ELSE down'[p]
      BY <2>3 DEF Held
    <3>3. down'[p] = IF p = pointer'
                     THEN IF event'.isDown THEN down[p] + 1 ELSE down[p] - 1
                     ELSE down[p]
      BY <1>3, <2>3
    <3>4. down[p] \in Nat
      BY <1>3
    <3>5. Held(p)' = down[p]
      BY <3>2, <3>3, <3>4
    <3>6. QED
      BY <2>1, <3>5
  <2>4. QED
    BY <1>1, <2>2, <2>3
<1>5. \A c \in Containers : \A p \in Pointers : Entry(c, p) = mouseCaptureMap[c][p]
  BY <1>1, EntryIsKept DEF Answered
<1>6. \A c \in Containers : \A p \in Pointers : Entry(c, p)' = mouseCaptureMap'[c][p]
  <2>1. stack' # << >> => Top'.pc = "enter"
    <3>1. stack' \in Seq(CallType)
      BY DEF StackInv, Stacked
    <3>2. stack' # << >> => Len(stack') \in 1 .. Len(stack')
      BY <3>1, EmptySeq
    <3>3. QED
      BY <1>1, <3>2 DEF Top, Last
  <2>2. QED
    BY <2>1 DEF Entry
<1>7. QED
  BY <1>2, <1>4, <1>5, <1>6, CaptureStays, MouseAssumption

LEMMA EventHandledCaptures ==
    ASSUME StackInv, CaptureInv, EventHandled
    PROVE  CaptureInv'
<1>1. /\ stack = << >> /\ stack' = << >>
      /\ UNCHANGED <<mouseCaptureMap, owed, alive, down>>
  BY DEF EventHandled, treeVars
<1>2. \A c \in Containers : \A p \in Pointers : Entry(c, p)' = Entry(c, p)
  BY <1>1 DEF Entry
<1>3. \A p \in Pointers : Held(p)' = Held(p)
  BY <1>1 DEF Held
<1>4. QED
  BY <1>1, <1>2, <1>3, CaptureStays, MouseAssumption

\* A step of onMouseButton() after which it goes on, and its entry stays.
LEMMA ButtonCaptures ==
    ASSUME StackInv, CaptureInv, StackInv',
           \/ ButtonCaptured \/ ButtonHovered
           \/ ButtonEnter /\ Capture.by \in alive
           \/ ButtonLoop /\ Top.at # 0
           \/ ButtonTried /\ ~consumed
    PROVE  CaptureInv'
<1>1. /\ UNCHANGED <<event, down, mouseCaptureMap, owed, alive>>
      /\ stack # << >> /\ Top.proc = "onMouseButton" /\ ~Answered
      /\ \E pc, k, cs : /\ Continue(pc, k, cs) /\ Called(cs)
                        /\ pc \in {"count", "tried"} => cs # << >>
  <2>1. CASE ButtonCaptured
    <3> DEFINE cs == << Call("onMouseButton", Capture.by) >>
    <3>1. /\ Continue("count", 0, cs)
          /\ UNCHANGED <<event, down, mouseCaptureMap, owed, alive>>
          /\ stack # << >> /\ Top.proc = "onMouseButton" /\ Top.pc = "captured"
      BY <2>1 DEF ButtonCaptured, InCall, treeVars, inputVars
    <3>2. Called(cs) /\ cs # << >>
      BY HoverCalls
    <3> HIDE DEF cs
    <3>3. ~Answered
      BY <3>1 DEF Answered
    <3>4. QED
      BY <3>1, <3>2, <3>3
  <2>2. CASE ButtonHovered
    BY <2>2, HoverCalls DEF ButtonHovered, InCall, Answered, treeVars, inputVars
  <2>3. CASE ButtonEnter /\ Capture.by \in alive
    BY <2>3, HoverCalls DEF ButtonEnter, InCall, Answered, treeVars, inputVars
  <2>4. CASE ButtonLoop /\ Top.at # 0
    <3>1. /\ UNCHANGED <<event, down, mouseCaptureMap, owed, alive>>
          /\ stack # << >> /\ Top.proc = "onMouseButton" /\ Top.pc = "loop"
          /\ \/ Continue("hovered", Top.at, HoverCall(Child, TRUE))
             \/ Continue("loop", Top.at - 1, << >>)
      BY <2>4 DEF ButtonLoop, InCall, treeVars, inputVars
    <3>2. ~Answered
      BY <3>1 DEF Answered
    <3>3. CASE Continue("loop", Top.at - 1, << >>)
      BY <3>1, <3>2, <3>3, HoverCalls
    <3>4. CASE Continue("hovered", Top.at, HoverCall(Child, TRUE))
      <4> DEFINE cs == HoverCall(Child, TRUE)
                 k == Top.at
      <4>1. Continue("hovered", k, cs) /\ Called(cs)
        BY <3>4, HoverCalls
      <4> HIDE DEF cs, k
      <4>2. "hovered" \in {"count", "tried"} => cs # << >>
        OBVIOUS
      <4>3. QED
        BY <3>1, <3>2, <4>1, <4>2
    <3>5. QED
      BY <3>1, <3>3, <3>4
  <2>5. CASE ButtonTried /\ ~consumed
    BY <2>5, HoverCalls DEF ButtonTried, InCall, Answered, treeVars, inputVars
  <2>6. QED
    BY <2>1, <2>2, <2>3, <2>4, <2>5
<1>2. PICK pc, k, cs : /\ Continue(pc, k, cs) /\ Called(cs)
                       /\ pc \in {"count", "tried"} => cs # << >>
  BY <1>1
<1>3. Top.proc # "user"
  BY <1>1
<1>4. QED
  BY <1>1, <1>2, <1>3, GoesOnCapture

\* The entry of a widget that is destroyed is cleared.
LEMMA ClearingCaptures ==
    ASSUME StackInv, CaptureInv, StackInv', ButtonEnter, Capture.by \notin alive
    PROVE  CaptureInv'
<1> DEFINE c0 == Top.of
           cs == << >>
           k == Len(Iterated)
<1>1. InCall("onMouseButton", "enter") /\ "onMouseButton" \in Methods
  BY DEF ButtonEnter, Methods
<1>2. /\ SetCapture(NoCapture) /\ Continue("loop", k, cs)
      /\ UNCHANGED <<event, down, owed, alive>>
  BY DEF ButtonEnter, treeVars, inputVars
<1>3. /\ c0 \in Containers /\ pointer \in Pointers /\ CaptureTyped /\ stack # << >>
      /\ Top.proc = "onMouseButton" /\ Top.pc = "enter" /\ TreeTyped
      /\ NoWidget \notin alive
  <2>1. TreeTyped /\ CaptureTyped
    BY DEF StackInv
  <2>2. QED
    BY <1>1, <2>1, InCallTyped, MouseAssumption DEF TreeTyped
<1>4. \A c \in Containers : \A p \in Pointers :
          mouseCaptureMap'[c][p] = IF c = c0 /\ p = pointer THEN NoCapture
                                   ELSE mouseCaptureMap[c][p]
  <2>1. /\ NoCapture \in [by : Widgets \cup {NoWidget}, clicks : Nat]
        /\ NoCapture.by = NoWidget
    BY DEF NoCapture
  <2>2. QED
    BY <1>2, <1>3, <2>1, SetsCapture
<1>5. \A c \in Containers : \A p \in Pointers : Entry(c, p) = mouseCaptureMap[c][p]
  BY <1>3, EntryIsKept DEF Answered
<1>6. /\ \A c \in Containers : \A p \in Pointers :
             Entry(c, p)' = mouseCaptureMap'[c][p]
      /\ \A p \in Pointers : Held(p)' = Held(p)
  <2>1. Called(cs) /\ Top.proc # "user" /\ ~("loop" \in {"count", "tried"})
    BY <1>3 DEF Called
  <2> HIDE DEF k, cs
  <2>2. QED
    BY <1>2, <1>3, <2>1, GoesOnView
<1>7. mouseCaptureMap[c0][pointer].by \notin alive /\ NoCapture.by \notin alive
  BY <1>3 DEF Capture, NoCapture
<1> HIDE DEF c0
<1>8. \A c \in Containers : \A p \in Pointers :
          /\ mouseCaptureMap'[c][p].by \in alive =>
                 mouseCaptureMap'[c][p] = mouseCaptureMap[c][p]
          /\ mouseCaptureMap[c][p].by \in alive =>
                 mouseCaptureMap'[c][p] = mouseCaptureMap[c][p]
  BY <1>4, <1>7
<1>9. Root \in Containers /\ Containers \subseteq alive
  BY <1>3, MouseAssumption DEF TreeTyped
<1>10. \A p \in Pointers :
          LET r == mouseCaptureMap'[Root][p]
          IN r.by \in alive' => 1 <= r.clicks /\ r.clicks <= Held(p)'
  BY <1>2, <1>6, <1>8, <1>9 DEF CaptureInv
<1>11. \A p \in Pointers : \A c \in Containers \ {Root} :
          LET e == mouseCaptureMap'[c][p]
          IN e.by \in alive' =>
                 /\ Entry(Root, p)'.by = c
                 /\ 1 <= e.clicks /\ e.clicks <= Entry(Root, p)'.clicks
  BY <1>2, <1>5, <1>6, <1>8, <1>9 DEF CaptureInv
<1>12. \A p \in Pointers : \A c \in Containers : \A w \in alive' \ Containers :
          Entry(c, p)'.by = w => owed'[w][p] = Entry(c, p)'.clicks
  BY <1>2, <1>5, <1>6, <1>8 DEF CaptureInv
<1>13. \A p \in Pointers : \A w \in alive' :
          owed'[w][p] > 0 =>
              w \notin Containers /\ \E c \in Containers : Entry(c, p)'.by = w
  BY <1>2, <1>5, <1>6, <1>8 DEF CaptureInv
<1>14. QED
  BY <1>10, <1>11, <1>12, <1>13 DEF CaptureInv

\* A call of onMouseButton() returns, having set its entry to e: to what the
\* container remembered, or to none when no click was left.
LEMMA ButtonReturns ==
    ASSUME StackInv, CaptureInv, StackInv', NEW pc, InCall("onMouseButton", pc),
           Len(stack') = Len(stack) - 1,
           \A i \in 1 .. Len(stack) - 1 : stack'[i] = stack[i],
           UNCHANGED <<event, down, owed, alive, children>>,
           NEW e,
           \A c \in Containers : \A p \in Pointers :
               mouseCaptureMap'[c][p] = IF c = Top.of /\ p = pointer THEN e
                                        ELSE mouseCaptureMap[c][p],
           \/ e = Entry(Top.of, pointer)
           \/ Entry(Top.of, pointer).clicks = 0 /\ e = NoCapture,
           e.by \in alive =>
               /\ consumed' /\ e.clicks >= 1
               /\ \/ event.isDown /\ e.clicks = 1
                  \/ Capture.by \in alive /\ e.clicks = After(Capture.clicks)
    PROVE  CaptureInv'
<1> DEFINE n == Len(stack)
           c0 == Top.of
           e0 == Entry(c0, pointer)
           f == stack[n - 1]
           r == mouseCaptureMap[Root][pointer]
<1>1. n = Len(stack) /\ e0 = Entry(c0, pointer) /\ f = stack[n - 1]
      /\ r = mouseCaptureMap[Root][pointer]
  OBVIOUS
<1>2. /\ stack # << >> /\ Top.proc = "onMouseButton" /\ c0 \in Containers
      /\ TreeTyped /\ EventTyped /\ CaptureTyped /\ pointer \in Pointers
  BY InCallTyped DEF Methods
<1> HIDE DEF n, e0, r, f
<1>3. /\ n \in Nat \ {0} /\ n \in 1 .. Len(stack) /\ Top = stack[n]
      /\ n = 1 => /\ stack' = << >>
                  /\ \A c \in Containers : \A p \in Pointers :
                         Entry(c, p)' = mouseCaptureMap'[c][p]
                  /\ \A p \in Pointers : Held(p)' = down[p]
      /\ n > 1 => /\ stack' # << >> /\ Top' = stack[n - 1]
                  /\ \A p \in Pointers : Held(p)' = Held(p)
  BY <1>1, <1>2, ReturnsView
<1>4. /\ n = 1 <=> c0 = Root
      /\ n > 1 => /\ f.proc = "onMouseButton" /\ f.of = Root
                  /\ \/ f.pc = "count" /\ r.by = c0 /\ r.by \in alive
                     \/ f.pc = "tried" /\ r = NoCapture /\ c0 = children[Root][f.at]
  <2>1. Method(stack[n]) = "onMouseButton" /\ stack[n].of \in Containers
    BY <1>2, <1>3 DEF Method
  <2>2. QED
    BY <1>1, <1>3, <2>1, CalledByRoot
<1>5. /\ Root \in Containers /\ Containers \subseteq alive /\ NoWidget \notin alive
      /\ NoCapture.by = NoWidget /\ NoCapture.clicks = 0
  BY <1>2, MouseAssumption DEF TreeTyped, NoCapture
<1>6. \A c \in Containers : \A p \in Pointers : c # c0 \/ p # pointer =>
          /\ Entry(c, p) = mouseCaptureMap[c][p]
          /\ mouseCaptureMap'[c][p] = mouseCaptureMap[c][p]
  BY DEF Entry
<1>7. mouseCaptureMap'[c0][pointer] = e
  BY <1>2
<1>8. ASSUME n > 1
      PROVE  /\ r.by \in {c0, NoWidget} /\ c0 # Root /\ r = Entry(Root, pointer)
             /\ \A p \in Pointers : p = pointer =>
                    Entry(Root, p)' =
                        IF f.pc = "count" THEN [by |-> c0, clicks |-> After(r.clicks)]
                        ELSE IF consumed' /\ event.isDown
                             THEN [by |-> c0, clicks |-> 1]
                        ELSE r
             /\ \A c \in Containers : \A p \in Pointers : c # Root \/ p # pointer =>
                    Entry(c, p)' = mouseCaptureMap'[c][p]
  <2>1. Top' = f /\ stack' # << >> /\ pointer' = pointer /\ event' = event
    BY <1>1, <1>3, <1>8 DEF pointer
  <2>2. Child' = children[Root][f.at]
    BY <1>4, <1>8, <2>1 DEF Child, Iterated
  <2>3. c0 # Root /\ r.by \in {c0, NoWidget}
    BY <1>4, <1>5, <1>8
  <2>4. r = Entry(Root, pointer) /\ mouseCaptureMap'[Root][pointer] = r
    BY <1>1, <1>2, <1>5, <1>6, <2>3
  <2>5. \A n1 : After(n1)' = After(n1)
    BY <2>1 DEF After
  <2>6. \A c \in Containers : \A p \in Pointers : c # Root \/ p # pointer =>
            Entry(c, p)' = mouseCaptureMap'[c][p]
    BY <1>4, <1>8, <2>1 DEF Entry
  <2>7. \A p \in Pointers : p = pointer =>
            Entry(Root, p)' =
                IF f.pc = "count" THEN [by |-> r.by, clicks |-> After(r.clicks)]
                ELSE IF f.pc = "tried" /\ consumed' /\ event.isDown
                     THEN [by |-> Child', clicks |-> 1]
                ELSE r
    BY <1>4, <1>8, <2>1, <2>4, <2>5 DEF Entry
  <2>8. QED
    BY <1>4, <1>8, <2>2, <2>3, <2>4, <2>6, <2>7
<1>9. \A p \in Pointers : p # pointer => Held(p) = down[p]
  BY DEF Held
<1>10. \A p \in Pointers :
           LET d == mouseCaptureMap'[Root][p]
           IN d.by \in alive => 1 <= d.clicks /\ d.clicks <= Held(p)'
  <2>1. TAKE p \in Pointers
  <2>2. CASE n > 1
    BY <1>3, <1>5, <1>6, <1>8, <2>2 DEF CaptureInv
  <2>3. CASE n = 1 /\ p # pointer
    BY <1>3, <1>5, <1>6, <1>9, <2>3 DEF CaptureInv
  <2>4. CASE n = 1 /\ p = pointer
    <3>1. Held(p)' = down[p] /\ c0 = Root /\ mouseCaptureMap'[Root][p] = e
      BY <1>3, <1>4, <1>7, <2>4
    <3>2. Held(p) = IF event.isDown THEN down[p] - 1 ELSE down[p] + 1
      BY <1>2, <1>3, <2>4 DEF Held
    <3>3. /\ down[p] \in Nat /\ (event.isDown => down[p] > 0)
      BY <1>2, <2>4 DEF EventTyped
    <3>4. Capture = mouseCaptureMap[Root][p] /\ Capture.clicks \in Nat
      BY <1>2, <2>4, <3>1 DEF Capture, CaptureTyped
    <3>5. Capture.by \in alive => Capture.clicks <= Held(p)
      BY <1>5, <3>4 DEF CaptureInv
    <3>6. ASSUME e.by \in alive
          PROVE  1 <= e.clicks /\ e.clicks <= down[p]
      <4>1. CASE event.isDown /\ e.clicks = 1
        BY <3>3, <4>1
      <4>2. CASE Capture.by \in alive /\ e.clicks = After(Capture.clicks)
        BY <3>2, <3>3, <3>4, <3>5, <3>6, <4>2 DEF After
      <4>3. QED
        BY <3>6, <4>1, <4>2
    <3>7. QED
      BY <3>1, <3>6
  <2>5. QED
    BY <1>3, <2>2, <2>3, <2>4
<1>11. ASSUME NEW p \in Pointers, NEW c \in Containers \ {Root},
              NEW d, d = mouseCaptureMap'[c][p], d.by \in alive
       PROVE  /\ Entry(Root, p)'.by = c
              /\ 1 <= d.clicks /\ d.clicks <= Entry(Root, p)'.clicks
  <2>1. ASSUME c # c0 \/ p # pointer
        PROVE  /\ d = mouseCaptureMap[c][p] /\ Entry(Root, p).by = c
               /\ 1 <= d.clicks /\ d.clicks <= Entry(Root, p).clicks
    BY <1>6, <1>11, <2>1 DEF CaptureInv
  <2>2. CASE n = 1 /\ p = pointer
    <3>1. Entry(Root, p)' = e /\ c0 = Root /\ c # c0
      BY <1>3, <1>4, <1>5, <1>7, <1>11, <2>2
    <3>2. e0.by = c /\ 1 <= d.clicks /\ d.clicks <= e0.clicks
      BY <1>1, <2>1, <2>2, <3>1
    <3>3. e = e0
      <4>1. d.clicks \in Nat /\ e0.clicks # 0
        <5>1. CaptureTyped'
          BY DEF StackInv
        <5>2. d.clicks \in Nat
          BY <1>11, <5>1 DEF CaptureTyped
        <5>3. QED
          BY <3>2, <5>2
      <4>2. QED
        BY <1>1, <4>1
    <3>4. QED
      BY <3>1, <3>2, <3>3
  <2>3. CASE n = 1 /\ p # pointer
    <3>1. Entry(Root, p)' = Entry(Root, p)
      BY <1>3, <1>5, <1>6, <2>3
    <3>2. QED
      BY <2>1, <2>3, <3>1
  <2>4. CASE n > 1 /\ p # pointer
    <3>1. Entry(Root, p)' = Entry(Root, p)
      BY <1>5, <1>6, <1>8, <2>4
    <3>2. QED
      BY <2>1, <2>4, <3>1
  <2>5. CASE n > 1 /\ p = pointer /\ c # c0
    <3>1. Entry(Root, p).by \in {c0, NoWidget}
      BY <1>8, <2>5
    <3>2. Entry(Root, p).by = c
      BY <2>1, <2>5
    <3>3. QED
      BY <1>5, <2>5, <3>1, <3>2
  <2>6. CASE n > 1 /\ p = pointer /\ c = c0
    <3>1. d = e /\ consumed' /\ e.clicks >= 1
      BY <1>7, <1>11, <2>6
    <3>2. CASE event.isDown /\ e.clicks = 1
      <4>1. CASE f.pc = "count"
        <5>1. r.clicks \in Nat /\ r.by = c0
          BY <1>1, <1>2, <1>4, <1>5, <2>6, <4>1 DEF CaptureTyped
        <5>2. Entry(Root, p)' = [by |-> c0, clicks |-> r.clicks + 1]
          BY <1>8, <2>6, <3>2, <4>1 DEF After
        <5>3. QED
          BY <2>6, <3>1, <3>2, <5>1, <5>2
      <4>2. CASE f.pc # "count"
        <5>1. Entry(Root, p)' = [by |-> c0, clicks |-> 1]
          BY <1>8, <2>6, <3>1, <3>2, <4>2
        <5>2. QED
          BY <2>6, <3>1, <3>2, <5>1
      <4>3. QED
        BY <4>1, <4>2
    <3>3. CASE Capture.by \in alive /\ e.clicks = After(Capture.clicks)
      <4>1. Capture = mouseCaptureMap[c0][pointer]
        BY DEF Capture
      <4>2. r.by = c0 /\ Capture.clicks <= r.clicks
        BY <1>2, <1>8, <1>11, <2>6, <3>3, <4>1 DEF CaptureInv
      <4>3. f.pc = "count"
        BY <1>4, <1>5, <2>6, <4>2
      <4>4. Entry(Root, p)' = [by |-> c0, clicks |-> After(r.clicks)]
        BY <1>8, <2>6, <4>3
      <4>5. Capture.clicks \in Nat /\ r.clicks \in Nat
        BY <1>1, <1>2, <1>5, <4>1 DEF CaptureTyped
      <4>6. QED
        BY <2>6, <3>1, <3>3, <4>2, <4>4, <4>5 DEF After
    <3>4. QED
      BY <1>11, <3>1, <3>2, <3>3
  <2>7. QED
    BY <1>3, <2>2, <2>3, <2>4, <2>5, <2>6
\* What containers remember afterwards is the same, but for entries of no
\* widget and for the root's entry of a container.
<1>12. \A c \in Containers : \A p \in Pointers :
           /\ Entry(c, p)'.by \in alive \ Containers => Entry(c, p)' = Entry(c, p)
           /\ Entry(c, p).by \in alive \ Containers /\ Entry(c, p).clicks # 0 =>
                  Entry(c, p)' = Entry(c, p)
  <2>1. TAKE c \in Containers
  <2>2. TAKE p \in Pointers
  <2>3. CASE c = c0 /\ p = pointer
    <3>1. Entry(c, p)' = e
      BY <1>3, <1>7, <1>8, <2>3
    <3>2. e = Entry(c, p) \/ (Entry(c, p).clicks = 0 /\ e.by \notin alive)
      BY <1>5, <2>3
    <3>3. QED
      BY <3>1, <3>2
  <2>4. CASE n > 1 /\ c = Root /\ p = pointer
    <3>1. Entry(c, p).by \in {c0, NoWidget}
      BY <1>8, <2>4
    <3>2. Entry(c, p)'.by \in {c0, NoWidget}
      BY <1>8, <2>4
    <3>3. QED
      BY <1>2, <1>5, <3>1, <3>2
  <2>5. CASE (c # c0 \/ p # pointer) /\ (n = 1 \/ c # Root \/ p # pointer)
    <3>1. Entry(c, p)' = mouseCaptureMap'[c][p]
      BY <1>3, <1>8, <2>5
    <3>2. QED
      BY <1>6, <2>5, <3>1
  <2>6. QED
    BY <1>3, <2>3, <2>4, <2>5
<1>13. \A p \in Pointers : \A c \in Containers : \A w \in alive \ Containers :
           Entry(c, p)'.by = w => owed[w][p] = Entry(c, p)'.clicks
  BY <1>12 DEF CaptureInv
<1>14. \A p \in Pointers : \A w \in alive :
           owed[w][p] > 0 =>
               w \notin Containers /\ \E c \in Containers : Entry(c, p)'.by = w
  <2>1. TAKE p \in Pointers
  <2>2. TAKE w \in alive
  <2>3. HAVE owed[w][p] > 0
  <2>4. w \notin Containers
    BY <2>3 DEF CaptureInv
  <2>5. PICK c \in Containers : Entry(c, p).by = w
    BY <2>3 DEF CaptureInv
  <2>6. owed[w][p] = Entry(c, p).clicks
    BY <2>4, <2>5 DEF CaptureInv
  <2>7. Entry(c, p).clicks # 0
    BY <2>3, <2>6
  <2>8. QED
    BY <1>12, <2>4, <2>5, <2>7
<1>15. QED
  BY <1>10, <1>11, <1>13, <1>14 DEF CaptureInv

LEMMA ButtonReturnsCapture ==
    ASSUME StackInv, CaptureInv, StackInv',
           ButtonCount \/ (ButtonLoop /\ Top.at = 0) \/ (ButtonTried /\ consumed)
    PROVE  CaptureInv'
<1>1. PICK pc \in {"count", "loop", "tried"} : InCall("onMouseButton", pc)
  BY DEF ButtonCount, ButtonLoop, ButtonTried
<1>2. /\ stack # << >> /\ Top.proc = "onMouseButton" /\ Top.of \in Containers
      /\ pointer \in Pointers /\ CaptureTyped /\ TreeTyped /\ stack \in Seq(CallType)
      /\ Top.pc = pc
  BY <1>1, InCallTyped DEF Methods, Stacked
<1>3. /\ LeaveLoop /\ UNCHANGED <<event, down, owed, alive, children>>
  BY DEF ButtonCount, ButtonLoop, ButtonTried, treeVars, inputVars
<1>4. Len(stack') = Len(stack) - 1 /\ \A i \in 1 .. Len(stack) - 1 : stack'[i] = stack[i]
  BY <1>2, <1>3, WithoutTop DEF LeaveLoop
<1>5. NoWidget \notin alive /\ NoCapture.by = NoWidget /\ NoCapture.clicks = 0
      /\ NoCapture \in [by : Widgets \cup {NoWidget}, clicks : Nat]
  BY <1>2, MouseAssumption DEF TreeTyped, NoCapture
<1>6. Capture = mouseCaptureMap[Top.of][pointer]
  BY DEF Capture
<1>7. CASE ButtonCount
  <2> DEFINE e == IF After(Capture.clicks) = 0 THEN NoCapture
                  ELSE [by |-> Capture.by, clicks |-> After(Capture.clicks)]
  <2>1. e = IF After(Capture.clicks) = 0 THEN NoCapture
            ELSE [by |-> Capture.by, clicks |-> After(Capture.clicks)]
    OBVIOUS
  <2>2. /\ SetCapture(e) /\ consumed' = TRUE /\ Capture.by \in alive
        /\ e \in [by : Widgets \cup {NoWidget}, clicks : Nat]
        /\ e.by \in Below(Top.of) \cup {NoWidget}
        /\ e.clicks = 0 => e.by = NoWidget
    BY <1>7, Counts
  <2> HIDE DEF e
  <2>3. \A c \in Containers : \A p \in Pointers :
            mouseCaptureMap'[c][p] = IF c = Top.of /\ p = pointer THEN e
                                     ELSE mouseCaptureMap[c][p]
    BY <1>2, <1>3, <2>2, SetsCapture
  <2>4. Entry(Top.of, pointer) = [by |-> Capture.by, clicks |-> After(Capture.clicks)]
    BY <1>2, <1>6, <1>7 DEF Entry, ButtonCount, InCall
  <2>5. \/ e = Entry(Top.of, pointer)
        \/ Entry(Top.of, pointer).clicks = 0 /\ e = NoCapture
    BY <2>1, <2>4
  <2>6. ASSUME e.by \in alive
        PROVE  e.clicks >= 1 /\ e.clicks = After(Capture.clicks)
    BY <1>5, <2>1, <2>2, <2>6
  <2>7. QED
    BY <1>1, <1>3, <1>4, <2>2, <2>3, <2>5, <2>6, ButtonReturns
<1>8. CASE ButtonLoop /\ Top.at = 0
  <2>1. /\ Top.pc = "loop" /\ UNCHANGED mouseCaptureMap
    BY <1>8 DEF ButtonLoop, InCall
  <2>2. Capture = NoCapture
    BY <1>8, TopPasses DEF ButtonLoop
  <2>3. Entry(Top.of, pointer) = NoCapture
    BY <1>6, <2>1, <2>2 DEF Entry
  <2>4. \A c \in Containers : \A p \in Pointers :
            mouseCaptureMap'[c][p] = IF c = Top.of /\ p = pointer THEN NoCapture
                                     ELSE mouseCaptureMap[c][p]
    BY <1>6, <2>1, <2>2
  <2>5. NoCapture.by \notin alive
    BY <1>5
  <2>6. QED
    BY <1>1, <1>3, <1>4, <2>3, <2>4, <2>5, ButtonReturns
<1>9. CASE ButtonTried /\ consumed
  <2> DEFINE e == IF event.isDown THEN [by |-> Child, clicks |-> 1] ELSE NoCapture
  <2>1. e = IF event.isDown THEN [by |-> Child, clicks |-> 1] ELSE NoCapture
    OBVIOUS
  <2>2. /\ SetCapture(e) /\ Capture = NoCapture /\ consumed' = consumed
        /\ e \in [by : Widgets \cup {NoWidget}, clicks : Nat]
        /\ e.by \in Below(Top.of) \cup {NoWidget}
        /\ e.clicks = 0 => e.by = NoWidget
    BY <1>9, Captures
  <2> HIDE DEF e
  <2>3. \A c \in Containers : \A p \in Pointers :
            mouseCaptureMap'[c][p] = IF c = Top.of /\ p = pointer THEN e
                                     ELSE mouseCaptureMap[c][p]
    BY <1>2, <1>3, <2>2, SetsCapture
  <2>4. Top.pc = "tried"
    BY <1>9 DEF ButtonTried, InCall
  <2>5. Entry(Top.of, pointer) = e
    BY <1>2, <1>6, <1>9, <2>1, <2>2, <2>4 DEF Entry
  <2>6. ASSUME e.by \in alive
        PROVE  consumed' /\ e.clicks >= 1 /\ event.isDown /\ e.clicks = 1
    BY <1>5, <1>9, <2>1, <2>2, <2>6
  <2>7. QED
    BY <1>1, <1>3, <1>4, <2>3, <2>5, <2>6, ButtonReturns
<1>10. QED
  BY <1>7, <1>8, <1>9

\* The method of a widget that is no container returns: what the widget waits
\* for is what the container that passed the event to it is about to count.
LEMMA UserReturnsCapture ==
    ASSUME StackInv, CaptureInv, StackInv', UNCHANGED program, UserReturns
    PROVE  CaptureInv'
<1> DEFINE n == Len(stack)
           w0 == Top.of
           f == stack[n - 1]
           c1 == f.of
           e1 == mouseCaptureMap[c1][pointer]
           r == mouseCaptureMap[Root][pointer]
<1>1. n = Len(stack) /\ w0 = Top.of /\ f = stack[n - 1] /\ c1 = f.of
      /\ e1 = mouseCaptureMap[c1][pointer] /\ r = mouseCaptureMap[Root][pointer]
  OBVIOUS
<1>2. /\ stack # << >> /\ Top.proc = "user"
      /\ UNCHANGED <<treeVars, mouseCaptureMap, inputVars>>
      /\ UNCHANGED <<children, alive, event, down>>
  BY DEF UserReturns, InUserCode, treeVars, inputVars
<1>3. /\ n \in Nat \ {0} /\ Len(stack') = n - 1
      /\ \A i \in 1 .. n - 1 : stack'[i] = stack[i]
      /\ w0 \in Widgets \ Containers
      /\ owed[w0][pointer] \in Nat /\ Owed(w0) \in Nat
  BY UserReturnsKeeps
<1>4. /\ Root \in Containers /\ Containers \subseteq alive /\ NoWidget \notin alive
      /\ NoCapture.by = NoWidget /\ NoCapture.clicks = 0
      /\ pointer \in Pointers /\ CaptureTyped /\ alive \subseteq Widgets
  BY MouseAssumption DEF StackInv, TreeTyped, EventTyped, NoCapture, pointer
<1> HIDE DEF n, w0, f, c1, e1, r
<1>5. CASE Top.pc # "onMouseButton"
  <2>1. UNCHANGED owed
    BY <1>5 DEF UserReturns
  <2>2. Method(Top) # "onMouseButton"
    BY <1>2, <1>5 DEF Method
  <2>3. QED
    BY <1>1, <1>2, <1>3, <2>1, <2>2, ReturnsCapture
<1>6. CASE Top.pc = "onMouseButton"
  <2>1. /\ n \in 1 .. Len(stack) /\ Top = stack[n]
        /\ n > 1 => /\ stack' # << >> /\ Top' = f
                    /\ \A p \in Pointers : Held(p)' = Held(p)
    BY <1>1, <1>2, <1>3, ReturnsView
  <2>2. n > 1
    <3>1. stack[1].of = Root
      BY <1>2 DEF StackInv, Stacked, StackOK
    <3>2. QED
      BY <1>1, <1>3, <1>4, <2>1, <3>1
  <2>3. Method(stack[n]) = "onMouseButton"
    BY <1>2, <1>6, <2>1 DEF Method
  <2>4. /\ f.proc = "onMouseButton" /\ c1 \in Containers
        /\ \/ f.pc = "count" /\ e1.by = w0 /\ e1.by \in alive
           \/ f.pc = "tried" /\ e1 = NoCapture /\ w0 = children[c1][f.at]
    BY <1>1, <2>1, <2>2, <2>3, Caller
  \* What the root remembers of the pointer.
  <2>5. c1 # Root => r.by \in {c1, NoWidget}
    <3>1. HAVE c1 # Root
    <3>2. n - 1 \in 1 .. Len(stack) /\ Method(stack[n - 1]) = "onMouseButton"
          /\ stack[n - 1].of \in Containers
      BY <1>1, <1>3, <2>1, <2>2, <2>4 DEF Method
    <3>3. n - 1 > 1 /\ (r.by = c1 \/ r = NoCapture)
      <4> DEFINE i == n - 1
                 g == stack[i - 1]
      <4>1. i \in 1 .. Len(stack) /\ Method(stack[i]) = "onMouseButton"
            /\ stack[i].of \in Containers /\ stack[i].of # Root /\ stack[i].of = c1
        BY <1>1, <3>1, <3>2
      <4>2. g = stack[i - 1]
        OBVIOUS
      <4> HIDE DEF i, g
      <4>3. /\ i = 1 <=> stack[i].of = Root
            /\ i > 1 => \/ g.pc = "count" /\ r.by = stack[i].of /\ r.by \in alive
                        \/ r = NoCapture
        BY <1>1, <4>1, <4>2, CalledByRoot
      <4>4. i > 1
        BY <4>1, <4>3
      <4>5. QED
        BY <4>1, <4>3, <4>4 DEF i
    <3>4. QED
      BY <1>4, <3>3
  <2>6. \A c \in Containers : \A p \in Pointers : Entry(c, p) = mouseCaptureMap[c][p]
    BY <1>2, EntryIsKept DEF Answered
  <2>7. \A c \in Containers : \A p \in Pointers : c # c1 \/ p # pointer =>
            Entry(c, p)' = Entry(c, p)
    BY <1>1, <1>2, <2>1, <2>2, <2>6 DEF Entry, pointer
  <2>8. Child' = children[c1][f.at] /\ pointer' = pointer /\ \A k : After(k)' = After(k)
    BY <1>1, <1>2, <2>1, <2>2 DEF Child, Iterated, pointer, After
  <2>9. ASSUME NEW c \in Containers, c = c1, NEW p \in Pointers, p = pointer
        PROVE  Entry(c, p)' =
                   IF f.pc = "count" THEN [by |-> w0, clicks |-> After(e1.clicks)]
                   ELSE IF consumed' /\ event.isDown THEN [by |-> w0, clicks |-> 1]
                   ELSE NoCapture
    <3>1. mouseCaptureMap'[c][p] = e1
      BY <1>1, <1>2, <2>9
    <3>2. Entry(c, p)' =
              IF f.pc = "count" THEN [by |-> e1.by, clicks |-> After(e1.clicks)]
              ELSE IF f.pc = "tried" /\ consumed' /\ event'.isDown
                   THEN [by |-> Child', clicks |-> 1]
              ELSE e1
      BY <1>1, <2>1, <2>2, <2>4, <2>8, <2>9, <3>1 DEF Entry
    <3>3. QED
      BY <1>2, <2>4, <2>8, <3>2
  <2>10. \A w \in Widgets : \A p \in Pointers :
             owed'[w][p] = IF w = w0 /\ p = pointer THEN Owed(w0) ELSE owed[w][p]
    <3>1. owed' = [owed EXCEPT ![w0][pointer] = Owed(w0)]
      BY <1>1, <1>6 DEF UserReturns
    <3>2. owed \in [Widgets -> [Pointers -> Nat]]
      BY <1>4 DEF CaptureTyped
    <3>3. QED
      BY <1>3, <1>4, <3>1, <3>2
  \* No other container remembers the widget.
  <2>11. \A c \in Containers \ {c1} : Entry(c, pointer).by = w0 => w0 \notin alive
    <3>1. TAKE c \in Containers \ {c1}
    <3>2. ASSUME Entry(c, pointer).by = w0, w0 \in alive
          PROVE  FALSE
      <4>1. CASE c = Root
        <5>1. r.by = w0
          BY <1>1, <1>4, <2>6, <3>2, <4>1
        <5>2. QED
          BY <1>3, <1>4, <2>4, <2>5, <3>1, <3>2, <4>1, <5>1
      <4>2. CASE c # Root
        <5>1. Entry(Root, pointer).by = c
          BY <1>4, <2>6, <3>2, <4>2 DEF CaptureInv
        <5>2. r.by = c
          BY <1>1, <1>4, <2>6, <5>1
        <5>3. CASE c1 = Root
          <6>1. e1 = r
            BY <1>1, <5>3
          <6>2. QED
            BY <1>3, <1>4, <2>4, <3>1, <5>2, <6>1
        <5>4. CASE c1 # Root
          BY <1>4, <2>5, <3>1, <5>2, <5>4
        <5>5. QED
          BY <5>3, <5>4
      <4>3. QED
        BY <4>1, <4>2
    <3>3. QED
      BY <3>2
  \* What the widget waits for after this, if it is still there.
  <2>12. w0 \in alive =>
             /\ f.pc = "count" => Owed(w0) = After(e1.clicks)
             /\ f.pc # "count" => Owed(w0) = IF consumed' /\ event.isDown THEN 1 ELSE 0
    <3>1. HAVE w0 \in alive
    <3>2. CASE f.pc = "count"
      <4>1. Entry(c1, pointer) = e1 /\ e1.by = w0
        BY <1>1, <1>4, <2>4, <2>6, <3>2
      <4>2. owed[w0][pointer] = e1.clicks
        BY <1>3, <1>4, <2>4, <3>1, <4>1 DEF CaptureInv
      <4>3. e1.clicks \in Nat /\ (e1.clicks = 0 => e1.by = NoWidget)
        BY <1>1, <1>4, <2>4 DEF CaptureTyped
      <4>4. e1.clicks > 0
        BY <1>4, <3>1, <4>1, <4>3
      <4>5. QED
        BY <1>2, <3>2, <4>2, <4>3, <4>4 DEF Owed, After
    <3>3. CASE f.pc # "count"
      <4>1. Entry(c1, pointer) = NoCapture
        BY <1>1, <1>4, <2>4, <2>6, <3>3
      <4>2. \A c \in Containers : Entry(c, pointer).by # w0
        BY <1>4, <2>11, <3>1, <4>1
      <4>3. ~(owed[w0][pointer] > 0)
        BY <1>4, <3>1, <4>2 DEF CaptureInv
      <4>4. owed[w0][pointer] = 0
        BY <1>3, <4>3
      <4>5. QED
        BY <3>3, <4>4 DEF Owed
    <3>4. QED
      BY <3>2, <3>3
  <2>13. \A p \in Pointers :
             LET d == mouseCaptureMap'[Root][p]
             IN d.by \in alive => 1 <= d.clicks /\ d.clicks <= Held(p)'
    BY <1>2, <1>4, <2>1, <2>2 DEF CaptureInv
  <2>14. ASSUME NEW p \in Pointers, NEW c \in Containers \ {Root},
                NEW d, d = mouseCaptureMap'[c][p], d.by \in alive
         PROVE  /\ Entry(Root, p)'.by = c
                /\ 1 <= d.clicks /\ d.clicks <= Entry(Root, p)'.clicks
    <3>1. Entry(Root, p).by = c /\ 1 <= d.clicks /\ d.clicks <= Entry(Root, p).clicks
      BY <1>2, <2>14 DEF CaptureInv
    <3>2. Entry(Root, p)' = Entry(Root, p)
      <4>1. CASE c1 # Root \/ p # pointer
        BY <1>4, <2>7, <4>1
      <4>2. CASE c1 = Root /\ p = pointer
        <5>1. Entry(Root, p) = e1
          BY <1>1, <1>4, <2>6, <4>2
        <5>2. QED
          BY <1>3, <1>4, <2>4, <3>1, <5>1
      <4>3. QED
        BY <4>1, <4>2
    <3>3. QED
      BY <3>1, <3>2
  <2>15. ASSUME NEW p \in Pointers, NEW c \in Containers, NEW w \in alive \ Containers,
                Entry(c, p)'.by = w
         PROVE  owed'[w][p] = Entry(c, p)'.clicks
    <3>1. CASE c = c1 /\ p = pointer
      <4>1. w = w0
        BY <1>4, <2>9, <2>15, <3>1
      <4>2. owed'[w][p] = Owed(w0)
        BY <1>4, <2>10, <3>1, <4>1
      <4>3. QED
        BY <1>4, <2>9, <2>12, <2>15, <3>1, <4>1, <4>2
    <3>2. CASE c # c1 \/ p # pointer
      <4>1. Entry(c, p).by = w /\ owed[w][p] = Entry(c, p).clicks
        BY <2>7, <2>15, <3>2 DEF CaptureInv
      <4>2. w # w0 \/ p # pointer
        BY <2>11, <3>2, <4>1
      <4>3. QED
        BY <1>4, <2>7, <2>10, <3>2, <4>1, <4>2
    <3>3. QED
      BY <3>1, <3>2
  <2>16. ASSUME NEW p \in Pointers, NEW w \in alive, owed'[w][p] > 0
         PROVE  w \notin Containers /\ \E c \in Containers : Entry(c, p)'.by = w
    <3>1. CASE w = w0 /\ p = pointer
      <4>1. Owed(w0) > 0
        BY <1>4, <2>10, <2>16, <3>1
      <4>2. \A c \in Containers : c = c1 => Entry(c, p)'.by = w0
        BY <2>9, <2>12, <2>16, <3>1, <4>1
      <4>3. QED
        BY <1>3, <2>4, <3>1, <4>2
    <3>2. CASE ~(w = w0 /\ p = pointer)
      <4>1. owed[w][p] > 0
        BY <1>4, <2>10, <2>16, <3>2
      <4>2. w \notin Containers
        BY <4>1 DEF CaptureInv
      <4>3. PICK c \in Containers : Entry(c, p).by = w
        BY <4>1 DEF CaptureInv
      <4>4. c # c1 \/ p # pointer
        <5>1. Entry(c1, pointer) = e1 /\ e1.by \in {w0, NoWidget}
          BY <1>1, <1>4, <2>4, <2>6
        <5>2. QED
          BY <1>4, <3>2, <4>3, <5>1
      <4>5. QED
        BY <2>7, <4>2, <4>3, <4>4
    <3>3. QED
      BY <3>1, <3>2
  <2>17. alive' = alive
    BY <1>2
  <2>18. QED
    BY <2>13, <2>14, <2>15, <2>16, <2>17 DEF CaptureInv
<1>7. QED
  BY <1>5, <1>6

LEMMA InitCapture ==
    Init => CaptureInv
<1> SUFFICES ASSUME Init PROVE CaptureInv
  OBVIOUS
<1>1. /\ Root \in Containers /\ Containers \subseteq Widgets /\ NoWidget \notin Widgets
      /\ alive = Widgets
      /\ NoCapture.by = NoWidget
  BY MouseAssumption DEF Init, NoCapture
<1>2. \A c \in Containers : \A p \in Pointers : mouseCaptureMap[c][p] = NoCapture
  BY DEF Init
<1>3. \A c \in Containers : \A p \in Pointers : Entry(c, p) = NoCapture
  BY <1>2, EntryIsKept DEF Init, Answered
<1>4. \A w \in alive : \A p \in Pointers : ~(owed[w][p] > 0)
  BY DEF Init
<1>5. QED
  BY <1>1, <1>2, <1>3, <1>4 DEF CaptureInv

LEMMA CaptureKept ==
    LayOutsApart /\ StackInv /\ StackInv' /\ CaptureInv /\ [Next]_vars => CaptureInv'
<1> SUFFICES ASSUME LayOutsApart, StackInv, StackInv', CaptureInv, [Next]_vars
             PROVE  CaptureInv'
  OBVIOUS
<1>1. CASE UNCHANGED vars
  <2>1. UNCHANGED <<children, alive, mouseCaptureMap, stack, consumed, event, down, owed>>
    BY <1>1 DEF vars, treeVars, inputVars
  <2>2. /\ \A c \in Containers : \A p \in Pointers : Entry(c, p)' = Entry(c, p)
        /\ \A p \in Pointers : Held(p)' = Held(p)
    BY <2>1 DEF Entry, Held, After, pointer, Top, Child, Iterated
  <2>3. QED
    BY <2>1, <2>2, CaptureStays, MouseAssumption
<1>2. CASE Next
  <2>1. UNCHANGED program
    BY <1>2 DEF Next
  <2>2. CASE UserCode
    BY <2>1, <2>2, UserCodeCaptures
  <2>3. CASE Events
    BY <2>1, <2>3, EventsCapture
  <2>4. CASE Dispatch
    <3>1. CASE \/ HoverChangedEnter \/ HoverChangedLoop
               \/ MoveEnter \/ MoveLoop \/ Moved \/ MoveRest
      BY <3>1, HoveringCaptures
    <3>2. CASE ButtonEnter
      BY <3>2, ButtonCaptures, ClearingCaptures
    <3>3. CASE ButtonCaptured \/ ButtonHovered
      BY <3>3, ButtonCaptures
    <3>4. CASE ButtonCount
      BY <3>4, ButtonReturnsCapture
    <3>5. CASE ButtonLoop
      BY <3>5, ButtonCaptures, ButtonReturnsCapture
    <3>6. CASE ButtonTried
      BY <3>6, ButtonCaptures, ButtonReturnsCapture
    <3>7. CASE UserReturns
      BY <2>1, <3>7, UserReturnsCapture
    <3>8. CASE EventHandled
      BY <3>8, EventHandledCaptures
    <3>9. QED
      BY <2>4, <3>1, <3>2, <3>3, <3>4, <3>5, <3>6, <3>7, <3>8 DEF Dispatch
  <2>5. QED
    BY <1>2, <2>2, <2>3, <2>4 DEF Next
<1>3. QED
  BY <1>1, <1>2

LEMMA CaptureHolds ==
    ASSUME LayOutsApart
    PROVE  Spec => [](StackInv /\ CaptureInv)
<1>1. Init => StackInv /\ CaptureInv
  BY InitStack, InitCapture
<1>2. StackInv /\ CaptureInv /\ [Next]_vars => (StackInv /\ CaptureInv)'
  BY StackKept, CaptureKept
<1>3. QED
  BY <1>1, <1>2, PTL DEF Spec

\* Between events no pointer without a held button is captured.
LEMMA FreePointers ==
    ASSUME StackInv, CaptureInv, event = NoEvent,
           NEW p \in Pointers, down[p] = 0, NEW c \in Containers
    PROVE  /\ mouseCaptureMap[c][p].by \notin alive
           /\ Entry(c, p) = mouseCaptureMap[c][p]
<1>1. stack = << >> /\ Root \in Containers /\ Containers \subseteq alive
  BY MouseAssumption DEF StackInv, Stacked, TreeTyped
<1>2. \A d \in Containers : Entry(d, p) = mouseCaptureMap[d][p]
  BY <1>1, EntryIsKept DEF Answered
<1>3. Held(p) = 0
  BY <1>1 DEF Held
<1>4. mouseCaptureMap[Root][p].clicks \in Nat
  BY <1>1 DEF StackInv, CaptureTyped
<1>5. mouseCaptureMap[Root][p].by \notin alive
  BY <1>3, <1>4 DEF CaptureInv
<1>6. c # Root => mouseCaptureMap[c][p].by \notin alive
  BY <1>1, <1>2, <1>5 DEF CaptureInv
<1>7. QED
  BY <1>2, <1>5, <1>6

\* A pointer is captured no longer than one of its buttons is held: when the
\* events there were have been handled and no button of the pointer is down,
\* no entry of any container's mouseCaptureMap names a widget that lives.
THEOREM CapturesEnd ==
    ASSUME LayOutsApart
    PROVE  Spec => []CaptureEnds
<1>1. StackInv /\ CaptureInv => CaptureEnds
  BY FreePointers DEF CaptureEnds
<1>2. QED
  BY <1>1, CaptureHolds, PTL

\* Every widget that consumed a press gets a release for it, as long as it
\* lives: wherever it was moved, taken out, hidden or disabled in between,
\* however many buttons were held, and through both levels of containers.
THEOREM PressesGetReleases ==
    ASSUME LayOutsApart
    PROVE  Spec => []PressesAreReleased
<1>1. ASSUME StackInv, CaptureInv
      PROVE  PressesAreReleased
  <2>1. ASSUME event = NoEvent, NEW p \in Pointers, down[p] = 0, NEW w \in alive
        PROVE  owed[w][p] = 0
    <3>1. owed[w][p] \in Nat
      BY <1>1 DEF StackInv, TreeTyped, CaptureTyped
    <3>2. \A c \in Containers : Entry(c, p).by # w
      BY <1>1, <2>1, FreePointers
    <3>3. ~(owed[w][p] > 0)
      BY <1>1, <3>2 DEF CaptureInv
    <3>4. QED
      BY <3>1, <3>3
  <2>2. QED
    BY <2>1 DEF PressesAreReleased
<1>2. QED
  BY <1>1, CaptureHolds, PTL

-----------------------------------------------------------------------------
(* Which widgets are hovered, in programs that leave the tree as it is *)

Spots(c) == 1 .. Len(children[c])

\* Call f is one of container c that is to un-hover the c's child at k, or to
\* handle a move at k; or it is one that waits for the child at k to return.
IsAt(what, f, c, k) ==
    /\ f.of = c
    /\ \/ /\ what = "unhovers" /\ f.proc = "onHoverChanged"
          /\ f.pc = "enter" \/ k >= f.at
       \/ /\ what = "moves" /\ f.proc = "onMouseMove"
          /\ f.pc = "enter" \/ k <= f.at
       \/ /\ what = "passed" /\ f.proc = "onMouseMove"
          /\ f.pc = "moved" /\ k = f.at

Some(what, s, c, k) == \E i \in 1 .. Len(s) : IsAt(what, s[i], c, k)

\* The tree is what it was, and what has a pointer is where it had it.
Steady ==
    /\ children = InitialChildren
    /\ visible = Widgets /\ enabled = Widgets
    /\ \A c \in Containers : \A p \in Pointers :
           LET w == mouseCaptureMap[c][p].by
           IN w # NoWidget => \E k \in Spots(c) : w = children[c][k]

\* Calls are of the event, and one that waits in its list for a child does so
\* for the child that is there.
Rooted ==
    /\ event.kind \in {"move", "button"} =>
           (pointer \in hovered[Root] <=> Root \in under)
    /\ under \in Positions
    /\ \A i \in 1 .. Len(stack) :
           /\ Method(stack[i]) = "onMouseMove" => event.kind = "move"
           /\ Method(stack[i]) = "onMouseButton" => event.kind = "button"
    /\ \A i \in 1 .. Len(stack) : i < Len(stack) /\ stack[i].pc = "moved" =>
           stack[i + 1].of = children[stack[i].of][stack[i].at]

\* Pointers of other events hover nothing outside what they hover.
Others ==
    \A q \in Pointers \ {pointer} : \A c \in Containers : \A k \in Spots(c) :
        q \in hovered[children[c][k]] => q \in hovered[c]

\* Container c is handling a move, and will be hovered after that.
Awaits(c) ==
    /\ c \in under
    /\ \E j \in Spots(Root) :
           children[Root][j] = c /\ Some("passed", stack, Root, j)

InsideAt(c, k) ==
    pointer \in hovered[children[c][k]] =>
        pointer \in hovered[c] \/ Some("unhovers", stack, c, k) \/ Awaits(c)

Inside == \A c \in Containers : \A k \in Spots(c) : InsideAt(c, k)

\* A container that handles a press or a release, or is going to, is hovered
\* if it is under the pointer.
Shown(w) == w \in Containers /\ w \in under => pointer \in hovered[w]

ShownAt(f) ==
    f.proc = "onMouseButton" =>
        /\ Shown(f.of)
        /\ f.pc = "captured" => Shown(mouseCaptureMap[f.of][pointer].by)
        /\ f.pc = "hovered" => Shown(children[f.of][f.at])

ButtonsShown == \A i \in 1 .. Len(stack) : ShownAt(stack[i])

\* A move finds its way to the children of the root and to theirs.
FollowsAt(k) ==
    pointer \in hovered[children[Root][k]] =>
        children[Root][k] \in under \/ Some("moves", stack, Root, k)

FollowsIn(j, c, k) ==
    pointer \in hovered[children[c][k]] =>
        \/ children[c][k] \in under
        \/ Some("unhovers", stack, c, k)
        \/ /\ Some("moves", stack, Root, j)
           /\ Some("passed", stack, Root, j) => Some("moves", stack, c, k)

Follows ==
    event.kind = "move" =>
        /\ \A k \in Spots(Root) : FollowsAt(k)
        /\ \A j \in Spots(Root) : \A c \in Containers : \A k \in Spots(c) :
               children[Root][j] = c => FollowsIn(j, c, k)

HoverOK == Steady /\ Rooted /\ Others /\ Inside /\ ButtonsShown /\ Follows
HoverInv == StackInv /\ (TreeStays => HoverOK)

-----------------------------------------------------------------------------
(* Widgets and calls *)

\* A widget is in one place.
LEMMA OnePlace ==
    ASSUME Steady, NEW c \in Containers, NEW d \in Containers,
           NEW i \in Spots(c), NEW j \in Spots(d),
           children[c][i] = children[d][j]
    PROVE  c = d /\ i = j
BY MouseAssumption DEF Steady, Spots

LEMMA SpotTyped ==
    ASSUME TreeTyped, NEW c \in Containers, NEW k \in Spots(c)
    PROVE  /\ children[c][k] \in Below(c) /\ children[c][k] \in Widgets
           /\ children[c][k] # Root /\ children[c][k] # c
           /\ children[c][k] \in Containers => c = Root
           /\ k \in Nat /\ k >= 1 /\ Len(children[c]) \in Nat
<1>1. children[c][k] \in Below(c) /\ Len(children[c]) \in Nat
  BY ChildTyped DEF Spots
<1> QED
  BY <1>1 DEF Below, Spots

\* The innermost call goes on as f, and calls cs.
Goes(f, cs) ==
    /\ f \in CallType /\ f.proc = Top.proc /\ f.of = Top.of
    /\ cs = << >> \/ \E n \in Methods : \E w \in Widgets : cs = << Call(n, w) >>
    /\ stack'[Len(stack)] = f
    /\ Len(stack') = IF cs = << >> THEN Len(stack) ELSE Len(stack) + 1
    /\ \A i \in 1 .. Len(stack) - 1 : stack'[i] = stack[i]
    /\ cs # << >> => stack'[Len(stack) + 1] = cs[1]

LEMMA GoesOnTo ==
    ASSUME StackInv, NEW m \in Methods, NEW pc0, InCall(m, pc0),
           NEW pc \in Places(m), NEW k \in Nat, NEW cs, Continue(pc, k, cs),
           cs = << >> \/ \E n \in Methods : \E w \in Widgets : cs = << Call(n, w) >>,
           NEW f, f = At(Top, pc, k)
    PROVE  Goes(f, cs) /\ f.proc = m /\ f.of = Top.of /\ f.pc = pc /\ f.at = k
<1>1. /\ stack # << >> /\ stack \in Seq(CallType)
      /\ Top \in CallType /\ Top.proc = m
  BY InCallTyped DEF StackInv, Stacked
<1>3. f \in CallType /\ f.proc = m /\ f.of = Top.of /\ f.pc = pc /\ f.at = k
  BY WentOn
<1>4. /\ cs \in Seq(CallType) /\ Len(cs) = IF cs = << >> THEN 0 ELSE 1
      /\ cs # << >> => 1 \in 1 .. Len(cs)
  <2>1. CASE cs = << >>
    BY <2>1
  <2>2. CASE cs # << >>
    <3>1. PICK n \in Methods, w \in Widgets : cs = << Call(n, w) >>
      BY <2>2
    <3>2. PICK g : g = Call(n, w)
      OBVIOUS
    <3>3. g \in CallType
      BY <3>2, CallIsNew
    <3> QED
      BY <2>2, <3>1, <3>2, <3>3
  <2> QED
    BY <2>1, <2>2
<1>5. PICK t : t = Append(Front(stack), f) \o cs
  OBVIOUS
<1>6. stack' = t
  BY <1>5 DEF Continue, At
<1>7. /\ Len(t) = Len(stack) + Len(cs)
      /\ \A i \in 1 .. Len(stack) - 1 : t[i] = stack[i]
      /\ t[Len(stack)] = f
      /\ \A i \in 1 .. Len(cs) : t[Len(stack) + i] = cs[i]
  <2>1. LET u == Append(Front(stack), f) \o cs
        IN /\ u \in Seq(CallType) /\ u # << >> /\ Len(u) = Len(stack) + Len(cs)
           /\ \A i \in 1 .. Len(stack) - 1 : u[i] = stack[i]
           /\ u[Len(stack)] = f
           /\ \A i \in 1 .. Len(cs) : u[Len(stack) + i] = cs[i]
    BY <1>1, <1>3, <1>4, NewTop
  <2> QED
    BY <1>5, <2>1
<1>8. Len(stack) \in Nat
  BY <1>1, LenProperties
<1>9. cs # << >> => t[Len(stack) + 1] = cs[1]
  BY <1>4, <1>7
<1> QED
  BY <1>1, <1>3, <1>4, <1>6, <1>7, <1>8, <1>9 DEF Goes

LEMMA SomeReturns ==
    ASSUME NEW s, NEW t, NEW n \in Nat \ {0}, Len(s) = n, Len(t) = n - 1,
           \A i \in 1 .. n - 1 : t[i] = s[i],
           NEW what, NEW c, NEW k
    PROVE  /\ Some(what, s, c, k) =>
                  Some(what, t, c, k) \/ IsAt(what, s[n], c, k)
           /\ Some(what, t, c, k) => Some(what, s, c, k)
<1>1. ASSUME Some(what, s, c, k)
      PROVE  Some(what, t, c, k) \/ IsAt(what, s[n], c, k)
  <2>1. PICK i \in 1 .. n : IsAt(what, s[i], c, k)
    BY <1>1 DEF Some
  <2>2. i = n \/ (i \in 1 .. n - 1 /\ i \in 1 .. Len(t))
    OBVIOUS
  <2> QED
    BY <2>1, <2>2 DEF Some
<1>2. ASSUME Some(what, t, c, k) PROVE Some(what, s, c, k)
  <2>1. PICK i \in 1 .. n - 1 : IsAt(what, t[i], c, k)
    BY <1>2 DEF Some
  <2>2. i \in 1 .. Len(s) /\ t[i] = s[i]
    OBVIOUS
  <2> QED
    BY <2>1, <2>2 DEF Some
<1> QED
  BY <1>1, <1>2

-----------------------------------------------------------------------------
(* What a step does to what is hovered *)

\* The pointer hovers w now, or does not, and everything else as it did.
Hovers(w, is) ==
    /\ \A v \in Widgets : \A q \in Pointers :
           q # pointer => (q \in hovered'[v] <=> q \in hovered[v])
    /\ \A v \in Widgets :
           v # w => (pointer \in hovered'[v] <=> pointer \in hovered[v])
    /\ w \in Widgets => (pointer \in hovered'[w] <=> is)

\* The innermost call goes on as f, and calls cs, having told the child at k,
\* which is w, that it is hovered or is not; or has told none.
Tells(f, cs, w, is, k) ==
    /\ Goes(f, cs) /\ Hovers(w, is)
    /\ w # NoWidget => k \in Spots(Top.of) /\ w = children[Top.of][k]
    /\ w \in Containers /\ pointer \in hovered[w] /\ ~is =>
           cs # << >> /\ cs[1] = Call("onHoverChanged", w)

LEMMA HoverSets ==
    ASSUME StackInv, NEW w \in Widgets, NEW is \in BOOLEAN,
           hovered' = HoverSet(w, is)
    PROVE  /\ Hovers(w, is)
           /\ LET cs == HoverCall(w, is)
              IN \/ cs = << >>
                 \/ \E n \in Methods : \E v \in Widgets : cs = << Call(n, v) >>
           /\ w \in Containers /\ pointer \in hovered[w] /\ ~is =>
                  /\ HoverCall(w, is) # << >>
                  /\ HoverCall(w, is)[1] = Call("onHoverChanged", w)
<1>1. hovered \in [Widgets -> SUBSET Pointers]
  BY DEF StackInv, TreeTyped
<1>2. \A v \in Widgets : hovered'[v] =
          IF v = w THEN IF is THEN hovered[v] \cup {pointer}
                        ELSE hovered[v] \ {pointer}
          ELSE hovered[v]
  BY <1>1 DEF HoverSet
<1>3. Hovers(w, is)
  BY <1>2 DEF Hovers
<1>4. "onHoverChanged" \in Methods
  BY DEF Methods
<1>5. PICK g : g = Call("onHoverChanged", w)
  OBVIOUS
<1>6. /\ HoverCall(w, is) = << >> \/ HoverCall(w, is) = << g >>
      /\ w \in Containers /\ pointer \in hovered[w] /\ ~is =>
             HoverCall(w, is) = << g >>
  BY <1>5 DEF HoverCall
<1>7. << g >> # << >> /\ << g >>[1] = g
  OBVIOUS
<1> QED
  BY <1>3, <1>4, <1>5, <1>6, <1>7

\* A step that goes on and tells the child at position j of its list.
LEMMA TellsChild ==
    ASSUME StackInv, NEW m \in Methods, NEW pc0, InCall(m, pc0),
           NEW pc \in Places(m), NEW k \in Nat,
           NEW j \in Spots(Top.of), NEW w, w = children[Top.of][j],
           NEW is \in BOOLEAN, hovered' = HoverSet(w, is),
           NEW cs, cs = HoverCall(w, is), Continue(pc, k, cs),
           NEW f, f = At(Top, pc, k)
    PROVE  /\ Tells(f, cs, w, is, j) /\ w # NoWidget /\ w \in Widgets
           /\ f.proc = m /\ f.of = Top.of /\ f.pc = pc /\ f.at = k
<1>1. w \in Widgets /\ w # NoWidget
  BY InCallTyped, SpotTyped, MouseAssumption
<1>2. /\ Hovers(w, is)
      /\ cs = << >> \/ \E n \in Methods : \E v \in Widgets : cs = << Call(n, v) >>
      /\ w \in Containers /\ pointer \in hovered[w] /\ ~is =>
             cs # << >> /\ cs[1] = Call("onHoverChanged", w)
  BY <1>1, HoverSets
<1>3. Goes(f, cs) /\ f.proc = m /\ f.of = Top.of /\ f.pc = pc /\ f.at = k
  BY <1>2, GoesOnTo
<1> QED
  BY <1>1, <1>2, <1>3 DEF Tells

\* A step that goes on and tells none.
LEMMA TellsNone ==
    ASSUME StackInv, NEW m \in Methods, NEW pc0, InCall(m, pc0),
           NEW pc \in Places(m), NEW k \in Nat, UNCHANGED hovered,
           NEW cs, Continue(pc, k, cs),
           cs = << >> \/ \E n \in Methods : \E w \in Widgets : cs = << Call(n, w) >>,
           NEW f, f = At(Top, pc, k), NEW is, NEW j
    PROVE  /\ Tells(f, cs, NoWidget, is, j)
           /\ f.proc = m /\ f.of = Top.of /\ f.pc = pc /\ f.at = k
<1>1. Goes(f, cs) /\ f.proc = m /\ f.of = Top.of /\ f.pc = pc /\ f.at = k
  BY GoesOnTo
<1>2. NoWidget \notin Widgets /\ Containers \subseteq Widgets
  BY MouseAssumption
<1> QED
  BY <1>1, <1>2 DEF Tells, Hovers

LEMMA SomeTells ==
    ASSUME StackInv, stack # << >>, NEW f, NEW cs, Goes(f, cs),
           NEW what, NEW c, NEW k
    PROVE  /\ Some(what, stack, c, k) =>
                  Some(what, stack', c, k) \/ IsAt(what, Top, c, k)
           /\ Some(what, stack', c, k) =>
                  \/ Some(what, stack, c, k) \/ IsAt(what, f, c, k)
                  \/ cs # << >> /\ IsAt(what, cs[1], c, k)
           /\ IsAt(what, f, c, k) => Some(what, stack', c, k)
           /\ cs # << >> /\ IsAt(what, cs[1], c, k) =>
                  Some(what, stack', c, k)
<1>1. Len(stack) \in Nat \ {0} /\ Top = stack[Len(stack)]
  BY TopTyped DEF StackInv
<1>2. PICK s, t, n, made, g :
          /\ s = stack /\ t = stack' /\ n = Len(stack) /\ made = (cs # << >>)
          /\ g = cs[1]
  OBVIOUS
<1>3. /\ n \in Nat \ {0} /\ Len(s) = n /\ t[n] = f /\ made \in BOOLEAN
      /\ Len(t) = IF made THEN n + 1 ELSE n
      /\ \A i \in 1 .. n - 1 : t[i] = s[i]
      /\ made => t[n + 1] = g
  BY <1>1, <1>2 DEF Goes
<1>11. ASSUME Some(what, s, c, k)
      PROVE  Some(what, t, c, k) \/ IsAt(what, s[n], c, k)
  <2>1. PICK i \in 1 .. n : IsAt(what, s[i], c, k)
    BY <1>3, <1>11 DEF Some
  <2>2. CASE i = n
    BY <2>1, <2>2
  <2>3. CASE i # n
    <3>1. i \in 1 .. n - 1 /\ i \in 1 .. Len(t)
      BY <1>3, <2>3
    <3> QED
      BY <1>3, <2>1, <3>1 DEF Some
  <2> QED
    BY <2>2, <2>3
<1>12. ASSUME Some(what, t, c, k)
      PROVE  \/ Some(what, s, c, k) \/ IsAt(what, f, c, k)
             \/ made /\ IsAt(what, g, c, k)
  <2>1. PICK i \in 1 .. Len(t) : IsAt(what, t[i], c, k)
    BY <1>12 DEF Some
  <2>2. i \in 1 .. n - 1 \/ i = n \/ (made /\ i = n + 1)
    BY <1>3
  <2>3. CASE i \in 1 .. n - 1
    <3>1. i \in 1 .. Len(s) /\ IsAt(what, s[i], c, k)
      BY <1>3, <2>1, <2>3
    <3> QED
      BY <3>1 DEF Some
  <2> QED
    BY <1>3, <2>1, <2>2, <2>3
<1>13. ASSUME IsAt(what, f, c, k) PROVE Some(what, t, c, k)
  <2>1. n \in 1 .. Len(t)
    BY <1>3
  <2> QED
    BY <1>3, <1>13, <2>1 DEF Some
<1>14. ASSUME made, IsAt(what, g, c, k) PROVE Some(what, t, c, k)
  <2>1. n + 1 \in 1 .. Len(t)
    BY <1>3, <1>14
  <2> QED
    BY <1>3, <1>14, <2>1 DEF Some
<1> QED
  BY <1>1, <1>2, <1>11, <1>12, <1>13, <1>14

\* A new call of a container begins with its first child.
LEMMA IsAtNew ==
    ASSUME NEW m, NEW c \in Containers, NEW k
    PROVE  /\ m = "onHoverChanged" => IsAt("unhovers", Call(m, c), c, k)
           /\ m = "onMouseMove" => IsAt("moves", Call(m, c), c, k)
BY DEF IsAt, Call

\* A call that is about to begin waits for none.
LEMMA NoneNew ==
    ASSUME NEW m \in Methods, NEW w, NEW c, NEW k
    PROVE  ~IsAt("passed", Call(m, w), c, k)
BY DEF IsAt, Call, Methods

\* What the call that goes on as f has done with its list: a child that is
\* hovered now is under the pointer, and the call passes over no child that it
\* was to un-hover or to move before it has.
Handles(f, w, is, k0) ==
    LET c == Top.of
        told(k) == w # NoWidget /\ k = k0
    IN /\ w # NoWidget /\ is =>
              w \in under /\ (pointer \in hovered[c] \/ Awaits(c))
       /\ \A k \in Spots(c) : IsAt("unhovers", Top, c, k) =>
              IsAt("unhovers", f, c, k) \/ (told(k) /\ ~is)
       /\ \A k \in Spots(c) : IsAt("passed", Top, c, k) =>
              IsAt("passed", f, c, k) \/ (told(k) /\ (is <=> w \in under))
       /\ \A k \in Spots(c) : IsAt("moves", Top, c, k) =>
              \/ IsAt("moves", f, c, k)
              \/ told(k) /\ (IsAt("passed", Top, c, k) \/ ~is)

LEMMA AwaitsTells ==
    ASSUME StackInv, stack # << >>, UNCHANGED <<children, under, event>>,
           NEW f, NEW cs, NEW w, NEW is \in BOOLEAN, NEW k0,
           Tells(f, cs, w, is, k0), Handles(f, w, is, k0),
           NEW d \in Containers, Awaits(d)
    PROVE  Awaits(d)' \/ (d = w /\ is)
<1>1. d \in under
  BY DEF Awaits
<1>2. PICK j \in Spots(Root) :
          children[Root][j] = d /\ Some("passed", stack, Root, j)
  BY DEF Awaits
<1>3. Goes(f, cs)
  BY DEF Tells
<1>4. Some("passed", stack', Root, j) \/ IsAt("passed", Top, Root, j)
  BY <1>2, <1>3, SomeTells
<1>5. CASE Some("passed", stack', Root, j)
  BY <1>1, <1>2, <1>5 DEF Awaits, Spots
<1>6. CASE IsAt("passed", Top, Root, j)
  <2>1. Top.of = Root
    BY <1>6 DEF IsAt
  <2>2. CASE IsAt("passed", f, Root, j)
    BY <1>3, <1>5, <2>2, SomeTells
  <2>3. CASE ~IsAt("passed", f, Root, j)
    <3>1. w # NoWidget /\ j = k0 /\ (is <=> w \in under)
      BY <1>6, <2>1, <2>3 DEF Handles
    <3>2. w = children[Root][j]
      BY <2>1, <3>1 DEF Tells
    <3> QED
      BY <1>1, <1>2, <3>1, <3>2
  <2> QED
    BY <2>2, <2>3
<1> QED
  BY <1>4, <1>5, <1>6

LEMMA InsideGoes ==
    ASSUME StackInv, stack # << >>, UNCHANGED <<children, under, event>>,
           NEW f, NEW cs, NEW w, NEW is \in BOOLEAN, NEW k0,
           Tells(f, cs, w, is, k0), Handles(f, w, is, k0),
           Steady, Inside, Top.of \in Containers
    PROVE  Inside'
<1>1. ASSUME NEW d \in Containers, NEW k \in Spots(d), NEW v,
             v = children[d][k], pointer \in hovered'[v]
      PROVE  pointer \in hovered'[d] \/ Some("unhovers", stack', d, k)
             \/ Awaits(d)'
  <2>1. v \in Widgets /\ v # d /\ d \in Widgets /\ Root \in Widgets
    BY <1>1, SpotTyped, MouseAssumption DEF StackInv
  <2>2. Goes(f, cs) /\ Hovers(w, is)
    BY DEF Tells
  <2>3. w # NoWidget => k0 \in Spots(Top.of) /\ w = children[Top.of][k0]
    BY DEF Tells
  <2>4. NoWidget \notin Widgets
    BY MouseAssumption
  <2>5. CASE v = w
    <3>1. w # NoWidget /\ is
      BY <1>1, <2>1, <2>2, <2>4, <2>5 DEF Hovers
    <3>2. d = Top.of /\ k = k0
      BY <1>1, <2>3, <2>5, <3>1, OnePlace
    <3>3. pointer \in hovered[d] \/ Awaits(d)
      BY <3>1, <3>2 DEF Handles
    <3>4. pointer \in hovered[d] => pointer \in hovered'[d]
      BY <2>1, <2>2, <2>5 DEF Hovers
    <3>5. Awaits(d) => Awaits(d)'
      BY <2>1, <2>5, AwaitsTells
    <3> QED
      BY <3>3, <3>4, <3>5
  <2>6. CASE v # w
    <3>1. pointer \in hovered[v]
      BY <1>1, <2>1, <2>2, <2>6 DEF Hovers
    <3>2. InsideAt(d, k)
      BY DEF Inside
    <3>3. pointer \in hovered[d] \/ Some("unhovers", stack, d, k) \/ Awaits(d)
      BY <1>1, <3>1, <3>2 DEF InsideAt
    <3>4. CASE pointer \in hovered[d]
      <4>1. CASE d = w /\ ~is
        <5>1. cs # << >> /\ cs[1] = Call("onHoverChanged", d)
          BY <3>4, <4>1 DEF Tells
        <5>2. IsAt("unhovers", cs[1], d, k)
          BY <5>1, IsAtNew
        <5> QED
          BY <2>2, <5>1, <5>2, SomeTells
      <4>2. CASE d # w \/ is
        BY <2>1, <2>2, <3>4, <4>2 DEF Hovers
      <4> QED
        BY <4>1, <4>2
    <3>5. CASE Some("unhovers", stack, d, k)
      <4>1. Some("unhovers", stack', d, k) \/ IsAt("unhovers", Top, d, k)
        BY <2>2, <3>5, SomeTells
      <4>2. ASSUME IsAt("unhovers", Top, d, k)
            PROVE  IsAt("unhovers", f, d, k)
        <5>1. Top.of = d
          BY <4>2 DEF IsAt
        <5> QED
          BY <1>1, <2>3, <2>6, <4>2, <5>1 DEF Handles
      <4> QED
        BY <2>2, <4>1, <4>2, SomeTells
    <3>6. CASE Awaits(d)
      <4>1. Awaits(d)' \/ (d = w /\ is)
        BY <3>6, AwaitsTells
      <4> QED
        BY <2>1, <2>2, <4>1 DEF Hovers
    <3> QED
      BY <3>3, <3>4, <3>5, <3>6
  <2> QED
    BY <2>5, <2>6
<1>2. pointer' = pointer /\ children' = children
  BY DEF pointer
<1> QED
  BY <1>1, <1>2 DEF Inside, InsideAt, Spots

\* A call of onMouseMove() is the root's and the outermost one, or is made by
\* one that passes the move to its child.
LEMMA MovedBy ==
    ASSUME StackInv, Rooted, NEW i \in 1 .. Len(stack),
           Method(stack[i]) = "onMouseMove"
    PROVE  /\ stack[i].of = Root <=> i = 1
           /\ i > 1 =>
                  /\ i - 1 \in 1 .. Len(stack)
                  /\ stack[i - 1].of \in Containers
                  /\ stack[i - 1].proc = "onMouseMove"
                  /\ stack[i - 1].at \in Spots(stack[i - 1].of)
                  /\ stack[i].of = children[stack[i - 1].of][stack[i - 1].at]
                  /\ IsAt("passed", stack[i - 1], stack[i - 1].of, stack[i - 1].at)
                  /\ IsAt("moves", stack[i - 1], stack[i - 1].of, stack[i - 1].at)
<1>1. stack \in Seq(CallType) /\ Len(stack) \in Nat /\ i \in Nat /\ i >= 1
  BY LenProperties DEF StackInv, Stacked
<1>2. CASE i = 1
  <2>1. stack # << >>
    BY <1>2
  <2>2. stack[1].of = Root
    BY <2>1 DEF StackInv, Stacked, StackOK
  <2> QED
    BY <1>2, <2>2
<1>3. CASE i > 1
  <2>1. PICK k : k = i - 1
    OBVIOUS
  <2>2. k \in 1 .. Len(stack) /\ k < Len(stack) /\ k + 1 = i
    BY <1>1, <1>3, <2>1
  <2>3. PICK f : f = stack[k]
    OBVIOUS
  <2>4. f \in CallType /\ IsCall(f) /\ CalledBy(stack[i], f, k)
    BY <1>1, <2>2, <2>3, ElementOfSeq DEF StackInv, Stacked, StackOK
  <2>5. f.proc # "user" /\ f.pc = "moved"
    BY <2>4 DEF CalledBy, Calls
  <2>6. f.proc = "onMouseMove" /\ f.of \in Containers
    BY <2>4, <2>5 DEF IsCall, Methods
  <2>7. Within(f, children[f.of])
    BY <2>2, <2>3, <2>5 DEF StackInv, Stacked, LoopsOK, Loops
  <2>8. f.at \in Nat /\ Len(children[f.of]) \in Nat
    BY <2>4, <2>6, ChildTyped DEF CallType, StackInv
  <2>9. f.at \in Spots(f.of)
    BY <2>5, <2>6, <2>7, <2>8 DEF Within, Spots
  <2>10. stack[i].of = children[f.of][f.at]
    BY <2>2, <2>3, <2>5 DEF Rooted
  <2>11. IsAt("passed", f, f.of, f.at) /\ IsAt("moves", f, f.of, f.at)
    BY <2>5, <2>6, <2>8 DEF IsAt
  <2>12. stack[i].of # Root
    BY <2>6, <2>9, <2>10, SpotTyped DEF StackInv
  <2> QED
    BY <1>3, <2>1, <2>2, <2>3, <2>6, <2>9, <2>10, <2>11, <2>12
<1> QED
  BY <1>1, <1>2, <1>3

\* The root's call of onMouseMove() is the only one while it goes on.
LEMMA RootMovesAlone ==
    ASSUME StackInv, Rooted, stack # << >>, Top.proc = "onMouseMove",
           Top.of = Root, NEW what, NEW d, d # Root, NEW k
    PROVE  ~Some(what, stack, d, k)
<1>1. Len(stack) \in Nat \ {0} /\ Top = stack[Len(stack)]
  BY TopTyped DEF StackInv
<1>2. Method(stack[Len(stack)]) = "onMouseMove" /\ Len(stack) \in 1 .. Len(stack)
  BY <1>1 DEF Method
<1>3. Len(stack) = 1
  BY <1>1, <1>2, MovedBy
<1> QED
  BY <1>1, <1>3 DEF Some, IsAt

LEMMA SomeKept ==
    ASSUME StackInv, stack # << >>,
           NEW f, NEW cs, NEW w, NEW is \in BOOLEAN, NEW k0,
           Tells(f, cs, w, is, k0), Handles(f, w, is, k0),
           NEW what \in {"unhovers", "moves"},
           NEW d \in Containers, NEW k \in Spots(d), children[d][k] # w,
           Some(what, stack, d, k)
    PROVE  Some(what, stack', d, k)
<1>1. Goes(f, cs)
  BY DEF Tells
<1>2. Some(what, stack', d, k) \/ IsAt(what, Top, d, k)
  BY <1>1, SomeTells
<1>3. ASSUME IsAt(what, Top, d, k)
      PROVE  IsAt(what, f, d, k)
  <2>1. Top.of = d
    BY <1>3 DEF IsAt
  <2>2. ~(w # NoWidget /\ k = k0)
    BY <2>1 DEF Tells
  <2>3. CASE what = "unhovers"
    BY <1>3, <2>1, <2>2, <2>3 DEF Handles
  <2>4. CASE what = "moves"
    BY <1>3, <2>1, <2>2, <2>4 DEF Handles
  <2> QED
    BY <2>3, <2>4
<1> QED
  BY <1>1, <1>2, <1>3, SomeTells

\* A call that passes a move to its child makes the call.
Passing(f, cs) ==
    f.pc = "moved" =>
        cs # << >> /\ cs[1] = Call("onMouseMove", children[f.of][f.at])

LEMMA FollowsGoes ==
    ASSUME StackInv, stack # << >>, UNCHANGED <<children, under, event>>,
           NEW f, NEW cs, NEW w, NEW is \in BOOLEAN, NEW k0,
           Tells(f, cs, w, is, k0), Handles(f, w, is, k0), Passing(f, cs),
           Steady, Rooted, Inside, Follows, Top.of \in Containers
    PROVE  Follows'
<1>1. pointer' = pointer /\ children' = children /\ under' = under /\ event' = event
  BY DEF pointer
<1>2. Goes(f, cs) /\ Hovers(w, is)
  BY DEF Tells
<1>3. NoWidget \notin Widgets /\ Root \in Containers
  BY MouseAssumption
<1>4. ASSUME NEW v \in Widgets, pointer \in hovered'[v]
      PROVE  \/ v = w /\ v \in under
             \/ v # w /\ pointer \in hovered[v]
  BY <1>2, <1>3, <1>4 DEF Hovers, Handles
<1>5. ASSUME event.kind = "move", NEW k \in Spots(Root), NEW v,
             v = children[Root][k], pointer \in hovered'[v]
      PROVE  v \in under \/ Some("moves", stack', Root, k)
  <2>1. v \in Widgets
    BY <1>3, <1>5, SpotTyped DEF StackInv
  <2>2. CASE v # w /\ pointer \in hovered[v]
    <3>1. v \in under \/ Some("moves", stack, Root, k)
      BY <1>5, <2>2 DEF Follows, FollowsAt
    <3> QED
      BY <1>3, <1>5, <2>2, <3>1, SomeKept
  <2> QED
    BY <1>4, <1>5, <2>1, <2>2
<1>6. ASSUME event.kind = "move", NEW j \in Spots(Root), NEW d \in Containers,
             NEW k \in Spots(d), d = children[Root][j],
             NEW v, v = children[d][k], pointer \in hovered'[v]
      PROVE  \/ v \in under
             \/ Some("unhovers", stack', d, k)
             \/ /\ Some("moves", stack', Root, j)
                /\ Some("passed", stack', Root, j) =>
                       Some("moves", stack', d, k)
  <2>1. v \in Widgets /\ d # Root
    BY <1>3, <1>6, SpotTyped DEF StackInv
  <2>2. CASE v # w /\ pointer \in hovered[v]
    <3>1. FollowsIn(j, d, k)
      BY <1>6 DEF Follows
    <3>2. CASE v \in under
      BY <3>2
    <3>3. CASE Some("unhovers", stack, d, k)
      BY <1>6, <2>2, <3>3, SomeKept
    <3>4. CASE /\ Some("moves", stack, Root, j)
               /\ Some("passed", stack, Root, j) => Some("moves", stack, d, k)
      <4>1. CASE Some("moves", stack', Root, j)
        <5>1. ASSUME Some("passed", stack', Root, j)
              PROVE  Some("moves", stack', d, k)
          <6>1. \/ Some("passed", stack, Root, j) \/ IsAt("passed", f, Root, j)
                \/ cs # << >> /\ IsAt("passed", cs[1], Root, j)
            BY <1>2, <5>1, SomeTells
          <6>2. CASE Some("passed", stack, Root, j)
            BY <1>6, <2>2, <3>4, <6>2, SomeKept
          <6>3. CASE IsAt("passed", f, Root, j)
            <7>1. cs # << >> /\ cs[1] = Call("onMouseMove", d)
              BY <1>6, <6>3 DEF IsAt, Passing
            <7>2. IsAt("moves", cs[1], d, k)
              BY <7>1, IsAtNew
            <7> QED
              BY <1>2, <7>1, <7>2, SomeTells
          <6>4. CASE cs # << >> /\ IsAt("passed", cs[1], Root, j)
            <7>1. PICK n \in Methods, u \in Widgets : cs = << Call(n, u) >>
              BY <1>2, <6>4 DEF Goes
            <7>2. cs[1] = Call(n, u)
              BY <7>1
            <7> QED
              BY <6>4, <7>2, NoneNew
          <6> QED
            BY <6>1, <6>2, <6>3, <6>4
        <5> QED
          BY <4>1, <5>1
      <4>2. CASE ~Some("moves", stack', Root, j)
        <5>1. IsAt("moves", Top, Root, j) /\ ~IsAt("moves", f, Root, j)
          BY <1>2, <3>4, <4>2, SomeTells
        <5>2. Top.of = Root /\ Top.proc = "onMouseMove"
          BY <5>1 DEF IsAt
        <5>3. /\ w # NoWidget /\ j = k0
              /\ IsAt("passed", Top, Root, j) \/ ~is
          BY <5>1, <5>2 DEF Handles
        <5>4. w = d
          BY <1>6, <5>2, <5>3 DEF Tells
        <5>5. ~Some("passed", stack, Root, j) /\ ~Some("unhovers", stack, d, k)
          BY <2>1, <3>4, <5>2, RootMovesAlone
        <5>6. ~is
          <6>1. Len(stack) \in 1 .. Len(stack) /\ Top = stack[Len(stack)]
            BY TopTyped DEF StackInv
          <6> QED
            BY <5>3, <5>5, <6>1 DEF Some
        <5>7. ~Awaits(d)
          <6>1. ASSUME NEW i \in Spots(Root), children[Root][i] = d
                PROVE  i = j
            BY <1>3, <1>6, <6>1, OnePlace
          <6> QED
            BY <5>5, <6>1 DEF Awaits
        <5>8. pointer \in hovered[d]
          BY <1>6, <2>2, <5>5, <5>7 DEF Inside, InsideAt
        <5>9. cs # << >> /\ cs[1] = Call("onHoverChanged", d)
          BY <5>4, <5>6, <5>8 DEF Tells
        <5>10. IsAt("unhovers", cs[1], d, k)
          BY <5>9, IsAtNew
        <5> QED
          BY <1>2, <5>9, <5>10, SomeTells
      <4> QED
        BY <4>1, <4>2
    <3> QED
      BY <1>6, <2>2, <3>1, <3>2, <3>3, <3>4 DEF FollowsIn
  <2> QED
    BY <1>4, <1>6, <2>1, <2>2
<1> QED
  BY <1>1, <1>5, <1>6 DEF Follows, FollowsAt, FollowsIn, Spots

\* What has a pointer now has it already, or is a child of the container.
CapturesChildren ==
    /\ \A c \in Containers \ {Top.of} : mouseCaptureMap'[c] = mouseCaptureMap[c]
    /\ \A c \in Containers : \A p \in Pointers :
           LET w == mouseCaptureMap'[c][p].by
           IN \/ w = mouseCaptureMap[c][p].by \/ w = NoWidget
              \/ \E k \in Spots(c) : w = children[c][k]

LEMMA SteadyStays ==
    ASSUME Steady, UNCHANGED <<children, visible, enabled>>, CapturesChildren
    PROVE  Steady'
<1>1. ASSUME NEW c \in Containers, NEW p \in Pointers,
             mouseCaptureMap'[c][p].by # NoWidget
      PROVE  \E k \in Spots(c) : mouseCaptureMap'[c][p].by = children[c][k]
  BY <1>1 DEF Steady, CapturesChildren
<1>2. children' = children
  OBVIOUS
<1> QED
  BY <1>1, <1>2 DEF Steady, Spots

LEMMA OthersStay ==
    ASSUME StackInv, Others, UNCHANGED <<children, event>>, NEW w, NEW is,
           Hovers(w, is)
    PROVE  Others'
<1>1. pointer' = pointer /\ children' = children
  BY DEF pointer
<1>2. ASSUME NEW q \in Pointers \ {pointer}, NEW c \in Containers,
             NEW k \in Spots(c), q \in hovered'[children[c][k]]
      PROVE  q \in hovered'[c]
  <2>1. c \in Widgets /\ children[c][k] \in Widgets
    BY SpotTyped, MouseAssumption DEF StackInv
  <2>2. q \in hovered[children[c][k]]
    BY <1>2, <2>1 DEF Hovers
  <2>3. q \in hovered[c]
    BY <1>2, <2>2 DEF Others
  <2> QED
    BY <1>2, <2>1, <2>3 DEF Hovers
<1> QED
  BY <1>1, <1>2 DEF Others, Spots

LEMMA ShownStays ==
    ASSUME NEW w, NEW is \in BOOLEAN, Hovers(w, is), UNCHANGED <<under, event>>,
           NEW v, Shown(v), v = w => is
    PROVE  Shown(v)'
<1>1. pointer' = pointer /\ Containers \subseteq Widgets
  BY MouseAssumption DEF pointer
<1> QED
  BY <1>1 DEF Shown, Hovers

\* What the calls below the innermost one are going to do stays shown.
LEMMA ShownBelow ==
    ASSUME StackInv, stack # << >>, UNCHANGED <<children, under, event>>,
           NEW w, NEW is \in BOOLEAN, Hovers(w, is),
           w \in Containers /\ ~is => Top.of = Root /\ w # Root,
           CapturesChildren, ButtonsShown,
           NEW i \in 1 .. Len(stack) - 1, NEW g, g = stack[i]
    PROVE  ShownAt(g)'
<1>1. Len(stack) \in Nat \ {0} /\ Root \in Containers
  BY TopTyped, MouseAssumption DEF StackInv
<1>2. i \in 1 .. Len(stack) /\ i < Len(stack) /\ ShownAt(g)
  BY <1>1 DEF ButtonsShown
<1>3. CASE g.pc = "enter"
  <2>1. CalledBy(stack[i + 1], g, i)
    BY <1>2 DEF StackInv, Stacked, StackOK
  <2>2. i = 1 /\ stack[1].of = Root
    BY <1>3, <2>1 DEF CalledBy, StackInv, Stacked, StackOK
  <2>3. g.of = Root
    BY <2>2
  <2>4. ASSUME g.proc = "onMouseButton"
        PROVE  Shown(g.of)'
    <3>1. Shown(Root)
      BY <1>2, <2>3, <2>4 DEF ShownAt
    <3>2. Root = w => is
      BY <1>1
    <3>3. Shown(Root)'
      BY <3>1, <3>2, ShownStays
    <3> QED
      BY <2>3, <3>3
  <2> QED
    BY <1>3, <2>4 DEF ShownAt
<1>4. CASE g.pc # "enter"
  <2>1. g.of \in Containers /\ Top.of \in Below(g.of) /\ Top.of # g.of
    BY <1>2, <1>4, OthersAbove DEF StackInv
  <2>2. Top.of # Root
    BY <2>1 DEF Below
  <2>3. w \in Containers => is
    BY <2>2
  <2>4. \A v : Shown(v) => Shown(v)'
    <3>1. TAKE v
    <3>2. CASE v \in Containers
      BY <2>3, <3>2, ShownStays
    <3>3. CASE v \notin Containers
      BY <3>3 DEF Shown
    <3> QED
      BY <3>2, <3>3
  <2>5. /\ mouseCaptureMap'[g.of] = mouseCaptureMap[g.of]
        /\ pointer' = pointer /\ children' = children
    BY <2>1 DEF CapturesChildren, pointer
  <2>6. ASSUME g.proc = "onMouseButton"
        PROVE  /\ Shown(g.of)
               /\ g.pc = "captured" => Shown(mouseCaptureMap[g.of][pointer].by)
               /\ g.pc = "hovered" => Shown(children[g.of][g.at])
    BY <1>2, <2>6 DEF ShownAt
  <2>7. \A v : (v \in Containers /\ v \in under => pointer \in hovered[v])
                => (v \in Containers /\ v \in under' => pointer' \in hovered'[v])
    BY <2>4 DEF Shown
  <2>8. ASSUME g.proc = "onMouseButton"
        PROVE  /\ Shown(g.of)'
               /\ g.pc = "captured" => Shown(mouseCaptureMap[g.of][pointer].by)'
               /\ g.pc = "hovered" => Shown(children[g.of][g.at])'
    BY <2>5, <2>6, <2>7, <2>8 DEF Shown
  <2> QED
    BY <2>8 DEF ShownAt
<1> QED
  BY <1>3, <1>4

\* What a container calls is told that it is hovered no more, or is handed
\* the event.
Delegates(f, cs) ==
    cs # << >> => Method(cs[1]) \in {"onHoverChanged", f.proc}

LEMMA RootStays ==
    ASSUME StackInv, NEW w, NEW is, Hovers(w, is), w # Root,
           UNCHANGED <<children, event, under>>, Rooted
    PROVE  /\ pointer' = pointer /\ under' \in Positions'
           /\ event'.kind \in {"move", "button"} =>
                  (pointer' \in hovered'[Root] <=> Root \in under')
<1>1. Root \in Widgets
  BY MouseAssumption
<1>2. Positions' = Positions
  BY DEF Positions, IsChild
<1> QED
  BY <1>1, <1>2 DEF Hovers, Rooted, pointer

LEMMA RootedGoes ==
    ASSUME StackInv, stack # << >>, UNCHANGED <<children, under, event>>,
           NEW f, NEW cs, NEW w, NEW is \in BOOLEAN, NEW k0,
           Tells(f, cs, w, is, k0), Passing(f, cs), Delegates(f, cs),
           Top.proc # "user", Rooted
    PROVE  Rooted'
<1>1. /\ Goes(f, cs) /\ Hovers(w, is)
      /\ Len(stack) \in Nat \ {0} /\ Top = stack[Len(stack)]
      /\ Root \in Containers /\ NoWidget \notin Widgets
  BY TopTyped, MouseAssumption DEF StackInv, Tells
<1>2. Top.of \in Containers
  BY TopTyped DEF StackInv
<1>3. w # Root
  BY <1>1, <1>2, SpotTyped, MouseAssumption DEF Tells, StackInv
<1>4. /\ pointer' = pointer /\ under' \in Positions'
      /\ event'.kind \in {"move", "button"} =>
             (pointer' \in hovered'[Root] <=> Root \in under')
  BY <1>1, <1>3, RootStays
<1>5. ASSUME NEW i \in 1 .. Len(stack')
      PROVE  /\ Method(stack'[i]) = "onMouseMove" => event.kind = "move"
             /\ Method(stack'[i]) = "onMouseButton" => event.kind = "button"
  <2>1. i \in 1 .. Len(stack) - 1 \/ i = Len(stack)
        \/ (cs # << >> /\ i = Len(stack) + 1)
    BY <1>1 DEF Goes
  <2>2. /\ Method(Top) = "onMouseMove" => event.kind = "move"
        /\ Method(Top) = "onMouseButton" => event.kind = "button"
    BY <1>1 DEF Rooted
  <2>3. Method(f) = f.proc /\ Method(f) = Method(Top)
    BY <1>1 DEF Goes, Method
  <2>4. CASE i \in 1 .. Len(stack) - 1
    BY <1>1, <2>4 DEF Goes, Rooted
  <2>5. CASE i = Len(stack)
    BY <1>1, <2>2, <2>3, <2>5 DEF Goes
  <2>6. CASE cs # << >> /\ i = Len(stack) + 1
    <3>1. stack'[i] = cs[1]
      BY <1>1, <2>6 DEF Goes
    <3> QED
      BY <2>2, <2>3, <2>6, <3>1 DEF Delegates
  <2> QED
    BY <2>1, <2>4, <2>5, <2>6
<1>6. ASSUME NEW i \in 1 .. Len(stack'), i < Len(stack'), stack'[i].pc = "moved"
      PROVE  stack'[i + 1].of = children[stack'[i].of][stack'[i].at]
  <2>1. CASE i < Len(stack)
    <3>1. i \in 1 .. Len(stack) /\ stack'[i] = stack[i]
      BY <1>1, <2>1 DEF Goes
    <3>2. stack[i + 1].of = children[stack[i].of][stack[i].at]
      BY <1>6, <2>1, <3>1 DEF Rooted
    <3>3. i + 1 \in 1 .. Len(stack) - 1 \/ i + 1 = Len(stack)
      BY <1>1, <2>1
    <3>4. stack'[i + 1].of = stack[i + 1].of
      BY <1>1, <3>3 DEF Goes
    <3> QED
      BY <3>1, <3>2, <3>4
  <2>2. CASE ~(i < Len(stack))
    <3>1. cs # << >> /\ i = Len(stack)
      BY <1>1, <1>6, <2>2 DEF Goes
    <3>2. stack'[i] = f /\ stack'[i + 1] = cs[1]
      BY <1>1, <3>1 DEF Goes
    <3>3. cs[1] = Call("onMouseMove", children[f.of][f.at])
      BY <1>6, <3>2 DEF Passing
    <3> QED
      BY <3>2, <3>3 DEF Call
  <2> QED
    BY <2>1, <2>2
<1>7. children' = children /\ event' = event
  OBVIOUS
<1> QED
  BY <1>4, <1>5, <1>6, <1>7 DEF Rooted

LEMMA ShownAll ==
    ASSUME \A i \in 1 .. Len(stack') : \A h : h = stack'[i] => ShownAt(h)'
    PROVE  ButtonsShown'
<1>1. ASSUME NEW i \in 1 .. Len(stack'), stack'[i].proc = "onMouseButton"
      PROVE  /\ Shown(stack[i].of)'
             /\ stack'[i].pc = "captured" =>
                    Shown(mouseCaptureMap[stack[i].of][pointer].by)'
             /\ stack'[i].pc = "hovered" =>
                    Shown(children[stack[i].of][stack[i].at])'
  <2>1. PICK h : h = stack'[i]
    OBVIOUS
  <2>2. ShownAt(h)'
    BY <2>1
  <2> QED
    BY <1>1, <2>1, <2>2 DEF ShownAt, Shown
<1> QED
  BY <1>1 DEF ButtonsShown, ShownAt

LEMMA ButtonsGo ==
    ASSUME StackInv, stack # << >>, UNCHANGED <<children, under, event>>,
           NEW f, NEW cs, NEW w, NEW is \in BOOLEAN, NEW k0,
           Tells(f, cs, w, is, k0), Top.proc # "user",
           CapturesChildren, ButtonsShown,
           ShownAt(f)', cs # << >> => ShownAt(cs[1])'
    PROVE  ButtonsShown'
<1>1. /\ Goes(f, cs) /\ Hovers(w, is)
      /\ Len(stack) \in Nat \ {0} /\ Top.of \in Containers
      /\ Containers \subseteq Widgets /\ NoWidget \notin Widgets
  BY TopTyped, MouseAssumption DEF StackInv, Tells
<1>2. w \in Containers => Top.of = Root /\ w # Root
  BY <1>1, SpotTyped DEF Tells, StackInv
<1>3. ASSUME NEW i \in 1 .. Len(stack'), NEW h, h = stack'[i]
      PROVE  ShownAt(h)'
  <2>1. i \in 1 .. Len(stack) - 1 \/ i = Len(stack)
        \/ (cs # << >> /\ i = Len(stack) + 1)
    BY <1>1 DEF Goes
  <2>2. CASE i \in 1 .. Len(stack) - 1
    <3>1. PICK g : g = stack[i]
      OBVIOUS
    <3>2. ShownAt(g)'
      BY <1>1, <1>2, <2>2, <3>1, ShownBelow
    <3>3. h = g
      BY <1>1, <1>3, <2>2, <3>1 DEF Goes
    <3> QED
      BY <3>2, <3>3
  <2>3. CASE i = Len(stack)
    <3>1. h = f
      BY <1>1, <1>3, <2>3 DEF Goes
    <3> QED
      BY <3>1
  <2>4. CASE cs # << >> /\ i = Len(stack) + 1
    <3>1. h = cs[1]
      BY <1>1, <1>3, <2>4 DEF Goes
    <3> QED
      BY <2>4, <3>1
  <2> QED
    BY <2>1, <2>2, <2>3, <2>4
<1> QED
  BY <1>3, ShownAll

\* A container's call goes on.
LEMMA HoverGoes ==
    ASSUME StackInv, HoverOK, stack # << >>, Top.proc # "user",
           UNCHANGED <<treeVars, under, event>>,
           NEW f, NEW cs, NEW w, NEW is \in BOOLEAN, NEW k0,
           Tells(f, cs, w, is, k0), Handles(f, w, is, k0),
           Passing(f, cs), Delegates(f, cs), CapturesChildren,
           ShownAt(f)', cs # << >> => ShownAt(cs[1])'
    PROVE  HoverOK'
<1>1. /\ UNCHANGED <<children, visible, enabled>> /\ Top.of \in Containers
      /\ Hovers(w, is)
  BY TopTyped DEF treeVars, StackInv, Tells
<1>2. Steady' /\ Others'
  BY <1>1, SteadyStays, OthersStay DEF HoverOK
<1>3. Inside' /\ Follows'
  BY <1>1, InsideGoes, FollowsGoes DEF HoverOK
<1>4. Rooted' /\ ButtonsShown'
  BY <1>1, RootedGoes, ButtonsGo DEF HoverOK
<1> QED
  BY <1>2, <1>3, <1>4 DEF HoverOK

\* Call f has nothing left to do with its list, and waits for none.
Done(f) ==
    \A what \in {"unhovers", "moves", "passed"} : \A c \in Containers :
        \A k \in Spots(c) : ~IsAt(what, f, c, k)

LEMMA HoverUnchanged ==
    ASSUME UNCHANGED hovered
    PROVE  Hovers(NoWidget, FALSE)
BY MouseAssumption DEF Hovers

\* The innermost call returns.
LEMMA HoverReturns ==
    ASSUME StackInv, HoverOK, stack # << >>,
           Len(stack') = Len(stack) - 1,
           \A i \in 1 .. Len(stack) - 1 : stack'[i] = stack[i],
           UNCHANGED <<treeVars, hovered, under, event>>,
           CapturesChildren, Done(Top)
    PROVE  HoverOK'
<1>1. /\ UNCHANGED <<children, visible, enabled>>
      /\ Len(stack) \in Nat \ {0} /\ Top = stack[Len(stack)]
      /\ pointer' = pointer /\ Hovers(NoWidget, FALSE)
      /\ NoWidget \notin Widgets /\ Root \in Containers
      /\ Containers \subseteq Widgets
  BY TopTyped, HoverUnchanged, MouseAssumption DEF treeVars, StackInv, pointer
<1>2. Steady' /\ Others'
  BY <1>1, SteadyStays, OthersStay DEF HoverOK
<1>3. ASSUME NEW what \in {"unhovers", "moves", "passed"}, NEW c \in Containers,
             NEW k \in Spots(c)
      PROVE  Some(what, stack', c, k) <=> Some(what, stack, c, k)
  <2>1. ~IsAt(what, stack[Len(stack)], c, k)
    BY <1>1 DEF Done
  <2>2. PICK s, t, n : s = stack /\ t = stack' /\ n = Len(stack)
    OBVIOUS
  <2>3. n \in Nat \ {0} /\ Len(s) = n /\ Len(t) = n - 1
        /\ \A i \in 1 .. n - 1 : t[i] = s[i]
    BY <1>1, <2>2
  <2>4. /\ Some(what, s, c, k) =>
               Some(what, t, c, k) \/ IsAt(what, s[n], c, k)
        /\ Some(what, t, c, k) => Some(what, s, c, k)
    BY <2>3, SomeReturns
  <2> QED
    BY <2>1, <2>2, <2>4
<1>4. Inside'
  <2>1. ASSUME NEW c \in Containers, Awaits(c) PROVE Awaits(c)'
    BY <1>1, <1>3, <2>1 DEF Awaits, Spots
  <2>2. ASSUME NEW c \in Containers, NEW k \in Spots(c), InsideAt(c, k)
        PROVE  InsideAt(c, k)'
    BY <1>1, <1>3, <2>1, <2>2 DEF InsideAt
  <2> QED
    BY <1>1, <2>2 DEF HoverOK, Inside, Spots
<1>5. Follows'
  <2>1. ASSUME NEW k \in Spots(Root), FollowsAt(k) PROVE FollowsAt(k)'
    BY <1>1, <1>3, <2>1 DEF FollowsAt
  <2>2. ASSUME NEW j \in Spots(Root), NEW c \in Containers, NEW k \in Spots(c),
               FollowsIn(j, c, k)
        PROVE  FollowsIn(j, c, k)'
    BY <1>1, <1>3, <2>2 DEF FollowsIn
  <2>3. children' = children /\ event' = event
    BY <1>1
  <2> QED
    BY <1>1, <2>1, <2>2, <2>3 DEF HoverOK, Follows, Spots
<1>6. Rooted'
  <2>1. /\ pointer' = pointer /\ under' \in Positions'
        /\ event'.kind \in {"move", "button"} =>
               (pointer' \in hovered'[Root] <=> Root \in under')
    BY <1>1, RootStays DEF HoverOK
  <2>2. ASSUME NEW i \in 1 .. Len(stack')
        PROVE  /\ stack'[i] = stack[i] /\ i \in 1 .. Len(stack)
               /\ i < Len(stack') => stack'[i + 1] = stack[i + 1] /\ i < Len(stack)
    BY <1>1
  <2>3. ASSUME NEW i \in 1 .. Len(stack')
        PROVE  /\ Method(stack'[i]) = "onMouseMove" => event.kind = "move"
               /\ Method(stack'[i]) = "onMouseButton" => event.kind = "button"
               /\ i < Len(stack') /\ stack'[i].pc = "moved" =>
                    stack'[i + 1].of = children[stack'[i].of][stack'[i].at]
    BY <2>2 DEF HoverOK, Rooted
  <2> QED
    BY <1>1, <2>1, <2>3 DEF Rooted
<1>7. ButtonsShown'
  <2>1. ASSUME NEW i \in 1 .. Len(stack'), NEW h, h = stack'[i]
        PROVE  ShownAt(h)'
    <3>1. i \in 1 .. Len(stack) - 1 /\ h = stack[i]
      BY <1>1, <2>1
    <3> QED
      BY <1>1, <3>1, ShownBelow DEF HoverOK
  <2> QED
    BY <2>1, ShownAll
<1> QED
  BY <1>2, <1>4, <1>5, <1>6, <1>7 DEF HoverOK

-----------------------------------------------------------------------------
(* The steps of the containers' methods *)

\* What lies inside its parent is under the pointer when the parent is.
LEMMA Covers ==
    ASSUME StackInv, Rooted, Nested, NEW c \in Containers, NEW k \in Spots(c),
           children[c][k] \in under
    PROVE  c \in under
<1>1. children[c] \in Seq(Widgets)
  BY DEF StackInv, TreeTyped
<1>2. k \in DOMAIN children[c]
  BY <1>1, LenProperties DEF Spots
<1>3. IsChild(children[c][k], c)
  BY <1>2 DEF IsChild, ToSet
<1> QED
  BY <1>3 DEF Rooted, Positions

LEMMA CapturesStay ==
    ASSUME UNCHANGED mouseCaptureMap
    PROVE  CapturesChildren
BY DEF CapturesChildren

LEMMA Leaving ==
    ASSUME StackInv, stack # << >>, stack' = Front(stack)
    PROVE  /\ Len(stack') = Len(stack) - 1
           /\ \A i \in 1 .. Len(stack) - 1 : stack'[i] = stack[i]
BY WithoutTop DEF StackInv, Stacked

LEMMA HoverCallMade ==
    ASSUME NEW w \in Widgets, NEW is, NEW cs, cs = HoverCall(w, is), cs # << >>
    PROVE  Method(cs[1]) = "onHoverChanged" /\ cs[1].proc # "onMouseButton"
<1>1. PICK g : g = Call("onHoverChanged", w)
  OBVIOUS
<1>2. cs = << g >>
  BY <1>1 DEF HoverCall
<1>3. "onHoverChanged" \in Methods
  BY DEF Methods
<1>4. Method(g) = "onHoverChanged" /\ g.proc # "onMouseButton"
  BY <1>1, <1>3, CallIsNew DEF Call
<1> QED
  BY <1>2, <1>4

LEMMA HoverChangedHovers ==
    ASSUME StackInv, HoverOK, HoverChangedEnter \/ HoverChangedLoop
    PROVE  HoverOK'
<1> PICK m : m = "onHoverChanged"
  OBVIOUS
<1>1. PICK pc0 \in {"enter", "loop"} : InCall(m, pc0)
  BY DEF HoverChangedEnter, HoverChangedLoop
<1>2. /\ m \in Methods /\ "loop" \in Places(m)
      /\ UNCHANGED <<treeVars, under, event>> /\ CapturesChildren
  BY CapturesStay DEF HoverChangedEnter, HoverChangedLoop, inputVars, Methods, Places
<1>3. /\ stack # << >> /\ Top.proc = m /\ Top.pc = pc0 /\ Top.at \in Nat
      /\ Top.of \in Containers /\ Len(Iterated) \in Nat
  BY <1>1, <1>2, InCallTyped DEF CallType
<1>4. CASE HoverChangedEnter
  <2>1. PICK f, is, pc, k, cs :
            /\ f = At(Top, pc, k) /\ is = FALSE
            /\ pc = "loop" /\ k = 1 /\ cs = << >>
    OBVIOUS
  <2>2. UNCHANGED hovered /\ Continue(pc, k, cs) /\ k \in Nat /\ pc \in Places(m)
    BY <1>2, <1>4, <2>1 DEF HoverChangedEnter
  <2>3. Tells(f, cs, NoWidget, is, k)
        /\ f.proc = m /\ f.of = Top.of /\ f.pc = pc /\ f.at = k
    BY <1>1, <1>2, <2>1, <2>2, TellsNone
  <2>4. Handles(f, NoWidget, is, k)
    BY <1>3, <2>1, <2>3, SpotTyped DEF Handles, IsAt, StackInv
  <2>5. Passing(f, cs) /\ Delegates(f, cs) /\ ShownAt(f)' /\ cs = << >>
    BY <2>1, <2>3 DEF Passing, Delegates, ShownAt
  <2> QED
    BY <1>2, <1>3, <2>1, <2>3, <2>4, <2>5, HoverGoes
<1>5. CASE HoverChangedLoop /\ Top.at <= Len(Iterated)
  <2>1. PICK f, w, cs, is, pc, k, j :
            /\ f = At(Top, pc, k) /\ w = Child /\ cs = HoverCall(w, is)
            /\ is = FALSE /\ pc = "loop" /\ k = Top.at + 1 /\ j = Top.at
    OBVIOUS
  <2>2. /\ InCall(m, pc) /\ pc \in Places(m) /\ k \in Nat /\ k = j + 1
        /\ is \in BOOLEAN /\ m \in Methods
    <3>1. InCall(m, pc)
      BY <1>5, <2>1 DEF HoverChangedLoop
    <3>2. is \in BOOLEAN
      BY <2>1
    <3> QED
      BY <1>2, <1>3, <2>1, <3>1, <3>2
  <2>3. Top.at >= 1
    BY <1>2, <1>3, <2>1, <2>2, InCallTyped DEF Within, InCall
  <2>4. j \in Spots(Top.of) /\ w = children[Top.of][j]
    BY <1>3, <1>5, <2>1, <2>3 DEF Spots, Iterated, Child
  <2>5. hovered' = HoverSet(w, is) /\ Continue(pc, k, cs)
    BY <1>5, <2>1 DEF HoverChangedLoop
  <2>6. /\ Tells(f, cs, w, is, j) /\ w # NoWidget /\ w \in Widgets
        /\ f.proc = m /\ f.of = Top.of /\ f.pc = pc /\ f.at = k
    BY <1>2, <2>1, <2>2, <2>4, <2>5, TellsChild
  <2>7. Handles(f, w, is, j)
    <3>1. ASSUME NEW i \in Spots(Top.of)
          PROVE  i >= Top.at => i >= k \/ i = j
      BY <1>3, <2>1, SpotTyped DEF StackInv
    <3> QED
      BY <1>3, <2>1, <2>2, <2>6, <3>1 DEF Handles, IsAt, InCall
  <2>8. /\ Passing(f, cs) /\ Delegates(f, cs) /\ ShownAt(f)'
        /\ cs # << >> => ShownAt(cs[1])'
    BY <2>1, <2>6, HoverCallMade DEF Passing, Delegates, ShownAt
  <2> QED
    BY <1>2, <1>3, <2>1, <2>6, <2>7, <2>8, HoverGoes
<1>6. CASE HoverChangedLoop /\ ~(Top.at <= Len(Iterated))
  <2>1. stack' = Front(stack) /\ UNCHANGED hovered /\ Top.pc = "loop"
    BY <1>6 DEF HoverChangedLoop, LeaveLoop, InCall
  <2>2. Done(Top)
    BY <1>3, <1>6, <2>1 DEF Done, IsAt, Spots, Iterated
  <2> QED
    BY <1>2, <1>3, <2>1, <2>2, Leaving, HoverReturns
<1> QED
  BY <1>4, <1>5, <1>6

LEMMA MouseMoveHovers ==
    ASSUME StackInv, HoverOK, Nested, MoveEnter \/ MoveLoop \/ Moved \/ MoveRest
    PROVE  HoverOK'
<1> PICK m : m = "onMouseMove"
  OBVIOUS
<1>1. PICK pc0 \in {"enter", "loop", "moved", "rest"} : InCall(m, pc0)
  BY DEF MoveEnter, MoveLoop, Moved, MoveRest
<1>2. /\ m \in Methods
      /\ \A pc \in {"loop", "moved", "rest"} : pc \in Places(m)
      /\ UNCHANGED <<treeVars, under, event>> /\ CapturesChildren
  BY CapturesStay DEF MoveEnter, MoveLoop, Moved, MoveRest, inputVars, Methods, Places
<1>3. /\ stack # << >> /\ Top.proc = m /\ Top.pc = pc0 /\ Top.at \in Nat
      /\ Top.of \in Containers /\ Len(Iterated) \in Nat
      /\ Len(stack) \in Nat \ {0} /\ Top = stack[Len(stack)]
      /\ pc0 # "enter" => Within(Top, Iterated)
  BY <1>1, <1>2, InCallTyped DEF CallType
<1>4. \A i \in Spots(Top.of) : i \in Nat /\ i >= 1 /\ i <= Len(Iterated)
  BY <1>3 DEF Spots, Iterated
<1>5. pc0 # "enter" /\ Top.at # 0 =>
          /\ Top.at \in Spots(Top.of) /\ Top.at - 1 \in Nat
          /\ Child = children[Top.of][Top.at] /\ Child \in Widgets
  BY <1>3, SpotTyped DEF Within, Spots, Iterated, Child, StackInv
<1>6. CASE MoveEnter
  <2>1. PICK f, is, pc, k, cs :
            /\ f = At(Top, pc, k) /\ is = FALSE
            /\ pc = "loop" /\ k = Len(Iterated) /\ cs = << >>
    OBVIOUS
  <2>2. UNCHANGED hovered /\ Continue(pc, k, cs) /\ k \in Nat /\ pc \in Places(m)
    BY <1>2, <1>3, <1>6, <2>1 DEF MoveEnter
  <2>3. /\ Tells(f, cs, NoWidget, is, k)
        /\ f.proc = m /\ f.of = Top.of /\ f.pc = pc /\ f.at = k
    BY <1>1, <1>2, <2>1, <2>2, TellsNone
  <2>4. InCall(m, "enter")
    BY <1>6 DEF MoveEnter
  <2>5. Handles(f, NoWidget, is, k)
    BY <1>3, <1>4, <2>1, <2>3, <2>4 DEF Handles, IsAt, InCall
  <2>6. Passing(f, cs) /\ Delegates(f, cs) /\ ShownAt(f)' /\ cs = << >>
    BY <2>1, <2>3 DEF Passing, Delegates, ShownAt
  <2> QED
    BY <1>2, <1>3, <2>1, <2>3, <2>5, <2>6, HoverGoes
<1>7. CASE Top.at = 0 /\ (MoveLoop \/ MoveRest)
  <2>1. stack' = Front(stack) /\ UNCHANGED hovered /\ Top.pc \in {"loop", "rest"}
    BY <1>7 DEF MoveLoop, MoveRest, LeaveLoop, InCall
  <2>2. Done(Top)
    <3>1. ASSUME NEW c \in Containers, NEW k \in Spots(c) PROVE ~(k <= 0)
      BY <3>1, SpotTyped DEF StackInv
    <3> QED
      BY <1>3, <1>7, <2>1, <3>1 DEF Done, IsAt
  <2> QED
    BY <1>2, <1>3, <2>1, <2>2, Leaving, HoverReturns
<1>8. CASE Top.at # 0 /\ MoveLoop
  <2>1. InCall(m, "loop") /\ pc0 = "loop"
    BY <1>1, <1>8 DEF MoveLoop, InCall
  <2>2. Interactive(Child)
    BY <1>5, <1>8, <2>1 DEF Interactive, HoverOK, Steady
  <2>3. PICK f, is, pc, k, cs :
            /\ f = At(Top, pc, k) /\ is = FALSE
            /\ pc = "moved" /\ k = Top.at /\ cs = << Call("onMouseMove", Child) >>
    OBVIOUS
  <2>4. UNCHANGED hovered /\ Continue(pc, k, cs) /\ k \in Nat /\ pc \in Places(m)
    BY <1>2, <1>3, <1>8, <2>2, <2>3 DEF MoveLoop
  <2>5. cs = << Call(m, Child) >> /\ Child \in Widgets
    BY <1>5, <1>8, <2>1, <2>3
  <2>6. /\ Tells(f, cs, NoWidget, is, k)
        /\ f.proc = m /\ f.of = Top.of /\ f.pc = pc /\ f.at = k
    BY <1>1, <1>2, <2>3, <2>4, <2>5, TellsNone
  <2>7. Handles(f, NoWidget, is, k)
    BY <1>3, <1>4, <2>1, <2>3, <2>6 DEF Handles, IsAt
  <2>8. cs # << >> /\ cs[1] = Call(m, Child) /\ Child = children[f.of][f.at]
    BY <1>5, <1>8, <2>1, <2>3, <2>5, <2>6
  <2>9. Method(cs[1]) = m /\ cs[1].proc # "onMouseButton"
    BY <1>2, <2>5, <2>8, CallIsNew DEF Call
  <2>10. /\ Passing(f, cs) /\ Delegates(f, cs) /\ ShownAt(f)'
         /\ cs # << >> => ShownAt(cs[1])'
    BY <2>6, <2>8, <2>9 DEF Passing, Delegates, ShownAt
  <2> QED
    BY <1>2, <1>3, <2>3, <2>6, <2>7, <2>10, HoverGoes
<1>9. CASE Moved
  <2>1. InCall(m, "moved") /\ pc0 = "moved" /\ Top.at # 0
    BY <1>1, <1>3, <1>9 DEF Moved, InCall, Within
  <2>2. PICK f, w, cs, is, pc, k, j :
            /\ f = At(Top, pc, k) /\ w = Child /\ cs = HoverCall(w, is)
            /\ is = (w \in under) /\ pc = (IF is /\ consumed THEN "rest" ELSE "loop")
            /\ k = Top.at - 1 /\ j = Top.at
    OBVIOUS
  <2>3. is \in BOOLEAN
    BY <2>2
  <2>4. pc \in {"loop", "rest"} /\ pc \in Places(m)
    BY <1>2, <2>2
  <2>5. /\ k \in Nat /\ j \in Spots(Top.of) /\ w = children[Top.of][j]
        /\ j = k + 1
        /\ is <=> w \in under
    <3>1. is <=> w \in under
      BY <2>2
    <3>2. k = Top.at - 1 /\ j = Top.at /\ w = Child
      BY <2>2
    <3> QED
      BY <1>3, <1>5, <2>1, <3>1, <3>2
  <2>6. hovered' = HoverSet(w, is) /\ Continue(pc, k, cs)
    BY <1>9, <2>2 DEF Moved
  <2>7. /\ Tells(f, cs, w, is, j) /\ w # NoWidget /\ w \in Widgets
        /\ f.proc = m /\ f.of = Top.of /\ f.pc = pc /\ f.at = k
    <3>1. /\ m \in Methods /\ InCall(m, pc0) /\ pc \in Places(m) /\ k \in Nat
          /\ j \in Spots(Top.of) /\ w = children[Top.of][j]
          /\ f = At(Top, pc, k) /\ cs = HoverCall(w, is)
      BY <1>1, <1>2, <2>2, <2>4, <2>5
    <3> QED
      BY <2>3, <2>6, <3>1, TellsChild
  <2>8. ASSUME w \in under
        PROVE  pointer \in hovered[Top.of] \/ Awaits(Top.of)
    <3>1. PICK n : n = Len(stack)
      OBVIOUS
    <3>2. n \in 1 .. Len(stack) /\ Method(stack[n]) = "onMouseMove" /\ Rooted
      BY <1>3, <3>1 DEF Method, HoverOK
    <3>3. Top.of \in under
      BY <1>3, <2>5, <2>8, <3>2, Covers
    <3>4. CASE n = 1
      <4>1. Top.of = Root /\ event.kind = "move"
        BY <1>3, <3>1, <3>2, <3>4, MovedBy DEF Rooted
      <4> QED
        BY <3>2, <3>3, <4>1 DEF Rooted
    <3>5. CASE n > 1
      <4>1. PICK g, i : i = n - 1 /\ g = stack[i]
        OBVIOUS
      <4>2. /\ i \in 1 .. Len(stack) /\ g.of \in Containers /\ g.at \in Spots(g.of)
            /\ Top.of = children[g.of][g.at] /\ IsAt("passed", g, g.of, g.at)
        BY <1>3, <3>1, <3>2, <3>5, <4>1, MovedBy
      <4>3. g.of = Root
        BY <1>3, <4>2, SpotTyped DEF StackInv
      <4>4. Some("passed", stack, Root, g.at)
        BY <4>1, <4>2, <4>3 DEF Some
      <4> QED
        BY <3>3, <4>2, <4>3, <4>4 DEF Awaits
    <3> QED
      BY <3>2, <3>4, <3>5
  <2>9. Handles(f, w, is, j)
    <3>1. \A i \in Spots(Top.of) : i <= Top.at => i <= k \/ i = j
      BY <1>3, <1>4, <2>2, <2>5
    <3>2. IsAt("passed", Top, Top.of, j)
      BY <1>3, <2>1, <2>2 DEF IsAt, InCall
    <3>3. \A i \in Spots(Top.of) : IsAt("passed", Top, Top.of, i) => i = j
      BY <2>2 DEF IsAt
    <3>4. \A i \in Spots(Top.of) : ~IsAt("unhovers", Top, Top.of, i)
      BY <1>3 DEF IsAt
    <3>5. \A i \in Spots(Top.of) : IsAt("moves", Top, Top.of, i) =>
              IsAt("moves", f, Top.of, i) \/ i = j
      BY <1>3, <2>1, <2>7, <3>1 DEF IsAt, InCall
    <3> QED
      BY <2>5, <2>7, <2>8, <3>2, <3>3, <3>4, <3>5 DEF Handles
  <2>10. /\ Passing(f, cs) /\ Delegates(f, cs) /\ ShownAt(f)'
         /\ cs # << >> => ShownAt(cs[1])'
    BY <2>2, <2>4, <2>7, HoverCallMade DEF Passing, Delegates, ShownAt
  <2> QED
    BY <1>2, <1>3, <2>3, <2>7, <2>9, <2>10, HoverGoes
<1>10. CASE Top.at # 0 /\ MoveRest
  <2>1. InCall(m, "rest") /\ pc0 = "rest"
    BY <1>1, <1>10 DEF MoveRest, InCall
  <2>2. PICK f, w, cs, is, pc, k, j :
            /\ f = At(Top, pc, k) /\ w = Child /\ cs = HoverCall(w, is)
            /\ is = FALSE /\ pc = "rest" /\ k = Top.at - 1 /\ j = Top.at
    OBVIOUS
  <2>3. is \in BOOLEAN
    BY <2>2
  <2>4. pc \in {"loop", "rest"} /\ pc \in Places(m)
    BY <1>2, <2>2
  <2>5. /\ k \in Nat /\ j \in Spots(Top.of) /\ w = children[Top.of][j]
        /\ j = k + 1
    BY <1>3, <1>5, <1>10, <2>1, <2>2
  <2>6. hovered' = HoverSet(w, is) /\ Continue(pc, k, cs)
    BY <1>10, <2>2 DEF MoveRest
  <2>7. /\ Tells(f, cs, w, is, j) /\ w # NoWidget /\ w \in Widgets
        /\ f.proc = m /\ f.of = Top.of /\ f.pc = pc /\ f.at = k
    <3>1. /\ m \in Methods /\ InCall(m, pc0) /\ pc \in Places(m) /\ k \in Nat
          /\ j \in Spots(Top.of) /\ w = children[Top.of][j]
          /\ f = At(Top, pc, k) /\ cs = HoverCall(w, is)
      BY <1>1, <1>2, <2>2, <2>4, <2>5
    <3> QED
      BY <2>3, <2>6, <3>1, TellsChild
  <2>8. Handles(f, w, is, j)
    <3>1. \A i \in Spots(Top.of) : i <= Top.at => i <= k \/ i = j
      BY <1>3, <1>4, <2>2, <2>5
    <3>2. \A i \in Spots(Top.of) : ~IsAt("passed", Top, Top.of, i)
      BY <2>1 DEF IsAt, InCall
    <3>3. \A i \in Spots(Top.of) : ~IsAt("unhovers", Top, Top.of, i)
      BY <1>3 DEF IsAt
    <3>4. \A i \in Spots(Top.of) : IsAt("moves", Top, Top.of, i) =>
              IsAt("moves", f, Top.of, i) \/ i = j
      BY <1>3, <2>1, <2>7, <3>1 DEF IsAt, InCall
    <3> QED
      BY <2>2, <2>7, <3>2, <3>3, <3>4 DEF Handles
  <2>9. /\ Passing(f, cs) /\ Delegates(f, cs) /\ ShownAt(f)'
        /\ cs # << >> => ShownAt(cs[1])'
    BY <2>2, <2>4, <2>7, HoverCallMade DEF Passing, Delegates, ShownAt
  <2> QED
    BY <1>2, <1>3, <2>3, <2>7, <2>8, <2>9, HoverGoes
<1> QED
  BY <1>6, <1>7, <1>8, <1>9, <1>10

\* A container that handles a press or a release.
LEMMA ButtonTop ==
    ASSUME StackInv, HoverOK, Nested, NEW m, m = "onMouseButton",
           NEW pc0, InCall(m, pc0)
    PROVE  /\ m \in Methods /\ stack # << >> /\ Top.proc = m /\ Top.pc = pc0
           /\ Top.of \in Containers /\ Top.at \in Nat
           /\ Len(Iterated) \in Nat
           /\ Done(Top) /\ Top.proc # "user"
           /\ Shown(Top.of) /\ ShownAt(Top)
           /\ \A k \in Spots(Top.of) : children[Top.of][k] \in under =>
                  pointer \in hovered[Top.of] \/ Awaits(Top.of)
           /\ pc0 # "enter" /\ Top.at # 0 =>
                  /\ Top.at \in Spots(Top.of) /\ Top.at - 1 \in Nat
                  /\ Child = children[Top.of][Top.at] /\ Child \in Widgets
           /\ \A f : f.proc = m => \A w, is, k :
                  (w # NoWidget /\ is =>
                      w \in under /\ (pointer \in hovered[Top.of] \/ Awaits(Top.of)))
                  => Handles(f, w, is, k)
<1>1. m \in Methods
  BY DEF Methods
<1>2. /\ stack # << >> /\ Top.proc = m /\ Top.pc = pc0
      /\ Top.of \in Containers /\ Top.at \in Nat /\ Len(Iterated) \in Nat
      /\ Len(stack) \in Nat \ {0} /\ Top = stack[Len(stack)]
      /\ pc0 # "enter" => Within(Top, Iterated)
  BY <1>1, InCallTyped DEF CallType
<1>3. Done(Top) /\ Top.proc # "user"
  BY <1>2 DEF Done, IsAt
<1>4. ShownAt(Top)
  BY <1>2 DEF HoverOK, ButtonsShown
<1>5. Shown(Top.of)
  BY <1>2, <1>4 DEF ShownAt
<1>6. ASSUME NEW k \in Spots(Top.of), children[Top.of][k] \in under
      PROVE  pointer \in hovered[Top.of]
  <2>1. Top.of \in under
    BY <1>2, <1>6, Covers DEF HoverOK
  <2> QED
    BY <1>2, <1>5, <2>1 DEF Shown
<1>7. ASSUME pc0 # "enter", Top.at # 0
      PROVE  /\ Top.at \in Spots(Top.of) /\ Top.at - 1 \in Nat
             /\ Child = children[Top.of][Top.at] /\ Child \in Widgets
  BY <1>2, <1>7, SpotTyped DEF Within, Spots, Iterated, Child, StackInv
<1>8. ASSUME NEW f, f.proc = m, NEW w, NEW is, NEW k,
             w # NoWidget /\ is =>
                 w \in under /\ (pointer \in hovered[Top.of] \/ Awaits(Top.of))
      PROVE  Handles(f, w, is, k)
  BY <1>2, <1>8 DEF Handles, IsAt
<1> QED
  BY <1>1, <1>2, <1>3, <1>4, <1>5, <1>6, <1>7, <1>8

LEMMA SetsChild ==
    ASSUME StackInv, Top.of \in Containers, NEW e, SetCapture(e),
           \/ e.by = NoWidget \/ e.by = Capture.by
           \/ \E k \in Spots(Top.of) : e.by = children[Top.of][k]
    PROVE  CapturesChildren
<1> DEFINE E == [by : Widgets \cup {NoWidget}, clicks : Nat]
           g == [mouseCaptureMap[Top.of] EXCEPT ![pointer] = e]
<1>1. mouseCaptureMap \in [Containers -> [Pointers -> E]] /\ pointer \in Pointers
  BY DEF StackInv, CaptureTyped, EventTyped, pointer
<1>2. mouseCaptureMap' = [mouseCaptureMap EXCEPT ![Top.of] = g]
  BY <1>1 DEF SetCapture
<1>3. \A p \in Pointers :
          g[p] = IF p = pointer THEN e ELSE mouseCaptureMap[Top.of][p]
  BY <1>1
<1> HIDE DEF g
<1>4. /\ mouseCaptureMap'[Top.of] = g
      /\ \A c \in Containers \ {Top.of} : mouseCaptureMap'[c] = mouseCaptureMap[c]
  BY <1>1, <1>2
<1>5. ASSUME NEW c \in Containers, NEW p \in Pointers
      PROVE  \/ mouseCaptureMap'[c][p].by = mouseCaptureMap[c][p].by
             \/ mouseCaptureMap'[c][p].by = NoWidget
             \/ \E k \in Spots(c) : mouseCaptureMap'[c][p].by = children[c][k]
  <2>1. CASE c = Top.of /\ p = pointer
    BY <1>3, <1>4, <2>1 DEF Capture
  <2>2. CASE c = Top.of /\ p # pointer
    BY <1>3, <1>4, <2>2
  <2>3. CASE c # Top.of
    BY <1>4, <2>3
  <2> QED
    BY <2>1, <2>2, <2>3
<1> QED
  BY <1>4, <1>5 DEF CapturesChildren

LEMMA ShownStill ==
    ASSUME UNCHANGED <<hovered, under, event>>, NEW v, Shown(v)
    PROVE  Shown(v)'
BY DEF Shown, pointer

LEMMA ButtonEnterHovers ==
    ASSUME StackInv, HoverOK, Nested, ButtonEnter
    PROVE  HoverOK'
<1> PICK m, pc0 : m = "onMouseButton" /\ pc0 = "enter"
  OBVIOUS
<1>1. InCall(m, pc0)
  BY DEF ButtonEnter
<1>2. /\ m \in Methods /\ stack # << >> /\ Top.proc = m /\ Top.proc # "user"
      /\ Top.of \in Containers /\ Len(Iterated) \in Nat /\ Shown(Top.of)
  BY <1>1, ButtonTop
<1>3. \A pc \in {"captured", "loop"} : pc \in Places(m)
  BY DEF Places
<1>4. UNCHANGED <<treeVars, under, event>>
  BY DEF ButtonEnter, inputVars
<1>5. CASE Capture.by \in alive
  <2>1. Capture.by \in Widgets /\ Capture.by # NoWidget
    BY <1>1, <1>5, TopPasses, MouseAssumption
  <2>2. pointer \in Pointers
    BY DEF StackInv, EventTyped, pointer
  <2>3. PICK j \in Spots(Top.of) : Capture.by = children[Top.of][j]
    BY <1>2, <2>1, <2>2 DEF HoverOK, Steady, Capture
  <2>4. PICK f, w, cs, is, pc, k :
            /\ f = At(Top, pc, k) /\ w = Capture.by /\ cs = HoverCall(w, is)
            /\ is = (w \in under) /\ pc = "captured" /\ k = 0
    OBVIOUS
  <2>5. is \in BOOLEAN
    BY <2>4
  <2>6. is <=> w \in under
    BY <2>4
  <2>7. hovered' = HoverSet(w, is) /\ Continue(pc, k, cs) /\ UNCHANGED mouseCaptureMap
    BY <1>5, <2>4 DEF ButtonEnter
  <2>8. /\ Tells(f, cs, w, is, j) /\ w # NoWidget /\ w \in Widgets
        /\ f.proc = m /\ f.of = Top.of /\ f.pc = pc /\ f.at = k
    <3>1. /\ pc \in Places(m) /\ k \in Nat /\ w = children[Top.of][j]
          /\ f = At(Top, pc, k) /\ cs = HoverCall(w, is)
      BY <1>3, <2>3, <2>4
    <3> QED
      BY <1>1, <1>2, <2>5, <2>7, <3>1, TellsChild
  <2>9. Handles(f, w, is, j)
    <3>1. is => w \in under /\ (pointer \in hovered[Top.of] \/ Awaits(Top.of))
      BY <1>1, <2>3, <2>4, <2>6, ButtonTop
    <3> QED
      BY <1>1, <2>8, <3>1, ButtonTop
  <2>10. CapturesChildren
    BY <2>7, CapturesStay
  <2>11. ShownAt(f)'
    <3>1. Hovers(w, is)
      BY <2>8 DEF Tells
    <3>2. PICK c : c = Top.of
      OBVIOUS
    <3>3. Shown(c)'
      <4>1. c # w
        BY <1>2, <2>3, <2>4, <3>2, SpotTyped DEF StackInv
      <4> QED
        BY <1>2, <1>4, <2>5, <3>1, <3>2, <4>1, ShownStays
    <3>4. Shown(w)'
      BY <1>4, <2>6, <2>8, <3>1 DEF Shown, Hovers, pointer
    <3>5. f.of = c /\ f.pc = "captured" /\ mouseCaptureMap'[f.of][pointer'].by = w
      BY <1>4, <2>4, <2>7, <2>8, <3>2 DEF Capture, pointer
    <3> QED
      BY <3>3, <3>4, <3>5 DEF ShownAt, Shown
  <2>12. /\ Passing(f, cs) /\ Delegates(f, cs)
         /\ cs # << >> => ShownAt(cs[1])'
    BY <2>4, <2>8, HoverCallMade DEF Passing, Delegates, ShownAt
  <2> QED
    BY <1>2, <1>4, <2>5, <2>8, <2>9, <2>10, <2>11, <2>12, HoverGoes
<1>6. CASE Capture.by \notin alive
  <2>1. PICK f, is, pc, k, cs :
            /\ f = At(Top, pc, k) /\ is = FALSE
            /\ pc = "loop" /\ k = Len(Iterated) /\ cs = << >>
    OBVIOUS
  <2>2. /\ UNCHANGED hovered /\ Continue(pc, k, cs) /\ k \in Nat /\ pc \in Places(m)
        /\ SetCapture(NoCapture)
    BY <1>2, <1>3, <1>6, <2>1 DEF ButtonEnter
  <2>3. /\ Tells(f, cs, NoWidget, is, k)
        /\ f.proc = m /\ f.of = Top.of /\ f.pc = pc /\ f.at = k
    BY <1>1, <1>2, <2>1, <2>2, TellsNone
  <2>4. Handles(f, NoWidget, is, k)
    BY <1>1, <2>3, ButtonTop
  <2>5. CapturesChildren
    BY <1>2, <2>2, SetsChild DEF NoCapture
  <2>6. ShownAt(f)'
    <3>1. PICK c : c = Top.of
      OBVIOUS
    <3>2. Shown(c)'
      BY <1>2, <1>4, <2>2, <3>1, ShownStill
    <3> QED
      BY <2>1, <2>3, <3>1, <3>2 DEF ShownAt
  <2>7. Passing(f, cs) /\ Delegates(f, cs) /\ cs = << >> /\ is \in BOOLEAN
    BY <2>1, <2>3 DEF Passing, Delegates
  <2> QED
    BY <1>2, <1>4, <2>3, <2>4, <2>5, <2>6, <2>7, HoverGoes
<1> QED
  BY <1>5, <1>6

LEMMA ButtonCallsHover ==
    ASSUME StackInv, HoverOK, Nested, ButtonCaptured \/ ButtonHovered
    PROVE  HoverOK'
<1> PICK m : m = "onMouseButton"
  OBVIOUS
<1>1. PICK pc0 \in {"captured", "hovered"} : InCall(m, pc0)
  BY DEF ButtonCaptured, ButtonHovered
<1>2. /\ m \in Methods /\ stack # << >> /\ Top.proc = m /\ Top.proc # "user"
      /\ Top.of \in Containers /\ Top.at \in Nat /\ Top.pc = pc0
      /\ Shown(Top.of) /\ ShownAt(Top)
  BY <1>1, ButtonTop
<1>3. UNCHANGED <<treeVars, under, event>> /\ CapturesChildren /\ UNCHANGED hovered
  BY CapturesStay DEF ButtonCaptured, ButtonHovered, inputVars
<1>4. PICK v : v = IF pc0 = "captured" THEN Capture.by ELSE Child
  OBVIOUS
<1>5. v \in Widgets /\ Shown(v)
  <2>1. CASE pc0 = "captured"
    BY <1>1, <1>2, <1>4, <2>1, TopPasses DEF ShownAt, Capture
  <2>2. CASE pc0 = "hovered"
    <3>1. Top.at # 0
      BY <1>1, <1>2, <2>2, InCallTyped DEF Within
    <3>2. Child = children[Top.of][Top.at] /\ Child \in Widgets
      BY <1>1, <2>2, <3>1, ButtonTop
    <3> QED
      BY <1>2, <1>4, <2>2, <3>2 DEF ShownAt
  <2> QED
    BY <2>1, <2>2
<1>6. PICK f, is, pc, k, cs :
          /\ f = At(Top, pc, k) /\ is = FALSE /\ cs = << Call(m, v) >>
          /\ pc = (IF pc0 = "captured" THEN "count" ELSE "tried")
          /\ k = (IF pc0 = "captured" THEN 0 ELSE Top.at)
  OBVIOUS
<1>7. k \in Nat /\ pc \in Places(m) /\ pc \in {"count", "tried"}
  BY <1>2, <1>6 DEF Places
<1>8. Continue(pc, k, cs)
  <2>1. CASE ButtonCaptured
    <3>1. pc0 = "captured"
      BY <1>1, <2>1 DEF ButtonCaptured, InCall
    <3> QED
      BY <1>4, <1>6, <2>1, <3>1 DEF ButtonCaptured
  <2>2. CASE ButtonHovered
    <3>1. pc0 = "hovered"
      BY <1>1, <2>2 DEF ButtonHovered, InCall
    <3> QED
      BY <1>4, <1>6, <2>2, <3>1 DEF ButtonHovered
  <2> QED
    BY <2>1, <2>2
<1>9. /\ Tells(f, cs, NoWidget, is, k)
      /\ f.proc = m /\ f.of = Top.of /\ f.pc = pc /\ f.at = k
  <2>1. /\ cs = << >> \/ \E n \in Methods : \E w \in Widgets : cs = << Call(n, w) >>
        /\ f = At(Top, pc, k)
    BY <1>2, <1>5, <1>6
  <2> QED
    BY <1>1, <1>2, <1>3, <1>7, <1>8, <2>1, TellsNone
<1>10. Handles(f, NoWidget, is, k)
  BY <1>1, <1>9, ButtonTop
<1>11. ShownAt(f)'
  <2>1. PICK c : c = Top.of
    OBVIOUS
  <2>2. Shown(c)'
    BY <1>2, <1>3, <2>1, ShownStill
  <2> QED
    BY <1>7, <1>9, <2>1, <2>2 DEF ShownAt
<1>12. PICK g : g = Call(m, v)
  OBVIOUS
<1>13. cs # << >> /\ cs[1] = g
  BY <1>6, <1>12
<1>14. g.of = v /\ g.pc \notin {"captured", "hovered"} /\ Method(g) = m
  BY <1>2, <1>5, <1>12, CallIsNew DEF Call
<1>15. ShownAt(g)'
  <2>1. Shown(v)'
    BY <1>3, <1>5, ShownStill
  <2> QED
    BY <1>14, <2>1 DEF ShownAt
<1>16. /\ Passing(f, cs) /\ Delegates(f, cs) /\ is \in BOOLEAN
       /\ cs # << >> => ShownAt(cs[1])'
  <2>1. is \in BOOLEAN
    BY <1>6
  <2> QED
    BY <1>7, <1>9, <1>13, <1>14, <1>15, <2>1 DEF Passing, Delegates
<1> QED
  BY <1>2, <1>3, <1>9, <1>10, <1>11, <1>16, HoverGoes

LEMMA ButtonLoopHovers ==
    ASSUME StackInv, HoverOK, Nested, ButtonLoop
    PROVE  HoverOK'
<1> PICK m, pc0 : m = "onMouseButton" /\ pc0 = "loop"
  OBVIOUS
<1>1. InCall(m, pc0)
  BY DEF ButtonLoop
<1>2. /\ m \in Methods /\ stack # << >> /\ Top.proc = m /\ Top.proc # "user"
      /\ Top.of \in Containers /\ Shown(Top.of) /\ Done(Top)
      /\ Top.at # 0 => /\ Top.at \in Spots(Top.of) /\ Top.at - 1 \in Nat
                       /\ Child = children[Top.of][Top.at]
  BY <1>1, ButtonTop
<1>3. \A pc \in {"hovered", "loop"} : pc \in Places(m)
  BY DEF Places
<1>4. UNCHANGED <<treeVars, under, event, mouseCaptureMap>> /\ CapturesChildren
  BY CapturesStay DEF ButtonLoop, inputVars
<1>5. CASE Top.at = 0
  <2>1. stack' = Front(stack) /\ UNCHANGED hovered
    BY <1>5 DEF ButtonLoop, LeaveLoop
  <2> QED
    BY <1>2, <1>4, <2>1, Leaving, HoverReturns
<1>6. CASE Top.at # 0 /\ Interactive(Child) /\ Child \in under
  <2>1. PICK f, w, cs, is, pc, k, j :
            /\ f = At(Top, pc, k) /\ w = Child /\ cs = HoverCall(w, is)
            /\ is = TRUE /\ pc = "hovered" /\ k = Top.at /\ j = Top.at
    OBVIOUS
  <2>2. is \in BOOLEAN /\ is
    BY <2>1
  <2>3. /\ pc \in Places(m) /\ k \in Nat /\ j \in Spots(Top.of)
        /\ w = children[Top.of][j] /\ w \in under
    BY <1>2, <1>3, <1>6, <2>1, SpotTyped DEF StackInv
  <2>4. hovered' = HoverSet(w, is) /\ Continue(pc, k, cs)
    BY <1>6, <2>1 DEF ButtonLoop
  <2>5. /\ Tells(f, cs, w, is, j) /\ w # NoWidget /\ w \in Widgets
        /\ f.proc = m /\ f.of = Top.of /\ f.pc = pc /\ f.at = k
    <3>1. /\ m \in Methods /\ InCall(m, pc0) /\ pc \in Places(m) /\ k \in Nat
          /\ j \in Spots(Top.of) /\ w = children[Top.of][j]
          /\ f = At(Top, pc, k) /\ cs = HoverCall(w, is) /\ is \in BOOLEAN
      BY <1>1, <1>2, <2>1, <2>2, <2>3
    <3> QED
      BY <2>4, <3>1, TellsChild
  <2>6. Handles(f, w, is, j)
    <3>1. w \in under /\ (pointer \in hovered[Top.of] \/ Awaits(Top.of))
      BY <1>1, <2>3, ButtonTop
    <3> QED
      BY <1>1, <2>5, <3>1, ButtonTop
  <2>7. ShownAt(f)'
    <3>1. Hovers(w, is)
      BY <2>5 DEF Tells
    <3>2. PICK c : c = Top.of
      OBVIOUS
    <3>3. Shown(c)'
      BY <1>2, <1>4, <2>2, <3>1, <3>2, ShownStays
    <3>4. Shown(w)'
      BY <1>4, <2>2, <2>5, <3>1 DEF Shown, Hovers, pointer
    <3>5. f.of = c /\ f.pc = "hovered" /\ children'[f.of][f.at] = w
      BY <1>4, <2>1, <2>3, <2>5, <3>2 DEF treeVars
    <3> QED
      BY <3>3, <3>4, <3>5 DEF ShownAt, Shown
  <2>8. /\ Passing(f, cs) /\ Delegates(f, cs)
        /\ cs # << >> => ShownAt(cs[1])'
    BY <2>1, <2>5, HoverCallMade DEF Passing, Delegates, ShownAt
  <2> QED
    BY <1>2, <1>4, <2>2, <2>5, <2>6, <2>7, <2>8, HoverGoes
<1>7. CASE Top.at # 0 /\ ~(Interactive(Child) /\ Child \in under)
  <2>1. PICK f, is, pc, k, cs :
            /\ f = At(Top, pc, k) /\ is = FALSE
            /\ pc = "loop" /\ k = Top.at - 1 /\ cs = << >>
    OBVIOUS
  <2>2. UNCHANGED hovered /\ Continue(pc, k, cs) /\ k \in Nat /\ pc \in Places(m)
    BY <1>2, <1>3, <1>7, <2>1 DEF ButtonLoop
  <2>3. /\ Tells(f, cs, NoWidget, is, k)
        /\ f.proc = m /\ f.of = Top.of /\ f.pc = pc /\ f.at = k
    <3>1. m \in Methods /\ f = At(Top, pc, k) /\ cs = << >>
      BY <1>2, <2>1
    <3> QED
      BY <1>1, <2>2, <3>1, TellsNone
  <2>4. Handles(f, NoWidget, is, k)
    BY <1>1, <2>3, ButtonTop
  <2>5. ShownAt(f)'
    <3>1. PICK c : c = Top.of
      OBVIOUS
    <3>2. Shown(c)'
      BY <1>2, <1>4, <2>2, <3>1, ShownStill
    <3> QED
      BY <2>1, <2>3, <3>1, <3>2 DEF ShownAt
  <2>6. Passing(f, cs) /\ Delegates(f, cs) /\ cs = << >> /\ is \in BOOLEAN
    BY <2>1, <2>3 DEF Passing, Delegates
  <2> QED
    BY <1>2, <1>4, <2>3, <2>4, <2>5, <2>6, HoverGoes
<1> QED
  BY <1>5, <1>6, <1>7

LEMMA ButtonTriedHovers ==
    ASSUME StackInv, HoverOK, Nested, ButtonTried
    PROVE  HoverOK'
<1> PICK m, pc0 : m = "onMouseButton" /\ pc0 = "tried"
  OBVIOUS
<1>1. InCall(m, pc0)
  BY DEF ButtonTried
<1>2. /\ m \in Methods /\ stack # << >> /\ Top.proc = m /\ Top.proc # "user"
      /\ Top.of \in Containers /\ Shown(Top.of) /\ Done(Top) /\ Top.at \in Nat
  BY <1>1, ButtonTop
<1>3. Top.at \in Spots(Top.of) /\ Top.at - 1 \in Nat
      /\ Child = children[Top.of][Top.at]
  <2>1. Top.at # 0
    BY <1>1, <1>2, InCallTyped DEF Within, InCall
  <2> QED
    BY <1>1, <2>1, ButtonTop
<1>4. UNCHANGED <<treeVars, under, event, hovered>>
  BY DEF ButtonTried, inputVars
<1>5. CapturesChildren
  <2>1. CASE UNCHANGED mouseCaptureMap
    BY <2>1, CapturesStay
  <2>2. CASE ~UNCHANGED mouseCaptureMap
    <3>1. PICK e : e = [by |-> Child, clicks |-> 1]
      OBVIOUS
    <3>2. SetCapture(e) /\ e.by = children[Top.of][Top.at]
      BY <1>3, <2>2, <3>1 DEF ButtonTried
    <3> QED
      BY <1>2, <1>3, <3>2, SetsChild
  <2> QED
    BY <2>1, <2>2
<1>6. CASE consumed
  <2>1. stack' = Front(stack)
    BY <1>6 DEF ButtonTried, LeaveLoop
  <2> QED
    BY <1>2, <1>4, <1>5, <2>1, Leaving, HoverReturns
<1>7. CASE ~consumed
  <2>1. PICK f, is, pc, k, cs :
            /\ f = At(Top, pc, k) /\ is = FALSE
            /\ pc = "loop" /\ k = Top.at - 1 /\ cs = << >>
    OBVIOUS
  <2>2. Continue(pc, k, cs) /\ k \in Nat /\ pc \in Places(m)
    BY <1>2, <1>3, <1>7, <2>1 DEF ButtonTried, Places
  <2>3. /\ Tells(f, cs, NoWidget, is, k)
        /\ f.proc = m /\ f.of = Top.of /\ f.pc = pc /\ f.at = k
    BY <1>1, <1>2, <1>4, <2>1, <2>2, TellsNone
  <2>4. Handles(f, NoWidget, is, k)
    BY <1>1, <2>3, ButtonTop
  <2>5. ShownAt(f)'
    <3>1. PICK c : c = Top.of
      OBVIOUS
    <3>2. Shown(c)'
      BY <1>2, <1>4, <3>1, ShownStill
    <3> QED
      BY <2>1, <2>3, <3>1, <3>2 DEF ShownAt
  <2>6. Passing(f, cs) /\ Delegates(f, cs) /\ cs = << >> /\ is \in BOOLEAN
    BY <2>1, <2>3 DEF Passing, Delegates
  <2> QED
    BY <1>2, <1>4, <1>5, <2>3, <2>4, <2>5, <2>6, HoverGoes
<1> QED
  BY <1>6, <1>7

LEMMA ReturnsHover ==
    ASSUME StackInv, HoverOK, Nested, ButtonCount \/ UserReturns
    PROVE  HoverOK'
<1>1. CASE ButtonCount
  <2>1. PICK m, pc0 : m = "onMouseButton" /\ pc0 = "count"
    OBVIOUS
  <2>2. InCall(m, pc0)
    BY <1>1, <2>1 DEF ButtonCount
  <2>3. stack # << >> /\ Top.of \in Containers /\ Done(Top)
    BY <2>1, <2>2, ButtonTop
  <2>4. /\ UNCHANGED <<treeVars, under, event, hovered>> /\ stack' = Front(stack)
    BY <1>1 DEF ButtonCount, LeaveLoop, inputVars
  <2>5. CapturesChildren
    <3>1. PICK n : n = IF event.isDown THEN Capture.clicks + 1 ELSE Capture.clicks - 1
      OBVIOUS
    <3>2. SetCapture(IF n = 0 THEN NoCapture ELSE [Capture EXCEPT !.clicks = n])
      BY <1>1, <3>1 DEF ButtonCount
    <3>3. PICK e : e = IF n = 0 THEN NoCapture ELSE [Capture EXCEPT !.clicks = n]
      OBVIOUS
    <3>4. Capture \in [by : Widgets \cup {NoWidget}, clicks : Nat]
      BY <2>1, <2>2, TopPasses
    <3>5. e.by = NoWidget \/ e.by = Capture.by
      BY <3>3, <3>4 DEF NoCapture
    <3>6. SetCapture(e)
      BY <3>2, <3>3
    <3> QED
      BY <2>3, <3>5, <3>6, SetsChild
  <2> QED
    BY <2>3, <2>4, <2>5, Leaving, HoverReturns
<1>2. CASE UserReturns
  <2>1. /\ UNCHANGED <<treeVars, under, event, hovered, mouseCaptureMap>>
        /\ stack' = Front(stack) /\ stack # << >> /\ Top.proc = "user"
    BY <1>2 DEF UserReturns, InUserCode, inputVars
  <2>2. Done(Top)
    BY <2>1 DEF Done, IsAt
  <2> QED
    BY <2>1, <2>2, CapturesStay, Leaving, HoverReturns
<1> QED
  BY <1>1, <1>2

-----------------------------------------------------------------------------
(* User code and events *)

LEMMA HoverStays ==
    ASSUME HoverOK,
           UNCHANGED <<children, visible, enabled, mouseCaptureMap, hovered, stack,
                       event, under>>
    PROVE  HoverOK'
<1>1. pointer' = pointer /\ Positions' = Positions
  BY DEF pointer, Positions, IsChild
<1>2. Steady' /\ Others'
  BY <1>1 DEF HoverOK, Steady, Others, Spots
<1>3. Rooted'
  BY <1>1 DEF HoverOK, Rooted
<1>4. Inside'
  BY <1>1 DEF HoverOK, Inside, InsideAt, Awaits, Spots
<1>5. ButtonsShown'
  BY <1>1 DEF HoverOK, ButtonsShown, ShownAt, Shown
<1>6. Follows'
  BY <1>1 DEF HoverOK, Follows, FollowsAt, FollowsIn, Spots
<1> QED
  BY <1>2, <1>3, <1>4, <1>5, <1>6 DEF HoverOK

LEMMA StaysCalls ==
    ASSUME TreeStays, NEW call, NEW w, UserCodeRuns(call, w)
    PROVE  call \in {"move", "layOut"}
<1>1. PICK c : c = <<call, w>>
  OBVIOUS
<1>2. c \in program.calls /\ c[1] = call
  BY <1>1 DEF UserCodeRuns
<1> QED
  BY <1>2 DEF TreeStays

\* A widget that is handed a move changes where it is before it answers.
LEMMA MoveHovers ==
    ASSUME StackInv, HoverOK, UNCHANGED program, NEW w \in Widgets, move(w)
    PROVE  HoverOK'
<1>1. /\ InUserCode /\ Top.of = w /\ Top.pc # "onHoverChanged"
      /\ under' \in Positions /\ Top.proc = "user" /\ stack # << >>
      /\ \A v : v # w => (v \in under' <=> v \in under)
  BY DEF move, InUserCode
<1>2. UNCHANGED <<children, visible, enabled, mouseCaptureMap, hovered, stack, event>>
  BY DEF move, UserCall, treeVars, inputVars
<1>3. /\ Top \in CallType /\ IsCall(Top) /\ w \notin Containers
      /\ Len(stack) \in Nat \ {0} /\ Top = stack[Len(stack)]
  BY <1>1, TopTyped DEF StackInv
<1>4. /\ pointer' = pointer /\ Positions' = Positions
      /\ Root \in Containers /\ \A d \in Containers : d # w
  BY <1>2, <1>3, MouseAssumption DEF pointer, Positions, IsChild
<1>5. Steady' /\ Others'
  BY <1>2, <1>4 DEF HoverOK, Steady, Others, Spots
<1>6. Rooted'
  BY <1>1, <1>2, <1>4 DEF HoverOK, Rooted
<1>7. Inside'
  BY <1>1, <1>2, <1>4 DEF HoverOK, Inside, InsideAt, Awaits, Spots
<1>8. ButtonsShown'
  BY <1>1, <1>2, <1>4 DEF HoverOK, ButtonsShown, ShownAt, Shown
<1>9. ASSUME event.kind = "move"
      PROVE  \E d \in Containers : \E k \in Spots(d) :
                 /\ children[d][k] = w /\ Some("moves", stack, d, k)
                 /\ d # Root => \E j \in Spots(Root) :
                        children[Root][j] = d /\ Some("moves", stack, Root, j)
  <2>1. PICK n : n = Len(stack)
    OBVIOUS
  <2>2. n \in 1 .. Len(stack) /\ n \in Nat /\ stack[n] = Top
    BY <1>3, <2>1
  <2>3. Method(stack[n]) = Top.pc /\ Top.pc \in Methods
    BY <1>1, <1>3, <2>2 DEF Method, IsCall, Methods
  <2>4. Top.pc = "onMouseMove"
    BY <1>1, <1>9, <2>2, <2>3 DEF HoverOK, Rooted, Methods
  <2>5. Rooted /\ Method(stack[n]) = "onMouseMove" /\ stack[n].of # Root
    BY <1>1, <1>3, <1>4, <2>2, <2>3, <2>4 DEF HoverOK
  <2>6. n > 1
    BY <2>2, <2>5, MovedBy
  <2>7. PICK g, i : i = n - 1 /\ g = stack[i]
    OBVIOUS
  <2>8. /\ i \in 1 .. Len(stack) /\ g.of \in Containers /\ g.at \in Spots(g.of)
        /\ w = children[g.of][g.at] /\ IsAt("moves", g, g.of, g.at)
        /\ g.proc = "onMouseMove"
    BY <1>1, <2>2, <2>5, <2>6, <2>7, MovedBy
  <2>9. Some("moves", stack, g.of, g.at)
    BY <2>7, <2>8 DEF Some
  <2>10. ASSUME g.of # Root
         PROVE  \E j \in Spots(Root) :
                    children[Root][j] = g.of /\ Some("moves", stack, Root, j)
    <3>1. Method(stack[i]) = "onMouseMove" /\ i > 1
      <4>1. Method(stack[i]) = "onMouseMove"
        BY <2>7, <2>8 DEF Method
      <4>2. i # 1
        BY <2>5, <2>7, <2>8, <2>10, <4>1, MovedBy
      <4> QED
        BY <2>8, <4>1, <4>2
    <3>2. PICK h, l : l = i - 1 /\ h = stack[l]
      OBVIOUS
    <3>3. /\ l \in 1 .. Len(stack) /\ h.of \in Containers /\ h.at \in Spots(h.of)
          /\ g.of = children[h.of][h.at] /\ IsAt("moves", h, h.of, h.at)
      BY <2>5, <2>7, <2>8, <3>1, <3>2, MovedBy
    <3>4. h.of = Root
      BY <2>8, <3>3, SpotTyped DEF StackInv
    <3>5. Some("moves", stack, Root, h.at)
      BY <3>2, <3>3, <3>4 DEF Some
    <3> QED
      BY <3>3, <3>4, <3>5
  <2> QED
    BY <2>8, <2>9, <2>10
<1>10. Follows'
  <2>1. ASSUME event.kind = "move", NEW k \in Spots(Root),
               pointer \in hovered[children[Root][k]]
        PROVE  children[Root][k] \in under' \/ Some("moves", stack, Root, k)
    <3>1. children[Root][k] \in under \/ Some("moves", stack, Root, k)
      BY <2>1 DEF HoverOK, Follows, FollowsAt
    <3>2. CASE children[Root][k] = w
      <4>0. PICK d \in Containers : \E i \in Spots(d) :
                children[d][i] = w /\ Some("moves", stack, d, i)
        BY <1>9, <2>1
      <4>1. PICK i \in Spots(d) :
                children[d][i] = w /\ Some("moves", stack, d, i)
        BY <4>0
      <4>2. d = Root /\ i = k
        BY <1>4, <3>2, <4>1, OnePlace DEF HoverOK
      <4> QED
        BY <4>1, <4>2
    <3> QED
      BY <1>1, <3>1, <3>2
  <2>2. ASSUME event.kind = "move", NEW j \in Spots(Root), NEW c \in Containers,
               NEW k \in Spots(c), children[Root][j] = c,
               pointer \in hovered[children[c][k]]
        PROVE  \/ children[c][k] \in under'
               \/ Some("unhovers", stack, c, k)
               \/ /\ Some("moves", stack, Root, j)
                  /\ Some("passed", stack, Root, j) => Some("moves", stack, c, k)
    <3>1. \/ children[c][k] \in under
          \/ Some("unhovers", stack, c, k)
          \/ /\ Some("moves", stack, Root, j)
             /\ Some("passed", stack, Root, j) => Some("moves", stack, c, k)
      BY <2>2 DEF HoverOK, Follows, FollowsIn
    <3>2. CASE children[c][k] = w
      <4>0. PICK d \in Containers : \E i \in Spots(d) :
                /\ children[d][i] = w /\ Some("moves", stack, d, i)
                /\ d # Root => \E l \in Spots(Root) :
                       children[Root][l] = d /\ Some("moves", stack, Root, l)
        BY <1>9, <2>2
      <4>1. PICK i \in Spots(d) :
                /\ children[d][i] = w /\ Some("moves", stack, d, i)
                /\ d # Root => \E l \in Spots(Root) :
                       children[Root][l] = d /\ Some("moves", stack, Root, l)
        BY <4>0
      <4>2. d = c /\ i = k
        BY <3>2, <4>1, OnePlace DEF HoverOK
      <4>3. c # Root
        BY <1>4, <2>2, SpotTyped DEF StackInv
      <4>4. PICK l \in Spots(Root) :
                children[Root][l] = c /\ Some("moves", stack, Root, l)
        BY <4>1, <4>2, <4>3
      <4>5. l = j
        BY <1>4, <2>2, <4>4, OnePlace DEF HoverOK
      <4> QED
        BY <4>1, <4>2, <4>4, <4>5
    <3> QED
      BY <1>1, <3>1, <3>2
  <2> QED
    BY <1>2, <1>4, <2>1, <2>2 DEF Follows, FollowsAt, FollowsIn, Spots
<1> QED
  BY <1>5, <1>6, <1>7, <1>8, <1>10 DEF HoverOK

LEMMA UserCodeHovers ==
    ASSUME StackInv, HoverOK, TreeStays, UNCHANGED program, UserCode
    PROVE  HoverOK'
<1>1. CASE \E w \in Widgets : move(w)
  BY <1>1, MoveHovers
<1>2. CASE \E c \in Containers : layOut(c)
  <2>1. UNCHANGED <<children, visible, enabled, mouseCaptureMap, hovered, stack,
                    event, under>>
    BY <1>2 DEF layOut, UserCall, treeVars, inputVars
  <2> QED
    BY <2>1, HoverStays
<1>3. ASSUME NEW call \in {"add", "remove", "makeTopmost", "setVisible",
                           "setEnabled", "destroy"},
             NEW w, UserCodeRuns(call, w)
      PROVE  FALSE
  BY <1>3, StaysCalls
<1>4. \A w \in Widgets :
          /\ ~setVisible(w) /\ ~setEnabled(w) /\ ~destroy(w)
          /\ \A c \in Containers :
                 /\ ~remove(c, w) /\ ~makeTopmost(c, w)
                 /\ \A i \in 1 .. Len(children[c]) + 1 : ~add(c, w, i)
  BY <1>3 DEF setVisible, setEnabled, destroy, remove, makeTopmost, add
<1> QED
  BY <1>1, <1>2, <1>4 DEF UserCode

LEMMA BegunCalls ==
    ASSUME NEW g, NEW h, NEW cs, cs = << >> \/ cs = << g >>, NEW is \in BOOLEAN,
           NEW s, s = cs \o IF is THEN << h >> ELSE << >>
    PROVE  /\ \A i \in 1 .. Len(s) : (s[i] = g /\ cs # << >>) \/ s[i] = h
           /\ cs # << >> => \E i \in 1 .. Len(s) : s[i] = g
           /\ is => \E i \in 1 .. Len(s) : s[i] = h
<1>1. /\ << >> \o << h >> = << h >> /\ << g >> \o << h >> = << g, h >>
      /\ << >> \o << >> = << >> /\ << g >> \o << >> = << g >>
  BY Joined
<1>2. CASE cs = << >> /\ is
  <2>1. s = << h >>
    BY <1>1, <1>2
  <2> QED
    BY <1>2, <2>1
<1>3. CASE cs = << >> /\ ~is
  BY <1>1, <1>3
<1>4. CASE cs = << g >> /\ is
  <2>1. s = << g, h >>
    BY <1>1, <1>4
  <2>2. Len(s) = 2 /\ s[1] = g /\ s[2] = h
    <3>1. Len(<< g, h >>) = 2 /\ << g, h >>[1] = g /\ << g, h >>[2] = h
      OBVIOUS
    <3> QED
      BY ONLY <2>1, <3>1
  <2>3. 1 \in 1 .. Len(s) /\ 2 \in 1 .. Len(s)
        /\ \A i \in 1 .. Len(s) : i = 1 \/ i = 2
    BY <2>2
  <2>4. cs # << >>
    BY <1>4
  <2> QED
    BY <2>2, <2>3, <2>4
<1>5. CASE cs = << g >> /\ ~is
  <2>1. s = << g >>
    BY <1>1, <1>5
  <2> QED
    BY <1>5, <2>1
<1> QED
  BY <1>2, <1>3, <1>4, <1>5

\* When no call is in progress, nothing is hovered but inside what is hovered.
AllInside ==
    \A q \in Pointers : \A c \in Containers : \A k \in Spots(c) :
        q \in hovered[children[c][k]] => q \in hovered[c]

LEMMA SettlesInside ==
    ASSUME HoverOK, stack = << >>
    PROVE  AllInside
<1>1. \A what, c, k : ~Some(what, stack, c, k)
  BY DEF Some
<1>2. ASSUME NEW c \in Containers, NEW k \in Spots(c),
             pointer \in hovered[children[c][k]]
      PROVE  pointer \in hovered[c]
  BY <1>1, <1>2 DEF HoverOK, Inside, InsideAt, Awaits
<1>3. ASSUME NEW q \in Pointers, q # pointer, NEW c \in Containers,
             NEW k \in Spots(c), q \in hovered[children[c][k]]
      PROVE  q \in hovered[c]
  BY <1>3 DEF HoverOK, Others
<1> QED
  BY <1>2, <1>3 DEF AllInside

LEMMA EventHandledHovers ==
    ASSUME StackInv, HoverOK, EventHandled
    PROVE  HoverOK'
<1>1. /\ stack = << >> /\ stack' = << >> /\ event' = NoEvent /\ under' = {}
      /\ UNCHANGED <<children, visible, enabled, mouseCaptureMap, hovered>>
  BY DEF EventHandled, treeVars
<1>2. AllInside
  BY <1>1, SettlesInside
<1>3. NoEvent.kind = "none" /\ NoEvent.by \in Pointers
  <2>1. \E p \in Pointers : TRUE
    BY MouseAssumption
  <2> QED
    BY <2>1 DEF NoEvent
<1>4. pointer' \in Pointers /\ event'.kind = "none"
  BY <1>1, <1>3 DEF pointer
<1>5. Steady'
  BY <1>1 DEF HoverOK, Steady, Spots
<1>6. Rooted'
  BY <1>1, <1>4 DEF Rooted, Positions
<1>7. Others' /\ Inside'
  BY <1>1, <1>2, <1>4 DEF Others, Inside, InsideAt, AllInside, Spots
<1>8. ButtonsShown' /\ Follows'
  BY <1>1, <1>4 DEF ButtonsShown, Follows
<1> QED
  BY <1>5, <1>6, <1>7, <1>8 DEF HoverOK

LEMMA BeginsHover ==
    ASSUME StackInv, HoverOK, NEW p \in Pointers,
           NEW kind \in {"move", "button", "hover"}, NEW isDown, NEW over \in BOOLEAN,
           NEW m \in Methods, NEW cs,
           Begin([kind |-> kind, isDown |-> isDown, by |-> p], over, cs),
           under' \in Positions,
           kind = "hover" => cs = << >>,
           kind # "hover" =>
               cs = << Call(m, Root) >> /\ (over <=> Root \in under'),
           kind = "move" => m = "onMouseMove",
           kind = "button" => m = "onMouseButton"
    PROVE  HoverOK'
<1>1. PICK g, h, is : /\ g = Call(m, Root) /\ h = Call("onHoverChanged", Root)
                      /\ is = (p \in hovered[Root] /\ ~over)
  OBVIOUS
<1>2. /\ event = NoEvent /\ event'.kind = kind /\ event'.by = p
      /\ hovered' = [hovered EXCEPT ![Root] = IF over THEN @ \cup {p} ELSE @ \ {p}]
      /\ stack' = cs \o IF is THEN << h >> ELSE << >>
      /\ UNCHANGED <<children, visible, enabled, mouseCaptureMap>>
  BY <1>1 DEF Begin, treeVars
<1>3. is \in BOOLEAN
  BY <1>1
<1>4. is <=> p \in hovered[Root] /\ ~over
  BY <1>1
<1>5. stack = << >> /\ pointer' = p /\ Root \in Containers /\ Containers \subseteq Widgets
      /\ hovered \in [Widgets -> SUBSET Pointers]
  BY <1>2, MouseAssumption DEF StackInv, Stacked, TreeTyped, pointer
<1>6. AllInside
  BY <1>5, SettlesInside
<1>7. /\ \A i \in 1 .. Len(stack') : (stack'[i] = g /\ cs # << >>) \/ stack'[i] = h
      /\ cs # << >> => \E i \in 1 .. Len(stack') : stack'[i] = g
      /\ is => \E i \in 1 .. Len(stack') : stack'[i] = h
  <2>1. cs = << >> \/ cs = << g >>
    BY <1>1
  <2>2. PICK s : s = stack'
    OBVIOUS
  <2>3. s = cs \o IF is THEN << h >> ELSE << >>
    BY <1>2, <2>2
  <2>4. /\ \A i \in 1 .. Len(s) : (s[i] = g /\ cs # << >>) \/ s[i] = h
        /\ cs # << >> => \E i \in 1 .. Len(s) : s[i] = g
        /\ is => \E i \in 1 .. Len(s) : s[i] = h
    BY <1>3, <2>1, <2>3, BegunCalls
  <2> QED
    BY <2>2, <2>4
<1>8. /\ g.of = Root /\ g.proc = m /\ g.pc = "enter"
      /\ h.of = Root /\ h.proc = "onHoverChanged" /\ h.pc = "enter"
  BY <1>1, <1>5 DEF Call
<1>9. /\ \A v \in Widgets : v # Root => hovered'[v] = hovered[v]
      /\ \A q : q # p => (q \in hovered'[Root] <=> q \in hovered[Root])
      /\ p \in hovered'[Root] <=> over
  BY <1>2, <1>5
<1>10. kind # "hover" <=> cs # << >>
  BY <1>1
<1>11. Steady'
  BY <1>2 DEF HoverOK, Steady, Spots
<1>12. Rooted'
  <2>1. Positions' = Positions
    BY <1>2 DEF Positions, IsChild
  <2>2. ASSUME NEW i \in 1 .. Len(stack')
        PROVE  /\ Method(stack'[i]) = "onMouseMove" => kind = "move"
               /\ Method(stack'[i]) = "onMouseButton" => kind = "button"
               /\ stack'[i].pc = "enter"
    <3>1. CASE stack'[i] = h
      BY <1>8, <3>1 DEF Method
    <3>2. CASE stack'[i] = g /\ cs # << >>
      <4>1. Method(g) = m
        BY <1>8 DEF Method, Methods
      <4> QED
        BY <1>8, <1>10, <3>2, <4>1
    <3> QED
      BY <1>7, <3>1, <3>2
  <2>3. kind \in {"move", "button"} => (p \in hovered'[Root] <=> Root \in under')
    BY <1>9
  <2> QED
    BY <1>2, <1>5, <2>1, <2>2, <2>3 DEF Rooted
<1>13. ASSUME NEW c \in Containers, NEW k \in Spots(c)
       PROVE  /\ children[c][k] \in Widgets /\ children[c][k] # Root /\ c \in Widgets
              /\ hovered'[children[c][k]] = hovered[children[c][k]]
  BY <1>5, <1>9, SpotTyped DEF StackInv
<1>14. Others'
  <2>1. ASSUME NEW q \in Pointers, q # p, NEW c \in Containers, NEW k \in Spots(c),
               q \in hovered'[children[c][k]]
        PROVE  q \in hovered'[c]
    <3>1. q \in hovered[c]
      BY <1>6, <1>13, <2>1 DEF AllInside
    <3> QED
      BY <1>9, <1>13, <2>1, <3>1
  <2> QED
    BY <1>2, <1>5, <2>1 DEF Others, Spots
<1>15. Inside'
  <2>1. ASSUME NEW c \in Containers, NEW k \in Spots(c),
               p \in hovered'[children[c][k]]
        PROVE  p \in hovered'[c] \/ Some("unhovers", stack', c, k)
    <3>1. p \in hovered[c]
      BY <1>6, <1>13, <2>1 DEF AllInside
    <3>2. CASE c # Root \/ over
      BY <1>9, <1>13, <3>1, <3>2
    <3>3. CASE c = Root /\ ~over
      <4>1. PICK i \in 1 .. Len(stack') : stack'[i] = h
        BY <1>4, <1>7, <3>1, <3>3
      <4>2. IsAt("unhovers", h, c, k)
        BY <1>8, <3>3 DEF IsAt
      <4> QED
        BY <4>1, <4>2 DEF Some
    <3> QED
      BY <3>2, <3>3
  <2> QED
    BY <1>2, <1>5, <2>1 DEF Inside, InsideAt, Spots
<1>16. ButtonsShown'
  <2>1. ASSUME NEW i \in 1 .. Len(stack'), NEW f, f = stack'[i]
        PROVE  ShownAt(f)'
    <3>1. CASE f = h
      BY <1>8, <3>1 DEF ShownAt
    <3>2. CASE f = g /\ cs # << >>
      <4>1. Root \in under' => pointer' \in hovered'[Root]
        BY <1>5, <1>9, <1>10, <3>2
      <4> QED
        BY <1>8, <3>2, <4>1 DEF ShownAt, Shown
    <3> QED
      BY <1>7, <2>1, <3>1, <3>2
  <2> QED
    BY <2>1, ShownAll
<1>17. Follows'
  <2>1. ASSUME kind = "move", NEW k
        PROVE  /\ Some("moves", stack', Root, k)
               /\ ~Some("passed", stack', Root, k)
    <3>1. PICK i \in 1 .. Len(stack') : stack'[i] = g
      BY <1>7, <1>10, <2>1
    <3>2. IsAt("moves", g, Root, k)
      BY <1>8, <2>1 DEF IsAt
    <3>3. ~IsAt("passed", g, Root, k) /\ ~IsAt("passed", h, Root, k)
      BY <1>8 DEF IsAt
    <3> QED
      BY <1>7, <3>1, <3>2, <3>3 DEF Some
  <2> QED
    BY <1>2, <2>1 DEF Follows, FollowsAt, FollowsIn
<1> QED
  BY <1>11, <1>12, <1>14, <1>15, <1>16, <1>17 DEF HoverOK

LEMMA EventsHover ==
    ASSUME StackInv, HoverOK, UNCHANGED program, Events
    PROVE  HoverOK'
<1>1. PICK p \in program.pointers :
          \/ onMouseMove(p)
          \/ \E b \in BOOLEAN : onMouseButton(p, b) \/ onMouseHover(p, b)
  BY DEF Events
<1>2. p \in Pointers
  BY <1>1, ProgramTyped DEF StackInv, TreeTyped
<1>3. "onMouseMove" \in Methods /\ "onMouseButton" \in Methods
  BY DEF Methods
<1>4. CASE onMouseMove(p)
  <2>1. PICK over, kind, isDown, m, cs :
            /\ over = (Root \in under') /\ kind = "move" /\ isDown = FALSE
            /\ m = "onMouseMove" /\ cs = << Call(m, Root) >>
    OBVIOUS
  <2>2. over \in BOOLEAN
    BY <2>1
  <2>3. over <=> Root \in under'
    BY <2>1
  <2>4. Begin([kind |-> kind, isDown |-> isDown, by |-> p], over, cs)
        /\ under' \in Positions
    BY <1>4, <2>1 DEF onMouseMove
  <2>5. /\ kind \in {"move", "button", "hover"} /\ m \in Methods
        /\ kind # "hover" /\ kind = "move" /\ kind # "button"
        /\ m = "onMouseMove" /\ cs = << Call(m, Root) >>
    BY <1>3, <2>1
  <2> QED
    BY <1>2, <2>2, <2>3, <2>4, <2>5, BeginsHover
<1>5. ASSUME NEW b \in BOOLEAN, onMouseButton(p, b)
      PROVE  HoverOK'
  <2>1. PICK over, kind, m, cs :
            /\ over = (Root \in under') /\ kind = "button"
            /\ m = "onMouseButton" /\ cs = << Call(m, Root) >>
    OBVIOUS
  <2>2. over \in BOOLEAN
    BY <2>1
  <2>3. over <=> Root \in under'
    BY <2>1
  <2>4. Begin([kind |-> kind, isDown |-> b, by |-> p], over, cs)
        /\ under' \in Positions
    BY <1>5, <2>1 DEF onMouseButton
  <2>5. /\ kind \in {"move", "button", "hover"} /\ m \in Methods
        /\ kind # "hover" /\ kind = "button" /\ kind # "move"
        /\ m = "onMouseButton" /\ cs = << Call(m, Root) >>
    BY <1>3, <2>1
  <2> QED
    BY <1>2, <2>2, <2>3, <2>4, <2>5, BeginsHover
<1>6. ASSUME NEW b \in BOOLEAN, onMouseHover(p, b)
      PROVE  HoverOK'
  <2>1. PICK kind, isDown, m, cs :
            /\ kind = "hover" /\ isDown = FALSE
            /\ m = "onMouseMove" /\ cs = << >>
    OBVIOUS
  <2>2. Begin([kind |-> kind, isDown |-> isDown, by |-> p], b, cs)
        /\ under' \in Positions
    BY <1>6, <2>1 DEF onMouseHover, HoverOK, Rooted
  <2>3. /\ kind \in {"move", "button", "hover"} /\ m \in Methods
        /\ kind = "hover" /\ kind # "button" /\ kind # "move" /\ cs = << >>
    BY <1>3, <2>1
  <2> QED
    BY <1>2, <1>6, <2>2, <2>3, BeginsHover
<1> QED
  BY <1>1, <1>4, <1>5, <1>6

LEMMA InitHover ==
    Init => HoverInv
<1> SUFFICES ASSUME Init PROVE HoverInv
  OBVIOUS
<1>1. StackInv
  BY InitStack
<1>2. /\ children = InitialChildren /\ stack = << >> /\ event = NoEvent /\ under = {}
      /\ visible = Widgets /\ enabled = Widgets /\ hovered = [w \in Widgets |-> {}]
      /\ Containers \subseteq Widgets
  BY MouseAssumption DEF Init
<1>3. \A c \in Containers : \A p \in Pointers : mouseCaptureMap[c][p].by = NoWidget
  BY DEF Init, NoCapture
<1>4. event.kind = "none"
  BY <1>2 DEF NoEvent
<1>5. \A c \in Containers : \A k \in Spots(c) : hovered[children[c][k]] = {}
  BY <1>1, <1>2, SpotTyped DEF StackInv
<1>6. Steady
  BY <1>2, <1>3 DEF Steady
<1>7. Rooted
  BY <1>2, <1>4 DEF Rooted, Positions
<1>8. Others
  BY <1>5 DEF Others
<1>9. Inside
  BY <1>5 DEF Inside, InsideAt
<1>10. ButtonsShown
  <2>1. Len(stack) = 0
    BY <1>2
  <2> QED
    BY <2>1 DEF ButtonsShown
<1>11. Follows
  BY <1>4 DEF Follows
<1> QED
  BY <1>1, <1>6, <1>7, <1>8, <1>9, <1>10, <1>11 DEF HoverInv, HoverOK

LEMMA HoverKept ==
    LayOutsApart /\ Nested /\ HoverInv /\ [Next]_vars => HoverInv'
<1> SUFFICES ASSUME LayOutsApart, Nested, HoverInv, [Next]_vars
             PROVE  HoverInv'
  OBVIOUS
<1>1. StackInv /\ StackInv'
  BY StackKept DEF HoverInv
<1>2. UNCHANGED program
  BY DEF Next, vars
<1>3. TreeStays' <=> TreeStays
  BY <1>2 DEF TreeStays
<1>4. ASSUME TreeStays
      PROVE  HoverOK'
  <2>1. HoverOK
    BY <1>4 DEF HoverInv
  <2>2. CASE UNCHANGED vars
    BY <2>1, <2>2, HoverStays DEF vars, treeVars, inputVars
  <2>3. CASE UserCode
    BY <1>1, <1>2, <1>4, <2>1, <2>3, UserCodeHovers
  <2>4. CASE Events
    BY <1>1, <1>2, <2>1, <2>4, EventsHover
  <2>5. CASE Dispatch
    <3>1. CASE HoverChangedEnter \/ HoverChangedLoop
      BY <1>1, <2>1, <3>1, HoverChangedHovers
    <3>2. CASE MoveEnter \/ MoveLoop \/ Moved \/ MoveRest
      BY <1>1, <2>1, <3>2, MouseMoveHovers
    <3>3. CASE ButtonEnter
      BY <1>1, <2>1, <3>3, ButtonEnterHovers
    <3>4. CASE ButtonCaptured \/ ButtonHovered
      BY <1>1, <2>1, <3>4, ButtonCallsHover
    <3>5. CASE ButtonLoop
      BY <1>1, <2>1, <3>5, ButtonLoopHovers
    <3>6. CASE ButtonTried
      BY <1>1, <2>1, <3>6, ButtonTriedHovers
    <3>7. CASE ButtonCount \/ UserReturns
      BY <1>1, <2>1, <3>7, ReturnsHover
    <3>8. CASE EventHandled
      BY <1>1, <2>1, <3>8, EventHandledHovers
    <3> QED
      BY <2>5, <3>1, <3>2, <3>3, <3>4, <3>5, <3>6, <3>7, <3>8 DEF Dispatch
  <2> QED
    BY <2>2, <2>3, <2>4, <2>5 DEF Next
<1> QED
  BY <1>1, <1>3, <1>4 DEF HoverInv

LEMMA HoverHolds ==
    ASSUME LayOutsApart, Nested
    PROVE  Spec => []HoverInv
BY InitHover, HoverKept, PTL DEF Spec

\* Between events, in programs that change no tree: a pointer that hovers a
\* widget hovers its parent too, wherever widgets moved, whatever consumed the
\* events, and however events of several pointers took turns.
THEOREM HoversInsideHovered ==
    ASSUME LayOutsApart, Nested
    PROVE  Spec => []HoveredInsideHovered
<1>1. ASSUME HoverInv
      PROVE  HoveredInsideHovered
  <2>1. ASSUME event = NoEvent, TreeStays, NEW c \in Containers,
               NEW w \in ToSet(children[c])
        PROVE  hovered[w] \subseteq hovered[c]
    <3>1. StackInv /\ HoverOK
      BY <1>1, <2>1 DEF HoverInv
    <3>2. stack = << >>
      BY <2>1, <3>1 DEF StackInv, Stacked
    <3>3. children[c] \in Seq(Widgets) /\ hovered \in [Widgets -> SUBSET Pointers]
      BY <3>1 DEF StackInv, TreeTyped
    <3>4. PICK k \in Spots(c) : w = children[c][k]
      BY <3>3, LenProperties DEF ToSet, Spots
    <3>5. w \in Widgets
      BY <3>1, <3>4, SpotTyped DEF StackInv
    <3> QED
      BY <3>1, <3>2, <3>3, <3>4, <3>5, SettlesInside DEF AllInside
  <2> QED
    BY <2>1 DEF HoveredInsideHovered
<1> QED
  BY <1>1, HoverHolds, PTL

\* When a move has been handled, each widget of the tree that its pointer
\* hovers is under it: the move went to every child it had to leave, also to
\* those that moved away while they or others were handling it.
THEOREM HoversWhereItIs ==
    ASSUME LayOutsApart, Nested
    PROVE  Spec => HoverFollowsPointer
<1>1. ASSUME HoverInv, EventHandled, event.kind = "move", TreeStays,
             NEW w \in Widgets, InTree(w), pointer \in hovered[w]
      PROVE  w \in under
  <2>1. StackInv /\ HoverOK /\ stack = << >> /\ Root \in Containers
    BY <1>1, MouseAssumption DEF HoverInv, EventHandled
  <2>2. \A what, c, k : ~Some(what, stack, c, k)
    BY <2>1 DEF Some
  <2>3. CASE w = Root
    BY <1>1, <2>1, <2>3 DEF HoverOK, Rooted
  <2>4. ASSUME NEW c \in Containers, IsChild(w, c)
        PROVE  \E k \in Spots(c) : w = children[c][k]
    <3>1. children[c] \in Seq(Widgets)
      BY <2>1 DEF StackInv, TreeTyped
    <3> QED
      BY <2>4, <3>1, LenProperties DEF IsChild, ToSet, Spots
  <2>5. CASE IsChild(w, Root)
    <3>1. PICK k \in Spots(Root) : w = children[Root][k]
      BY <2>1, <2>4, <2>5
    <3>2. FollowsAt(k)
      BY <1>1, <2>1 DEF HoverOK, Follows
    <3> QED
      BY <1>1, <2>2, <3>1, <3>2 DEF FollowsAt
  <2>6. ASSUME NEW c \in Containers, IsChild(w, c), IsChild(c, Root)
        PROVE  w \in under
    <3>1. PICK k \in Spots(c) : w = children[c][k]
      BY <2>4, <2>6
    <3>2. c \in Widgets
      BY MouseAssumption
    <3>3. \E j \in Spots(Root) : c = children[Root][j]
      <4>1. children[Root] \in Seq(Widgets)
        BY <2>1 DEF StackInv, TreeTyped
      <4> QED
        BY <2>6, <4>1, LenProperties DEF IsChild, ToSet, Spots
    <3>4. PICK j \in Spots(Root) : c = children[Root][j]
      BY <3>3
    <3>5. FollowsIn(j, c, k)
      BY <1>1, <2>1, <3>4 DEF HoverOK, Follows
    <3> QED
      BY <1>1, <2>2, <3>1, <3>5 DEF FollowsIn
  <2> QED
    BY <1>1, <2>3, <2>5, <2>6 DEF InTree
<1>2. HoverInv /\ [Next]_vars =>
          [EventHandled /\ event.kind = "move" /\ TreeStays =>
              \A w \in Widgets :
                  InTree(w) /\ pointer \in hovered[w] => w \in under]_vars
  BY <1>1
<1> QED
  BY <1>2, HoverHolds, PTL DEF Spec, HoverFollowsPointer
=============================================================================

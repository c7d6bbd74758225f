--------------------------- MODULE InflaterProofs ---------------------------
(***************************************************************************)
(* Names mean the same before and after a call of inflate(), whatever the  *)
(* scripts say, whatever fails and however deep calls are nested, as long  *)
(* as no constructor inflates a chain with declarations at its top level;  *)
(* and constructors get what the definitions in the scripts say.           *)
(*                                                                         *)
(* The second part relates each stack of templates to the scripts: a name  *)
(* that a stack knows is known there as a node that says what its          *)
(* definitions say, the nearest one first (Describes, Meant).  Pushing a   *)
(* layer keeps that for the level it opens, and a call that is over leaves *)
(* the levels of its callers as they were.                                 *)
(***************************************************************************)
EXTENDS Inflater, SequenceTheorems, FiniteSetTheorems, WellFoundedInduction,
        TLAPS

IsSeq(s) == \E S : s \in Seq(S)
IsScope(s) ==
    /\ s = [templates |-> s.templates, variables |-> s.variables]
    /\ IsSeq(s.templates) /\ IsSeq(s.variables)

\* What a call that has pushed its layers has found and made.
Longer(before, after, flag) ==
    IF flag THEN \E layer : after = Append(before, layer) ELSE after = before
Opened(f) ==
    /\ {"outer", "inside", "popTemplates", "popVariables"} \subseteq DOMAIN f
    /\ IsScope(f.outer) /\ IsScope(f.inside)
    /\ Longer(f.outer.templates, f.inside.templates, f.popTemplates)
    /\ Longer(f.outer.variables, f.inside.variables, f.popVariables)

\* The same calls are in progress, but for how far they are.
SameCalls(fs, gs) ==
    /\ IsSeq(gs) /\ Len(gs) = Len(fs)
    /\ \A i \in DOMAIN fs :
           /\ gs[i].outer = fs[i].outer /\ gs[i].inside = fs[i].inside
           /\ Opened(gs[i])

Innermost(fs, g) == IF fs = << >> THEN g ELSE fs[Len(fs)].inside
Nested(fs, g) ==
    \A i \in DOMAIN fs :
        fs[i].outer = IF i = 1 THEN g ELSE fs[i - 1].inside

\* Calls that are in progress, in the way ScopesNest says.
Calling(fs, g) ==
    /\ IsSeq(fs)
    /\ \A i \in DOMAIN fs : Opened(fs[i])
    /\ Nested(fs, g)

Inv == /\ IsScope(globals) /\ Calling(frames, globals)
       /\ Scope = Innermost(frames, globals)

-----------------------------------------------------------------------------
(* Sequences *)

\* The domain of a sequence.
LEMMA SeqFacts ==
    ASSUME NEW s, IsSeq(s)
    PROVE  /\ Len(s) \in Nat /\ DOMAIN s = 1 .. Len(s)
           /\ s = << >> <=> Len(s) = 0
BY DEF IsSeq

\* A sequence with one element more.
LEMMA AppendFacts ==
    ASSUME NEW s, IsSeq(s), NEW e
    PROVE  LET t == Append(s, e)
           IN  /\ IsSeq(t) /\ Len(t) = Len(s) + 1 /\ t # << >>
               /\ DOMAIN t = 1 .. Len(s) + 1
               /\ \A i \in 1 .. Len(s) : t[i] = s[i]
               /\ t[Len(s) + 1] = e
               /\ SubSeq(t, 1, Len(t) - 1) = s
<1>1. PICK S : s \in Seq(S)
  BY DEF IsSeq
<1>2. s \in Seq(S \cup {e}) /\ e \in S \cup {e}
  BY <1>1
<1> DEFINE T == S \cup {e}
<1>3. s \in Seq(T) /\ e \in T
  BY <1>2
<1> HIDE DEF T
<1>4. Append(s, e) \in Seq(T)
  BY <1>3
<1>5. SubSeq(Append(s, e), 1, Len(Append(s, e)) - 1) = s
  <2>1. Len(Append(s, e)) - 1 = Len(s) /\ Len(s) \in Nat
    BY <1>3
  <2>2. /\ SubSeq(Append(s, e), 1, Len(s)) \in Seq(T)
        /\ Len(SubSeq(Append(s, e), 1, Len(s))) = Len(s)
        /\ \A i \in 1 .. Len(s) :
               SubSeq(Append(s, e), 1, Len(s))[i] = Append(s, e)[i]
    BY <1>3, <1>4
  <2>3. \A i \in 1 .. Len(s) : Append(s, e)[i] = s[i]
    BY <1>3
  <2>4. QED
    BY <1>3, <2>1, <2>2, <2>3, SeqEqual
<1>6. QED
  BY <1>3, <1>4, <1>5 DEF IsSeq

\* A sequence without its last element.
LEMMA FrontFacts ==
    ASSUME NEW s, IsSeq(s), s # << >>
    PROVE  LET t == SubSeq(s, 1, Len(s) - 1)
           IN  /\ IsSeq(t) /\ Len(t) = Len(s) - 1
               /\ DOMAIN t = 1 .. Len(s) - 1
               /\ \A i \in 1 .. Len(s) - 1 : t[i] = s[i]
<1>1. PICK S : s \in Seq(S)
  BY DEF IsSeq
<1>2. SubSeq(s, 1, Len(s) - 1) \in Seq(S)
  BY <1>1
<1>3. Len(s) \in Nat /\ Len(s) # 0
  BY <1>1, SeqFacts
<1>4. PICK k \in Nat : k = Len(s) - 1
  BY <1>3
<1>5. /\ Len(SubSeq(s, 1, k)) = k
      /\ \A i \in 1 .. k : SubSeq(s, 1, k)[i] = s[i]
  BY <1>1, <1>3, <1>4
<1>6. PICK t : t = SubSeq(s, 1, Len(s) - 1)
  OBVIOUS
<1>7. t = SubSeq(s, 1, k) /\ IsSeq(t)
  BY <1>2, <1>4, <1>6 DEF IsSeq
<1>8. Len(t) = k /\ DOMAIN t = 1 .. k
  BY <1>5, <1>7, SeqFacts
<1>9. QED
  BY <1>4, <1>5, <1>6, <1>7, <1>8

-----------------------------------------------------------------------------
(* The operations *)

\* Pushing a layer appends it, or says what is wrong.
LEMMA PushesTemplates ==
    ASSUME NEW layers, NEW names, NEW twice,
           PushTemplates(layers, names, twice) \notin Exceptions
    PROVE  \E layer : PushTemplates(layers, names, twice)
                          = Append(layers, layer)
BY DEF PushTemplates, Exceptions

\* So does pushing variables.
LEMMA PushesVariables ==
    ASSUME NEW values, NEW defs, PushVariables(values, defs) \notin Exceptions
    PROVE  \E layer : PushVariables(values, defs) = Append(values, layer)
BY DEF PushVariables, Exceptions

\* Calls that went further are nested as before.
LEMMA SameCallsNest ==
    ASSUME NEW fs, NEW gs, NEW g, Calling(fs, g), SameCalls(fs, gs)
    PROVE  Calling(gs, g) /\ Innermost(gs, g) = Innermost(fs, g)
<1>1. /\ Len(fs) \in Nat /\ DOMAIN fs = 1 .. Len(fs)
      /\ DOMAIN gs = 1 .. Len(fs) /\ Len(gs) = Len(fs)
      /\ fs = << >> <=> Len(fs) = 0
      /\ gs = << >> <=> Len(fs) = 0
  BY SeqFacts DEF Calling, SameCalls
<1>2. Nested(gs, g)
  BY <1>1 DEF Calling, SameCalls, Nested
<1>3. Innermost(gs, g) = Innermost(fs, g)
  BY <1>1 DEF SameCalls, Innermost
<1>4. QED
  BY <1>1, <1>2, <1>3 DEF Calling, SameCalls

\* The innermost call went further.
LEMMA GoingOn ==
    ASSUME NEW fs, NEW h, Calling(fs, h), fs # << >>
    PROVE  /\ \A k : SameCalls(fs, [fs EXCEPT ![Len(fs)].next = k])
           /\ \A k : SameCalls(fs, [fs EXCEPT ![Len(fs)].called = k])
<1>1. PICK S : fs \in Seq(S)
  BY DEF Calling, IsSeq
<1>2. /\ Len(fs) \in Nat /\ DOMAIN fs = 1 .. Len(fs) /\ Len(fs) \in DOMAIN fs
      /\ \A i \in DOMAIN fs : Opened(fs[i])
  BY <1>1 DEF Calling
<1>3. ASSUME NEW k
      PROVE  SameCalls(fs, [fs EXCEPT ![Len(fs)].next = k])
  <2> DEFINE g == [fs[Len(fs)] EXCEPT !.next = k]
             gs == [fs EXCEPT ![Len(fs)] = g]
  <2>1. g.outer = fs[Len(fs)].outer /\ g.inside = fs[Len(fs)].inside
        /\ Opened(g)
    BY <1>2 DEF Opened
  <2> HIDE DEF g
  <2>2. /\ gs \in Seq(S \cup {g}) /\ Len(gs) = Len(fs)
        /\ \A i \in DOMAIN fs : gs[i] = IF i = Len(fs) THEN g ELSE fs[i]
    BY <1>1, <1>2
  <2>3. SameCalls(fs, gs)
    BY <1>2, <2>1, <2>2 DEF SameCalls, IsSeq
  <2>4. QED
    BY <2>3 DEF g
<1>4. ASSUME NEW k
      PROVE  SameCalls(fs, [fs EXCEPT ![Len(fs)].called = k])
  <2> DEFINE g == [fs[Len(fs)] EXCEPT !.called = k]
             gs == [fs EXCEPT ![Len(fs)] = g]
  <2>1. g.outer = fs[Len(fs)].outer /\ g.inside = fs[Len(fs)].inside
        /\ Opened(g)
    BY <1>2 DEF Opened
  <2> HIDE DEF g
  <2>2. /\ gs \in Seq(S \cup {g}) /\ Len(gs) = Len(fs)
        /\ \A i \in DOMAIN fs : gs[i] = IF i = Len(fs) THEN g ELSE fs[i]
    BY <1>1, <1>2
  <2>3. SameCalls(fs, gs)
    BY <1>2, <2>1, <2>2 DEF SameCalls, IsSeq
  <2>4. QED
    BY <2>3 DEF g
<1>5. QED
  BY <1>3, <1>4

\* A call that opens a scope of its own in that of its callers.
LEMMA OpeningNests ==
    ASSUME NEW fs, NEW g, NEW f, Calling(fs, g), Opened(f),
           f.outer = Innermost(fs, g)
    PROVE  /\ Calling(Append(fs, f), g)
           /\ Innermost(Append(fs, f), g) = f.inside
<1> DEFINE gs == Append(fs, f)
<1>1. /\ Len(fs) \in Nat /\ DOMAIN fs = 1 .. Len(fs)
      /\ fs = << >> <=> Len(fs) = 0
  BY SeqFacts DEF Calling
<1>2. /\ IsSeq(gs) /\ Len(gs) = Len(fs) + 1 /\ gs # << >>
      /\ DOMAIN gs = 1 .. Len(fs) + 1
      /\ \A i \in 1 .. Len(fs) : gs[i] = fs[i]
      /\ gs[Len(fs) + 1] = f
  BY AppendFacts DEF Calling
<1> HIDE DEF gs
<1>3. \A i \in DOMAIN gs : Opened(gs[i])
  BY <1>1, <1>2 DEF Calling
<1>4. Nested(gs, g)
  <2>1. SUFFICES ASSUME NEW i \in 1 .. Len(fs) + 1
                 PROVE  gs[i].outer = IF i = 1 THEN g ELSE gs[i - 1].inside
    BY <1>2 DEF Nested
  <2>2. CASE i \in 1 .. Len(fs)
    <3>1. fs[i].outer = IF i = 1 THEN g ELSE fs[i - 1].inside
      BY <1>1, <2>2 DEF Calling, Nested
    <3>2. i # 1 => gs[i - 1] = fs[i - 1]
      BY <1>1, <1>2, <2>2
    <3>3. QED
      BY <1>2, <2>2, <3>1, <3>2
  <2>3. CASE i = Len(fs) + 1
    <3>1. CASE Len(fs) = 0
      BY <1>1, <1>2, <2>3, <3>1 DEF Innermost
    <3>2. CASE Len(fs) # 0
      <4>1. gs[i - 1] = fs[Len(fs)] /\ i # 1
        BY <1>1, <1>2, <2>3, <3>2
      <4>2. QED
        BY <1>1, <1>2, <2>3, <3>2, <4>1 DEF Innermost
    <3>3. QED
      BY <3>1, <3>2
  <2>4. QED
    BY <1>1, <2>2, <2>3
<1>5. Innermost(gs, g) = f.inside
  BY <1>1, <1>2 DEF Innermost
<1>6. QED
  BY <1>2, <1>3, <1>4, <1>5 DEF Calling, gs

\* A node is inflated in the scope its callers have: it leaves that scope, or
\* a call that has opened a scope of its own.
LEMMA InflatingNests ==
    ASSUME NEW id, NEW layers, NEW values, NEW fs, NEW g, Calling(fs, g),
           IsScope(g), globals' = g,
           IsScope([templates |-> layers, variables |-> values]),
           Innermost(fs, g) = [templates |-> layers, variables |-> values],
           InflateNode(id, layers, values, fs)
    PROVE  Inv'
<1>1. PICK n : n = WithBase(layers, script[id])
  OBVIOUS
<1>2. PICK own \in BOOLEAN : own = (DOMAIN n.templates # {})
  OBVIOUS
<1>3. PICK ownVariables \in BOOLEAN : ownVariables = (DOMAIN n.defs # {})
  OBVIOUS
<1>4. PICK inner :
          inner = IF own THEN PushTemplates(layers, n.templates, n.twice)
                  ELSE layers
  OBVIOUS
<1>5. PICK innerValues :
          innerValues = IF ownVariables THEN PushVariables(values, n.defs)
                        ELSE values
  OBVIOUS
<1>6. PICK e : e = IF n = SeveralValues THEN SeveralValues
                   ELSE IF n.name \notin Factories THEN NoFactory
                   ELSE IF inner \in Exceptions THEN inner
                   ELSE IF innerValues \in Exceptions THEN innerValues
                   ELSE IF Misplaced(n.props) THEN SeveralValues
                   ELSE None
  OBVIOUS
<1>7. PICK f : f = [id |-> id, widget |-> n.name, kids |-> n.kids, next |-> 1,
                    given |-> Substituted(innerValues, n.props),
                    popTemplates |-> own, popVariables |-> ownVariables,
                    called |-> FALSE,
                    outer |-> [templates |-> layers, variables |-> values],
                    inside |-> [templates |-> inner,
                                variables |-> innerValues]]
  OBVIOUS
<1>8. IF e # None
      THEN exception' = e /\ frames' = fs
           /\ templates' = layers /\ variables' = values
      ELSE /\ templates' = inner /\ variables' = innerValues
           /\ frames' = Append(fs, f)
  BY <1>1, <1>2, <1>3, <1>4, <1>5, <1>6, <1>7 DEF InflateNode, Throw
<1>9. CASE e # None
  <2>1. frames' = fs /\ Scope' = Innermost(fs, g)
    BY <1>8, <1>9 DEF Scope
  <2>2. QED
    BY <2>1 DEF Inv
<1>10. CASE e = None
  <2>1. inner \notin Exceptions /\ innerValues \notin Exceptions
    BY <1>6, <1>10, InflaterAssumption DEF Exceptions
  <2>2. Longer(layers, inner, own) /\ Longer(values, innerValues, ownVariables)
    BY <1>4, <1>5, <2>1, PushesTemplates, PushesVariables DEF Longer
  <2>3. IsSeq(layers) /\ IsSeq(values)
    BY DEF IsScope
  <2>4. IsSeq(inner) /\ IsSeq(innerValues)
    BY <2>2, <2>3, AppendFacts DEF Longer
  <2>5. /\ f.outer = [templates |-> layers, variables |-> values]
        /\ f.inside = [templates |-> inner, variables |-> innerValues]
        /\ f.popTemplates = own /\ f.popVariables = ownVariables
        /\ {"outer", "inside", "popTemplates", "popVariables"}
               \subseteq DOMAIN f
    BY <1>7
  <2>6. Opened(f)
    BY <2>2, <2>3, <2>4, <2>5 DEF Opened, IsScope
  <2>7. Calling(Append(fs, f), g) /\ Innermost(Append(fs, f), g) = f.inside
    BY <2>5, <2>6, OpeningNests
  <2>8. frames' = Append(fs, f) /\ Scope' = f.inside
    BY <1>8, <1>10, <2>5 DEF Scope
  <2>9. QED
    BY <2>7, <2>8 DEF Inv
<1>11. QED
  BY <1>9, <1>10

\* What is pushed is a scope.
LEMMA ScopeIsScope ==
    ASSUME Inv
    PROVE  IsScope(Scope)
<1>1. CASE frames = << >>
  BY <1>1 DEF Inv, Innermost
<1>2. CASE frames # << >>
  <2>1. Len(frames) \in DOMAIN frames
    BY <1>2, SeqFacts DEF Inv, Calling
  <2>2. QED
    BY <1>2, <2>1 DEF Inv, Calling, Innermost, Opened
<1>3. QED
  BY <1>1, <1>2

\* inflate() of a chain at the outermost level, or without declarations.
LEMMA ChainNests ==
    ASSUME NEW chain, NEW fs, Inv, Inflate(chain, fs),
           Calling(fs, globals), Innermost(fs, globals) = Scope,
           \/ fs = << >> /\ globals' = GlobalsAfter(chain)
           \/ Declarations(chain) = {} /\ UNCHANGED globals
    PROVE  Inv'
<1>1. PICK layers : layers =
          IF DOMAIN chain.templates = {} THEN templates
          ELSE PushTemplates(templates, chain.templates, chain.twice)
  OBVIOUS
<1>2. PICK values : values = IF DOMAIN chain.defs = {} THEN variables
                             ELSE PushVariables(variables, chain.defs)
  OBVIOUS
<1>3. /\ Inflate(chain, fs) <=>
             IF layers \in Exceptions
             THEN Throw(layers, fs) /\ UNCHANGED scopeVars
             ELSE IF values \in Exceptions
             THEN /\ Throw(values, fs)
                  /\ templates' = layers
                  /\ UNCHANGED variables
             ELSE IF chain.root = None
             THEN /\ templates' = layers /\ variables' = values
                  /\ frames' = fs /\ exception' = None
             ELSE InflateNode(chain.root, layers, values, fs)
      /\ GlobalsAfter(chain) =
             IF layers \in Exceptions THEN globals
             ELSE [templates |-> layers,
                   variables |-> IF values \in Exceptions THEN variables
                                 ELSE values]
  BY <1>1, <1>2, Zenon DEF Inflate, GlobalsAfter
<1>4. /\ IsScope(globals) /\ IsSeq(templates) /\ IsSeq(variables)
      /\ Scope = [templates |-> templates, variables |-> variables]
  BY ScopeIsScope DEF Inv, Scope, IsScope
<1>5. ASSUME layers \notin Exceptions PROVE IsSeq(layers)
  <2>1. layers = templates \/ \E layer : layers = Append(templates, layer)
    BY <1>1, <1>5, PushesTemplates
  <2>2. QED
    BY <1>4, <2>1, AppendFacts
<1>6. ASSUME values \notin Exceptions PROVE IsSeq(values)
  <2>1. values = variables \/ \E layer : values = Append(variables, layer)
    BY <1>2, <1>6, PushesVariables
  <2>2. QED
    BY <1>4, <2>1, AppendFacts
<1>7. CASE layers \in Exceptions
  <2>1. frames' = fs /\ Scope' = Scope
    BY <1>3, <1>7 DEF Throw, scopeVars, Scope
  <2>2. globals' = globals
    BY <1>3, <1>7
  <2>3. QED
    BY <1>4, <2>1, <2>2 DEF Inv
<1>8. CASE layers \notin Exceptions
  <2>1. PICK left : left = IF values \in Exceptions THEN variables ELSE values
    OBVIOUS
  <2>2. PICK g : g = globals'
    OBVIOUS
  <2>3. IsSeq(layers) /\ IsSeq(left)
    BY <1>4, <1>5, <1>6, <1>8, <2>1
  <2>4. /\ IsScope(g) /\ Calling(fs, g)
        /\ Innermost(fs, g) = [templates |-> layers, variables |-> left]
    <3>1. CASE fs = << >> /\ globals' = GlobalsAfter(chain)
      <4>1. g = [templates |-> layers, variables |-> left]
        BY <1>3, <1>8, <2>1, <2>2, <3>1
      <4>2. IsScope(g)
        BY <2>3, <4>1 DEF IsScope
      <4>3. DOMAIN fs = {}
        BY <3>1
      <4>4. QED
        BY <3>1, <4>1, <4>2, <4>3 DEF Calling, Nested, Innermost
    <3>2. CASE Declarations(chain) = {} /\ UNCHANGED globals
      <4>1. DOMAIN chain.templates = {} /\ DOMAIN chain.defs = {}
        BY <3>2 DEF Declarations
      <4>2. layers = templates /\ values = variables /\ left = variables
        BY <1>1, <1>2, <2>1, <4>1
      <4>3. QED
        BY <1>4, <2>2, <3>2, <4>2
    <3>3. QED
      BY <3>1, <3>2
  <2>5. CASE values \in Exceptions \/ chain.root = None
    <3>1. /\ frames' = fs
          /\ Scope' = [templates |-> layers, variables |-> left]
      BY <1>3, <1>8, <2>1, <2>5 DEF Throw, Scope
    <3>2. QED
      BY <2>2, <2>4, <3>1 DEF Inv
  <2>6. CASE values \notin Exceptions /\ chain.root # None
    <3>1. InflateNode(chain.root, layers, left, fs)
      BY <1>3, <1>8, <2>1, <2>6
    <3>2. IsScope([templates |-> layers, variables |-> left])
      BY <2>3 DEF IsScope
    <3>3. PICK root : root = chain.root
      OBVIOUS
    <3>4. QED
      BY <2>2, <2>4, <3>1, <3>2, <3>3, InflatingNests
  <2>7. QED
    BY <2>5, <2>6
<1>9. QED
  BY <1>7, <1>8

\* The innermost call ends: what it has pushed is popped.
LEMMA LeavingNests ==
    ASSUME Inv, frames # << >>, Leave(Top), UNCHANGED globals
    PROVE  Inv'
<1>1. PICK g : g = globals
  OBVIOUS
<1>2. PICK fs : fs = frames
  OBVIOUS
<1>3. PICK f : f = fs[Len(fs)]
  OBVIOUS
<1>4. /\ Len(fs) \in Nat /\ Len(fs) # 0 /\ DOMAIN fs = 1 .. Len(fs)
      /\ Calling(fs, g) /\ IsScope(g) /\ Opened(f) /\ f = Top
      /\ Scope = f.inside
  BY <1>1, <1>2, <1>3, SeqFacts DEF Inv, Calling, Innermost, Top
<1>5. PICK before : before = f.outer
  OBVIOUS
<1>6. /\ templates' = before.templates /\ variables' = before.variables
      /\ IsScope(before)
  <2>1. /\ templates = f.inside.templates /\ variables = f.inside.variables
        /\ IsSeq(before.templates) /\ IsSeq(before.variables)
        /\ IsScope(before)
    BY <1>4, <1>5 DEF Scope, Opened, IsScope
  <2>2. NewestLeft(f.popTemplates, templates) = before.templates
    <3>1. IF f.popTemplates
          THEN \E layer : templates = Append(before.templates, layer)
          ELSE templates = before.templates
      BY <1>4, <1>5, <2>1 DEF Opened, Longer
    <3>2. ASSUME NEW layer, templates = Append(before.templates, layer)
          PROVE  Front(templates) = before.templates
      BY <2>1, <3>2, AppendFacts DEF Front
    <3>3. QED
      BY <3>1, <3>2 DEF NewestLeft
  <2>3. NewestLeft(f.popVariables, variables) = before.variables
    <3>1. IF f.popVariables
          THEN \E layer : variables = Append(before.variables, layer)
          ELSE variables = before.variables
      BY <1>4, <1>5, <2>1 DEF Opened, Longer
    <3>2. ASSUME NEW layer, variables = Append(before.variables, layer)
          PROVE  Front(variables) = before.variables
      BY <2>1, <3>2, AppendFacts DEF Front
    <3>3. QED
      BY <3>1, <3>2 DEF NewestLeft
  <2>4. QED
    BY <1>4, <2>1, <2>2, <2>3 DEF Leave
<1>7. Scope' = before
  BY <1>6 DEF Scope, IsScope
<1>8. PICK gs : gs = SubSeq(fs, 1, Len(fs) - 1)
  OBVIOUS
<1>9. /\ IsSeq(gs) /\ Len(gs) = Len(fs) - 1 /\ DOMAIN gs = 1 .. Len(fs) - 1
      /\ \A i \in 1 .. Len(fs) - 1 : gs[i] = fs[i]
  BY <1>4, <1>8, FrontFacts DEF Calling
<1>10. Calling(gs, g)
  BY <1>4, <1>9 DEF Calling, Nested
<1>11. Innermost(gs, g) = before
  <2>0. before = IF Len(fs) = 1 THEN g ELSE fs[Len(fs) - 1].inside
    <3>1. Len(fs) \in DOMAIN fs
      BY <1>4
    <3>2. QED
      BY <1>3, <1>4, <1>5, <3>1 DEF Calling, Nested
  <2>1. CASE Len(fs) = 1
    <3>1. gs = << >>
      BY <1>9, <2>1, SeqFacts
    <3>2. QED
      BY <2>0, <2>1, <3>1 DEF Innermost
  <2>2. CASE Len(fs) # 1
    <3>1. gs # << >> /\ gs[Len(gs)] = fs[Len(fs) - 1]
      BY <1>4, <1>9, <2>2, SeqFacts
    <3>2. QED
      BY <2>0, <2>2, <3>1 DEF Innermost
  <2>3. QED
    BY <2>1, <2>2
<1>12. frames' = gs
  BY <1>2, <1>8 DEF Leave, Callers
<1>13. QED
  BY <1>1, <1>4, <1>7, <1>10, <1>11, <1>12 DEF Inv

-----------------------------------------------------------------------------
(* Scopes *)

\* Every step keeps calls nested.
LEMMA StepKeeps ==
    ASSUME Inv, [Next]_vars,
           \A chain \in InnerCalls : Declarations(chain) = {}
    PROVE  Inv'
<1>1. /\ Calling(frames, globals) /\ IsScope(globals) /\ IsScope(Scope)
      /\ Scope = [templates |-> templates, variables |-> variables]
      /\ Innermost(frames, globals) = Scope
  BY ScopeIsScope DEF Inv, Scope
<1>2. ASSUME NEW chain \in Calls, CallInflate(chain)
      PROVE  Inv'
  <2>1. frames = << >>
    BY <1>2 DEF CallInflate, Idle
  <2>2. Inflate(chain, << >>) /\ globals' = GlobalsAfter(chain)
    BY <1>2 DEF CallInflate
  <2>3. Calling(<< >>, globals) /\ Innermost(<< >>, globals) = Scope
    BY <1>1, <2>1
  <2>4. QED
    BY <2>2, <2>3, ChainNests
<1>3. ASSUME NEW id \in Nodes, GetWidget(id)
      PROVE  Inv'
  <2>1. /\ frames = << >> /\ UNCHANGED globals
        /\ InflateNode(id, templates, variables, << >>)
    BY <1>3 DEF GetWidget, Idle
  <2>2. PICK fs : fs = frames
    OBVIOUS
  <2>3. PICK g : g = globals
    OBVIOUS
  <2>4. PICK T : T = templates
    OBVIOUS
  <2>5. PICK V : V = variables
    OBVIOUS
  <2>6. QED
    BY <1>1, <2>1, <2>2, <2>3, <2>4, <2>5, InflatingNests
<1>4. CASE AddChild
  <2>1. PICK gs : gs = [frames EXCEPT ![Len(frames)].next = @ + 1]
    OBVIOUS
  <2>2. frames # << >>
    BY <1>4 DEF AddChild, InConstructor
  <2>3. SameCalls(frames, gs)
    <3>1. PICK k : k = frames[Len(frames)].next + 1
      OBVIOUS
    <3>2. gs = [frames EXCEPT ![Len(frames)].next = k]
      BY <2>1, <3>1
    <3>3. QED
      BY <1>1, <2>2, <3>2, GoingOn
  <2>4. Calling(gs, globals) /\ Innermost(gs, globals) = Scope
    BY <1>1, <2>3, SameCallsNest
  <2>5. PICK id : id = Top.kids[Top.next]
    OBVIOUS
  <2>6. InflateNode(id, templates, variables, gs) /\ UNCHANGED globals
    BY <1>4, <2>1, <2>5 DEF AddChild
  <2>7. PICK g : g = globals
    OBVIOUS
  <2>8. PICK T : T = templates
    OBVIOUS
  <2>9. PICK V : V = variables
    OBVIOUS
  <2>10. QED
    BY <1>1, <2>4, <2>6, <2>7, <2>8, <2>9, InflatingNests
<1>5. ASSUME NEW chain \in InnerCalls, InflateInside(chain)
      PROVE  Inv'
  <2>1. PICK gs : gs = [frames EXCEPT ![Len(frames)].called = TRUE]
    OBVIOUS
  <2>2. frames # << >> /\ Inflate(chain, gs) /\ UNCHANGED globals
    BY <1>5, <2>1 DEF InflateInside, InConstructor
  <2>3. SameCalls(frames, gs)
    BY <1>1, <2>1, <2>2, GoingOn
  <2>4. Calling(gs, globals) /\ Innermost(gs, globals) = Scope
    BY <1>1, <2>3, SameCallsNest
  <2>5. QED
    BY <2>2, <2>4, ChainNests
<1>6. CASE Return \/ Unwind
  BY <1>6, LeavingNests DEF Return, Unwind, InConstructor
<1>7. CASE Fail \/ Catch
  BY <1>7 DEF Fail, Catch, Inv, scopeVars, Scope
<1>8. CASE UNCHANGED vars
  BY <1>8 DEF vars, Inv, scopeVars, Scope
<1>9. QED
  BY <1>2, <1>3, <1>4, <1>5, <1>6, <1>7, <1>8 DEF Next

\* Nothing is pushed at the start.
LEMMA InitInv == Init => Inv
<1>1. SUFFICES ASSUME Init PROVE Inv
  OBVIOUS
<1>2. << >> \in Seq({}) /\ DOMAIN << >> = {}
  OBVIOUS
<1>3. IsSeq(<< >>)
  BY <1>2 DEF IsSeq
<1>4. IsScope(globals) /\ Scope = globals
  BY <1>1, <1>3 DEF Init, Scope, IsScope
<1>5. Calling(frames, globals) /\ Innermost(frames, globals) = globals
  BY <1>1, <1>2, <1>3 DEF Init, Calling, Nested, Innermost
<1>6. QED
  BY <1>4, <1>5 DEF Inv

\* A call of inflate() that returns or throws leaves the names it has found,
\* however scripts and constructors go wrong, unless a constructor inflates a
\* chain with declarations of its own.
THEOREM ScopeIsRestored ==
    ASSUME \A chain \in InnerCalls : Declarations(chain) = {}
    PROVE  Spec => []ScopesNest
<1>1. Init => Inv
  BY InitInv
<1>2. Inv /\ [Next]_vars => Inv'
  BY StepKeeps
<1>3. Inv => ScopesNest
  BY DEF Inv, ScopesNest, Calling, Nested, Innermost, Top
<1>4. QED
  BY <1>1, <1>2, <1>3, PTL DEF Spec

-----------------------------------------------------------------------------
(* Sets of numbers *)

\* Induction, with the property as a set.
LEMMA Induction ==
    ASSUME NEW S, 0 \in S, \A n \in Nat : n \in S => n + 1 \in S
    PROVE  Nat \subseteq S
<1> SUFFICES ASSUME NEW k \in Nat, k \notin S PROVE FALSE
  OBVIOUS
<1> DEFINE T == {n \in Nat : n \notin S}
           R == OpToRel(<, Nat)
<1>1. T \subseteq Nat /\ T # {}
  OBVIOUS
<1>2. IsWellFoundedOn(R, Nat)
  BY NatLessThanWellFounded
<1>3. \A x, y \in Nat : y < x => <<y, x>> \in R
  BY DEF OpToRel
<1> HIDE DEF T, R
<1>4. PICK m \in T : \A y \in T : ~(<<y, m>> \in R)
  BY <1>1, <1>2, WFMin
<1>5. m \in Nat /\ m \notin S
  BY <1>4 DEF T
<1>6. m - 1 \in Nat /\ m - 1 < m
  BY <1>5
<1>7. m - 1 \notin T
  BY <1>3, <1>4, <1>5, <1>6
<1>8. m - 1 \in S
  BY <1>6, <1>7 DEF T
<1>9. QED
  BY <1>5, <1>6, <1>8

\* A set of numbers up to n has a greatest one.
LEMMA MaxIs ==
    ASSUME NEW n \in Nat, NEW I \in SUBSET (1 .. n), I # {}
    PROVE  Max(I) \in I /\ \A i \in I : Max(I) >= i
<1> DEFINE S == {m \in Nat : \A J \in SUBSET (1 .. m) :
                     J # {} => \E k \in J : \A i \in J : k >= i}
<1>1. 0 \in S
  <2>1. 1 .. 0 = {}
    OBVIOUS
  <2>2. \A J \in SUBSET (1 .. 0) : J = {}
    BY <2>1
  <2>3. QED
    BY <2>2
<1>2. ASSUME NEW m \in Nat, m \in S PROVE m + 1 \in S
  <2> SUFFICES ASSUME NEW J \in SUBSET (1 .. m + 1), J # {}
               PROVE  \E k \in J : \A i \in J : k >= i
    OBVIOUS
  <2>1. CASE m + 1 \in J
    BY <2>1
  <2>2. CASE m + 1 \notin J
    <3>1. J \in SUBSET (1 .. m)
      BY <2>2
    <3>2. QED
      BY <1>2, <3>1
  <2>3. QED
    BY <2>1, <2>2
<1> HIDE DEF S
<1>3. n \in S
  BY <1>1, <1>2, Induction
<1>4. \E k \in I : \A i \in I : k >= i
  BY <1>3 DEF S
<1>5. QED
  BY <1>4 DEF Max

\* A set of naturals has a least one.
LEMMA MinIs ==
    ASSUME NEW I \in SUBSET Nat, I # {}
    PROVE  Min(I) \in I /\ \A j \in I : Min(I) <= j
<1>1. PICK m \in I : \A j \in I : ~(<<j, m>> \in OpToRel(<, Nat))
  BY WFMin, NatLessThanWellFounded
<1>2. \A j \in I : ~(j < m)
  BY <1>1, Zenon DEF OpToRel
<1>3. \A j \in I : m <= j
  BY <1>2
<1>4. QED
  BY <1>3 DEF Min

\* A member that no other exceeds is the greatest one.
LEMMA MaxAt ==
    ASSUME NEW n \in Nat, NEW I \in SUBSET (1 .. n), NEW k \in I,
           \A i \in I : i <= k
    PROVE  Max(I) = k
<1>1. Max(I) \in I /\ Max(I) >= k
  BY MaxIs
<1>2. PICK m \in Nat : m = Max(I)
  <2>1. Max(I) \in 1 .. n
    BY <1>1
  <2>2. QED
    BY <2>1
<1>3. m <= k /\ m >= k /\ k \in Nat
  BY <1>1, <1>2
<1>4. m = k
  BY <1>3
<1>5. QED
  BY <1>2, <1>4

\* So is the least one.
LEMMA MinAt ==
    ASSUME NEW I \in SUBSET Nat, NEW k \in I, \A i \in I : k <= i
    PROVE  Min(I) = k
<1>1. Min(I) \in I /\ Min(I) <= k
  BY MinIs
<1>2. PICK m \in Nat : m = Min(I)
  BY <1>1
<1>3. m <= k /\ m >= k /\ k \in Nat
  BY <1>1, <1>2
<1>4. m = k
  BY <1>3
<1>5. QED
  BY <1>2, <1>4

-----------------------------------------------------------------------------
(* What definitions say *)

\* As Nearest and Saying, of a script that is given.
NearestIn(sc, ds, field, x) ==
    sc[ds[Min({k \in DOMAIN ds : x \in DOMAIN sc[ds[k]][field]})]][field][x]

OverriddenIn(sc, ds, field, x) ==
    LET saying == {k \in DOMAIN ds : x \in DOMAIN sc[ds[k]][field]}
        others == saying \ {Min(saying)}
    IN IF others = {} THEN << >> ELSE sc[ds[Min(others)]][field][x]

SayingIn(sc, ds, field) == UNION {DOMAIN sc[ds[k]][field] : k \in DOMAIN ds}

KidsIn(sc, ds) ==
    FlattenSeq(Reverse([k \in DOMAIN ds |-> sc[ds[k]].kids]))

Chain == {ds \in Seq(Nodes) : ds # << >>}

\* One definition before others.
LEMMA ChainGrows ==
    ASSUME NEW id \in Nodes, NEW ds \in Chain
    PROVE  LET es == <<id>> \o ds
           IN  /\ es \in Chain /\ es[1] = id /\ Len(es) = Len(ds) + 1
               /\ Last(es) = Last(ds)
               /\ DOMAIN es = 1 .. Len(ds) + 1 /\ DOMAIN ds = 1 .. Len(ds)
               /\ Len(ds) \in Nat \ {0}
               /\ \A k \in 1 .. Len(ds) : es[k + 1] = ds[k]
<1> DEFINE es == <<id>> \o ds
<1>1. ds \in Seq(Nodes) /\ <<id>> \in Seq(Nodes) /\ ds # << >>
  BY DEF Chain
<1>2. PICK n \in Nat : n = Len(ds)
  BY <1>1
<1>3. n # 0 /\ DOMAIN ds = 1 .. n
  BY <1>1, <1>2
<1>4. es \in Seq(Nodes) /\ Len(es) = n + 1 /\ DOMAIN es = 1 .. n + 1
  BY <1>1, <1>2
<1>5. es[1] = id /\ \A k \in 1 .. n : es[k + 1] = ds[k]
  BY <1>1, <1>2
<1>6. Last(es) = Last(ds)
  BY <1>2, <1>3, <1>4, <1>5 DEF Last
<1>7. es # << >>
  BY <1>4
<1>8. QED
  BY <1>2, <1>3, <1>4, <1>5, <1>6, <1>7 DEF Chain

\* What a node says comes before what its other definitions say.
LEMMA NearestOfMore ==
    ASSUME NEW sc, NEW field, NEW id \in Nodes, NEW ds \in Chain
    PROVE  LET es == <<id>> \o ds
           IN  /\ SayingIn(sc, es, field)
                      = DOMAIN sc[id][field] \cup SayingIn(sc, ds, field)
               /\ \A x \in SayingIn(sc, es, field) :
                      NearestIn(sc, es, field, x) =
                          IF x \in DOMAIN sc[id][field] THEN sc[id][field][x]
                          ELSE NearestIn(sc, ds, field, x)
<1>1. PICK n \in Nat : n = Len(ds)
  BY DEF Chain
<1>2. PICK es : es = <<id>> \o ds
  OBVIOUS
<1>3. /\ DOMAIN es = 1 .. n + 1 /\ DOMAIN ds = 1 .. n /\ es[1] = id
      /\ \A k \in 1 .. n : es[k + 1] = ds[k]
  BY <1>1, <1>2, ChainGrows
<1>4. ASSUME NEW k \in 1 .. n + 1, k # 1
      PROVE  k - 1 \in 1 .. n /\ es[k] = ds[k - 1]
  <2>1. k - 1 \in 1 .. n /\ (k - 1) + 1 = k
    BY <1>4
  <2>2. QED
    BY <1>3, <2>1
<1>5. SayingIn(sc, es, field) = DOMAIN sc[id][field] \cup SayingIn(sc, ds, field)
  <2>1. ASSUME NEW x \in SayingIn(sc, es, field), x \notin DOMAIN sc[id][field]
        PROVE  x \in SayingIn(sc, ds, field)
    <3>1. PICK k \in 1 .. n + 1 : x \in DOMAIN sc[es[k]][field]
      BY <1>3, <2>1 DEF SayingIn
    <3>2. k - 1 \in 1 .. n /\ es[k] = ds[k - 1]
      BY <1>3, <1>4, <2>1, <3>1
    <3>3. QED
      BY <1>3, <3>1, <3>2 DEF SayingIn
  <2>2. ASSUME NEW x \in DOMAIN sc[id][field] PROVE x \in SayingIn(sc, es, field)
    <3>1. 1 \in DOMAIN es /\ x \in DOMAIN sc[es[1]][field]
      BY <1>3
    <3>2. QED
      BY <3>1 DEF SayingIn
  <2>3. ASSUME NEW x \in SayingIn(sc, ds, field)
        PROVE  x \in SayingIn(sc, es, field)
    <3>1. PICK k \in 1 .. n : x \in DOMAIN sc[ds[k]][field]
      BY <1>3, <2>3 DEF SayingIn
    <3>2. k + 1 \in DOMAIN es /\ x \in DOMAIN sc[es[k + 1]][field]
      BY <1>3, <3>1
    <3>3. QED
      BY <3>2 DEF SayingIn
  <2>4. QED
    BY <2>1, <2>2, <2>3
<1>6. ASSUME NEW x \in SayingIn(sc, es, field)
      PROVE  NearestIn(sc, es, field, x) =
                 IF x \in DOMAIN sc[id][field] THEN sc[id][field][x]
                 ELSE NearestIn(sc, ds, field, x)
  <2> DEFINE I == {k \in DOMAIN es : x \in DOMAIN sc[es[k]][field]}
             J == {k \in DOMAIN ds : x \in DOMAIN sc[ds[k]][field]}
  <2>1. I \in SUBSET Nat /\ J \in SUBSET Nat
    BY <1>3
  <2>2. CASE x \in DOMAIN sc[id][field]
    <3>1. 1 \in I /\ \A i \in I : 1 <= i
      BY <1>3, <2>2
    <3>2. Min(I) = 1
      BY <2>1, <3>1, MinAt
    <3>3. QED
      BY <1>3, <2>2, <3>2 DEF NearestIn
  <2>3. CASE x \notin DOMAIN sc[id][field]
    <3>1. ASSUME NEW i \in I PROVE i - 1 \in J
      BY <1>3, <1>4, <2>3, <3>1
    <3>2. J # {}
      BY <1>3, <1>5, <1>6, <2>3 DEF SayingIn
    <3>3. Min(J) \in J /\ \A j \in J : Min(J) <= j
      BY <2>1, <3>2, MinIs
    <3>4. PICK m \in 1 .. n : m = Min(J)
      BY <1>3, <3>3
    <3>5. m + 1 \in I /\ es[m + 1] = ds[m]
      BY <1>3, <3>3, <3>4
    <3>6. ASSUME NEW i \in I PROVE m + 1 <= i
      <4>1. m <= i - 1 /\ i \in Nat
        BY <2>1, <3>1, <3>3, <3>4
      <4>2. QED
        BY <4>1
    <3>7. Min(I) = m + 1
      BY <2>1, <3>5, <3>6, MinAt
    <3>8. QED
      BY <2>3, <3>4, <3>5, <3>7 DEF NearestIn
  <2>4. QED
    BY <2>2, <2>3
<1>7. QED
  BY <1>2, <1>5, <1>6

\* The least of numbers that are one more.
LEMMA MinOfMore ==
    ASSUME NEW I \in SUBSET Nat, NEW J \in SUBSET Nat, J # {},
           \A i \in I : i - 1 \in J, \A j \in J : j + 1 \in I
    PROVE  Min(J) \in J /\ Min(I) = Min(J) + 1
<1>1. Min(J) \in J /\ \A j \in J : Min(J) <= j
  BY MinIs
<1>2. PICK m \in Nat : m = Min(J)
  BY <1>1
<1>3. m + 1 \in I
  BY <1>1, <1>2
<1>4. ASSUME NEW i \in I PROVE m + 1 <= i
  <2>1. i \in Nat /\ m <= i - 1
    BY <1>1, <1>2, <1>4
  <2>2. QED
    BY <2>1
<1>5. Min(I) = m + 1
  BY <1>3, <1>4, MinAt
<1>6. QED
  BY <1>1, <1>2, <1>5

\* What a node says overrides what its other definitions say.
LEMMA OverriddenOfMore ==
    ASSUME NEW sc, NEW field, NEW id \in Nodes, NEW ds \in Chain
    PROVE  LET es == <<id>> \o ds
           IN  \A x \in SayingIn(sc, es, field) :
                   OverriddenIn(sc, es, field, x) =
                       IF x \notin DOMAIN sc[id][field]
                       THEN OverriddenIn(sc, ds, field, x)
                       ELSE IF x \in SayingIn(sc, ds, field)
                       THEN NearestIn(sc, ds, field, x)
                       ELSE << >>
<1>1. PICK n \in Nat : n = Len(ds)
  BY DEF Chain
<1>2. PICK es : es = <<id>> \o ds
  OBVIOUS
<1>3. /\ DOMAIN es = 1 .. n + 1 /\ DOMAIN ds = 1 .. n /\ es[1] = id
      /\ \A k \in 1 .. n : es[k + 1] = ds[k]
  BY <1>1, <1>2, ChainGrows
<1>4. ASSUME NEW k \in 1 .. n + 1, k # 1
      PROVE  k - 1 \in 1 .. n /\ es[k] = ds[k - 1]
  <2>1. k - 1 \in 1 .. n /\ (k - 1) + 1 = k
    BY <1>4
  <2>2. QED
    BY <1>3, <2>1
<1>5. ASSUME NEW x \in SayingIn(sc, es, field)
      PROVE  OverriddenIn(sc, es, field, x) =
                 IF x \notin DOMAIN sc[id][field]
                 THEN OverriddenIn(sc, ds, field, x)
                 ELSE IF x \in SayingIn(sc, ds, field)
                 THEN NearestIn(sc, ds, field, x)
                 ELSE << >>
  <2> DEFINE I == {k \in DOMAIN es : x \in DOMAIN sc[es[k]][field]}
             J == {k \in DOMAIN ds : x \in DOMAIN sc[ds[k]][field]}
  <2>1. /\ I \in SUBSET Nat /\ J \in SUBSET Nat
        /\ \A i \in I : 1 <= i
    BY <1>3
  <2>2. /\ \A i \in I : i # 1 => i - 1 \in J
        /\ \A j \in J : j + 1 \in I /\ j + 1 # 1 /\ es[j + 1] = ds[j]
    <3>1. ASSUME NEW i \in I, i # 1 PROVE i - 1 \in J
      BY <1>3, <1>4, <3>1
    <3>2. ASSUME NEW j \in J PROVE j + 1 \in I /\ j + 1 # 1 /\ es[j + 1] = ds[j]
      BY <1>3
    <3>3. QED
      BY <3>1, <3>2
  <2>3. 1 \in I <=> x \in DOMAIN sc[id][field]
    BY <1>3
  <2>4. x \in SayingIn(sc, ds, field) <=> J # {}
    BY DEF SayingIn
  <2>5. /\ OverriddenIn(sc, es, field, x) =
               IF I \ {Min(I)} = {} THEN << >>
               ELSE sc[es[Min(I \ {Min(I)})]][field][x]
        /\ OverriddenIn(sc, ds, field, x) =
               IF J \ {Min(J)} = {} THEN << >>
               ELSE sc[ds[Min(J \ {Min(J)})]][field][x]
        /\ NearestIn(sc, ds, field, x) = sc[ds[Min(J)]][field][x]
    BY DEF OverriddenIn, NearestIn
  <2> HIDE DEF I, J
  <2>6. CASE x \in DOMAIN sc[id][field]
    <3>1. Min(I) = 1
      <4>1. 1 \in I /\ \A i \in I : 1 <= i
        BY <2>1, <2>3, <2>6
      <4>2. QED
        BY <2>1, <4>1, MinAt
    <3>2. PICK K : K = I \ {1}
      OBVIOUS
    <3>3. /\ K \in SUBSET Nat /\ \A i \in K : i - 1 \in J
          /\ \A j \in J : j + 1 \in K
      BY <2>1, <2>2, <3>2
    <3>4. CASE J = {}
      BY <2>4, <2>5, <2>6, <3>1, <3>2, <3>3, <3>4
    <3>5. CASE J # {}
      <4>1. Min(J) \in J /\ Min(K) = Min(J) + 1
        BY <2>1, <3>3, <3>5, MinOfMore
      <4>2. K # {} /\ es[Min(K)] = ds[Min(J)]
        BY <2>2, <3>3, <4>1
      <4>3. QED
        BY <2>4, <2>5, <2>6, <3>1, <3>2, <3>5, <4>2
    <3>6. QED
      BY <3>4, <3>5
  <2>7. CASE x \notin DOMAIN sc[id][field]
    <3>1. /\ \A i \in I : i - 1 \in J
          /\ \A j \in J : j + 1 \in I
      BY <2>2, <2>3, <2>7
    <3>2. J # {}
      <4>1. SayingIn(sc, es, field)
                = DOMAIN sc[id][field] \cup SayingIn(sc, ds, field)
        BY <1>2, NearestOfMore
      <4>2. x \in SayingIn(sc, ds, field)
        BY <1>5, <2>7, <4>1
      <4>3. QED
        BY <2>4, <4>2
    <3>3. Min(J) \in J /\ Min(I) = Min(J) + 1
      BY <2>1, <3>1, <3>2, MinOfMore
    <3>4. PICK m \in Nat : m = Min(J)
      BY <2>1, <3>3
    <3>5. PICK K, L : K = I \ {m + 1} /\ L = J \ {m}
      OBVIOUS
    <3>6. K \in SUBSET Nat /\ L \in SUBSET Nat
      BY <2>1, <3>5
    <3>7. ASSUME NEW i \in K PROVE i - 1 \in L
      <4>1. i \in Nat /\ i - 1 \in J /\ i # m + 1
        BY <2>1, <3>1, <3>5
      <4>2. i - 1 # m
        BY <4>1
      <4>3. QED
        BY <3>5, <4>1, <4>2
    <3>8. ASSUME NEW j \in L PROVE j + 1 \in K
      <4>1. j \in Nat /\ j + 1 \in I /\ j # m
        BY <2>1, <3>1, <3>5
      <4>2. j + 1 # m + 1
        BY <4>1
      <4>3. QED
        BY <3>5, <4>1, <4>2
    <3>9. CASE L = {}
      <4>1. K = {}
        BY <3>7, <3>9
      <4>2. QED
        BY <2>5, <2>7, <3>3, <3>4, <3>5, <3>9, <4>1
    <3>10. CASE L # {}
      <4>1. Min(L) \in L /\ Min(K) = Min(L) + 1
        BY <3>6, <3>7, <3>8, <3>10, MinOfMore
      <4>2. K # {} /\ es[Min(K)] = ds[Min(L)]
        <5>1. Min(L) \in J
          BY <3>5, <4>1
        <5>2. QED
          BY <2>2, <3>8, <4>1, <5>1
      <4>3. QED
        BY <2>5, <2>7, <3>3, <3>4, <3>5, <3>10, <4>2
    <3>11. QED
      BY <3>9, <3>10
  <2>8. QED
    BY <2>6, <2>7
<1>6. QED
  BY <1>2, <1>5

\* A node alone overrides nothing.
LEMMA OverriddenOfOne ==
    ASSUME NEW sc, NEW field, NEW id \in Nodes
    PROVE  \A x \in DOMAIN sc[id][field] :
               OverriddenIn(sc, <<id>>, field, x) = << >>
<1>1. DOMAIN <<id>> = {1} /\ <<id>>[1] = id
  OBVIOUS
<1>2. ASSUME NEW x \in DOMAIN sc[id][field]
      PROVE  OverriddenIn(sc, <<id>>, field, x) = << >>
  <2>1. {k \in DOMAIN <<id>> : x \in DOMAIN sc[<<id>>[k]][field]} = {1}
    BY <1>1
  <2>2. Min({1}) = 1
    BY MinAt
  <2>3. {1} \ {Min({1})} = {}
    BY <2>2
  <2>4. QED
    BY <2>1, <2>3 DEF OverriddenIn
<1>3. QED
  BY <1>2

\* A node alone says what it says.
LEMMA NearestOfOne ==
    ASSUME NEW sc, NEW field, NEW id \in Nodes
    PROVE  /\ SayingIn(sc, <<id>>, field) = DOMAIN sc[id][field]
           /\ \A x \in DOMAIN sc[id][field] :
                  NearestIn(sc, <<id>>, field, x) = sc[id][field][x]
<1>1. DOMAIN <<id>> = {1} /\ <<id>>[1] = id
  OBVIOUS
<1>2. SayingIn(sc, <<id>>, field) = DOMAIN sc[id][field]
  BY <1>1 DEF SayingIn
<1>3. ASSUME NEW x \in DOMAIN sc[id][field]
      PROVE  NearestIn(sc, <<id>>, field, x) = sc[id][field][x]
  <2>1. {k \in DOMAIN <<id>> : x \in DOMAIN sc[<<id>>[k]][field]} = {1}
    BY <1>1
  <2>2. Min({1}) = 1
    BY MinAt
  <2>3. QED
    BY <1>1, <2>1, <2>2 DEF NearestIn
<1>4. QED
  BY <1>2, <1>3

\* The function that FlattenSeq defines and takes a value of.
Flattens(f, s) ==
    \A i \in 1 .. Len(s) : f[i] = IF i = 1 THEN s[i] ELSE f[i - 1] \o s[i]

\* FlattenSeq joins the sequences from the left.
LEMMA FlattenIs ==
    ASSUME NEW T, NEW s \in Seq(Seq(T)), s # << >>
    PROVE  \E f : Flattens(f, s) /\ FlattenSeq(s) = f[Len(s)]
<1>1. PICK n \in Nat : n = Len(s)
  OBVIOUS
<1>2. n # 0
  BY <1>1
<1> DEFINE Step(f, i) == IF i = 1 THEN s[i] ELSE f[i - 1] \o s[i]
           S == {m \in Nat : \E f : \A i \in 1 .. n : i <= m => f[i] = Step(f, i)}
<1>3. 0 \in S
  OBVIOUS
<1>4. ASSUME NEW m \in Nat, m \in S PROVE m + 1 \in S
  <2>1. PICK f : \A i \in 1 .. n : i <= m => f[i] = Step(f, i)
    BY <1>4
  <2> DEFINE g == [i \in 1 .. n |-> IF i <= m THEN f[i] ELSE Step(f, i)]
  <2>2. ASSUME NEW i \in 1 .. n, i <= m + 1 PROVE g[i] = Step(g, i)
    <3>1. g[i] = Step(f, i)
      BY <2>1, <2>2
    <3>2. i # 1 => g[i - 1] = f[i - 1]
      BY <2>2
    <3> HIDE DEF g
    <3>3. QED
      BY <3>1, <3>2
  <2> HIDE DEF g
  <2>3. QED
    BY <2>2
<1> HIDE DEF S
<1>5. n \in S
  BY <1>3, <1>4, Induction
<1>6. PICK f : \A i \in 1 .. n : i <= n => f[i] = Step(f, i)
  BY <1>5 DEF S
<1> DEFINE IsFlatten(g) == g = [i \in 1 .. n |-> IF i = 1 THEN s[i]
                                                ELSE g[i - 1] \o s[i]]
           h == CHOOSE g : IsFlatten(g)
<1>7. \E g : IsFlatten(g)
  <2> DEFINE g == [i \in 1 .. n |-> f[i]]
  <2>1. ASSUME NEW i \in 1 .. n PROVE g[i] = Step(g, i)
    <3>1. g[i] = Step(f, i)
      BY <1>6
    <3>2. i # 1 => g[i - 1] = f[i - 1]
      OBVIOUS
    <3> HIDE DEF g
    <3>3. QED
      BY <3>1, <3>2
  <2>2. g = [i \in 1 .. n |-> g[i]]
    OBVIOUS
  <2> HIDE DEF g
  <2>3. [i \in 1 .. n |-> g[i]] = [i \in 1 .. n |-> Step(g, i)]
    BY <2>1
  <2>4. IsFlatten(g)
    BY <2>2, <2>3
  <2>5. QED
    BY <2>4
<1>8. IsFlatten(h)
  BY <1>7
<1>9. FlattenSeq(s) = h[n]
  BY <1>1, <1>2 DEF FlattenSeq
<1> HIDE DEF h
<1>10. Flattens(h, s)
  BY <1>1, <1>8 DEF Flattens
<1>11. QED
  BY <1>1, <1>9, <1>10

\* What is joined is a sequence.
LEMMA FlattenIsSeq ==
    ASSUME NEW T, NEW s \in Seq(Seq(T)), s # << >>
    PROVE  FlattenSeq(s) \in Seq(T)
<1>1. PICK n \in Nat : n = Len(s)
  OBVIOUS
<1>2. PICK f : Flattens(f, s) /\ FlattenSeq(s) = f[n]
  BY <1>1, FlattenIs
<1> DEFINE S == {m \in Nat : m \in 1 .. n => f[m] \in Seq(T)}
<1>3. 0 \in S
  OBVIOUS
<1>4. ASSUME NEW m \in Nat, m \in S PROVE m + 1 \in S
  <2> SUFFICES ASSUME m + 1 \in 1 .. n PROVE f[m + 1] \in Seq(T)
    OBVIOUS
  <2>1. s[m + 1] \in Seq(T)
    BY <1>1
  <2>2. f[m + 1] = IF m = 0 THEN s[m + 1] ELSE f[m] \o s[m + 1]
    BY <1>1, <1>2 DEF Flattens
  <2>3. m # 0 => f[m] \in Seq(T)
    BY <1>4
  <2>4. QED
    BY <2>1, <2>2, <2>3
<1> HIDE DEF S
<1>5. n \in S
  BY <1>3, <1>4, Induction
<1>6. n \in 1 .. n
  BY <1>1
<1>7. QED
  BY <1>2, <1>5, <1>6 DEF S

\* A sequence more is joined at the end.
LEMMA FlattenOfMore ==
    ASSUME NEW T, NEW s \in Seq(Seq(T)), s # << >>, NEW a \in Seq(T)
    PROVE  FlattenSeq(Append(s, a)) = FlattenSeq(s) \o a
<1>0. PICK n \in Nat : n = Len(s)
  OBVIOUS
<1>1. PICK r \in Seq(Seq(T)) : n = Len(s) /\ r = Append(s, a)
  <2>1. ASSUME NEW U, NEW t \in Seq(U), NEW b \in U
        PROVE  Append(t, b) \in Seq(U)
    OBVIOUS
  <2>2. Append(s, a) \in Seq(Seq(T))
    BY <2>1
  <2>3. QED
    BY <1>0, <2>2
<1>2. /\ n # 0 /\ Len(r) = n + 1 /\ r[n + 1] = a /\ r # << >>
      /\ \A i \in 1 .. n : r[i] = s[i]
  BY <1>1
<1>3. PICK f : Flattens(f, s) /\ FlattenSeq(s) = f[n]
  BY <1>1, FlattenIs
<1>4. PICK g : Flattens(g, r) /\ FlattenSeq(r) = g[n + 1]
  BY <1>2, FlattenIs
<1> DEFINE S == {m \in Nat : m \in 1 .. n => g[m] = f[m]}
<1>5. 0 \in S
  OBVIOUS
<1>6. ASSUME NEW m \in Nat, m \in S PROVE m + 1 \in S
  <2> SUFFICES ASSUME m + 1 \in 1 .. n PROVE g[m + 1] = f[m + 1]
    OBVIOUS
  <2>1. f[m + 1] = IF m = 0 THEN s[m + 1] ELSE f[m] \o s[m + 1]
    BY <1>1, <1>3 DEF Flattens
  <2>2. g[m + 1] = IF m = 0 THEN r[m + 1] ELSE g[m] \o r[m + 1]
    BY <1>2, <1>4 DEF Flattens
  <2>3. m # 0 => g[m] = f[m]
    BY <1>6
  <2>4. QED
    BY <1>2, <2>1, <2>2, <2>3
<1> HIDE DEF S
<1>7. n \in S
  BY <1>5, <1>6, Induction
<1>8. g[n] = f[n]
  BY <1>2, <1>7 DEF S
<1>9. g[n + 1] = g[n] \o a
  <2>1. n + 1 \in 1 .. Len(r) /\ n + 1 # 1 /\ (n + 1) - 1 = n
    BY <1>2
  <2>2. g[n + 1] = g[(n + 1) - 1] \o r[n + 1]
    BY <1>4, <2>1 DEF Flattens
  <2>3. QED
    BY <1>2, <2>1, <2>2
<1>10. QED
  BY <1>1, <1>3, <1>4, <1>8, <1>9

\* A script whose nodes are records of what they say.
IsScript(sc) ==
    \A n \in Nodes :
        /\ sc[n] = [id |-> n, name |-> sc[n].name, props |-> sc[n].props,
                    kids |-> sc[n].kids, templates |-> sc[n].templates,
                    twice |-> sc[n].twice, defs |-> sc[n].defs]
        /\ IsFiniteSet(DOMAIN sc[n].props)
        /\ \A p \in DOMAIN sc[n].props : sc[n].props[p] \in Seq(Values)
        /\ \A v \in DOMAIN sc[n].defs : sc[n].defs[v] \in Seq(Values) \ {<< >>}
        /\ sc[n].kids \in Seq(Nodes)
        /\ sc[n].templates \in [DOMAIN sc[n].templates -> Nodes]

\* The kids of a node come after those of the definitions it extends.
LEMMA KidsOfMore ==
    ASSUME NEW sc, IsScript(sc), NEW id \in Nodes, NEW ds \in Chain
    PROVE  KidsIn(sc, <<id>> \o ds) = KidsIn(sc, ds) \o sc[id].kids
<1>1. PICK n \in Nat : n = Len(ds)
  BY DEF Chain
<1>2. PICK es : es = <<id>> \o ds
  OBVIOUS
<1>3. /\ DOMAIN es = 1 .. n + 1 /\ DOMAIN ds = 1 .. n /\ es[1] = id /\ n # 0
      /\ \A k \in 1 .. n : es[k + 1] = ds[k] /\ ds[k] \in Nodes
  BY <1>1, <1>2, ChainGrows DEF Chain
<1>4. PICK r : r = [k \in 1 .. n |-> sc[ds[(n - k) + 1]].kids]
  OBVIOUS
<1>5. r \in Seq(Seq(Nodes)) /\ Len(r) = n /\ r # << >>
  <2>1. ASSUME NEW k \in 1 .. n PROVE sc[ds[(n - k) + 1]].kids \in Seq(Nodes)
    <3>1. (n - k) + 1 \in 1 .. n
      OBVIOUS
    <3>2. QED
      BY <1>3, <3>1 DEF IsScript
  <2>2. r \in [1 .. n -> Seq(Nodes)]
    BY <1>4, <2>1
  <2>3. QED
    BY <1>3, <2>2
<1>6. KidsIn(sc, ds) = FlattenSeq(r)
  <2>1. PICK q : q = [k \in 1 .. n |-> sc[ds[k]].kids]
    OBVIOUS
  <2>2. \A k \in 1 .. n : sc[ds[k]].kids \in Seq(Nodes)
    BY <1>3 DEF IsScript
  <2>3. q \in Seq(Seq(Nodes)) /\ Len(q) = n
    BY <2>1, <2>2
  <2>4. \A k \in 1 .. n : (n - k) + 1 \in 1 .. n
    OBVIOUS
  <2>5. [k \in 1 .. n |-> q[(n - k) + 1]] = r
    BY <1>4, <2>1, <2>4
  <2>6. Reverse(q) = r
    BY <2>3, <2>5 DEF Reverse
  <2>7. KidsIn(sc, ds) = FlattenSeq(Reverse(q))
    BY <1>3, <2>1 DEF KidsIn
  <2>8. QED
    BY <2>6, <2>7
<1>7. KidsIn(sc, es) = FlattenSeq(Append(r, sc[id].kids))
  <2>1. PICK q : q = [k \in 1 .. n + 1 |-> sc[es[k]].kids]
    OBVIOUS
  <2>2. \A k \in 1 .. n + 1 : sc[es[k]].kids \in Seq(Nodes)
    <3>1. \A k \in 1 .. n + 1 : k # 1 => es[k] = ds[k - 1] /\ k - 1 \in 1 .. n
      <4>1. \A k \in 1 .. n + 1 : k # 1 => k - 1 \in 1 .. n /\ (k - 1) + 1 = k
        OBVIOUS
      <4>2. QED
        BY <1>3, <4>1
    <3>2. \A k \in 1 .. n + 1 : es[k] \in Nodes
      BY <1>3, <3>1
    <3>3. QED
      BY <3>2 DEF IsScript
  <2>3. q \in Seq(Seq(Nodes)) /\ Len(q) = n + 1
    BY <2>1, <2>2
  <2>4. PICK p : p = [k \in 1 .. n + 1 |-> q[((n + 1) - k) + 1]]
    OBVIOUS
  <2>5. sc[id].kids \in Seq(Nodes)
    BY DEF IsScript
  <2>6. ASSUME NEW k \in 1 .. n + 1 PROVE p[k] = Append(r, sc[id].kids)[k]
    <3>1. CASE k = n + 1
      <4>1. ((n + 1) - k) + 1 = 1 /\ 1 \in 1 .. n + 1
        BY <3>1
      <4>2. p[k] = sc[id].kids
        BY <1>3, <2>1, <2>4, <4>1
      <4>3. QED
        BY <1>5, <2>5, <3>1, <4>2
    <3>2. CASE k # n + 1
      <4>1. PICK j \in 1 .. n : j = (n - k) + 1
        BY <3>2
      <4>2. ((n + 1) - k) + 1 = j + 1 /\ j + 1 \in 1 .. n + 1 /\ k \in 1 .. n
        BY <3>2, <4>1
      <4>3. p[k] = sc[ds[j]].kids
        BY <1>3, <2>1, <2>4, <4>2
      <4>4. r[k] = sc[ds[j]].kids
        BY <1>4, <4>1, <4>2
      <4>5. QED
        BY <1>5, <2>5, <4>2, <4>3, <4>4
    <3>3. QED
      BY <3>1, <3>2
  <2>7. p = Append(r, sc[id].kids)
    <3>1. /\ Append(r, sc[id].kids) \in Seq(Seq(Nodes))
          /\ Len(Append(r, sc[id].kids)) = n + 1
      BY <1>5, <2>5
    <3>2. Append(r, sc[id].kids)
              = [k \in 1 .. n + 1 |-> Append(r, sc[id].kids)[k]]
      BY <3>1
    <3>3. QED
      BY <2>4, <2>6, <3>2
  <2>8. QED
    BY <1>3, <2>1, <2>3, <2>4, <2>7 DEF KidsIn, Reverse
<1>8. QED
  BY <1>2, <1>5, <1>6, <1>7, FlattenOfMore DEF IsScript

\* A node alone has its kids.
LEMMA KidsOfOne ==
    ASSUME NEW sc, IsScript(sc), NEW id \in Nodes
    PROVE  KidsIn(sc, <<id>>) = sc[id].kids
<1>1. PICK q : q = [k \in 1 .. 1 |-> sc[<<id>>[k]].kids]
  OBVIOUS
<1>2. q = <<sc[id].kids>>
  BY <1>1
<1>3. sc[id].kids \in Seq(Nodes)
  BY DEF IsScript
<1>4. q \in Seq(Seq(Nodes)) /\ Len(q) = 1 /\ q[1] = sc[id].kids /\ q # << >>
  BY <1>2, <1>3
<1>5. Reverse(q) = q
  <2>1. \A i \in 1 .. 1 : (1 - i) + 1 = i
    OBVIOUS
  <2>2. [i \in 1 .. 1 |-> q[(1 - i) + 1]] = q
    BY <1>1, <2>1
  <2>3. QED
    BY <1>4, <2>2 DEF Reverse
<1>6. PICK f : Flattens(f, q) /\ FlattenSeq(q) = f[1]
  BY <1>4, FlattenIs
<1>7. f[1] = q[1]
  BY <1>4, <1>6 DEF Flattens
<1>8. DOMAIN <<id>> = 1 .. 1
  OBVIOUS
<1>9. QED
  BY <1>1, <1>4, <1>5, <1>6, <1>7, <1>8 DEF KidsIn

-----------------------------------------------------------------------------
(* Merging *)

IsNode(n) ==
    /\ n = [id |-> n.id, name |-> n.name, props |-> n.props, kids |-> n.kids,
            templates |-> n.templates, twice |-> n.twice, defs |-> n.defs]
    /\ IsFiniteSet(DOMAIN n.props)
    /\ \A p \in DOMAIN n.props : n.props[p] \in Seq(Values)
    /\ \A v \in DOMAIN n.defs : n.defs[v] \in Seq(Values)
    /\ n.kids \in Seq(Nodes)

\* What the values are that merging makes of what the nearest definition says,
\* given what that overrides.
Says(values, said, over) ==
    IF Capital(over) THEN Behind(values, said) ELSE values = said

\* The properties of n that are not removed are those that the nearest
\* definitions do not remove.
SaysProps(sc, n, ds) ==
    /\ \A p : p \in DOMAIN n.props /\ n.props[p] # Removed
            <=> /\ p \in SayingIn(sc, ds, "props")
                /\ NearestIn(sc, ds, "props", p) # Removed
    /\ \A p \in DOMAIN n.props :
           n.props[p] # Removed =>
               Says(n.props[p], NearestIn(sc, ds, "props", p),
                    OverriddenIn(sc, ds, "props", p))

SaysTemplates(sc, n, ds) ==
    /\ DOMAIN n.templates = SayingIn(sc, ds, "templates")
    /\ \A t \in DOMAIN n.templates :
           n.templates[t] = NearestIn(sc, ds, "templates", t)

SaysDefs(sc, n, ds) ==
    /\ DOMAIN n.defs = SayingIn(sc, ds, "defs")
    /\ \A v \in DOMAIN n.defs :
           /\ NearestIn(sc, ds, "defs", v) # << >>
           /\ Says(n.defs[v], NearestIn(sc, ds, "defs", v),
                   OverriddenIn(sc, ds, "defs", v))

\* What node n says is what the definitions ds of it say.
Describes(sc, n, ds) ==
    /\ IsNode(n)
    /\ ds \in Chain
    /\ n.id = ds[1]
    /\ n.name = sc[Last(ds)].name
    /\ SaysProps(sc, n, ds)
    /\ SaysTemplates(sc, n, ds)
    /\ SaysDefs(sc, n, ds)
    /\ n.kids = KidsIn(sc, ds)

\* A node that extends nothing is what it says.
LEMMA DescribesItself ==
    ASSUME NEW sc, IsScript(sc), NEW id \in Nodes
    PROVE  Describes(sc, sc[id], <<id>>)
<1>1. <<id>> \in Chain /\ <<id>>[1] = id /\ Last(<<id>>) = id
  BY DEF Chain, Last
<1>2. IsNode(sc[id]) /\ sc[id].id = id
  <2>1. /\ sc[id] = [id |-> id, name |-> sc[id].name, props |-> sc[id].props,
                     kids |-> sc[id].kids, templates |-> sc[id].templates,
                     twice |-> sc[id].twice, defs |-> sc[id].defs]
        /\ IsFiniteSet(DOMAIN sc[id].props) /\ sc[id].kids \in Seq(Nodes)
        /\ \A p \in DOMAIN sc[id].props : sc[id].props[p] \in Seq(Values)
        /\ \A v \in DOMAIN sc[id].defs :
               sc[id].defs[v] \in Seq(Values) /\ sc[id].defs[v] # << >>
    BY DEF IsScript
  <2>2. sc[id].id = id
    BY <2>1
  <2>3. QED
    BY <2>1, <2>2 DEF IsNode
<1>3. KidsIn(sc, <<id>>) = sc[id].kids
  BY KidsOfOne
<1>4. /\ SaysProps(sc, sc[id], <<id>>) /\ SaysTemplates(sc, sc[id], <<id>>)
      /\ SaysDefs(sc, sc[id], <<id>>)
  <2>0. ASSUME NEW field
        PROVE  /\ SayingIn(sc, <<id>>, field) = DOMAIN sc[id][field]
               /\ \A x \in DOMAIN sc[id][field] :
                      /\ NearestIn(sc, <<id>>, field, x) = sc[id][field][x]
                      /\ OverriddenIn(sc, <<id>>, field, x) = << >>
    BY NearestOfOne, OverriddenOfOne
  <2>1. /\ SayingIn(sc, <<id>>, "props") = DOMAIN sc[id].props
        /\ \A x \in DOMAIN sc[id].props :
               /\ NearestIn(sc, <<id>>, "props", x) = sc[id].props[x]
               /\ OverriddenIn(sc, <<id>>, "props", x) = << >>
    BY <2>0
  <2>2. /\ SayingIn(sc, <<id>>, "templates") = DOMAIN sc[id].templates
        /\ \A x \in DOMAIN sc[id].templates :
               NearestIn(sc, <<id>>, "templates", x) = sc[id].templates[x]
    BY <2>0
  <2>3. /\ SayingIn(sc, <<id>>, "defs") = DOMAIN sc[id].defs
        /\ \A x \in DOMAIN sc[id].defs :
               /\ NearestIn(sc, <<id>>, "defs", x) = sc[id].defs[x]
               /\ OverriddenIn(sc, <<id>>, "defs", x) = << >>
    BY <2>0
  <2>4. \A values, said : Says(values, said, << >>) <=> values = said
    BY DEF Says, Capital
  <2>5. \A x \in DOMAIN sc[id].defs : sc[id].defs[x] # << >>
    BY DEF IsScript
  <2>6. QED
    BY <2>1, <2>2, <2>3, <2>4, <2>5 DEF SaysProps, SaysTemplates, SaysDefs
<1>5. QED
  BY <1>1, <1>2, <1>3, <1>4 DEF Describes

\* A node that says nothing.
LEMMA SizeIsNothing ==
    ASSUME NEW n, IsNode(n), Size(n) = 0
    PROVE  /\ DOMAIN n.props = {} /\ n.kids = << >>
           /\ DOMAIN n.templates = {} /\ DOMAIN n.defs = {}
<1>1. PICK c \in Nat : c = Cardinality(DOMAIN n.props)
  BY FS_CardinalityType DEF IsNode
<1>2. PICK l \in Nat : l = Len(n.kids)
  BY DEF IsNode
<1>3. c + l + (IF DOMAIN n.templates = {} THEN 0 ELSE 1)
            + (IF DOMAIN n.defs = {} THEN 0 ELSE 1) = 0
  BY <1>1, <1>2 DEF Size
<1>4. c = 0 /\ l = 0 /\ DOMAIN n.templates = {} /\ DOMAIN n.defs = {}
  BY <1>3
<1>5. DOMAIN n.props = {}
  BY <1>1, <1>4, FS_EmptySet DEF IsNode
<1>6. n.kids = << >>
  BY <1>2, <1>4, SeqFacts DEF IsNode, IsSeq
<1>7. QED
  BY <1>4, <1>5, <1>6

\* A node that says one thing, which is removed.
LEMMA SizeIsRemoved ==
    ASSUME NEW n, IsNode(n), HoldsRemoved(n), Size(n) = 1
    PROVE  /\ \A p \in DOMAIN n.props : n.props[p] = Removed
           /\ n.kids = << >>
           /\ DOMAIN n.templates = {} /\ DOMAIN n.defs = {}
<1>1. PICK c \in Nat : c = Cardinality(DOMAIN n.props)
  BY FS_CardinalityType DEF IsNode
<1>2. PICK l \in Nat : l = Len(n.kids)
  BY DEF IsNode
<1>3. c + l + (IF DOMAIN n.templates = {} THEN 0 ELSE 1)
            + (IF DOMAIN n.defs = {} THEN 0 ELSE 1) = 1
  BY <1>1, <1>2 DEF Size
<1>4. PICK p \in DOMAIN n.props : n.props[p] = Removed
  BY DEF HoldsRemoved
<1>5. c # 0
  BY <1>1, <1>4, FS_EmptySet DEF IsNode
<1>6. c = 1 /\ l = 0 /\ DOMAIN n.templates = {} /\ DOMAIN n.defs = {}
  BY <1>3, <1>5
<1>7. \E x : DOMAIN n.props = {x}
  BY <1>1, <1>6, FS_Singleton DEF IsNode
<1>8. n.kids = << >>
  BY <1>2, <1>6, SeqFacts DEF IsNode, IsSeq
<1>9. QED
  BY <1>4, <1>6, <1>7, <1>8

\* The values that are said are lists of values, and variables have one.
LEMMA NearestIsValues ==
    ASSUME NEW sc, IsScript(sc), NEW ds \in Chain
    PROVE  /\ \A x \in SayingIn(sc, ds, "props") :
                  NearestIn(sc, ds, "props", x) \in Seq(Values)
           /\ \A x \in SayingIn(sc, ds, "defs") :
                  /\ NearestIn(sc, ds, "defs", x) \in Seq(Values)
                  /\ NearestIn(sc, ds, "defs", x) # << >>
<1>1. ASSUME NEW field, NEW x \in SayingIn(sc, ds, field)
      PROVE  \E n \in Nodes : /\ x \in DOMAIN sc[n][field]
                              /\ NearestIn(sc, ds, field, x) = sc[n][field][x]
  <2> DEFINE I == {k \in DOMAIN ds : x \in DOMAIN sc[ds[k]][field]}
  <2>1. I \in SUBSET Nat /\ I # {} /\ \A k \in DOMAIN ds : ds[k] \in Nodes
    BY <1>1 DEF Chain, SayingIn
  <2>2. Min(I) \in I
    BY <2>1, MinIs
  <2>3. PICK k : k = Min(I)
    OBVIOUS
  <2>4. k \in DOMAIN ds /\ x \in DOMAIN sc[ds[k]][field] /\ ds[k] \in Nodes
    BY <2>1, <2>2, <2>3
  <2>5. NearestIn(sc, ds, field, x) = sc[ds[k]][field][x]
    BY <2>3 DEF NearestIn
  <2>6. QED
    BY <2>4, <2>5
<1>2. ASSUME NEW x \in SayingIn(sc, ds, "props")
      PROVE  NearestIn(sc, ds, "props", x) \in Seq(Values)
  <2>1. PICK n \in Nodes : /\ x \in DOMAIN sc[n]["props"]
                           /\ NearestIn(sc, ds, "props", x) = sc[n]["props"][x]
    BY <1>1, <1>2
  <2>2. sc[n].props[x] \in Seq(Values)
    BY <2>1 DEF IsScript
  <2>3. QED
    BY <2>1, <2>2
<1>3. ASSUME NEW x \in SayingIn(sc, ds, "defs")
      PROVE  /\ NearestIn(sc, ds, "defs", x) \in Seq(Values)
             /\ NearestIn(sc, ds, "defs", x) # << >>
  <2>1. PICK n \in Nodes : /\ x \in DOMAIN sc[n]["defs"]
                           /\ NearestIn(sc, ds, "defs", x) = sc[n]["defs"][x]
    BY <1>1, <1>3
  <2>2. sc[n].defs[x] \in Seq(Values) /\ sc[n].defs[x] # << >>
    BY <2>1 DEF IsScript
  <2>3. QED
    BY <2>1, <2>2
<1>4. QED
  BY <1>2, <1>3

\* Values behind capitals are more than what is said.
LEMMA SaysMore ==
    ASSUME NEW values \in Seq(Values), NEW said \in Seq(Values), said # << >>,
           NEW over, Says(values, said, over)
    PROVE  /\ values # << >>
           /\ Capital(over) => Len(values) > 1
           /\ ~Capital(over) => values = said
           /\ Capital(values) <=> Capital(said)
<1>1. PICK l \in Nat, m \in Nat : l = Len(values) /\ m = Len(said)
  OBVIOUS
<1>2. DOMAIN values = 1 .. l /\ DOMAIN said = 1 .. m /\ m # 0
  BY <1>1
<1>3. CASE ~Capital(over)
  BY <1>3 DEF Says
<1>4. CASE Capital(over)
  <2>1. PICK n \in Int : n = l - m
    OBVIOUS
  <2>2. /\ n > 0 /\ \A k \in 1 .. n : values[k] \in Capitals
        /\ \A k \in 1 .. m : values[n + k] = said[k]
    BY <1>1, <1>4, <2>1 DEF Says, Behind
  <2>3. l > 1
    BY <1>2, <2>1, <2>2
  <2>4. values # << >>
    BY <1>1, <2>3
  <2>5. ASSUME Capital(values) PROVE Capital(said)
    <3>1. ASSUME NEW k \in 1 .. m PROVE said[k] \in Capitals
      <4>1. n + k \in 1 .. l
        BY <2>1, <2>2
      <4>2. QED
        BY <1>2, <2>2, <2>5, <4>1 DEF Capital
    <3>2. QED
      BY <1>2, <3>1 DEF Capital
  <2>6. ASSUME Capital(said) PROVE Capital(values)
    <3>1. ASSUME NEW k \in 1 .. l PROVE values[k] \in Capitals
      <4>1. CASE k <= n
        BY <2>2, <4>1
      <4>2. CASE k > n
        <5>1. PICK j \in 1 .. m : j = k - n
          BY <2>1, <4>2
        <5>2. values[n + j] = said[j] /\ n + j = k /\ said[j] \in Capitals
          BY <1>2, <2>2, <2>6, <5>1 DEF Capital
        <5>3. QED
          BY <5>2
      <4>3. QED
        BY <4>1, <4>2
    <3>2. QED
      BY <1>2, <2>4, <3>1 DEF Capital
  <2>7. QED
    BY <1>1, <1>4, <2>3, <2>4, <2>5, <2>6
<1>5. QED
  BY <1>3, <1>4

\* Values behind those that the values they override are.
LEMMA MergedSays ==
    ASSUME NEW far \in Seq(Values), NEW near \in Seq(Values),
           NEW said \in Seq(Values), said # << >>, NEW over,
           Says(far, said, over), NEW values, values = MergedValues(far, near),
           values # SeveralValues
    PROVE  /\ values \in Seq(Values) /\ (values = << >> <=> near = << >>)
           /\ near # << >> => Says(values, near, said)
<1>1. CASE near = << >>
  BY <1>1 DEF MergedValues, Removed
<1>2. CASE near # << >>
  <2>1. Capital(far) <=> Capital(said)
    BY SaysMore
  <2>2. CASE ~Capital(said)
    <3>1. values = near
      BY <1>2, <2>1, <2>2 DEF MergedValues, Removed
    <3>2. QED
      BY <1>2, <2>2, <3>1 DEF Says
  <2>3. CASE Capital(said)
    <3>1. values = far \o near /\ Capital(far)
      BY <1>2, <2>1, <2>3 DEF MergedValues, Removed
    <3>2. PICK m \in Nat, n \in Nat : m = Len(far) /\ n = Len(near)
      OBVIOUS
    <3>3. m # 0 /\ n # 0 /\ DOMAIN far = 1 .. m
      BY <1>2, <3>1, <3>2 DEF Capital
    <3>4. /\ values \in Seq(Values) /\ Len(values) = m + n
          /\ \A k \in 1 .. m : values[k] = far[k]
          /\ \A k \in 1 .. n : values[m + k] = near[k]
      BY <3>1, <3>2
    <3>5. (m + n) - n = m
      OBVIOUS
    <3>6. \A k \in 1 .. m : values[k] \in Capitals
      BY <3>1, <3>3, <3>4 DEF Capital
    <3>7. Behind(values, near)
      BY <3>2, <3>3, <3>4, <3>5, <3>6 DEF Behind
    <3>8. values # << >>
      BY <3>3, <3>4
    <3>9. QED
      BY <1>2, <2>3, <3>4, <3>7, <3>8 DEF Says
  <2>4. QED
    BY <2>2, <2>3
<1>3. QED
  BY <1>1, <1>2

AreMerged(h, f, g) ==
    /\ DOMAIN h = DOMAIN f \cup DOMAIN g
    /\ \A x \in DOMAIN h :
           /\ h[x] # SeveralValues
           /\ h[x] = IF x \notin DOMAIN g THEN f[x]
                     ELSE IF x \notin DOMAIN f THEN g[x]
                     ELSE MergedValues(f[x], g[x])

\* Properties, or variables, that could be merged.
LEMMA MergedIs ==
    ASSUME NEW f, NEW g, NEW h, h = Merged(f, g), SeveralValues \notin Range(h)
    PROVE  AreMerged(h, f, g)
<1>1. /\ DOMAIN h = DOMAIN f \cup DOMAIN g
      /\ \A x \in DOMAIN h :
             h[x] = IF x \notin DOMAIN g THEN f[x]
                    ELSE IF x \notin DOMAIN f THEN g[x]
                    ELSE MergedValues(f[x], g[x])
  BY DEF Merged
<1>2. \A x \in DOMAIN h : h[x] # SeveralValues
  BY DEF Range
<1>3. QED
  BY <1>1, <1>2 DEF AreMerged

\* The template from, with what node id says, is what the definitions of the
\* template say after those of the node.
LEMMA MergeDescribes ==
    ASSUME NEW sc, IsScript(sc), NEW id \in Nodes, NEW from, NEW ds,
           Describes(sc, from, ds), NEW n, n = Merge(from, sc[id]),
           n # SeveralValues
    PROVE  Describes(sc, n, <<id>> \o ds)
<1>1. PICK to : to = sc[id]
  OBVIOUS
<1>2. PICK es : es = <<id>> \o ds
  OBVIOUS
<1>3. es \in Chain /\ es[1] = id /\ Last(es) = Last(ds) /\ ds \in Chain
  BY <1>2, ChainGrows DEF Describes
<1>4. IsNode(to) /\ to.id = id
  BY <1>1, DescribesItself DEF Describes
<1>5. KidsIn(sc, es) = from.kids \o to.kids
  BY <1>1, <1>2, <1>3, KidsOfMore DEF Describes
<1>6. from.kids \in Seq(Nodes) /\ to.kids \in Seq(Nodes)
  BY <1>4 DEF Describes, IsNode
<1>7. ASSUME NEW field
      PROVE  /\ SayingIn(sc, es, field)
                    = DOMAIN to[field] \cup SayingIn(sc, ds, field)
             /\ \A x \in SayingIn(sc, es, field) :
                    NearestIn(sc, es, field, x) =
                        IF x \in DOMAIN to[field] THEN to[field][x]
                        ELSE NearestIn(sc, ds, field, x)
  BY <1>1, <1>2, <1>3, NearestOfMore
<1>8. /\ SayingIn(sc, es, "props")
             = DOMAIN to.props \cup SayingIn(sc, ds, "props")
      /\ \A x \in SayingIn(sc, es, "props") :
             NearestIn(sc, es, "props", x) =
                 IF x \in DOMAIN to.props THEN to.props[x]
                 ELSE NearestIn(sc, ds, "props", x)
  BY <1>7
<1>9. /\ SayingIn(sc, es, "templates")
             = DOMAIN to.templates \cup SayingIn(sc, ds, "templates")
      /\ \A x \in SayingIn(sc, es, "templates") :
             NearestIn(sc, es, "templates", x) =
                 IF x \in DOMAIN to.templates THEN to.templates[x]
                 ELSE NearestIn(sc, ds, "templates", x)
  BY <1>7
<1>10. /\ SayingIn(sc, es, "defs")
             = DOMAIN to.defs \cup SayingIn(sc, ds, "defs")
      /\ \A x \in SayingIn(sc, es, "defs") :
             NearestIn(sc, es, "defs", x) =
                 IF x \in DOMAIN to.defs THEN to.defs[x]
                 ELSE NearestIn(sc, ds, "defs", x)
  BY <1>7
<1>11. ASSUME NEW field, NEW x \in SayingIn(sc, es, field)
       PROVE  OverriddenIn(sc, es, field, x) =
                  IF x \notin DOMAIN to[field]
                  THEN OverriddenIn(sc, ds, field, x)
                  ELSE IF x \in SayingIn(sc, ds, field)
                  THEN NearestIn(sc, ds, field, x)
                  ELSE << >>
  BY <1>1, <1>2, <1>3, <1>11, OverriddenOfMore
<1>12. \A x \in SayingIn(sc, es, "props") :
           OverriddenIn(sc, es, "props", x) =
               IF x \notin DOMAIN to.props THEN OverriddenIn(sc, ds, "props", x)
               ELSE IF x \in SayingIn(sc, ds, "props")
               THEN NearestIn(sc, ds, "props", x)
               ELSE << >>
  BY <1>11
<1>13. \A x \in SayingIn(sc, es, "defs") :
           OverriddenIn(sc, es, "defs", x) =
               IF x \notin DOMAIN to.defs THEN OverriddenIn(sc, ds, "defs", x)
               ELSE IF x \in SayingIn(sc, ds, "defs")
               THEN NearestIn(sc, ds, "defs", x)
               ELSE << >>
  BY <1>11
<1>14. \A values, said : Says(values, said, << >>) <=> values = said
  BY DEF Says, Capital
<1>15. /\ \A p \in DOMAIN to.props : to.props[p] \in Seq(Values)
       /\ \A v \in DOMAIN to.defs : to.defs[v] \in Seq(Values)
       /\ \A v \in DOMAIN to.defs : to.defs[v] # << >>
       /\ \A p \in DOMAIN from.props : from.props[p] \in Seq(Values)
       /\ \A v \in DOMAIN from.defs : from.defs[v] \in Seq(Values)
  BY <1>1, <1>4 DEF IsScript, IsNode, Describes
<1>16. /\ \A x \in SayingIn(sc, ds, "props") :
              NearestIn(sc, ds, "props", x) \in Seq(Values)
       /\ \A x \in SayingIn(sc, ds, "defs") :
              NearestIn(sc, ds, "defs", x) \in Seq(Values)
  BY <1>3, NearestIsValues
<1>17. IsNode(from) /\ SaysProps(sc, from, ds) /\ SaysTemplates(sc, from, ds)
       /\ SaysDefs(sc, from, ds) /\ from.name = sc[Last(ds)].name
  BY DEF Describes
<1>18. /\ IsFiniteSet(DOMAIN from.props) /\ IsFiniteSet(DOMAIN to.props)
  BY <1>4, <1>17 DEF IsNode
<1>19. CASE Size(to) = 0
  <2>1. n = [from EXCEPT !.id = to.id]
    BY <1>1, <1>19 DEF Merge
  <2>2. /\ IsNode(n) /\ n.id = id /\ n.name = from.name
        /\ n.props = from.props /\ n.templates = from.templates
        /\ n.defs = from.defs /\ n.kids = from.kids
    BY <1>4, <1>17, <2>1 DEF IsNode
  <2>3. /\ DOMAIN to.props = {} /\ to.kids = << >>
        /\ DOMAIN to.templates = {} /\ DOMAIN to.defs = {}
    BY <1>4, <1>19, SizeIsNothing
  <2>4. SaysProps(sc, n, es)
    BY <1>8, <1>17, <1>12, <2>2, <2>3 DEF SaysProps
  <2>5. SaysTemplates(sc, n, es)
    BY <1>9, <1>17, <2>2, <2>3 DEF SaysTemplates
  <2>6. SaysDefs(sc, n, es)
    BY <1>10, <1>17, <1>13, <2>2, <2>3 DEF SaysDefs
  <2>7. n.kids = KidsIn(sc, es)
    BY <1>5, <1>6, <2>2, <2>3
  <2>8. QED
    BY <1>2, <1>3, <1>17, <2>2, <2>4, <2>5, <2>6, <2>7 DEF Describes
<1>20. CASE Size(to) # 0 /\ ~HoldsRemoved(from)
  <2>1. /\ n = Both(from, to)
        /\ SeveralValues \notin Range(Merged(from.props, to.props))
                                    \cup Range(Merged(from.defs, to.defs))
    BY <1>1, <1>20 DEF Merge
  <2>2. /\ n = [id |-> n.id, name |-> n.name, props |-> n.props,
                kids |-> n.kids, templates |-> n.templates,
                twice |-> n.twice, defs |-> n.defs]
        /\ n.id = id /\ n.name = from.name
        /\ n.props = Merged(from.props, to.props)
        /\ n.templates = Joined(to.templates, from.templates)
        /\ n.defs = Merged(from.defs, to.defs)
        /\ n.kids = from.kids \o to.kids
    BY <1>4, <2>1 DEF Both, IsNode
  <2>3. /\ DOMAIN n.props = DOMAIN from.props \cup DOMAIN to.props
        /\ \A x \in DOMAIN n.props :
               /\ n.props[x] # SeveralValues
               /\ n.props[x] = IF x \notin DOMAIN to.props THEN from.props[x]
                               ELSE IF x \notin DOMAIN from.props THEN to.props[x]
                               ELSE MergedValues(from.props[x], to.props[x])
    <3>1. PICK f, g, h : f = from.props /\ g = to.props /\ h = n.props
      OBVIOUS
    <3>2. h = Merged(f, g) /\ SeveralValues \notin Range(h)
      BY <2>1, <2>2, <3>1
    <3>3. AreMerged(h, f, g)
      BY <3>2, MergedIs
    <3>4. QED
      BY <3>1, <3>3 DEF AreMerged
  <2>4. /\ DOMAIN n.defs = DOMAIN from.defs \cup DOMAIN to.defs
        /\ \A x \in DOMAIN n.defs :
               /\ n.defs[x] # SeveralValues
               /\ n.defs[x] = IF x \notin DOMAIN to.defs THEN from.defs[x]
                              ELSE IF x \notin DOMAIN from.defs THEN to.defs[x]
                              ELSE MergedValues(from.defs[x], to.defs[x])
    <3>1. PICK f, g, h : f = from.defs /\ g = to.defs /\ h = n.defs
      OBVIOUS
    <3>2. h = Merged(f, g) /\ SeveralValues \notin Range(h)
      BY <2>1, <2>2, <3>1
    <3>3. AreMerged(h, f, g)
      BY <3>2, MergedIs
    <3>4. QED
      BY <3>1, <3>3 DEF AreMerged
  <2>5. /\ DOMAIN n.templates = DOMAIN to.templates \cup DOMAIN from.templates
        /\ \A x \in DOMAIN n.templates :
               n.templates[x] = IF x \in DOMAIN to.templates
                                THEN to.templates[x] ELSE from.templates[x]
    <3>1. PICK h : h = n.templates
      OBVIOUS
    <3>2. h = Joined(to.templates, from.templates)
      BY <2>2, <3>1
    <3>3. /\ DOMAIN h = DOMAIN to.templates \cup DOMAIN from.templates
          /\ \A x \in DOMAIN h :
                 h[x] = IF x \in DOMAIN to.templates THEN to.templates[x] ELSE from.templates[x]
      BY ONLY <3>2 DEF Joined
    <3>4. QED
      BY <3>1, <3>3
  <2>6. ASSUME NEW p \in DOMAIN n.props
        PROVE  /\ n.props[p] \in Seq(Values)
               /\ p \in SayingIn(sc, es, "props")
               /\ n.props[p] # Removed <=> NearestIn(sc, es, "props", p) # Removed
               /\ n.props[p] # Removed =>
                      Says(n.props[p], NearestIn(sc, es, "props", p),
                           OverriddenIn(sc, es, "props", p))
    <3>1. PICK said, over : /\ said = NearestIn(sc, ds, "props", p)
                            /\ over = OverriddenIn(sc, ds, "props", p)
      OBVIOUS
    <3>2. p \in DOMAIN from.props =>
              /\ from.props[p] # Removed /\ p \in SayingIn(sc, ds, "props")
              /\ said # Removed /\ Says(from.props[p], said, over)
              /\ said \in Seq(Values) /\ from.props[p] \in Seq(Values)
      BY <1>17, <1>20, <1>15, <1>16, <3>1 DEF SaysProps, HoldsRemoved
    <3>3. CASE p \notin DOMAIN to.props
      BY <1>8, <1>12, <2>3, <3>1, <3>2, <3>3
    <3>4. CASE p \in DOMAIN to.props /\ p \notin DOMAIN from.props
      <4>1. n.props[p] = to.props[p] /\ p \in SayingIn(sc, es, "props")
            /\ NearestIn(sc, es, "props", p) = to.props[p]
        BY <1>8, <2>3, <3>4
      <4>2. OverriddenIn(sc, es, "props", p) = << >>
        BY <1>17, <1>12, <3>1, <3>4, <4>1 DEF SaysProps, Removed
      <4>3. QED
        BY <1>14, <1>15, <3>4, <4>1, <4>2
    <3>5. CASE p \in DOMAIN to.props /\ p \in DOMAIN from.props
      <4>1. PICK far, near : far = from.props[p] /\ near = to.props[p]
        OBVIOUS
      <4>2. /\ n.props[p] = MergedValues(far, near) /\ n.props[p] # SeveralValues
            /\ p \in SayingIn(sc, es, "props")
            /\ NearestIn(sc, es, "props", p) = near
            /\ OverriddenIn(sc, es, "props", p) = said
        BY <1>8, <1>12, <2>3, <3>1, <3>2, <3>5, <4>1
      <4>3. far \in Seq(Values) /\ near \in Seq(Values) /\ said \in Seq(Values)
            /\ said # << >> /\ Says(far, said, over)
        BY <1>15, <3>2, <3>5, <4>1 DEF Removed
      <4>4. PICK values : values = n.props[p]
        OBVIOUS
      <4>5. /\ values \in Seq(Values) /\ (values = << >> <=> near = << >>)
            /\ near # << >> => Says(values, near, said)
        BY <4>2, <4>3, <4>4, MergedSays
      <4>6. QED
        BY <4>2, <4>4, <4>5 DEF Removed
    <3>6. QED
      BY <3>3, <3>4, <3>5
  <2>7. ASSUME NEW v \in DOMAIN n.defs
        PROVE  /\ n.defs[v] \in Seq(Values)
               /\ v \in SayingIn(sc, es, "defs")
               /\ NearestIn(sc, es, "defs", v) # << >>
               /\ Says(n.defs[v], NearestIn(sc, es, "defs", v),
                       OverriddenIn(sc, es, "defs", v))
    <3>1. PICK said, over : /\ said = NearestIn(sc, ds, "defs", v)
                            /\ over = OverriddenIn(sc, ds, "defs", v)
      OBVIOUS
    <3>2. v \in DOMAIN from.defs =>
              /\ v \in SayingIn(sc, ds, "defs")
              /\ said # << >> /\ Says(from.defs[v], said, over)
              /\ said \in Seq(Values) /\ from.defs[v] \in Seq(Values)
      BY <1>17, <1>15, <1>16, <3>1 DEF SaysDefs
    <3>3. CASE v \notin DOMAIN to.defs
      BY <1>10, <1>13, <2>4, <3>1, <3>2, <3>3
    <3>4. CASE v \in DOMAIN to.defs /\ v \notin DOMAIN from.defs
      <4>1. n.defs[v] = to.defs[v] /\ v \in SayingIn(sc, es, "defs")
            /\ NearestIn(sc, es, "defs", v) = to.defs[v]
        BY <1>10, <2>4, <3>4
      <4>2. OverriddenIn(sc, es, "defs", v) = << >>
        BY <1>17, <1>13, <3>4, <4>1 DEF SaysDefs
      <4>3. QED
        BY <1>14, <1>15, <3>4, <4>1, <4>2
    <3>5. CASE v \in DOMAIN to.defs /\ v \in DOMAIN from.defs
      <4>1. PICK far, near : far = from.defs[v] /\ near = to.defs[v]
        OBVIOUS
      <4>2. /\ n.defs[v] = MergedValues(far, near) /\ n.defs[v] # SeveralValues
            /\ v \in SayingIn(sc, es, "defs")
            /\ NearestIn(sc, es, "defs", v) = near
            /\ OverriddenIn(sc, es, "defs", v) = said
        BY <1>10, <1>13, <2>4, <3>1, <3>2, <3>5, <4>1
      <4>3. far \in Seq(Values) /\ near \in Seq(Values) /\ said \in Seq(Values)
            /\ said # << >> /\ near # << >> /\ Says(far, said, over)
        BY <1>15, <3>2, <3>5, <4>1
      <4>4. PICK values : values = n.defs[v]
        OBVIOUS
      <4>5. values \in Seq(Values) /\ Says(values, near, said)
        BY <4>2, <4>3, <4>4, MergedSays
      <4>6. QED
        BY <4>2, <4>3, <4>4, <4>5
    <3>6. QED
      BY <3>3, <3>4, <3>5
  <2>8. IsNode(n)
    <3>1. IsFiniteSet(DOMAIN n.props)
      <4>1. DOMAIN n.props = DOMAIN to.props \cup DOMAIN from.props
        BY <2>3
      <4>2. IsFiniteSet(DOMAIN to.props \cup DOMAIN from.props)
        BY ONLY <1>18, FS_Union
      <4>3. QED
        BY <4>1, <4>2
    <3>2. n.kids \in Seq(Nodes)
      BY <1>6, <2>2
    <3>3. QED
      BY <2>2, <2>6, <2>7, <3>1, <3>2 DEF IsNode
  <2>9. SaysProps(sc, n, es)
    <3>1. ASSUME NEW p \in SayingIn(sc, es, "props"),
                 NearestIn(sc, es, "props", p) # Removed
          PROVE  p \in DOMAIN n.props
      <4>1. CASE p \in DOMAIN to.props
        BY <2>3, <4>1
      <4>2. CASE p \notin DOMAIN to.props
        BY <1>8, <1>17, <2>3, <3>1, <4>2 DEF SaysProps
      <4>3. QED
        BY <4>1, <4>2
    <3>2. QED
      BY <2>6, <3>1 DEF SaysProps
  <2>10. SaysTemplates(sc, n, es)
    BY <1>9, <1>17, <2>5 DEF SaysTemplates
  <2>11. SaysDefs(sc, n, es)
    <3>1. DOMAIN n.defs = SayingIn(sc, es, "defs")
      BY <1>10, <1>17, <2>4 DEF SaysDefs
    <3>2. QED
      BY <2>7, <3>1 DEF SaysDefs
  <2>12. n.kids = KidsIn(sc, es)
    BY <1>5, <2>2
  <2>13. QED
    BY <1>2, <1>3, <1>17, <2>2, <2>8, <2>9, <2>10, <2>11, <2>12 DEF Describes
<1>21. CASE Size(to) # 0 /\ HoldsRemoved(from)
  <2>1. Size(from) = 1 /\ n = [to EXCEPT !.name = from.name]
    BY <1>1, <1>21 DEF Merge
  <2>2. /\ IsNode(n) /\ n.id = id /\ n.name = from.name
        /\ n.props = to.props /\ n.templates = to.templates
        /\ n.defs = to.defs /\ n.kids = to.kids
    BY <1>4, <2>1 DEF IsNode
  <2>3. /\ \A p \in DOMAIN from.props : from.props[p] = Removed
        /\ from.kids = << >>
        /\ DOMAIN from.templates = {} /\ DOMAIN from.defs = {}
    BY <1>17, <1>21, <2>1, SizeIsRemoved
  <2>4. SaysProps(sc, n, es)
    <3>1. ASSUME NEW p \in DOMAIN to.props
          PROVE  OverriddenIn(sc, es, "props", p) = << >>
      BY <1>8, <1>17, <1>12, <2>3, <3>1 DEF SaysProps, Removed
    <3>2. QED
      BY <1>8, <1>17, <1>14, <2>2, <2>3, <3>1 DEF SaysProps
  <2>5. SaysTemplates(sc, n, es)
    BY <1>9, <1>17, <2>2, <2>3 DEF SaysTemplates
  <2>6. SaysDefs(sc, n, es)
    <3>1. ASSUME NEW v \in DOMAIN to.defs
          PROVE  OverriddenIn(sc, es, "defs", v) = << >>
      BY <1>10, <1>17, <1>13, <2>3, <3>1 DEF SaysDefs
    <3>2. DOMAIN n.defs = SayingIn(sc, es, "defs")
      BY <1>10, <1>17, <2>2, <2>3 DEF SaysDefs
    <3>3. ASSUME NEW v \in DOMAIN n.defs
          PROVE  /\ NearestIn(sc, es, "defs", v) = n.defs[v]
                 /\ n.defs[v] # << >> /\ OverriddenIn(sc, es, "defs", v) = << >>
      BY <1>10, <1>15, <2>2, <3>1, <3>2
    <3>4. QED
      BY <1>14, <3>2, <3>3 DEF SaysDefs
  <2>7. n.kids = KidsIn(sc, es)
    BY <1>5, <1>6, <2>2, <2>3
  <2>8. QED
    BY <1>2, <1>3, <1>17, <2>2, <2>4, <2>5, <2>6, <2>7 DEF Describes
<1>22. QED
  BY <1>19, <1>20, <1>21

-----------------------------------------------------------------------------
(* The definitions of a node *)

\* The definition of Definitions, of a script, the layers of templates that
\* the program declared, and the calls in progress.
DeclaredBy(sc, gt, fs, D, j) ==
    IF j <= Len(gt)
    THEN [t \in DOMAIN gt[j] |-> gt[j][t].id]
    ELSE LET ds == D[<<j - 1, fs[j - Len(gt)].id>>]
         IN [t \in SayingIn(sc, ds, "templates") |->
                NearestIn(sc, ds, "templates", t)]

LevelsOf(sc, gt, fs, D, a, name) ==
    {j \in 1 .. a : name \in DOMAIN DeclaredBy(sc, gt, fs, D, j)}

Defined(sc, gt, fs, D, a, id) ==
    LET levels == LevelsOf(sc, gt, fs, D, a, sc[id].name)
        level == Max(levels)
    IN IF levels = {} THEN <<id>>
       ELSE <<id>> \o D[<<level - 1,
                          DeclaredBy(sc, gt, fs, D, level)[sc[id].name]>>]

Defines(sc, gt, fs, D) ==
    D = [x \in (0 .. Len(gt) + Len(fs)) \X Nodes |->
            Defined(sc, gt, fs, D, x[1], x[2])]

DefOf(sc, gt, fs) == CHOOSE D : Defines(sc, gt, fs, D)

Context(gt, fs) ==
    /\ IsSeq(gt) /\ IsSeq(fs)
    /\ \A j \in DOMAIN gt : \A t \in DOMAIN gt[j] : gt[j][t].id \in Nodes
    /\ \A i \in DOMAIN fs : fs[i].id \in Nodes

Below(D, a) == \A b \in 0 .. a - 1 : \A id \in Nodes : D[<<b, id>>] \in Chain

\* A template that definitions declare is a node.
LEMMA NearestTemplateIsNode ==
    ASSUME NEW sc, IsScript(sc), NEW ds \in Chain,
           NEW t \in SayingIn(sc, ds, "templates")
    PROVE  NearestIn(sc, ds, "templates", t) \in Nodes
<1> DEFINE I == {k \in DOMAIN ds : t \in DOMAIN sc[ds[k]]["templates"]}
<1>1. I \in SUBSET Nat /\ I # {} /\ \A k \in DOMAIN ds : ds[k] \in Nodes
  BY DEF Chain, SayingIn
<1>2. Min(I) \in I
  BY <1>1, MinIs
<1>3. PICK k : k = Min(I)
  OBVIOUS
<1>4. k \in DOMAIN ds /\ t \in DOMAIN sc[ds[k]].templates
  BY <1>2, <1>3
<1>5. sc[ds[k]].templates \in [DOMAIN sc[ds[k]].templates -> Nodes]
  BY <1>1, <1>4 DEF IsScript
<1>6. sc[ds[k]].templates[t] \in Nodes
  BY <1>4, <1>5
<1>7. QED
  BY <1>3, <1>6 DEF NearestIn

\* A template that a level declares is a node.
LEMMA DeclaredIsNode ==
    ASSUME NEW sc, IsScript(sc), NEW gt, NEW fs, Context(gt, fs), NEW D,
           NEW j \in 1 .. Len(gt) + Len(fs), Below(D, j),
           NEW t \in DOMAIN DeclaredBy(sc, gt, fs, D, j)
    PROVE  DeclaredBy(sc, gt, fs, D, j)[t] \in Nodes
<1>1. PICK m \in Nat, n \in Nat : m = Len(gt) /\ n = Len(fs)
  BY SeqFacts DEF Context
<1>2. DOMAIN gt = 1 .. m /\ DOMAIN fs = 1 .. n
  BY <1>1, SeqFacts DEF Context
<1>3. CASE j <= m
  <2>1. j \in DOMAIN gt /\ DeclaredBy(sc, gt, fs, D, j)
                               = [u \in DOMAIN gt[j] |-> gt[j][u].id]
    BY <1>1, <1>2, <1>3 DEF DeclaredBy
  <2>2. QED
    BY <2>1 DEF Context
<1>4. CASE ~(j <= m)
  <2>1. j - m \in DOMAIN fs /\ j - 1 \in 0 .. j - 1
    BY <1>1, <1>2, <1>4
  <2>2. PICK ds : ds = D[<<j - 1, fs[j - m].id>>]
    OBVIOUS
  <2>3. ds \in Chain
    BY <2>1, <2>2 DEF Context, Below
  <2>4. DeclaredBy(sc, gt, fs, D, j)
            = [u \in SayingIn(sc, ds, "templates") |->
                  NearestIn(sc, ds, "templates", u)]
    BY <1>1, <1>4, <2>2 DEF DeclaredBy
  <2>5. QED
    BY <2>3, <2>4, NearestTemplateIsNode
<1>5. QED
  BY <1>3, <1>4

\* Where a name is found.
LEMMA LevelIs ==
    ASSUME NEW sc, IsScript(sc), NEW gt, NEW fs, Context(gt, fs), NEW D,
           NEW a \in 0 .. Len(gt) + Len(fs), Below(D, a), NEW name,
           LevelsOf(sc, gt, fs, D, a, name) # {},
           NEW l, l = Max(LevelsOf(sc, gt, fs, D, a, name))
    PROVE  /\ l \in LevelsOf(sc, gt, fs, D, a, name) /\ l \in 1 .. a
           /\ l - 1 \in 0 .. a - 1
           /\ DeclaredBy(sc, gt, fs, D, l)[name] \in Nodes
           /\ D[<<l - 1, DeclaredBy(sc, gt, fs, D, l)[name]>>] \in Chain
<1>1. PICK m \in Nat : m = Len(gt) + Len(fs)
  BY SeqFacts DEF Context
<1>2. a \in Nat /\ a <= m
  BY <1>1
<1>3. LevelsOf(sc, gt, fs, D, a, name) \in SUBSET (1 .. a)
  BY DEF LevelsOf
<1>4. l \in LevelsOf(sc, gt, fs, D, a, name)
  BY <1>2, <1>3, MaxIs
<1>5. l \in 1 .. a /\ l - 1 \in 0 .. a - 1 /\ l \in 1 .. m
  BY <1>2, <1>3, <1>4
<1>6. name \in DOMAIN DeclaredBy(sc, gt, fs, D, l)
  BY <1>4 DEF LevelsOf
<1>7. Below(D, l)
  <2>1. \A b \in 0 .. l - 1 : b \in 0 .. a - 1
    BY <1>2, <1>5
  <2>2. QED
    BY <2>1 DEF Below
<1>8. DeclaredBy(sc, gt, fs, D, l)[name] \in Nodes
  BY <1>1, <1>5, <1>6, <1>7, DeclaredIsNode
<1>9. QED
  BY <1>4, <1>5, <1>8 DEF Below

\* A node has a definition at least: itself.
LEMMA DefinedIsChain ==
    ASSUME NEW sc, IsScript(sc), NEW gt, NEW fs, Context(gt, fs), NEW D,
           NEW a \in 0 .. Len(gt) + Len(fs), Below(D, a), NEW id \in Nodes
    PROVE  Defined(sc, gt, fs, D, a, id) \in Chain
<1> DEFINE L == LevelsOf(sc, gt, fs, D, a, sc[id].name)
<1>1. CASE L = {}
  <2>1. <<id>> \in Chain
    BY DEF Chain
  <2>2. QED
    BY <1>1, <2>1 DEF Defined
<1>2. CASE L # {}
  <2>1. PICK l : l = Max(L)
    OBVIOUS
  <2>2. PICK ds : ds = D[<<l - 1, DeclaredBy(sc, gt, fs, D, l)[sc[id].name]>>]
    OBVIOUS
  <2>3. ds \in Chain
    BY <1>2, <2>1, <2>2, LevelIs
  <2>4. <<id>> \o ds \in Chain
    BY <2>3, ChainGrows
  <2>5. QED
    BY <1>2, <2>1, <2>2, <2>4 DEF Defined
<1>3. QED
  BY <1>1, <1>2

\* The levels up to d are the same.
Same(gt, fs, ht, gs, d) ==
    \A j \in 1 .. d :
        /\ j <= Len(gt) <=> j <= Len(ht)
        /\ j <= Len(gt) => gt[j] = ht[j]
        /\ ~(j <= Len(gt)) => fs[j - Len(gt)].id = gs[j - Len(ht)].id

AlikeBelow(D, E, a) ==
    \A b \in 0 .. a - 1 : \A id \in Nodes : D[<<b, id>>] = E[<<b, id>>]

AlikeUpTo(D, E, d) ==
    \A a \in 0 .. d : \A id \in Nodes : D[<<a, id>>] = E[<<a, id>>]

\* Levels that are the same declare the same.
LEMMA DeclaredAlike ==
    ASSUME NEW sc, NEW gt, NEW fs, Context(gt, fs), NEW ht, NEW gs,
           NEW j \in 1 .. Len(gt) + Len(fs), NEW D, NEW E,
           AlikeBelow(D, E, j), Same(gt, fs, ht, gs, j)
    PROVE  DeclaredBy(sc, gt, fs, D, j) = DeclaredBy(sc, ht, gs, E, j)
<1>1. PICK m \in Nat, n \in Nat : m = Len(gt) /\ n = Len(fs)
  BY SeqFacts DEF Context
<1>2. DOMAIN gt = 1 .. m /\ DOMAIN fs = 1 .. n /\ j \in Nat /\ j \in 1 .. j
  BY <1>1, SeqFacts DEF Context
<1>3. CASE j <= Len(gt)
  <2>1. j <= Len(ht) /\ gt[j] = ht[j]
    BY <1>2, <1>3 DEF Same
  <2>2. QED
    BY <1>3, <2>1 DEF DeclaredBy
<1>4. CASE ~(j <= Len(gt))
  <2>1. j - m \in DOMAIN fs /\ j - 1 \in 0 .. j - 1
    BY <1>1, <1>2, <1>4
  <2>2. ~(j <= Len(ht)) /\ fs[j - Len(gt)].id = gs[j - Len(ht)].id
    BY <1>2, <1>4 DEF Same
  <2>3. fs[j - Len(gt)].id \in Nodes
    BY <1>1, <2>1 DEF Context
  <2>4. D[<<j - 1, fs[j - Len(gt)].id>>] = E[<<j - 1, gs[j - Len(ht)].id>>]
    BY <2>1, <2>2, <2>3 DEF AlikeBelow
  <2>5. QED
    BY <1>4, <2>2, <2>4 DEF DeclaredBy
<1>5. QED
  BY <1>3, <1>4

\* Names are found at the same levels.
LEMMA LevelsAlike ==
    ASSUME NEW sc, NEW gt, NEW fs, Context(gt, fs), NEW ht, NEW gs,
           NEW a \in 0 .. Len(gt) + Len(fs), NEW D, NEW E,
           AlikeBelow(D, E, a), Same(gt, fs, ht, gs, a), NEW name
    PROVE  /\ LevelsOf(sc, gt, fs, D, a, name) = LevelsOf(sc, ht, gs, E, a, name)
           /\ \A j \in 1 .. a : DeclaredBy(sc, gt, fs, D, j)
                                  = DeclaredBy(sc, ht, gs, E, j)
<1>1. PICK m \in Nat : m = Len(gt) + Len(fs)
  BY SeqFacts DEF Context
<1>2. ASSUME NEW j \in 1 .. a
      PROVE  DeclaredBy(sc, gt, fs, D, j) = DeclaredBy(sc, ht, gs, E, j)
  <2>1. j \in 1 .. m /\ a \in Nat
    BY <1>1
  <2>2. \A b : b \in 0 .. j - 1 => b \in 0 .. a - 1
    BY <2>1
  <2>3. \A b : b \in 1 .. j => b \in 1 .. a
    BY <2>1
  <2>4. AlikeBelow(D, E, j)
    BY <2>2 DEF AlikeBelow
  <2>5. Same(gt, fs, ht, gs, j)
    BY <2>3 DEF Same
  <2>6. QED
    BY <1>1, <2>1, <2>4, <2>5, DeclaredAlike
<1>3. QED
  BY <1>2 DEF LevelsOf

\* Nodes have the same definitions.
LEMMA DefinedAlike ==
    ASSUME NEW sc, IsScript(sc), NEW gt, NEW fs, Context(gt, fs), NEW ht, NEW gs,
           NEW a \in 0 .. Len(gt) + Len(fs), NEW D, NEW E, Below(D, a),
           AlikeBelow(D, E, a), Same(gt, fs, ht, gs, a), NEW id \in Nodes
    PROVE  Defined(sc, gt, fs, D, a, id) = Defined(sc, ht, gs, E, a, id)
<1> DEFINE L == LevelsOf(sc, gt, fs, D, a, sc[id].name)
<1>0. ASSUME NEW name
      PROVE  /\ LevelsOf(sc, gt, fs, D, a, name) = LevelsOf(sc, ht, gs, E, a, name)
             /\ \A j \in 1 .. a : DeclaredBy(sc, gt, fs, D, j)
                                    = DeclaredBy(sc, ht, gs, E, j)
  BY LevelsAlike
<1>1. L = LevelsOf(sc, ht, gs, E, a, sc[id].name)
  BY <1>0
<1>2. CASE L = {}
  BY <1>1, <1>2 DEF Defined
<1>3. CASE L # {}
  <2>1. PICK l : l = Max(L)
    OBVIOUS
  <2>2. PICK x : x = DeclaredBy(sc, gt, fs, D, l)[sc[id].name]
    OBVIOUS
  <2>3. l \in 1 .. a /\ l - 1 \in 0 .. a - 1 /\ x \in Nodes
    BY <1>3, <2>1, <2>2, LevelIs
  <2>4. x = DeclaredBy(sc, ht, gs, E, l)[sc[id].name]
    BY <1>0, <2>2, <2>3
  <2>5. D[<<l - 1, x>>] = E[<<l - 1, x>>]
    BY <2>3 DEF AlikeBelow
  <2>6. Defined(sc, gt, fs, D, a, id) = <<id>> \o D[<<l - 1, x>>]
    BY <1>3, <2>1, <2>2 DEF Defined
  <2>7. Defined(sc, ht, gs, E, a, id) = <<id>> \o E[<<l - 1, x>>]
    BY <1>1, <1>3, <2>1, <2>4 DEF Defined
  <2>8. QED
    BY <2>5, <2>6, <2>7
<1>4. QED
  BY <1>2, <1>3

\* The recursive function that Definitions is exists, and is unique.
LEMMA DefOfDefines ==
    ASSUME NEW sc, IsScript(sc), NEW gt, NEW fs, Context(gt, fs), NEW D,
           D = DefOf(sc, gt, fs)
    PROVE  \A a \in 0 .. Len(gt) + Len(fs) : \A id \in Nodes :
               /\ D[<<a, id>>] = Defined(sc, gt, fs, D, a, id)
               /\ D[<<a, id>>] \in Chain
<1>1. PICK m \in Nat : m = Len(gt) + Len(fs)
  BY SeqFacts DEF Context
<1> DEFINE Good(E, a, id) == /\ E[<<a, id>>] = Defined(sc, gt, fs, E, a, id)
                             /\ E[<<a, id>>] \in Chain
           S == {n \in Nat : \E E : \A a \in 0 .. m : \A id \in Nodes :
                     a < n => Good(E, a, id)}
<1>2. \A d : Same(gt, fs, gt, fs, d)
  BY DEF Same
<1>3. 0 \in S
  <2>1. \A a \in 0 .. m : ~(a < 0)
    OBVIOUS
  <2>2. QED
    BY <2>1
<1>4. ASSUME NEW n \in Nat, n \in S PROVE n + 1 \in S
  <2>1. PICK E : \A a \in 0 .. m : \A id \in Nodes : a < n => Good(E, a, id)
    BY <1>4
  <2> DEFINE F == [x \in (0 .. m) \X Nodes |->
                      Defined(sc, gt, fs, E, x[1], x[2])]
  <2>2. ASSUME NEW a \in 0 .. m, NEW id \in Nodes
        PROVE  F[<<a, id>>] = Defined(sc, gt, fs, E, a, id)
    BY <2>2
  <2> HIDE DEF F
  <2>3. ASSUME NEW a \in 0 .. m, NEW id \in Nodes, a < n + 1
        PROVE  Good(F, a, id)
    <3>1. ASSUME NEW b \in 0 .. a - 1, NEW e \in Nodes
          PROVE  E[<<b, e>>] = F[<<b, e>>] /\ E[<<b, e>>] \in Chain
      <4>1. b \in 0 .. m /\ b < n
        BY <2>3
      <4>2. QED
        BY <2>1, <2>2, <4>1
    <3>2. Below(E, a) /\ AlikeBelow(E, F, a)
      BY <3>1 DEF Below, AlikeBelow
    <3>3. Defined(sc, gt, fs, E, a, id) = Defined(sc, gt, fs, F, a, id)
      BY <1>1, <1>2, <3>2, DefinedAlike
    <3>4. Defined(sc, gt, fs, E, a, id) \in Chain
      BY <1>1, <3>2, DefinedIsChain
    <3>5. QED
      BY <2>2, <3>3, <3>4
  <2>4. QED
    BY <2>3
<1> HIDE DEF S
<1>5. m + 1 \in S
  BY <1>3, <1>4, Induction
<1>6. PICK E : \A a \in 0 .. m : \A id \in Nodes : a < m + 1 => Good(E, a, id)
  BY <1>5 DEF S
<1>7. \A a \in 0 .. m : \A id \in Nodes : Good(E, a, id)
  <2>1. \A a \in 0 .. m : a < m + 1
    OBVIOUS
  <2> HIDE DEF Good
  <2>2. QED
    BY <1>6, <2>1
<1> DEFINE F == [x \in (0 .. m) \X Nodes |-> E[x]]
<1>8. ASSUME NEW a \in 0 .. m, NEW id \in Nodes
      PROVE  F[<<a, id>>] = Defined(sc, gt, fs, F, a, id)
  <2>1. \A b \in 0 .. m : \A e \in Nodes : F[<<b, e>>] = E[<<b, e>>]
    OBVIOUS
  <2> HIDE DEF F
  <2>2. \A b \in 0 .. a - 1 : b \in 0 .. m
    OBVIOUS
  <2>3. Below(E, a) /\ AlikeBelow(E, F, a)
    BY <1>7, <2>1, <2>2 DEF Below, AlikeBelow
  <2>4. Defined(sc, gt, fs, E, a, id) = Defined(sc, gt, fs, F, a, id)
    BY <1>1, <1>2, <2>3, DefinedAlike
  <2>5. QED
    BY <1>7, <2>1, <2>4
<1>9. Defines(sc, gt, fs, F)
  <2>1. F = [x \in (0 .. m) \X Nodes |-> F[x]]
    OBVIOUS
  <2> HIDE DEF F
  <2>2. ASSUME NEW x \in (0 .. m) \X Nodes
        PROVE  F[x] = Defined(sc, gt, fs, F, x[1], x[2])
    <3>1. x = <<x[1], x[2]>> /\ x[1] \in 0 .. m /\ x[2] \in Nodes
      OBVIOUS
    <3>2. QED
      BY <1>8, <3>1
  <2>3. F = [x \in (0 .. m) \X Nodes |-> Defined(sc, gt, fs, F, x[1], x[2])]
    BY <2>1, <2>2
  <2>4. QED
    BY <1>1, <2>3 DEF Defines
<1> HIDE DEF F
<1>10. Defines(sc, gt, fs, D)
  BY <1>9 DEF DefOf
<1>11. ASSUME NEW a \in 0 .. m, NEW id \in Nodes
       PROVE  D[<<a, id>>] = Defined(sc, gt, fs, D, a, id)
  BY <1>1, <1>10 DEF Defines
<1> DEFINE T == {n \in Nat : \A a \in 0 .. m : \A id \in Nodes :
                     a < n => D[<<a, id>>] \in Chain}
<1>12. 0 \in T
  <2>1. \A a \in 0 .. m : ~(a < 0)
    OBVIOUS
  <2>2. QED
    BY <2>1
<1>13. ASSUME NEW n \in Nat, n \in T PROVE n + 1 \in T
  <2>1. ASSUME NEW a \in 0 .. m, NEW id \in Nodes, a < n + 1
        PROVE  D[<<a, id>>] \in Chain
    <3>1. \A b \in 0 .. a - 1 : b \in 0 .. m /\ b < n
      BY <2>1
    <3>2. Below(D, a)
      BY <1>13, <3>1 DEF Below
    <3>3. QED
      BY <1>1, <1>11, <3>2, DefinedIsChain
  <2>2. QED
    BY <2>1
<1> HIDE DEF T
<1>14. m + 1 \in T
  BY <1>12, <1>13, Induction
<1>15. \A a \in 0 .. m : \A id \in Nodes : D[<<a, id>>] \in Chain
  <2>1. \A a \in 0 .. m : a < m + 1
    OBVIOUS
  <2>2. QED
    BY <1>14, <2>1 DEF T
<1>16. QED
  BY <1>1, <1>11, <1>15

\* The definitions at a level come from the levels up to it only.
LEMMA SameDefs ==
    ASSUME NEW sc, IsScript(sc), NEW gt, NEW fs, Context(gt, fs),
           NEW ht, NEW gs, Context(ht, gs),
           NEW d \in 0 .. Len(gt) + Len(fs), d \in 0 .. Len(ht) + Len(gs),
           Same(gt, fs, ht, gs, d)
    PROVE  AlikeUpTo(DefOf(sc, gt, fs), DefOf(sc, ht, gs), d)
<1>1. PICK D : D = DefOf(sc, gt, fs)
  OBVIOUS
<1>2. PICK E : E = DefOf(sc, ht, gs)
  OBVIOUS
<1>3. PICK m \in Nat, n \in Nat : m = Len(gt) + Len(fs) /\ n = Len(ht) + Len(gs)
  BY SeqFacts DEF Context
<1>4. d \in Nat /\ d <= m /\ d <= n
  BY <1>3
<1> DEFINE S == {k \in Nat : \A a \in 0 .. d : \A id \in Nodes :
                     a < k => D[<<a, id>>] = E[<<a, id>>]}
<1>5. 0 \in S
  <2>1. \A a \in 0 .. d : ~(a < 0)
    OBVIOUS
  <2>2. QED
    BY <2>1
<1>6. ASSUME NEW k \in Nat, k \in S PROVE k + 1 \in S
  <2>1. ASSUME NEW a \in 0 .. d, NEW id \in Nodes, a < k + 1
        PROVE  D[<<a, id>>] = E[<<a, id>>]
    <3>1. a \in 0 .. m /\ a \in 0 .. n
      BY <1>4
    <3>2. \A b \in 0 .. a - 1 : b \in 0 .. d /\ b < k /\ b \in 0 .. m
      BY <1>4, <2>1
    <3>3. AlikeBelow(D, E, a)
      BY <1>6, <3>2 DEF AlikeBelow
    <3>4. Below(D, a)
      BY <1>1, <1>3, <3>2, DefOfDefines DEF Below
    <3>5. \A j \in 1 .. a : j \in 1 .. d
      BY <1>4
    <3>6. Same(gt, fs, ht, gs, a)
      BY <3>5 DEF Same
    <3>7. Defined(sc, gt, fs, D, a, id) = Defined(sc, ht, gs, E, a, id)
      BY <1>3, <3>1, <3>3, <3>4, <3>6, DefinedAlike
    <3>8. D[<<a, id>>] = Defined(sc, gt, fs, D, a, id)
      BY <1>1, <1>3, <3>1, DefOfDefines
    <3>9. E[<<a, id>>] = Defined(sc, ht, gs, E, a, id)
      BY <1>2, <1>3, <3>1, DefOfDefines
    <3>10. QED
      BY <3>7, <3>8, <3>9
  <2>2. QED
    BY <2>1
<1> HIDE DEF S
<1>7. d + 1 \in S
  BY <1>4, <1>5, <1>6, Induction
<1>8. \A a \in 0 .. d : a < d + 1
  BY <1>4
<1>9. QED
  BY <1>1, <1>2, <1>7, <1>8 DEF S, AlikeUpTo

-----------------------------------------------------------------------------
(* The stack of templates *)

\* A stack of layers knows of the names that the first d levels declare what
\* the definitions say.
MeantAs(sc, gt, fs, D, stack, d) ==
    \A t : LET L == LevelsOf(sc, gt, fs, D, d, t)
           IN IF L = {} THEN Knowing(stack, t) = {}
              ELSE /\ Knowing(stack, t) # {}
                   /\ Describes(sc, Find(stack, t),
                         D[<<Max(L) - 1, DeclaredBy(sc, gt, fs, D, Max(L))[t]>>])

Meant(sc, gt, fs, stack, d) == MeantAs(sc, gt, fs, DefOf(sc, gt, fs), stack, d)

\* A stack means the same in contexts whose levels are the same.
LEMMA SameMeant ==
    ASSUME NEW sc, IsScript(sc), NEW gt, NEW fs, Context(gt, fs),
           NEW ht, NEW gs, Context(ht, gs),
           NEW d \in 0 .. Len(gt) + Len(fs), d \in 0 .. Len(ht) + Len(gs),
           Same(gt, fs, ht, gs, d), NEW stack, Meant(sc, gt, fs, stack, d)
    PROVE  Meant(sc, ht, gs, stack, d)
<1>1. PICK D : D = DefOf(sc, gt, fs)
  OBVIOUS
<1>2. PICK E : E = DefOf(sc, ht, gs)
  OBVIOUS
<1>3. PICK m \in Nat : m = Len(gt) + Len(fs)
  BY SeqFacts DEF Context
<1>4. \A b \in 0 .. d - 1 : b \in 0 .. d /\ b \in 0 .. m
  BY <1>3
<1>9. \A a \in 0 .. d : \A id \in Nodes : D[<<a, id>>] = E[<<a, id>>]
  <2>1. AlikeUpTo(DefOf(sc, gt, fs), DefOf(sc, ht, gs), d)
    BY SameDefs
  <2>2. QED
    BY <1>1, <1>2, <2>1 DEF AlikeUpTo
<1>5. AlikeBelow(D, E, d)
  BY <1>4, <1>9 DEF AlikeBelow
<1>6. Below(D, d)
  BY <1>1, <1>3, <1>4, DefOfDefines DEF Below
<1>7. ASSUME NEW t
      PROVE  LET L == LevelsOf(sc, ht, gs, E, d, t)
             IN IF L = {} THEN Knowing(stack, t) = {}
                ELSE /\ Knowing(stack, t) # {}
                     /\ Describes(sc, Find(stack, t),
                         E[<<Max(L) - 1, DeclaredBy(sc, ht, gs, E, Max(L))[t]>>])
  <2> DEFINE L == LevelsOf(sc, ht, gs, E, d, t)
  <2>1. /\ LevelsOf(sc, gt, fs, D, d, t) = L
        /\ \A j \in 1 .. d : DeclaredBy(sc, gt, fs, D, j)
                              = DeclaredBy(sc, ht, gs, E, j)
    BY <1>5, LevelsAlike
  <2>2. IF L = {} THEN Knowing(stack, t) = {}
        ELSE /\ Knowing(stack, t) # {}
             /\ Describes(sc, Find(stack, t),
                   D[<<Max(L) - 1, DeclaredBy(sc, gt, fs, D, Max(L))[t]>>])
    BY <1>1, <2>1 DEF Meant, MeantAs
  <2>3. CASE L = {}
    BY <2>2, <2>3
  <2>4. CASE L # {}
    <3>1. PICK l : l = Max(L)
      OBVIOUS
    <3>2. PICK x : x = DeclaredBy(sc, gt, fs, D, l)[t]
      OBVIOUS
    <3>3. l \in 1 .. d /\ l - 1 \in 0 .. d - 1 /\ x \in Nodes
      BY <1>6, <2>1, <2>4, <3>1, <3>2, LevelIs
    <3>4. D[<<l - 1, x>>] = E[<<l - 1, x>>]
      BY <1>5, <3>3 DEF AlikeBelow
    <3>5. x = DeclaredBy(sc, ht, gs, E, l)[t]
      BY <2>1, <3>2, <3>3
    <3> HIDE DEF L
    <3>6. Knowing(stack, t) # {} /\ Describes(sc, Find(stack, t), E[<<l - 1, x>>])
      BY <2>2, <2>4, <3>1, <3>2, <3>4
    <3>7. QED
      BY <2>4, <3>1, <3>5, <3>6 DEF L
  <2>5. QED
    BY <2>3, <2>4
<1>8. QED
  BY <1>2, <1>7 DEF Meant, MeantAs

\* A node, with what it extends, is what its definitions say.
LEMMA BaseMeant ==
    ASSUME NEW sc, IsScript(sc), NEW gt, NEW fs, Context(gt, fs),
           NEW d \in 0 .. Len(gt) + Len(fs), NEW stack,
           Meant(sc, gt, fs, stack, d), NEW id \in Nodes,
           NEW n, n = WithBase(stack, sc[id]), n # SeveralValues
    PROVE  Describes(sc, n, DefOf(sc, gt, fs)[<<d, id>>])
<1>1. PICK D : D = DefOf(sc, gt, fs)
  OBVIOUS
<1>2. PICK name : name = sc[id].name
  OBVIOUS
<1> DEFINE L == LevelsOf(sc, gt, fs, D, d, name)
<1>3. D[<<d, id>>] = Defined(sc, gt, fs, D, d, id)
  BY <1>1, DefOfDefines
<1>4. IF L = {} THEN Knowing(stack, name) = {}
      ELSE /\ Knowing(stack, name) # {}
           /\ Describes(sc, Find(stack, name),
                 D[<<Max(L) - 1, DeclaredBy(sc, gt, fs, D, Max(L))[name]>>])
  BY <1>1 DEF Meant, MeantAs
<1>5. CASE L = {}
  <2>1. n = sc[id]
    BY <1>2, <1>4, <1>5 DEF WithBase
  <2>2. D[<<d, id>>] = <<id>>
    BY <1>2, <1>3, <1>5 DEF Defined
  <2>3. QED
    BY <1>1, <2>1, <2>2, DescribesItself
<1>6. CASE L # {}
  <2>1. PICK ds : ds = D[<<Max(L) - 1, DeclaredBy(sc, gt, fs, D, Max(L))[name]>>]
    OBVIOUS
  <2>2. PICK from : from = Find(stack, name)
    OBVIOUS
  <2>3. Describes(sc, from, ds) /\ Knowing(stack, name) # {}
    BY <1>4, <1>6, <2>1, <2>2
  <2>4. n = Merge(from, sc[id])
    BY <1>2, <2>2, <2>3 DEF WithBase
  <2>5. D[<<d, id>>] = <<id>> \o ds
    BY <1>2, <1>3, <1>6, <2>1 DEF Defined
  <2>6. QED
    BY <1>1, <2>3, <2>4, <2>5, MergeDescribes
<1>7. QED
  BY <1>5, <1>6

\* The layer of the templates that a level declares.
LayerOf(sc, stack, names, new) ==
    \/ DOMAIN names = {} /\ new = stack
    \/ \E layer :
           /\ new = Append(stack, layer)
           /\ DOMAIN layer = DOMAIN names
           /\ \A t \in DOMAIN names :
                  /\ layer[t] = WithBase(stack, sc[names[t]])
                  /\ layer[t] # SeveralValues

\* What a stack with one layer more knows.
LEMMA KnowingMore ==
    ASSUME NEW stack, IsSeq(stack), NEW layer, NEW t
    PROVE  LET new == Append(stack, layer)
           IN  IF t \in DOMAIN layer
               THEN Knowing(new, t) # {} /\ Find(new, t) = layer[t]
               ELSE /\ Knowing(new, t) = Knowing(stack, t)
                    /\ Find(new, t) = Find(stack, t)
<1>1. PICK n \in Nat : n = Len(stack)
  BY SeqFacts
<1>2. PICK new : new = Append(stack, layer)
  OBVIOUS
<1>3. /\ DOMAIN stack = 1 .. n /\ DOMAIN new = 1 .. n + 1
      /\ \A i \in 1 .. n : new[i] = stack[i]
      /\ new[n + 1] = layer
  BY <1>1, <1>2, SeqFacts, AppendFacts
<1> DEFINE K == Knowing(stack, t)
           N == Knowing(new, t)
<1>4. K \in SUBSET (1 .. n) /\ N \in SUBSET (1 .. n + 1)
  BY <1>3 DEF Knowing
<1>5. CASE t \in DOMAIN layer
  <2>1. n + 1 \in N /\ \A i \in N : i <= n + 1
    BY <1>3, <1>5 DEF Knowing
  <2>2. Max(N) = n + 1
    <3>1. PICK l \in Nat : l = n + 1
      OBVIOUS
    <3> HIDE DEF N
    <3>2. N \in SUBSET (1 .. l) /\ l \in N /\ \A i \in N : i <= l
      BY <1>4, <2>1, <3>1
    <3>3. QED
      BY <3>1, <3>2, MaxAt
  <2>3. QED
    BY <1>2, <1>3, <1>5, <2>1, <2>2 DEF Find
<1>6. CASE t \notin DOMAIN layer
  <2>1. N = K
    BY <1>3, <1>6 DEF Knowing
  <2>2. K # {} => Max(K) \in 1 .. n
    BY <1>4, MaxIs
  <2> HIDE DEF K, N
  <2>3. K # {} => new[Max(K)] = stack[Max(K)]
    BY <1>3, <2>2
  <2>4. Find(new, t) = Find(stack, t)
    BY <2>1, <2>3 DEF Find, K, N
  <2>5. QED
    BY <1>2, <1>6, <2>1, <2>4 DEF K, N
<1>7. QED
  BY <1>5, <1>6

\* The stack with the layer that the next level declares.
LEMMA PushMeant ==
    ASSUME NEW sc, IsScript(sc), NEW gt, NEW fs, Context(gt, fs),
           NEW d \in Nat, d + 1 <= Len(gt) + Len(fs), NEW stack, IsSeq(stack),
           Meant(sc, gt, fs, stack, d),
           NEW names, \A t \in DOMAIN names : names[t] \in Nodes,
           LET decl == DeclaredBy(sc, gt, fs, DefOf(sc, gt, fs), d + 1)
           IN /\ DOMAIN decl = DOMAIN names
              /\ \A t \in DOMAIN names : decl[t] = names[t],
           NEW new, LayerOf(sc, stack, names, new)
    PROVE  Meant(sc, gt, fs, new, d + 1)
<1>1. PICK D : D = DefOf(sc, gt, fs)
  OBVIOUS
<1>2. PICK decl : decl = DeclaredBy(sc, gt, fs, D, d + 1)
  OBVIOUS
<1>3. DOMAIN decl = DOMAIN names /\ \A t \in DOMAIN names : decl[t] = names[t]
  BY <1>1, <1>2
<1>4. PICK m \in Nat : m = Len(gt) + Len(fs)
  BY SeqFacts DEF Context
<1>5. d \in 0 .. m
  BY <1>4
<1>6. 1 .. d + 1 = (1 .. d) \cup {d + 1}
  OBVIOUS
<1>7. ASSUME NEW t
      PROVE  LET L == LevelsOf(sc, gt, fs, D, d + 1, t)
             IN IF L = {} THEN Knowing(new, t) = {}
                ELSE /\ Knowing(new, t) # {}
                     /\ Describes(sc, Find(new, t),
                         D[<<Max(L) - 1, DeclaredBy(sc, gt, fs, D, Max(L))[t]>>])
  <2> DEFINE L == LevelsOf(sc, gt, fs, D, d + 1, t)
             K == LevelsOf(sc, gt, fs, D, d, t)
  <2>1. CASE t \in DOMAIN names
    <3>1. PICK layer : /\ new = Append(stack, layer)
                       /\ DOMAIN layer = DOMAIN names
                       /\ layer[t] = WithBase(stack, sc[names[t]])
                       /\ layer[t] # SeveralValues
      BY <2>1 DEF LayerOf
    <3>2. Knowing(new, t) # {} /\ Find(new, t) = layer[t]
      BY <2>1, <3>1, KnowingMore
    <3>3. d + 1 \in L
      BY <1>2, <1>3, <1>6, <2>1 DEF LevelsOf
    <3>4. L \in SUBSET (1 .. d + 1)
      BY DEF LevelsOf
    <3>5. Max(L) = d + 1
      <4>1. \A i \in L : i <= d + 1
        BY <3>4
      <4>2. PICK l \in Nat : l = d + 1
        OBVIOUS
      <4> HIDE DEF L
      <4>3. L \in SUBSET (1 .. l) /\ l \in L /\ \A i \in L : i <= l
        BY <3>3, <3>4, <4>1, <4>2
      <4>4. QED
        BY <4>2, <4>3, MaxAt
    <3>6. Describes(sc, layer[t], D[<<d, names[t]>>])
      BY <1>1, <1>4, <1>5, <2>1, <3>1, BaseMeant
    <3>7. (d + 1) - 1 = d
      OBVIOUS
    <3>8. QED
      BY <1>2, <1>3, <2>1, <3>2, <3>3, <3>5, <3>6, <3>7
  <2>2. CASE t \notin DOMAIN names
    <3>1. L = K
      BY <1>2, <1>3, <1>6, <2>2 DEF LevelsOf
    <3>2. Knowing(new, t) = Knowing(stack, t) /\ Find(new, t) = Find(stack, t)
      <4>1. CASE new = stack
        BY <4>1
      <4>2. CASE new # stack
        <5>1. PICK layer : new = Append(stack, layer) /\ DOMAIN layer = DOMAIN names
          BY <4>2 DEF LayerOf
        <5>2. QED
          BY <2>2, <5>1, KnowingMore
      <4>3. QED
        BY <4>1, <4>2
    <3>3. IF K = {} THEN Knowing(stack, t) = {}
          ELSE /\ Knowing(stack, t) # {}
               /\ Describes(sc, Find(stack, t),
                     D[<<Max(K) - 1, DeclaredBy(sc, gt, fs, D, Max(K))[t]>>])
      BY <1>1 DEF Meant, MeantAs
    <3>4. QED
      BY <3>1, <3>2, <3>3
  <2>3. QED
    BY <2>1, <2>2
<1>8. QED
  BY <1>1, <1>7 DEF Meant, MeantAs


-----------------------------------------------------------------------------
(* The definitions the model uses *)

\* What the model computes is what these lemmas are about.
LEMMA DefinitionsAre ==
    /\ Definitions = DefOf(script, globals.templates, frames)
    /\ \A i \in Nat : DefinitionsOf(i) =
           Definitions[<<(Len(globals.templates) + i) - 1, frames[i].id>>]
    /\ \A ds, field : Saying(ds, field) = SayingIn(script, ds, field)
    /\ \A ds, field, x :
           /\ Nearest(ds, field, x) = NearestIn(script, ds, field, x)
           /\ Overridden(ds, field, x) = OverriddenIn(script, ds, field, x)
<1>1. /\ \A ds, field : Saying(ds, field) = SayingIn(script, ds, field)
      /\ \A ds, field, x :
             /\ Nearest(ds, field, x) = NearestIn(script, ds, field, x)
             /\ Overridden(ds, field, x) = OverriddenIn(script, ds, field, x)
  BY DEF Saying, SayingIn, Nearest, NearestIn, Overridden, OverriddenIn
<1>2. Definitions = DefOf(script, globals.templates, frames)
  BY DEF Definitions, DefOf, Defines, Defined, LevelsOf, DeclaredBy, NearestIn,
         SayingIn
<1>3. QED
  BY <1>1, <1>2 DEF DefinitionsOf, Depth

-----------------------------------------------------------------------------
(* What calls in progress have taken *)

\* What the constructor of call f got, whose widget has the definitions ds.
Given(sc, f, ds) ==
    /\ DOMAIN f.given = {p \in SayingIn(sc, ds, "props") :
                             NearestIn(sc, ds, "props", p) # Removed}
    /\ \A p \in DOMAIN f.given :
           LET said == NearestIn(sc, ds, "props", p)
               value == Find(f.inside.variables, said[1])
           IN IF Capital(OverriddenIn(sc, ds, "props", p))
              THEN Behind(f.given[p], said)
              ELSE f.given[p] = IF /\ Len(said) = 1 /\ said[1] \in Variables
                                   /\ value # None
                                THEN <<value>> ELSE said

\* The variables inside of call f, in terms of those outside of it.
Reads(sc, f, ds) ==
    \A v \in Variables :
        Find(f.inside.variables, v) =
            IF v \in SayingIn(sc, ds, "defs")
            THEN Resolve(f.outer.variables, NearestIn(sc, ds, "defs", v)[1])
            ELSE Find(f.outer.variables, v)

Taken(sc, f, ds) ==
    /\ ds \in Chain
    /\ f.kids \in Seq(Nodes) /\ f.kids = KidsIn(sc, ds)
    /\ f.widget = sc[Last(ds)].name
    /\ Given(sc, f, ds)
    /\ Reads(sc, f, ds)

IsFrame(f) ==
    /\ {"id", "widget", "kids", "given", "next"} \subseteq DOMAIN f
    /\ f.next \in Nat \ {0}

\* Layers and calls whose scripts and scopes are what the definitions say.
Right(sc, gt, fs) ==
    /\ Context(gt, fs)
    /\ Meant(sc, gt, fs, gt, Len(gt))
    /\ \A i \in DOMAIN fs :
           /\ IsFrame(fs[i])
           /\ Meant(sc, gt, fs, fs[i].inside.templates, Len(gt) + i)
           /\ Taken(sc, fs[i],
                    DefOf(sc, gt, fs)[<<(Len(gt) + i) - 1, fs[i].id>>])

\* The first calls of fs, however far they are.
Among(fs, gs) ==
    /\ IsSeq(gs) /\ Len(gs) <= Len(fs)
    /\ \A i \in DOMAIN gs :
           /\ IsFrame(gs[i])
           /\ gs[i].id = fs[i].id /\ gs[i].widget = fs[i].widget
           /\ gs[i].kids = fs[i].kids /\ gs[i].given = fs[i].given
           /\ gs[i].outer = fs[i].outer /\ gs[i].inside = fs[i].inside

\* Calls that are over, or went further, leave the others right.
LEMMA AmongAreRight ==
    ASSUME NEW sc, IsScript(sc), NEW gt, NEW fs, Right(sc, gt, fs),
           NEW gs, Among(fs, gs)
    PROVE  Right(sc, gt, gs)
<1>1. PICK m \in Nat, n \in Nat, k \in Nat :
          m = Len(gt) /\ n = Len(fs) /\ k = Len(gs)
  BY SeqFacts DEF Right, Context, Among
<1>2. DOMAIN fs = 1 .. n /\ DOMAIN gs = 1 .. k /\ k <= n /\ Context(gt, fs)
  BY <1>1, SeqFacts DEF Right, Context, Among
<1>3. \A i \in 1 .. k : i \in 1 .. n
  BY <1>2
<1>4. Context(gt, gs)
  BY <1>2, <1>3 DEF Context, Among
<1>5. ASSUME NEW d \in 0 .. m + k
      PROVE  Same(gt, fs, gt, gs, d)
  <2>1. ASSUME NEW j \in 1 .. d, ~(j <= m) PROVE j - m \in 1 .. k
    BY <2>1
  <2>2. QED
    BY <1>1, <1>2, <2>1 DEF Same, Among
<1>6. ASSUME NEW d \in 0 .. m + k
      PROVE  d \in 0 .. Len(gt) + Len(fs) /\ d \in 0 .. Len(gt) + Len(gs)
  BY <1>1, <1>2
<1>7. ASSUME NEW d \in 0 .. m + k, NEW stack, Meant(sc, gt, fs, stack, d)
      PROVE  Meant(sc, gt, gs, stack, d)
  BY <1>2, <1>4, <1>5, <1>6, <1>7, SameMeant
<1>8. ASSUME NEW d \in 0 .. m + k
      PROVE  AlikeUpTo(DefOf(sc, gt, fs), DefOf(sc, gt, gs), d)
  BY <1>2, <1>4, <1>5, <1>6, SameDefs
<1>9. Meant(sc, gt, gs, gt, Len(gt))
  BY <1>1, <1>7 DEF Right
<1>10. ASSUME NEW i \in 1 .. k
       PROVE  /\ IsFrame(gs[i])
              /\ Meant(sc, gt, gs, gs[i].inside.templates, Len(gt) + i)
              /\ Taken(sc, gs[i],
                       DefOf(sc, gt, gs)[<<(Len(gt) + i) - 1, gs[i].id>>])
  <2>1. /\ i \in DOMAIN gs /\ i \in DOMAIN fs /\ m + i \in 0 .. m + k
        /\ (m + i) - 1 \in 0 .. m + k
        /\ (m + i) - 1 \in 0 .. (m + i) - 1
    BY <1>2
  <2>2. Meant(sc, gt, gs, gs[i].inside.templates, m + i)
    BY <1>1, <1>7, <2>1 DEF Right, Among
  <2>3. gs[i].id \in Nodes /\ gs[i].id = fs[i].id
    BY <1>4, <2>1 DEF Context, Among
  <2>4. DefOf(sc, gt, gs)[<<(m + i) - 1, gs[i].id>>]
            = DefOf(sc, gt, fs)[<<(m + i) - 1, fs[i].id>>]
    BY <1>8, <2>1, <2>3 DEF AlikeUpTo
  <2>5. PICK ds : ds = DefOf(sc, gt, fs)[<<(m + i) - 1, fs[i].id>>]
    OBVIOUS
  <2>6. Taken(sc, fs[i], ds)
    BY <1>1, <2>1, <2>5 DEF Right
  <2>7. /\ IsFrame(gs[i]) /\ gs[i].widget = fs[i].widget
        /\ gs[i].kids = fs[i].kids /\ gs[i].given = fs[i].given
        /\ gs[i].outer = fs[i].outer /\ gs[i].inside = fs[i].inside
    BY <2>1 DEF Among
  <2>8. Taken(sc, gs[i], ds)
    BY <2>6, <2>7 DEF Taken, Given, Reads
  <2>9. QED
    BY <1>1, <2>2, <2>4, <2>5, <2>7, <2>8
<1>11. QED
  BY <1>1, <1>2, <1>4, <1>9, <1>10 DEF Right

\* The values that a constructor gets, and the variables inside of it.
LEMMA TakesWhatIsSaid ==
    ASSUME NEW sc, IsScript(sc), NEW n, NEW ds, Describes(sc, n, ds),
           NEW values, IsSeq(values),
           NEW inner,
           inner = IF DOMAIN n.defs # {} THEN PushVariables(values, n.defs)
                   ELSE values,
           inner \notin Exceptions,
           NEW f, f.kids = n.kids, f.widget = n.name,
           f.given = Substituted(inner, n.props),
           f.outer.variables = values, f.inside.variables = inner
    PROVE  Taken(sc, f, ds)
<1>1. ds \in Chain /\ f.kids \in Seq(Nodes) /\ f.kids = KidsIn(sc, ds)
      /\ f.widget = sc[Last(ds)].name
  BY DEF Describes, IsNode
<1>2. SaysProps(sc, n, ds) /\ SaysDefs(sc, n, ds)
  BY DEF Describes
<1>3. Given(sc, f, ds)
  <2>1. /\ DOMAIN f.given = {p \in DOMAIN n.props : n.props[p] # Removed}
        /\ \A p \in DOMAIN f.given :
               f.given[p] = LET x == Resolve(inner, n.props[p][1])
                            IN IF Len(n.props[p]) > 1 \/ x = None
                               THEN n.props[p] ELSE <<x>>
    BY DEF Substituted
  <2>2. DOMAIN f.given = {p \in SayingIn(sc, ds, "props") :
                              NearestIn(sc, ds, "props", p) # Removed}
    BY <1>2, <2>1 DEF SaysProps
  <2>3. ASSUME NEW p \in DOMAIN f.given
        PROVE  LET said == NearestIn(sc, ds, "props", p)
                   value == Find(f.inside.variables, said[1])
               IN IF Capital(OverriddenIn(sc, ds, "props", p))
                  THEN Behind(f.given[p], said)
                  ELSE f.given[p] = IF /\ Len(said) = 1 /\ said[1] \in Variables
                                       /\ value # None
                                    THEN <<value>> ELSE said
    <3>1. PICK said, over, got :
              /\ said = NearestIn(sc, ds, "props", p)
              /\ over = OverriddenIn(sc, ds, "props", p)
              /\ got = n.props[p]
      OBVIOUS
    <3>2. Says(got, said, over) /\ got \in Seq(Values)
      BY <1>2, <2>1, <2>3, <3>1 DEF SaysProps, Describes, IsNode
    <3>3. said \in Seq(Values) /\ said # << >>
      BY <1>1, <2>2, <2>3, <3>1, NearestIsValues DEF Removed
    <3>4. f.given[p] = LET x == Resolve(inner, got[1])
                       IN IF Len(got) > 1 \/ x = None THEN got ELSE <<x>>
      BY <2>1, <2>3, <3>1
    <3>5. CASE Capital(over)
      <4>1. Len(got) > 1
        BY <3>2, <3>3, <3>5, SaysMore
      <4>2. Behind(got, said)
        BY <3>2, <3>5 DEF Says
      <4>3. QED
        BY <3>1, <3>4, <3>5, <4>1, <4>2
    <3>6. CASE ~Capital(over)
      <4>1. got = said
        BY <3>2, <3>6 DEF Says
      <4>2. PICK l \in Nat \ {0} : l = Len(said)
        BY <3>3
      <4>3. l = 1 => said = <<said[1]>>
        <5>1. <<said[1]>> \in Seq(Values \cup {said[1]})
          OBVIOUS
        <5>2. said \in Seq(Values \cup {said[1]})
          BY <3>3
        <5>3. Len(<<said[1]>>) = 1 /\ <<said[1]>>[1] = said[1]
          OBVIOUS
        <5>4. \A k \in 1 .. 1 : k = 1
          OBVIOUS
        <5>5. QED
          BY <4>2, <5>1, <5>2, <5>3, <5>4, SeqEqual
      <4>4. f.given[p] = IF /\ l = 1 /\ said[1] \in Variables
                            /\ Find(inner, said[1]) # None
                         THEN <<Find(inner, said[1])>> ELSE said
        BY <3>4, <4>1, <4>2, <4>3 DEF Resolve
      <4>5. QED
        BY <3>1, <3>6, <4>2, <4>4
    <3>7. QED
      BY <3>5, <3>6
  <2>4. QED
    BY <2>2, <2>3 DEF Given
<1>4. Reads(sc, f, ds)
  <2> SUFFICES ASSUME NEW v \in Variables
               PROVE  Find(inner, v) =
                          IF v \in SayingIn(sc, ds, "defs")
                          THEN Resolve(values, NearestIn(sc, ds, "defs", v)[1])
                          ELSE Find(values, v)
    BY DEF Reads
  <2>1. CASE DOMAIN n.defs = {}
    <3>1. v \notin SayingIn(sc, ds, "defs") /\ inner = values
      BY <1>2, <2>1 DEF SaysDefs
    <3>2. QED
      BY <3>1
  <2>2. CASE DOMAIN n.defs # {}
    <3>1. PICK layer :
              layer = [w \in DOMAIN n.defs |-> Resolve(values, n.defs[w][1])]
      OBVIOUS
    <3>2. /\ inner = Append(values, layer)
          /\ \A w \in DOMAIN n.defs : ~(Len(n.defs[w]) > 1)
      BY <2>2, <3>1 DEF PushVariables, Exceptions
    <3>3. IF v \in DOMAIN n.defs THEN Find(inner, v) = layer[v]
          ELSE Find(inner, v) = Find(values, v)
      <4>1. DOMAIN layer = DOMAIN n.defs
        BY <3>1
      <4>2. IF v \in DOMAIN layer THEN Find(Append(values, layer), v) = layer[v]
            ELSE Find(Append(values, layer), v) = Find(values, v)
        BY KnowingMore
      <4>3. QED
        BY <3>2, <4>1, <4>2
    <3>4. DOMAIN n.defs = SayingIn(sc, ds, "defs")
      BY <1>2 DEF SaysDefs
    <3>5. v \in DOMAIN n.defs =>
              layer[v] = Resolve(values, NearestIn(sc, ds, "defs", v)[1])
      <4>1. SUFFICES ASSUME v \in DOMAIN n.defs
                     PROVE  n.defs[v] = NearestIn(sc, ds, "defs", v)
        BY <3>1
      <4>2. PICK said, over, got :
                /\ said = NearestIn(sc, ds, "defs", v)
                /\ over = OverriddenIn(sc, ds, "defs", v)
                /\ got = n.defs[v]
        OBVIOUS
      <4>3. Says(got, said, over) /\ got \in Seq(Values)
        BY <1>2, <4>1, <4>2 DEF SaysDefs, Describes, IsNode
      <4>4. said \in Seq(Values) /\ said # << >>
        BY <1>1, <3>4, <4>1, <4>2, NearestIsValues
      <4>5. ~(Len(got) > 1)
        BY <3>2, <4>1, <4>2
      <4>6. got = said
        BY <4>3, <4>4, <4>5, SaysMore
      <4>7. QED
        BY <4>2, <4>6
    <3>6. QED
      BY <3>3, <3>4, <3>5
  <2>3. QED
    BY <2>1, <2>2
<1>5. QED
  BY <1>1, <1>3, <1>4 DEF Taken

\* One call more.
LEMMA OpeningIsRight ==
    ASSUME NEW sc, IsScript(sc), NEW gt, NEW fs, Right(sc, gt, fs),
           NEW layers, IsSeq(layers),
           Meant(sc, gt, fs, layers, Len(gt) + Len(fs)),
           NEW id \in Nodes, NEW n, n = WithBase(layers, sc[id]),
           n # SeveralValues,
           NEW f, IsFrame(f), f.id = id,
           LayerOf(sc, layers, n.templates, f.inside.templates),
           \A ds : Describes(sc, n, ds) => Taken(sc, f, ds)
    PROVE  Right(sc, gt, Append(fs, f))
<1>1. PICK m \in Nat, k \in Nat : m = Len(gt) /\ k = Len(fs)
  BY SeqFacts DEF Right, Context
<1>2. PICK gs : gs = Append(fs, f)
  OBVIOUS
<1>3. /\ DOMAIN fs = 1 .. k /\ DOMAIN gs = 1 .. k + 1 /\ Len(gs) = k + 1
      /\ IsSeq(gs) /\ gs[k + 1] = f /\ \A i \in 1 .. k : gs[i] = fs[i]
      /\ Context(gt, fs)
  BY <1>1, <1>2, SeqFacts, AppendFacts DEF Right, Context
<1>4. Context(gt, gs)
  <2>1. \A i \in 1 .. k + 1 : i \in 1 .. k \/ i = k + 1
    OBVIOUS
  <2>2. QED
    BY <1>3, <2>1 DEF Context
<1>5. PICK d \in Nat : d = m + k
  OBVIOUS
<1>6. ASSUME NEW a \in 0 .. d
      PROVE  /\ Same(gt, fs, gt, gs, a)
             /\ a \in 0 .. Len(gt) + Len(fs) /\ a \in 0 .. Len(gt) + Len(gs)
  <2>1. ASSUME NEW j \in 1 .. a, ~(j <= m) PROVE j - m \in 1 .. k
    BY <1>5, <2>1
  <2>2. Same(gt, fs, gt, gs, a)
    BY <1>1, <1>3, <2>1 DEF Same
  <2>3. QED
    BY <1>1, <1>3, <1>5, <2>2
<1>7. ASSUME NEW a \in 0 .. d, NEW stack, Meant(sc, gt, fs, stack, a)
      PROVE  Meant(sc, gt, gs, stack, a)
  BY <1>3, <1>4, <1>6, <1>7, SameMeant
<1>8. ASSUME NEW a \in 0 .. d
      PROVE  AlikeUpTo(DefOf(sc, gt, fs), DefOf(sc, gt, gs), a)
  BY <1>3, <1>4, <1>6, SameDefs
<1>9. PICK ds : ds = DefOf(sc, gt, gs)[<<d, id>>]
  OBVIOUS
<1>10. Describes(sc, n, ds)
  <2>1. d \in 0 .. d /\ d \in 0 .. Len(gt) + Len(fs)
    BY <1>1, <1>5
  <2>2. Meant(sc, gt, fs, layers, d)
    BY <1>1, <1>5
  <2>3. Describes(sc, n, DefOf(sc, gt, fs)[<<d, id>>])
    BY <1>3, <2>1, <2>2, BaseMeant
  <2>4. DefOf(sc, gt, fs)[<<d, id>>] = ds
    BY <1>8, <1>9, <2>1 DEF AlikeUpTo
  <2>5. QED
    BY <2>3, <2>4
<1>11. Meant(sc, gt, gs, f.inside.templates, d + 1)
  <2>1. PICK names : names = n.templates
    OBVIOUS
  <2>2. ds \in Chain /\ SaysTemplates(sc, n, ds)
    BY <1>10 DEF Describes
  <2>3. \A t \in DOMAIN names : names[t] \in Nodes
    BY <2>1, <2>2, NearestTemplateIsNode DEF SaysTemplates
  <2>4. PICK decl : decl = DeclaredBy(sc, gt, gs, DefOf(sc, gt, gs), d + 1)
    OBVIOUS
  <2>5. decl = [t \in SayingIn(sc, ds, "templates") |->
                   NearestIn(sc, ds, "templates", t)]
    <3>1. ~(d + 1 <= Len(gt)) /\ (d + 1) - Len(gt) = k + 1 /\ (d + 1) - 1 = d
      BY <1>1, <1>5
    <3>2. QED
      BY <1>3, <1>9, <2>4, <3>1 DEF DeclaredBy
  <2>6. DOMAIN decl = DOMAIN names /\ \A t \in DOMAIN names : decl[t] = names[t]
    BY <2>1, <2>2, <2>5 DEF SaysTemplates
  <2>7. Meant(sc, gt, gs, layers, d)
    <3>1. d \in 0 .. d /\ Meant(sc, gt, fs, layers, d)
      BY <1>1, <1>5
    <3>2. QED
      BY <1>7, <3>1
  <2>8. d + 1 <= Len(gt) + Len(gs)
    BY <1>1, <1>3, <1>5
  <2>9. PICK new : new = f.inside.templates /\ LayerOf(sc, layers, names, new)
    BY <2>1
  <2>10. Meant(sc, gt, gs, new, d + 1)
    BY <1>4, <2>3, <2>4, <2>6, <2>7, <2>8, <2>9, PushMeant
  <2>11. QED
    BY <2>9, <2>10
<1>12. Meant(sc, gt, gs, gt, Len(gt))
  <2>1. m \in 0 .. d
    BY <1>5
  <2>2. QED
    BY <1>1, <1>7, <2>1 DEF Right
<1>13. ASSUME NEW i \in 1 .. k + 1
       PROVE  /\ IsFrame(gs[i])
              /\ Meant(sc, gt, gs, gs[i].inside.templates, Len(gt) + i)
              /\ Taken(sc, gs[i],
                       DefOf(sc, gt, gs)[<<(Len(gt) + i) - 1, gs[i].id>>])
  <2>1. CASE i = k + 1
    <3>1. Len(gt) + i = d + 1 /\ (Len(gt) + i) - 1 = d /\ gs[i] = f
      BY <1>1, <1>3, <1>5, <2>1
    <3>2. QED
      BY <1>9, <1>10, <1>11, <3>1
  <2>2. CASE i # k + 1
    <3>1. /\ i \in DOMAIN fs /\ gs[i] = fs[i] /\ m + i \in 0 .. d
          /\ (m + i) - 1 \in 0 .. d /\ (m + i) - 1 \in 0 .. (m + i) - 1
      BY <1>3, <1>5, <2>2
    <3>2. Meant(sc, gt, gs, gs[i].inside.templates, m + i) /\ IsFrame(gs[i])
      BY <1>1, <1>7, <3>1 DEF Right
    <3>3. fs[i].id \in Nodes
      BY <1>3, <3>1 DEF Context
    <3>4. DefOf(sc, gt, gs)[<<(m + i) - 1, gs[i].id>>]
              = DefOf(sc, gt, fs)[<<(m + i) - 1, fs[i].id>>]
      BY <1>8, <3>1, <3>3 DEF AlikeUpTo
    <3>5. QED
      BY <1>1, <3>1, <3>2, <3>4 DEF Right
  <2>3. QED
    BY <2>1, <2>2
<1>14. QED
  BY <1>1, <1>2, <1>3, <1>4, <1>12, <1>13 DEF Right

\* One layer more that the program declares.
LEMMA DeclaringIsRight ==
    ASSUME NEW sc, IsScript(sc), NEW gt, Right(sc, gt, << >>),
           NEW names, \A t \in DOMAIN names : names[t] \in Nodes,
           NEW ht, LayerOf(sc, gt, names, ht)
    PROVE  Right(sc, ht, << >>)
<1>1. CASE ht = gt
  BY <1>1
<1>2. CASE ht # gt
  <2>1. PICK layer :
            /\ ht = Append(gt, layer)
            /\ DOMAIN layer = DOMAIN names
            /\ \A t \in DOMAIN names : /\ layer[t] = WithBase(gt, sc[names[t]])
                                       /\ layer[t] # SeveralValues
    BY <1>2 DEF LayerOf
  <2>2. PICK none : none = << >>
    OBVIOUS
  <2>3. IsSeq(none) /\ Len(none) = 0 /\ DOMAIN none = {}
    <3>1. << >> \in Seq({})
      OBVIOUS
    <3>2. QED
      BY <2>2, <3>1 DEF IsSeq
  <2>4. Context(gt, none) /\ IsSeq(gt) /\ Meant(sc, gt, none, gt, Len(gt))
    BY <2>2 DEF Right, Context
  <2>5. PICK m \in Nat : m = Len(gt)
    BY <2>4, SeqFacts
  <2>6. /\ DOMAIN gt = 1 .. m /\ DOMAIN ht = 1 .. m + 1 /\ Len(ht) = m + 1
        /\ IsSeq(ht) /\ ht[m + 1] = layer /\ \A j \in 1 .. m : ht[j] = gt[j]
    BY <2>1, <2>4, <2>5, SeqFacts, AppendFacts
  <2>7. ASSUME NEW t \in DOMAIN names PROVE layer[t].id = names[t]
    <3>1. m \in 0 .. Len(gt) + Len(none)
      BY <2>3, <2>5
    <3>2. PICK id \in Nodes : id = names[t]
      OBVIOUS
    <3>3. PICK ds : ds = DefOf(sc, gt, none)[<<m, id>>]
      OBVIOUS
    <3>4. PICK n : n = layer[t]
      OBVIOUS
    <3>5. n = WithBase(gt, sc[id]) /\ n # SeveralValues
      BY <2>1, <2>7, <3>2, <3>4
    <3>6. Describes(sc, n, ds)
      BY <2>4, <2>5, <3>1, <3>3, <3>5, BaseMeant
    <3>7. ds = Defined(sc, gt, none, DefOf(sc, gt, none), m, id)
      BY <2>4, <3>1, <3>3, DefOfDefines
    <3>8. ds[1] = id
      <4>1. CASE LevelsOf(sc, gt, none, DefOf(sc, gt, none), m, sc[id].name) = {}
        BY <3>7, <4>1 DEF Defined
      <4>2. CASE LevelsOf(sc, gt, none, DefOf(sc, gt, none), m, sc[id].name) # {}
        <5>1. PICK D : D = DefOf(sc, gt, none)
          OBVIOUS
        <5>2. PICK l : l = Max(LevelsOf(sc, gt, none, D, m, sc[id].name))
          OBVIOUS
        <5>3. PICK es : es = D[<<l - 1, DeclaredBy(sc, gt, none, D, l)[sc[id].name]>>]
          OBVIOUS
        <5>4. ds = <<id>> \o es
          BY <3>7, <4>2, <5>1, <5>2, <5>3 DEF Defined
        <5>5. Below(D, m)
          <6>1. \A b \in 0 .. m - 1 : b \in 0 .. Len(gt) + Len(none)
            BY <2>3, <2>5
          <6>2. QED
            BY <2>4, <5>1, <6>1, DefOfDefines DEF Below
        <5>6. es \in Chain
          BY <2>4, <3>1, <4>2, <5>1, <5>2, <5>3, <5>5, LevelIs
        <5>7. QED
          BY <5>4, <5>6, ChainGrows
      <4>3. QED
        BY <4>1, <4>2
    <3>9. QED
      BY <3>2, <3>4, <3>6, <3>8 DEF Describes
  <2>8. Context(ht, none)
    <3>1. \A j \in 1 .. m + 1 : j \in 1 .. m \/ j = m + 1
      OBVIOUS
    <3>2. QED
      BY <2>1, <2>3, <2>4, <2>6, <2>7, <3>1 DEF Context
  <2>9. Meant(sc, ht, none, gt, m)
    <3>1. /\ Same(gt, none, ht, none, m)
          /\ m \in 0 .. Len(gt) + Len(none) /\ m \in 0 .. Len(ht) + Len(none)
      BY <2>3, <2>5, <2>6 DEF Same
    <3>2. QED
      BY <2>4, <2>5, <2>8, <3>1, SameMeant
  <2>10. Meant(sc, ht, none, ht, m + 1)
    <3>1. PICK decl : decl = DeclaredBy(sc, ht, none, DefOf(sc, ht, none), m + 1)
      OBVIOUS
    <3>2. decl = [t \in DOMAIN layer |-> layer[t].id]
      BY <2>6, <3>1 DEF DeclaredBy
    <3>3. DOMAIN decl = DOMAIN names
          /\ \A t \in DOMAIN names : decl[t] = names[t]
      BY <2>1, <2>7, <3>2
    <3>4. m + 1 <= Len(ht) + Len(none)
      BY <2>3, <2>6
    <3>5. QED
      BY <2>4, <2>8, <2>9, <3>1, <3>3, <3>4, PushMeant
  <2>11. QED
    BY <2>2, <2>3, <2>6, <2>8, <2>10 DEF Right
<1>3. QED
  BY <1>1, <1>2

-----------------------------------------------------------------------------
(* What the steps do to scripts' meaning *)

TakesInv == /\ script \in Scripts
            /\ Right(script, globals.templates, frames)

\* Scripts are typed.
LEMMA ScriptIs == ASSUME NEW sc \in Scripts PROVE IsScript(sc)
BY InflaterAssumption DEF IsScript

\* Pushing templates adds the layer of the level.
LEMMA PushIsLayer ==
    ASSUME NEW sc, script = sc, NEW layers, NEW names, NEW twice, NEW new,
           new = IF DOMAIN names = {} THEN layers
                 ELSE PushTemplates(layers, names, twice),
           new \notin Exceptions \/ DOMAIN names = {}
    PROVE  LayerOf(sc, layers, names, new)
<1>1. CASE DOMAIN names = {}
  BY <1>1 DEF LayerOf
<1>2. CASE DOMAIN names # {}
  <2>1. PICK layer :
            layer = [t \in DOMAIN names |-> WithBase(layers, sc[names[t]])]
    OBVIOUS
  <2>2. /\ new = Append(layers, layer)
        /\ \A t \in DOMAIN names : layer[t] # SeveralValues
    BY <1>2, <2>1 DEF PushTemplates, Exceptions
  <2>3. /\ DOMAIN layer = DOMAIN names
        /\ \A t \in DOMAIN names : layer[t] = WithBase(layers, sc[names[t]])
    BY <2>1
  <2>4. QED
    BY <2>2, <2>3 DEF LayerOf
<1>3. QED
  BY <1>1, <1>2

\* The innermost stack is what the innermost level means.
LEMMA InnermostMeant ==
    ASSUME NEW sc, NEW fs, NEW g, Right(sc, g.templates, fs)
    PROVE  Meant(sc, g.templates, fs, Innermost(fs, g).templates,
                 Len(g.templates) + Len(fs))
<1>1. IsSeq(fs) /\ IsSeq(g.templates)
  BY DEF Right, Context
<1>2. /\ Len(fs) \in Nat /\ Len(g.templates) \in Nat
      /\ DOMAIN fs = 1 .. Len(fs) /\ (fs = << >> <=> Len(fs) = 0)
  BY <1>1, SeqFacts
<1>3. CASE fs = << >>
  <2>1. Len(g.templates) + Len(fs) = Len(g.templates)
    BY <1>2, <1>3
  <2>2. QED
    BY <1>3, <2>1 DEF Right, Innermost
<1>4. CASE fs # << >>
  <2>1. Len(fs) \in DOMAIN fs
    BY <1>2, <1>4
  <2>2. QED
    BY <1>4, <2>1 DEF Right, Innermost
<1>5. QED
  BY <1>3, <1>4

\* A node is inflated in the scope that its callers have.
LEMMA InflatingIsRight ==
    ASSUME NEW sc, IsScript(sc), script = sc, NEW id \in Nodes, NEW layers,
           NEW values, NEW fs, NEW gt, IsSeq(layers), IsSeq(values),
           Right(sc, gt, fs), Meant(sc, gt, fs, layers, Len(gt) + Len(fs)),
           InflateNode(id, layers, values, fs)
    PROVE  Right(sc, gt, frames')
<1>1. PICK n : n = WithBase(layers, sc[id])
  OBVIOUS
<1>2. PICK own \in BOOLEAN : own = (DOMAIN n.templates # {})
  OBVIOUS
<1>3. PICK ownVariables \in BOOLEAN : ownVariables = (DOMAIN n.defs # {})
  OBVIOUS
<1>4. PICK inner :
          inner = IF own THEN PushTemplates(layers, n.templates, n.twice)
                  ELSE layers
  OBVIOUS
<1>5. PICK innerValues :
          innerValues = IF ownVariables THEN PushVariables(values, n.defs)
                        ELSE values
  OBVIOUS
<1>6. PICK e : e = IF n = SeveralValues THEN SeveralValues
                   ELSE IF n.name \notin Factories THEN NoFactory
                   ELSE IF inner \in Exceptions THEN inner
                   ELSE IF innerValues \in Exceptions THEN innerValues
                   ELSE IF Misplaced(n.props) THEN SeveralValues
                   ELSE None
  OBVIOUS
<1>7. PICK f : f = [id |-> id, widget |-> n.name, kids |-> n.kids, next |-> 1,
                    given |-> Substituted(innerValues, n.props),
                    popTemplates |-> own, popVariables |-> ownVariables,
                    called |-> FALSE,
                    outer |-> [templates |-> layers, variables |-> values],
                    inside |-> [templates |-> inner,
                                variables |-> innerValues]]
  OBVIOUS
<1>8. IF e # None THEN frames' = fs ELSE frames' = Append(fs, f)
  BY <1>1, <1>2, <1>3, <1>4, <1>5, <1>6, <1>7 DEF InflateNode, Throw
<1>9. CASE e # None
  BY <1>8, <1>9
<1>10. CASE e = None
  <2>1. /\ n # SeveralValues
        /\ inner \notin Exceptions /\ innerValues \notin Exceptions
    BY <1>6, <1>10, InflaterAssumption DEF Exceptions
  <2>2. /\ f.id = id /\ f.kids = n.kids /\ f.widget = n.name
        /\ f.given = Substituted(innerValues, n.props)
        /\ f.outer.variables = values /\ f.inside.variables = innerValues
        /\ f.inside.templates = inner /\ f.next = 1
        /\ {"id", "widget", "kids", "given", "next"} \subseteq DOMAIN f
    BY <1>7
  <2>3. IsFrame(f)
    BY <2>2 DEF IsFrame
  <2>4. LayerOf(sc, layers, n.templates, f.inside.templates)
    <3>1. PICK names, twice : names = n.templates /\ twice = n.twice
      OBVIOUS
    <3>2. inner = IF DOMAIN names = {} THEN layers
                  ELSE PushTemplates(layers, names, twice)
      BY <1>2, <1>4, <3>1
    <3>3. LayerOf(sc, layers, names, inner)
      BY <2>1, <3>2, PushIsLayer
    <3>4. QED
      BY <2>2, <3>1, <3>3
  <2>5. ASSUME NEW ds, Describes(sc, n, ds) PROVE Taken(sc, f, ds)
    <3>1. innerValues = IF DOMAIN n.defs # {} THEN PushVariables(values, n.defs)
                        ELSE values
      BY <1>3, <1>5
    <3>2. QED
      BY <2>1, <2>2, <2>5, <3>1, TakesWhatIsSaid
  <2>6. Right(sc, gt, Append(fs, f))
    BY <1>1, <2>1, <2>2, <2>3, <2>4, <2>5, OpeningIsRight
  <2>7. QED
    BY <1>8, <1>10, <2>6
<1>11. QED
  BY <1>9, <1>10

\* inflate() of a chain at the outermost level, or without declarations.
LEMMA ChainIsRight ==
    ASSUME NEW chain \in Calls \cup InnerCalls, NEW fs, Inv, TakesInv,
           Inflate(chain, fs), UNCHANGED script,
           Right(script, globals.templates, fs),
           Innermost(fs, globals) = Scope,
           \/ fs = << >> /\ globals' = GlobalsAfter(chain)
           \/ Declarations(chain) = {} /\ UNCHANGED globals
    PROVE  TakesInv'
<1>1. PICK layers : layers =
          IF DOMAIN chain.templates = {} THEN templates
          ELSE PushTemplates(templates, chain.templates, chain.twice)
  OBVIOUS
<1>2. PICK values : values = IF DOMAIN chain.defs = {} THEN variables
                             ELSE PushVariables(variables, chain.defs)
  OBVIOUS
<1>3. /\ Inflate(chain, fs) <=>
             IF layers \in Exceptions
             THEN Throw(layers, fs) /\ UNCHANGED scopeVars
             ELSE IF values \in Exceptions
             THEN /\ Throw(values, fs)
                  /\ templates' = layers
                  /\ UNCHANGED variables
             ELSE IF chain.root = None
             THEN /\ templates' = layers /\ variables' = values
                  /\ frames' = fs /\ exception' = None
             ELSE InflateNode(chain.root, layers, values, fs)
      /\ GlobalsAfter(chain) =
             IF layers \in Exceptions THEN globals
             ELSE [templates |-> layers,
                   variables |-> IF values \in Exceptions THEN variables
                                 ELSE values]
  BY <1>1, <1>2, Zenon DEF Inflate, GlobalsAfter
<1>4. PICK sc : sc = script
  OBVIOUS
<1>5. PICK g : g = globals
  OBVIOUS
<1>6. PICK ht : ht = globals'.templates
  OBVIOUS
<1>7. /\ sc \in Scripts /\ IsScript(sc) /\ script' = sc
      /\ Right(sc, g.templates, fs)
  BY <1>4, <1>5, ScriptIs DEF TakesInv
<1>8. PICK T, V : T = templates /\ V = variables
  OBVIOUS
<1>9. IsSeq(T) /\ IsSeq(V) /\ Innermost(fs, g).templates = T
  BY <1>5, <1>8, ScopeIsScope DEF IsScope, Scope
<1>10. Meant(sc, g.templates, fs, T, Len(g.templates) + Len(fs))
  BY <1>7, <1>9, InnermostMeant
<1>11. SUFFICES Right(sc, ht, frames')
  BY <1>6, <1>7 DEF TakesInv
<1>12. CASE layers \in Exceptions
  BY <1>3, <1>5, <1>6, <1>7, <1>12 DEF Throw
<1>13. CASE layers \notin Exceptions
  <2>1. /\ chain.root \in Nodes \cup {None}
        /\ chain.templates \in [DOMAIN chain.templates -> Nodes]
    BY InflaterAssumption
  <2>2. LayerOf(sc, T, chain.templates, layers) /\ IsSeq(layers)
    <3>1. PICK names, twice : names = chain.templates /\ twice = chain.twice
      OBVIOUS
    <3>2. layers = IF DOMAIN names = {} THEN T ELSE PushTemplates(T, names, twice)
      BY <1>1, <1>8, <3>1
    <3>3. LayerOf(sc, T, names, layers)
      BY <1>4, <1>13, <3>2, PushIsLayer
    <3>4. layers = T \/ \E layer : layers = Append(T, layer)
      BY <3>3 DEF LayerOf
    <3>5. IsSeq(layers)
      BY <1>9, <3>4, AppendFacts
    <3>6. QED
      BY <3>1, <3>3, <3>5
  <2>3. Right(sc, ht, fs) /\ Meant(sc, ht, fs, layers, Len(ht) + Len(fs))
    <3>1. CASE fs = << >> /\ globals' = GlobalsAfter(chain)
      <4>1. ht = layers /\ T = g.templates
        BY <1>3, <1>6, <1>9, <1>13, <3>1 DEF Innermost
      <4>2. PICK names : names = chain.templates
        OBVIOUS
      <4>3. \A t \in DOMAIN names : names[t] \in Nodes
        BY <2>1, <4>2
      <4>4. Right(sc, ht, fs)
        BY <1>7, <2>2, <3>1, <4>1, <4>2, <4>3, DeclaringIsRight
      <4>5. PICK h : h = [templates |-> ht]
        OBVIOUS
      <4>6. h.templates = ht
        BY <4>5
      <4>7. Meant(sc, ht, fs, Innermost(fs, h).templates, Len(ht) + Len(fs))
        BY <4>4, <4>6, InnermostMeant
      <4>8. QED
        BY <3>1, <4>1, <4>4, <4>6, <4>7 DEF Innermost
    <3>2. CASE Declarations(chain) = {} /\ UNCHANGED globals
      <4>1. layers = T /\ ht = g.templates
        BY <1>1, <1>5, <1>6, <1>8, <3>2 DEF Declarations
      <4>2. QED
        BY <1>7, <1>10, <4>1
    <3>3. QED
      BY <3>1, <3>2
  <2>4. CASE values \in Exceptions \/ chain.root = None
    <3>1. frames' = fs
      BY <1>3, <1>13, <2>4 DEF Throw
    <3>2. QED
      BY <2>3, <3>1
  <2>5. CASE values \notin Exceptions /\ chain.root # None
    <3>1. PICK id \in Nodes : id = chain.root
      BY <2>1, <2>5
    <3>2. InflateNode(id, layers, values, fs)
      BY <1>3, <1>13, <2>5, <3>1
    <3>3. IsSeq(values)
      <4>1. values = V \/ \E layer : values = Append(V, layer)
        BY <1>2, <1>8, <2>5, PushesVariables
      <4>2. QED
        BY <1>9, <4>1, AppendFacts
    <3>4. QED
      BY <1>4, <1>7, <2>2, <2>3, <3>1, <3>2, <3>3, InflatingIsRight
  <2>6. QED
    BY <2>4, <2>5
<1>14. QED
  BY <1>12, <1>13

\* Calls that went further, or the callers of the innermost one.
LEMMA FurtherIsAmong ==
    ASSUME NEW sc, NEW gt, NEW fs, Right(sc, gt, fs), fs # << >>
    PROVE  /\ LET gs == [fs EXCEPT ![Len(fs)].next = @ + 1]
              IN Among(fs, gs)
           /\ Among(fs, [fs EXCEPT ![Len(fs)].called = TRUE])
           /\ Among(fs, SubSeq(fs, 1, Len(fs) - 1))
<1>1. PICK S : fs \in Seq(S)
  BY DEF Right, Context, IsSeq
<1>2. /\ Len(fs) \in Nat /\ DOMAIN fs = 1 .. Len(fs) /\ Len(fs) \in DOMAIN fs
      /\ \A i \in DOMAIN fs : IsFrame(fs[i])
  <2>1. \A i \in DOMAIN fs : IsFrame(fs[i])
    BY DEF Right
  <2>2. Len(fs) \in Nat /\ DOMAIN fs = 1 .. Len(fs) /\ Len(fs) # 0
    BY <1>1
  <2>3. QED
    BY <2>1, <2>2
<1>3. ASSUME NEW h, IsFrame(h), h.id = fs[Len(fs)].id,
             h.widget = fs[Len(fs)].widget, h.kids = fs[Len(fs)].kids,
             h.given = fs[Len(fs)].given, h.outer = fs[Len(fs)].outer,
             h.inside = fs[Len(fs)].inside
      PROVE  Among(fs, [fs EXCEPT ![Len(fs)] = h])
  <2>1. PICK gs : gs = [fs EXCEPT ![Len(fs)] = h]
    OBVIOUS
  <2>2. /\ gs \in Seq(S \cup {h}) /\ Len(gs) = Len(fs) /\ DOMAIN gs = DOMAIN fs
        /\ \A i \in DOMAIN fs : gs[i] = IF i = Len(fs) THEN h ELSE fs[i]
    BY <1>1, <1>2, <2>1
  <2>3. IsSeq(gs) /\ Len(gs) <= Len(fs)
    BY <1>2, <2>2 DEF IsSeq
  <2>4. ASSUME NEW i \in DOMAIN gs
        PROVE  /\ IsFrame(gs[i])
               /\ gs[i].id = fs[i].id /\ gs[i].widget = fs[i].widget
               /\ gs[i].kids = fs[i].kids /\ gs[i].given = fs[i].given
               /\ gs[i].outer = fs[i].outer /\ gs[i].inside = fs[i].inside
    <3>1. CASE i = Len(fs)
      <4>1. gs[i] = h
        BY <2>2, <3>1
      <4>2. QED
        BY <1>3, <3>1, <4>1
    <3>2. CASE i # Len(fs)
      <4>1. gs[i] = fs[i] /\ i \in DOMAIN fs
        BY <2>2, <3>2
      <4>2. QED
        BY <1>2, <4>1
    <3>3. QED
      BY <3>1, <3>2
  <2>5. QED
    BY <2>1, <2>3, <2>4 DEF Among
<1>4. PICK f : f = fs[Len(fs)]
  OBVIOUS
<1>5. IsFrame(f)
  BY <1>2, <1>4
<1>6. Among(fs, [fs EXCEPT ![Len(fs)].next = @ + 1])
  <2>1. PICK h : h = [f EXCEPT !.next = @ + 1]
    OBVIOUS
  <2>2. /\ DOMAIN h = DOMAIN f /\ h.next = f.next + 1 /\ h.id = f.id
        /\ h.widget = f.widget /\ h.kids = f.kids /\ h.given = f.given
        /\ h.outer = f.outer /\ h.inside = f.inside
    BY <1>5, <2>1 DEF IsFrame
  <2>3. IsFrame(h)
    BY <1>5, <2>2 DEF IsFrame
  <2>4. Among(fs, [fs EXCEPT ![Len(fs)] = h])
    BY <1>3, <1>4, <2>2, <2>3
  <2>5. [fs EXCEPT ![Len(fs)] = h] = [fs EXCEPT ![Len(fs)].next = @ + 1]
    BY <1>4, <2>1
  <2>6. QED
    BY <2>4, <2>5
<1>7. Among(fs, [fs EXCEPT ![Len(fs)].called = TRUE])
  <2>1. PICK h : h = [f EXCEPT !.called = TRUE]
    OBVIOUS
  <2>2. /\ DOMAIN h = DOMAIN f /\ h.next = f.next /\ h.id = f.id
        /\ h.widget = f.widget /\ h.kids = f.kids /\ h.given = f.given
        /\ h.outer = f.outer /\ h.inside = f.inside
    BY <1>5, <2>1 DEF IsFrame
  <2>3. IsFrame(h)
    BY <1>5, <2>2 DEF IsFrame
  <2>4. Among(fs, [fs EXCEPT ![Len(fs)] = h])
    BY <1>3, <1>4, <2>2, <2>3
  <2>5. [fs EXCEPT ![Len(fs)] = h] = [fs EXCEPT ![Len(fs)].called = TRUE]
    BY <1>4, <2>1
  <2>6. QED
    BY <2>4, <2>5
<1>8. Among(fs, SubSeq(fs, 1, Len(fs) - 1))
  <2>1. PICK gs : gs = SubSeq(fs, 1, Len(fs) - 1)
    OBVIOUS
  <2>2. /\ IsSeq(gs) /\ Len(gs) = Len(fs) - 1 /\ DOMAIN gs = 1 .. Len(fs) - 1
        /\ \A i \in 1 .. Len(fs) - 1 : gs[i] = fs[i]
    BY <2>1, FrontFacts DEF Right, Context
  <2>3. \A i \in 1 .. Len(fs) - 1 : i \in DOMAIN fs
    BY <1>2
  <2>4. Len(gs) <= Len(fs)
    BY <1>2, <2>2
  <2>5. QED
    BY <1>2, <2>1, <2>2, <2>3, <2>4 DEF Among
<1>9. QED
  BY <1>6, <1>7, <1>8

\* Every step keeps the invariant.
LEMMA TakesStep ==
    ASSUME Inv, TakesInv, [Next]_vars,
           \A chain \in InnerCalls : Declarations(chain) = {}
    PROVE  TakesInv'
<1>1. PICK sc : sc = script
  OBVIOUS
<1>2. PICK gt : gt = globals.templates
  OBVIOUS
<1>3. PICK fs : fs = frames
  OBVIOUS
<1>4. PICK T, V : T = templates /\ V = variables
  OBVIOUS
<1>5. /\ sc \in Scripts /\ IsScript(sc) /\ Right(sc, gt, fs)
      /\ IsSeq(T) /\ IsSeq(V) /\ Innermost(fs, globals) = Scope
  BY <1>1, <1>2, <1>3, <1>4, ScriptIs, ScopeIsScope
     DEF TakesInv, Inv, IsScope, Scope
<1>6. Meant(sc, gt, fs, T, Len(gt) + Len(fs))
  <2>1. PICK g : g = globals
    OBVIOUS
  <2>2. T = Innermost(fs, g).templates /\ gt = g.templates
    BY <1>2, <1>4, <1>5, <2>1 DEF Scope
  <2>3. QED
    BY <1>5, <2>2, InnermostMeant
<1>7. ASSUME NEW gs, Among(fs, gs), fs # << >>
      PROVE  Right(sc, gt, gs)
  BY <1>5, <1>7, AmongAreRight
<1>8. ASSUME NEW chain \in Calls, CallInflate(chain)
      PROVE  TakesInv'
  <2>1. /\ frames = << >> /\ Inflate(chain, frames)
        /\ globals' = GlobalsAfter(chain) /\ UNCHANGED script
    BY <1>8 DEF CallInflate, Idle
  <2>2. Inflate(chain, fs) /\ fs = << >>
    BY <1>3, <2>1
  <2>3. QED
    BY <1>1, <1>2, <1>5, <2>1, <2>2, ChainIsRight
<1>9. ASSUME NEW id \in Nodes, GetWidget(id)
      PROVE  TakesInv'
  <2>1. /\ fs = << >> /\ UNCHANGED <<script, globals>>
        /\ InflateNode(id, T, V, fs)
    BY <1>3, <1>4, <1>9 DEF GetWidget, Idle
  <2>2. Right(sc, gt, frames')
    BY <1>1, <1>5, <1>6, <2>1, InflatingIsRight
  <2>3. QED
    BY <1>1, <1>2, <1>5, <2>1, <2>2 DEF TakesInv
<1>10. CASE AddChild
  <2>1. PICK gs : gs = [fs EXCEPT ![Len(fs)].next = @ + 1]
    OBVIOUS
  <2>2. PICK f : f = fs[Len(fs)]
    OBVIOUS
  <2>3. PICK id : id = f.kids[f.next]
    OBVIOUS
  <2>4. /\ fs # << >> /\ Left(f) /\ UNCHANGED <<script, globals>>
        /\ InflateNode(id, T, V, gs)
    BY <1>3, <1>4, <1>10, <2>1, <2>2, <2>3 DEF AddChild, InConstructor, Top
  <2>5. Among(fs, gs) /\ Right(sc, gt, gs)
    BY <1>5, <1>7, <2>1, <2>4, FurtherIsAmong
  <2>6. id \in Nodes
    <3>1. Len(fs) \in DOMAIN fs
      BY <1>5, <2>4, SeqFacts DEF Right, Context
    <3>2. f.kids \in Seq(Nodes) /\ f.next \in Nat \ {0}
      BY <1>5, <2>2, <3>1 DEF Right, Taken, IsFrame
    <3>3. f.next \in 1 .. Len(f.kids)
      <4>1. Len(f.kids) \in Nat /\ (f.kids # << >> => Len(f.kids) # 0)
        BY <3>2
      <4>2. f.next <= Len(f.kids) \/ (f.next = 1 /\ f.kids # << >>)
        BY <2>4 DEF Left
      <4>3. QED
        BY <3>2, <4>1, <4>2
    <3>4. QED
      BY <2>3, <3>2, <3>3
  <2>7. Meant(sc, gt, gs, T, Len(gt) + Len(gs))
    <3>1. PICK g : g = globals
      OBVIOUS
    <3>2. Len(gs) = Len(fs) /\ gs # << >> /\ fs # << >>
      <4>1. PICK S : fs \in Seq(S)
        BY <1>5 DEF Right, Context, IsSeq
      <4>2. Len(gs) = Len(fs) /\ DOMAIN gs = DOMAIN fs /\ DOMAIN fs # {}
        BY <2>1, <2>4, <4>1
      <4>3. QED
        BY <2>4, <4>2
    <3>3. Len(fs) \in DOMAIN gs
      BY <2>5, <3>2, SeqFacts DEF Among
    <3>4. Innermost(gs, g) = Innermost(fs, g)
      BY <2>5, <3>2, <3>3 DEF Among, Innermost
    <3>5. gt = g.templates /\ T = Innermost(gs, g).templates
      BY <1>2, <1>4, <1>5, <3>1, <3>4 DEF Scope
    <3>6. QED
      BY <2>5, <3>5, InnermostMeant
  <2>8. Right(sc, gt, frames')
    BY <1>1, <1>5, <2>4, <2>5, <2>6, <2>7, InflatingIsRight
  <2>9. QED
    BY <1>1, <1>2, <1>5, <2>4, <2>8 DEF TakesInv
<1>11. ASSUME NEW chain \in InnerCalls, InflateInside(chain)
       PROVE  TakesInv'
  <2>1. PICK gs : gs = [fs EXCEPT ![Len(fs)].called = TRUE]
    OBVIOUS
  <2>2. fs # << >> /\ Inflate(chain, gs) /\ UNCHANGED <<script, globals>>
    BY <1>3, <1>11, <2>1 DEF InflateInside, InConstructor
  <2>3. Among(fs, gs) /\ Right(sc, gt, gs)
    BY <1>5, <1>7, <2>1, <2>2, FurtherIsAmong
  <2>4. Innermost(gs, globals) = Innermost(fs, globals)
    <3>1. Calling(fs, globals)
      BY <1>3 DEF Inv
    <3>2. SameCalls(fs, gs)
      BY <2>1, <2>2, <3>1, GoingOn
    <3>3. QED
      BY <3>1, <3>2, SameCallsNest
  <2>5. QED
    BY <1>1, <1>2, <1>5, <2>2, <2>3, <2>4, ChainIsRight
<1>12. CASE Return \/ Unwind
  <2>1. /\ fs # << >> /\ UNCHANGED <<script, globals>>
        /\ frames' = SubSeq(fs, 1, Len(fs) - 1)
    BY <1>3, <1>12 DEF Return, Unwind, InConstructor, Leave, Callers
  <2>2. Right(sc, gt, frames')
    <3>1. PICK gs : gs = SubSeq(fs, 1, Len(fs) - 1)
      OBVIOUS
    <3>2. Right(sc, gt, gs)
      BY <1>5, <1>7, <2>1, <3>1, FurtherIsAmong
    <3>3. QED
      BY <2>1, <3>1, <3>2
  <2>3. QED
    BY <1>1, <1>2, <1>5, <2>1, <2>2 DEF TakesInv
<1>13. CASE Fail \/ Catch
  BY <1>13 DEF Fail, Catch, TakesInv, scopeVars
<1>14. CASE UNCHANGED vars
  BY <1>14 DEF vars, TakesInv, scopeVars
<1>15. QED
  BY <1>8, <1>9, <1>10, <1>11, <1>12, <1>13, <1>14 DEF Next

-----------------------------------------------------------------------------
(* What variables mean *)

\* What the definitions at each level say a variable is.
Means(sc, g, fs, V) ==
    V = [x \in (0 .. Len(fs)) \X Variables |->
            IF x[1] = 0 THEN Find(g.variables, x[2])
            ELSE LET ds == DefOf(sc, g.templates, fs)
                               [<<(Len(g.templates) + x[1]) - 1, fs[x[1]].id>>]
                     value == NearestIn(sc, ds, "defs", x[2])[1]
                 IN IF x[2] \notin SayingIn(sc, ds, "defs")
                    THEN V[<<x[1] - 1, x[2]>>]
                    ELSE IF value \in Variables THEN V[<<x[1] - 1, value>>]
                    ELSE value]

MeaningOf(sc, g, fs) == CHOOSE V : Means(sc, g, fs, V)

\* The recursive function that Meaning is.
LEMMA MeaningIs == Meaning = MeaningOf(script, globals, frames)
BY DEF Meaning, MeaningOf, Means, DefinitionsOf, Depth, Definitions, DefOf,
       Defines, Defined, LevelsOf, DeclaredBy, Nearest, NearestIn, Saying,
       SayingIn

Finding(V, fs) ==
    \A i \in DOMAIN fs : \A v \in Variables :
        V[<<i, v>>] = Find(fs[i].inside.variables, v)

\* Whoever looks a variable up inside of a call finds what it means there.
LEMMA FindsMeaning ==
    ASSUME NEW sc, NEW g, NEW fs, Right(sc, g.templates, fs), Nested(fs, g),
           NEW V, V = MeaningOf(sc, g, fs)
    PROVE  Finding(V, fs)
<1>1. PICK n \in Nat : n = Len(fs)
  BY SeqFacts DEF Right, Context
<1>2. DOMAIN fs = 1 .. n
  BY <1>1, SeqFacts DEF Right, Context
<1>3. PICK Ds : Ds = [i \in 1 .. n |-> DefOf(sc, g.templates, fs)
                          [<<(Len(g.templates) + i) - 1, fs[i].id>>]]
  OBVIOUS
<1>4. PICK At : At = [i \in 0 .. n |-> IF i = 0 THEN g.variables
                                       ELSE fs[i].inside.variables]
  OBVIOUS
<1>5. ASSUME NEW i \in 1 .. n, NEW v \in Variables
      PROVE  Find(At[i], v) =
                 IF v \notin SayingIn(sc, Ds[i], "defs") THEN Find(At[i - 1], v)
                 ELSE Resolve(At[i - 1], NearestIn(sc, Ds[i], "defs", v)[1])
  <2>1. i \in 0 .. n /\ i - 1 \in 0 .. n /\ i # 0
    OBVIOUS
  <2>2. At[i] = fs[i].inside.variables
    BY <1>4, <2>1
  <2>3. fs[i].outer.variables = At[i - 1]
    <3>1. fs[i].outer = IF i = 1 THEN g ELSE fs[i - 1].inside
      BY <1>2 DEF Nested
    <3>2. i - 1 = 0 <=> i = 1
      OBVIOUS
    <3>3. QED
      BY <1>4, <2>1, <3>1, <3>2
  <2>4. Reads(sc, fs[i], Ds[i])
    BY <1>1, <1>2, <1>3 DEF Right, Taken
  <2>5. QED
    BY <2>2, <2>3, <2>4 DEF Reads
<1>6. PICK W : W = [x \in (0 .. n) \X Variables |-> Find(At[x[1]], x[2])]
  OBVIOUS
<1> DEFINE Rule(X, x) ==
        IF x[1] = 0 THEN Find(g.variables, x[2])
        ELSE LET ds == DefOf(sc, g.templates, fs)
                           [<<(Len(g.templates) + x[1]) - 1, fs[x[1]].id>>]
                 value == NearestIn(sc, ds, "defs", x[2])[1]
             IN IF x[2] \notin SayingIn(sc, ds, "defs")
                THEN X[<<x[1] - 1, x[2]>>]
                ELSE IF value \in Variables THEN X[<<x[1] - 1, value>>]
                ELSE value
<1>7. ASSUME NEW X
      PROVE  Means(sc, g, fs, X) <=>
                 X = [x \in (0 .. n) \X Variables |-> Rule(X, x)]
  BY <1>1 DEF Means
<1>8. ASSUME NEW X, NEW i \in 0 .. n, NEW v \in Variables
      PROVE  Rule(X, <<i, v>>) =
                 IF i = 0 THEN Find(At[0], v)
                 ELSE IF v \notin SayingIn(sc, Ds[i], "defs") THEN X[<<i - 1, v>>]
                 ELSE IF NearestIn(sc, Ds[i], "defs", v)[1] \in Variables
                 THEN X[<<i - 1, NearestIn(sc, Ds[i], "defs", v)[1]>>]
                 ELSE NearestIn(sc, Ds[i], "defs", v)[1]
  <2>1. <<i, v>>[1] = i /\ <<i, v>>[2] = v
    OBVIOUS
  <2>2. i # 0 => i \in 1 .. n
    OBVIOUS
  <2>3. At[0] = g.variables
    BY <1>4
  <2>4. i # 0 => Ds[i] = DefOf(sc, g.templates, fs)
                             [<<(Len(g.templates) + i) - 1, fs[i].id>>]
    BY <1>3, <2>2
  <2>5. QED
    BY <2>1, <2>3, <2>4
<1> HIDE DEF Rule
<1>9. Means(sc, g, fs, W)
  <2>1. ASSUME NEW i \in 0 .. n, NEW v \in Variables
        PROVE  W[<<i, v>>] = Rule(W, <<i, v>>)
    <3>1. \A j \in 0 .. n : \A w \in Variables : W[<<j, w>>] = Find(At[j], w)
      BY <1>6
    <3>2. CASE i = 0
      BY <1>8, <3>1, <3>2
    <3>3. CASE i # 0
      <4>1. i \in 1 .. n /\ i - 1 \in 0 .. n
        BY <3>3
      <4>2. PICK said : said = NearestIn(sc, Ds[i], "defs", v)[1]
        OBVIOUS
      <4>3. Rule(W, <<i, v>>) =
                IF v \notin SayingIn(sc, Ds[i], "defs") THEN W[<<i - 1, v>>]
                ELSE IF said \in Variables THEN W[<<i - 1, said>>] ELSE said
        BY <1>8, <3>3, <4>2
      <4>4. Find(At[i], v) =
                IF v \notin SayingIn(sc, Ds[i], "defs") THEN Find(At[i - 1], v)
                ELSE Resolve(At[i - 1], said)
        BY <1>5, <4>1, <4>2
      <4>5. QED
        BY <3>1, <4>1, <4>3, <4>4 DEF Resolve
    <3>4. QED
      BY <3>2, <3>3
  <2>2. ASSUME NEW x \in (0 .. n) \X Variables PROVE W[x] = Rule(W, x)
    <3>1. PICK i \in 0 .. n, v \in Variables : x = <<i, v>>
      OBVIOUS
    <3>2. QED
      BY <2>1, <3>1
  <2>3. W = [x \in (0 .. n) \X Variables |-> W[x]]
    BY <1>6
  <2>4. W = [x \in (0 .. n) \X Variables |-> Rule(W, x)]
    BY <2>2, <2>3
  <2>5. QED
    BY <1>7, <2>4
<1>10. Means(sc, g, fs, V)
  BY <1>9 DEF MeaningOf
<1>11. ASSUME NEW i \in 0 .. n, NEW v \in Variables
       PROVE  V[<<i, v>>] = Rule(V, <<i, v>>)
  <2>1. V = [x \in (0 .. n) \X Variables |-> Rule(V, x)]
    BY <1>7, <1>10
  <2>2. <<i, v>> \in (0 .. n) \X Variables
    OBVIOUS
  <2>3. QED
    BY <2>1, <2>2
<1> DEFINE S == {i \in Nat : i <= n =>
                     \A v \in Variables : V[<<i, v>>] = Find(At[i], v)}
<1>12. 0 \in S
  <2>1. 0 \in 0 .. n
    OBVIOUS
  <2>2. \A v \in Variables : V[<<0, v>>] = Find(At[0], v)
    BY <1>8, <1>11, <2>1
  <2>3. QED
    BY <2>2
<1>13. ASSUME NEW i \in Nat, i \in S PROVE i + 1 \in S
  <2> SUFFICES ASSUME i + 1 <= n, NEW v \in Variables
               PROVE  V[<<i + 1, v>>] = Find(At[i + 1], v)
    OBVIOUS
  <2>1. PICK k \in 1 .. n : k = i + 1
    OBVIOUS
  <2>2. k # 0 /\ k - 1 = i /\ k \in 0 .. n /\ i <= n
    BY <2>1
  <2>3. \A w \in Variables : V[<<i, w>>] = Find(At[i], w)
    BY <1>13, <2>2
  <2>4. PICK said : said = NearestIn(sc, Ds[k], "defs", v)[1]
    OBVIOUS
  <2>5. Rule(V, <<k, v>>) =
            IF v \notin SayingIn(sc, Ds[k], "defs") THEN V[<<k - 1, v>>]
            ELSE IF said \in Variables THEN V[<<k - 1, said>>] ELSE said
    BY <1>8, <2>2, <2>4
  <2>6. Find(At[k], v) =
            IF v \notin SayingIn(sc, Ds[k], "defs") THEN Find(At[k - 1], v)
            ELSE Resolve(At[k - 1], said)
    BY <1>5, <2>4
  <2>7. V[<<k, v>>] = Rule(V, <<k, v>>)
    BY <1>11, <2>2
  <2>8. V[<<k, v>>] = Find(At[k], v)
    BY <2>2, <2>3, <2>5, <2>6, <2>7 DEF Resolve
  <2>9. QED
    BY <2>1, <2>8
<1> HIDE DEF S
<1>14. ASSUME NEW i \in 1 .. n, NEW v \in Variables
       PROVE  V[<<i, v>>] = Find(fs[i].inside.variables, v)
  <2>1. i \in Nat /\ i <= n /\ i \in 0 .. n /\ i # 0
    OBVIOUS
  <2>2. i \in S
    BY <1>12, <1>13, <2>1, Induction
  <2>3. V[<<i, v>>] = Find(At[i], v)
    BY <2>1, <2>2 DEF S
  <2>4. At[i] = fs[i].inside.variables
    BY <1>4, <2>1
  <2>5. QED
    BY <2>3, <2>4
<1>15. QED
  BY <1>2, <1>14 DEF Finding

-----------------------------------------------------------------------------
(* The theorems *)

BothInv == Inv /\ TakesInv

\* Scopes nest, and mean what the definitions say.
LEMMA BothHold ==
    ASSUME \A chain \in InnerCalls : Declarations(chain) = {}
    PROVE  Spec => []BothInv
<1>1. Init => BothInv
  <2>1. SUFFICES ASSUME Init PROVE BothInv
    OBVIOUS
  <2>2. Inv
    BY <2>1, InitInv
  <2>3. PICK sc \in Scripts : sc = script
    BY <2>1 DEF Init
  <2>4. PICK none : none = << >>
    OBVIOUS
  <2>5. /\ frames = none /\ globals.templates = none
        /\ IsSeq(none) /\ Len(none) = 0 /\ DOMAIN none = {}
    <3>1. << >> \in Seq({})
      OBVIOUS
    <3>2. QED
      BY <2>1, <2>4, <3>1 DEF Init, Scope, IsSeq
  <2>6. Context(none, none)
    BY <2>5 DEF Context
  <2>7. Meant(sc, none, none, none, Len(none))
    <3>1. ASSUME NEW D, NEW t
          PROVE  LevelsOf(sc, none, none, D, Len(none), t) = {}
                 /\ Knowing(none, t) = {}
      <4>1. 1 .. Len(none) = {}
        BY <2>5
      <4>2. QED
        BY <2>5, <4>1 DEF LevelsOf, Knowing
    <3>2. QED
      BY <3>1 DEF Meant, MeantAs
  <2>8. Right(sc, none, none)
    BY <2>5, <2>6, <2>7 DEF Right
  <2>9. QED
    BY <2>2, <2>3, <2>5, <2>8 DEF BothInv, TakesInv
<1>2. BothInv /\ [Next]_vars => BothInv'
  BY StepKeeps, TakesStep DEF BothInv
<1>3. QED
  BY <1>1, <1>2, PTL DEF Spec

\* Whatever was pushed, merged and popped before, a constructor gets the widget,
\* the properties and the kids that the scripts' definitions give, although
\* inflate() never sees the definitions, only the layers.
THEOREM ConstructorsTakeDefinitions ==
    ASSUME \A chain \in InnerCalls : Declarations(chain) = {}
    PROVE  Spec => []TakesAfterDefinitions
<1>1. BothInv => TakesAfterDefinitions
  <2>1. SUFFICES ASSUME BothInv PROVE TakesAfterDefinitions
    OBVIOUS
  <2>2. PICK sc, gt, fs : sc = script /\ gt = globals.templates /\ fs = frames
    OBVIOUS
  <2>3. Right(sc, gt, fs)
    BY <2>1, <2>2 DEF BothInv, TakesInv
  <2>4. ASSUME NEW i \in DOMAIN fs, NEW f, f = fs[i],
               NEW ds, ds = DefinitionsOf(i)
        PROVE  /\ f.widget = sc[Last(ds)].name
               /\ DOMAIN f.given = {p \in Saying(ds, "props") :
                                       Nearest(ds, "props", p) # Removed}
               /\ f.kids = FlattenSeq(Reverse([k \in DOMAIN ds |->
                                                   sc[ds[k]].kids]))
    <3>1. ds = DefOf(sc, gt, fs)[<<(Len(gt) + i) - 1, fs[i].id>>]
      BY <2>2, <2>4, DefinitionsAre DEF DefinitionsOf, Depth
    <3>2. Taken(sc, f, ds)
      BY <2>3, <2>4, <3>1 DEF Right
    <3>3. /\ \A x : Nearest(ds, "props", x) = NearestIn(sc, ds, "props", x)
          /\ Saying(ds, "props") = SayingIn(sc, ds, "props")
      BY <2>2, DefinitionsAre
    <3>4. QED
      BY <3>2, <3>3 DEF Taken, Given, KidsIn
  <2>5. QED
    BY <2>2, <2>4 DEF TakesAfterDefinitions
<1>2. QED
  BY <1>1, BothHold, PTL

\* A property that refers to a variable gets the value that the innermost
\* definition of it has, in terms of the variables outside of that definition;
\* a reference that no scope knows stays one.
THEOREM ReferencesReadInnermost ==
    ASSUME \A chain \in InnerCalls : Declarations(chain) = {}
    PROVE  Spec => []ReadsInnermost
<1>1. BothInv => ReadsInnermost
  <2>1. SUFFICES ASSUME BothInv PROVE ReadsInnermost
    OBVIOUS
  <2>2. PICK sc, g, fs : sc = script /\ g = globals /\ fs = frames
    OBVIOUS
  <2>3. PICK V : V = Meaning
    OBVIOUS
  <2>4. Right(sc, g.templates, fs) /\ Nested(fs, g)
    BY <2>1, <2>2 DEF BothInv, TakesInv, Inv, Calling
  <2>5. \A i \in DOMAIN fs : \A v \in Variables :
            V[<<i, v>>] = Find(fs[i].inside.variables, v)
    <3>1. V = MeaningOf(sc, g, fs)
      BY <2>2, <2>3, MeaningIs
    <3>2. Finding(V, fs)
      BY <2>4, <3>1, FindsMeaning
    <3>3. QED
      BY <3>2 DEF Finding
  <2>6. ASSUME NEW i \in DOMAIN fs, NEW p \in DOMAIN fs[i].given,
               NEW ds, ds = DefinitionsOf(i),
               NEW said, said = Nearest(ds, "props", p)
        PROVE  IF Capital(Overridden(ds, "props", p))
               THEN Behind(fs[i].given[p], said)
               ELSE fs[i].given[p] =
                        IF /\ Len(said) = 1 /\ said[1] \in Variables
                           /\ V[<<i, said[1]>>] # None
                        THEN <<V[<<i, said[1]>>]>> ELSE said
    <3>1. ds = DefOf(sc, g.templates, fs)
                   [<<(Len(g.templates) + i) - 1, fs[i].id>>]
      BY <2>2, <2>6, DefinitionsAre DEF DefinitionsOf, Depth
    <3>2. Given(sc, fs[i], ds)
      BY <2>4, <3>1 DEF Right, Taken
    <3>3. /\ said = NearestIn(sc, ds, "props", p)
          /\ Overridden(ds, "props", p) = OverriddenIn(sc, ds, "props", p)
      BY <2>2, <2>6, DefinitionsAre
    <3>4. PICK value : value = Find(fs[i].inside.variables, said[1])
      OBVIOUS
    <3>5. IF Capital(Overridden(ds, "props", p))
          THEN Behind(fs[i].given[p], said)
          ELSE fs[i].given[p] =
                   IF Len(said) = 1 /\ said[1] \in Variables /\ value # None
                   THEN <<value>> ELSE said
      BY <3>2, <3>3, <3>4 DEF Given
    <3>6. said[1] \in Variables => V[<<i, said[1]>>] = value
      BY <2>5, <3>4
    <3>7. QED
      BY <3>5, <3>6
  <2>7. QED
    BY <2>2, <2>3, <2>6 DEF ReadsInnermost
<1>2. QED
  BY <1>1, BothHold, PTL
=============================================================================

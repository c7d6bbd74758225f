--------------------------- MODULE RelayoutProofs ---------------------------
(***************************************************************************)
(* Theorems about Relayout, for every tree of widgets.                     *)
(*                                                                         *)
(* RelayoutInv: requests reach the root, in a tree that is one after every *)
(* change.  Settled, on top of it, is for lengths what LayoutSettles is,   *)
(* for each widget in a frame that has no request itself, so that it holds *)
(* in parts of the tree that wait for no layout while others do.           *)
(* CurrentInv is about textures: what has a request has none, so a change  *)
(* below a widget leaves no texture of it that could be old, and a layout  *)
(* that gives a widget another length marks all it is in as dirty.         *)
(***************************************************************************)
EXTENDS Relayout, FiniteSetTheorems, WellFoundedInduction, TLAPS

-----------------------------------------------------------------------------
(* The tree *)

FlagsOK ==
    /\ relayoutNeeded \in [Widgets -> BOOLEAN]
    /\ cacheDirty \in [Widgets -> BOOLEAN]

\* Each widget is in itself and in some of those that are above it.
Grounded ==
    /\ up \in [Widgets -> SUBSET Widgets]
    /\ \A w \in Widgets : w \in up[w] /\ up[w] \subseteq {w} \cup Above[w]

\* What a widget is in, other than itself, it is in through its container.
ByHome ==
    \A w \in Widgets : \A u \in up[w] \ {w} :
        w # Root /\ Home[w] \in up[w] /\ u \in up[Home[w]]

Nested == \A w \in Widgets : \A v \in up[w] : up[v] \subseteq up[w]

\* Of two widgets that hold the same one, one is in the other.
Chained == \A w \in Widgets : \A u, v \in up[w] : u \in up[v] \/ v \in up[u]

TreeInv == Grounded /\ ByHome /\ Nested /\ Chained

LEMMA Antisymmetric ==
    ASSUME RelayoutAssumption, Grounded,
           NEW u \in Widgets, NEW v \in up[u], u \in up[v]
    PROVE  u = v
<1>1. v \in Widgets
  BY DEF Grounded
<1>2. SUFFICES ASSUME u # v
               PROVE  FALSE
  OBVIOUS
<1>3. v \in Above[u] /\ u \in Above[v]
  BY <1>1, <1>2 DEF Grounded
<1>4. QED
  BY <1>1, <1>3 DEF RelayoutAssumption

\* What a widget that is in no container is in.
LEMMA Detached ==
    ASSUME Grounded, ByHome, NEW w \in Widgets, ~added(w)
    PROVE  up[w] = {w}
BY DEF Grounded, ByHome, added

LEMMA TreeInit ==
    ASSUME RelayoutAssumption, Init
    PROVE  TreeInv
<1>1. up = [w \in Widgets |-> {w} \cup Above[w]]
  BY DEF Init
<1>2. /\ Above \in [Widgets -> SUBSET Widgets] /\ Above[Root] = {}
      /\ \A w \in Widgets \ {Root} :
             Home[w] \in Widgets /\ Above[w] = {Home[w]} \cup Above[Home[w]]
      /\ \A w \in Widgets : \A v \in Above[w] : Above[v] \subseteq Above[w]
  BY DEF RelayoutAssumption
<1>3. Grounded
  BY <1>1, <1>2 DEF Grounded
<1>4. ByHome
  BY <1>1, <1>2 DEF ByHome
<1>5. Nested
  BY <1>1, <1>2 DEF Nested
<1>6. Chained
  BY <1>1, <1>2 DEF Chained, RelayoutAssumption
<1>7. QED
  BY <1>3, <1>4, <1>5, <1>6 DEF TreeInv

LEMMA AddKeepsTree ==
    ASSUME RelayoutAssumption, TreeInv, NEW w \in Removable, add(w)
    PROVE  TreeInv'
<1> DEFINE h == Home[w]
<1>1. /\ w \in Widgets /\ w # Root /\ h \in Widgets
      /\ Above \in [Widgets -> SUBSET Widgets]
      /\ w \notin Above[w] /\ Above[w] = {h} \cup Above[h]
      /\ \A x \in Widgets : \A v \in Above[x] : Above[v] \subseteq Above[x]
  BY DEF RelayoutAssumption
<1>2. /\ up \in [Widgets -> SUBSET Widgets]
      /\ \A x \in Widgets : x \in up[x] /\ up[x] \subseteq {x} \cup Above[x]
      /\ \A x \in Widgets : \A v \in up[x] : up[v] \subseteq up[x]
  BY DEF TreeInv, Grounded, Nested
<1>3. up[w] = {w}
  BY <1>1, Detached DEF TreeInv, add
<1>4. /\ up' \in [Widgets -> SUBSET Widgets]
      /\ \A x \in Widgets :
             up'[x] = IF w \in up[x] THEN up[x] \cup up[h] ELSE up[x]
  BY <1>1, <1>2 DEF add
<1>5. up[h] \subseteq Above[w]
  BY <1>1, <1>2
<1>6. \A z \in up[h] : z \in Widgets /\ up'[z] = up[z]
  BY <1>1, <1>2, <1>4, <1>5
<1> HIDE DEF h
<1>7. Grounded'
  <2>1. ASSUME NEW x \in Widgets
        PROVE  x \in up'[x] /\ up'[x] \subseteq {x} \cup Above[x]
    <3>1. CASE w \in up[x]
      <4>1. Above[w] \subseteq {x} \cup Above[x]
        BY <1>1, <1>2, <3>1
      <4>2. QED
        BY <1>2, <1>4, <1>5, <3>1, <4>1
    <3>2. CASE w \notin up[x]
      BY <1>2, <1>4, <3>2
    <3>3. QED
      BY <3>1, <3>2
  <2>2. QED
    BY <1>4, <2>1 DEF Grounded
<1>8. ByHome'
  <2>1. ASSUME NEW x \in Widgets, NEW u \in up'[x] \ {x}
        PROVE  x # Root /\ Home[x] \in up'[x] /\ u \in up'[Home[x]]
    <3>1. ASSUME NEW v \in up[x] \ {x}
          PROVE  x # Root /\ Home[x] \in up[x] /\ v \in up[Home[x]]
                 /\ Home[x] \in Widgets
      BY <1>2, <3>1 DEF TreeInv, ByHome
    <3>2. CASE u \in up[x]
      BY <1>4, <3>1, <3>2
    <3>3. CASE u \notin up[x] /\ x = w
      BY <1>1, <1>2, <1>3, <1>4, <1>6, <3>3 DEF h
    <3>4. CASE u \notin up[x] /\ x # w
      <4>1. w \in up[x] \ {x} /\ u \in up[h]
        BY <1>4, <3>4
      <4>2. QED
        BY <1>4, <3>1, <4>1
    <3>5. QED
      BY <3>2, <3>3, <3>4
  <2>2. QED
    BY <2>1 DEF ByHome
<1>9. Nested'
  <2>1. ASSUME NEW x \in Widgets, NEW v \in up'[x]
        PROVE  up'[v] \subseteq up'[x]
    <3>1. CASE v \in up[x]
      BY <1>2, <1>4, <3>1
    <3>2. CASE v \notin up[x]
      <4>1. w \in up[x] /\ v \in up[h]
        BY <1>4, <3>2
      <4>2. QED
        BY <1>1, <1>2, <1>4, <1>6, <4>1
    <3>3. QED
      BY <3>1, <3>2
  <2>2. QED
    BY <2>1 DEF Nested
<1>10. Chained'
  <2>1. ASSUME NEW x \in Widgets, NEW u \in up'[x], NEW v \in up'[x]
        PROVE  u \in up'[v] \/ v \in up'[u]
    <3>1. \A y, z \in up[x] : y \in up[z] \/ z \in up[y]
      BY DEF TreeInv, Chained
    <3>2. \A y, z \in up[h] : y \in up[z] \/ z \in up[y]
      BY <1>1 DEF TreeInv, Chained
    <3>3. \A z \in Widgets : up[z] \subseteq up'[z]
      BY <1>4
    <3>4. u \in Widgets /\ v \in Widgets
      BY <1>4
    <3>5. \A y \in up[x], z \in up[h] :
              w \in up[x] => y \in up'[z] \/ z \in up'[y]
      BY <1>2, <1>3, <1>4, <3>1
    <3>6. (u \in up[x] \/ (w \in up[x] /\ u \in up[h]))
          /\ (v \in up[x] \/ (w \in up[x] /\ v \in up[h]))
      BY <1>4
    <3>7. QED
      BY <3>1, <3>2, <3>3, <3>4, <3>5, <3>6
  <2>2. QED
    BY <2>1 DEF Chained
<1>11. QED
  BY <1>7, <1>8, <1>9, <1>10 DEF TreeInv

LEMMA RemoveKeepsTree ==
    ASSUME RelayoutAssumption, TreeInv, NEW w \in Removable, remove(w)
    PROVE  TreeInv'
<1>1. /\ w \in Widgets
      /\ Above \in [Widgets -> SUBSET Widgets]
      /\ \A x \in Widgets : x \notin Above[x]
      /\ \A x \in Widgets : \A v \in Above[x] : Above[v] \subseteq Above[x]
  BY DEF RelayoutAssumption
<1>2. /\ up \in [Widgets -> SUBSET Widgets]
      /\ \A x \in Widgets : x \in up[x] /\ up[x] \subseteq {x} \cup Above[x]
      /\ \A x \in Widgets : \A v \in up[x] : up[v] \subseteq up[x]
      /\ \A x \in Widgets : \A u, v \in up[x] : u \in up[v] \/ v \in up[u]
  BY DEF TreeInv, Grounded, Nested, Chained
<1>3. /\ up' \in [Widgets -> SUBSET Widgets]
      /\ \A x \in Widgets :
             up'[x] = IF w \in up[x] THEN up[x] \ Above[w] ELSE up[x]
  BY <1>2 DEF remove
<1>4. Grounded'
  BY <1>1, <1>2, <1>3 DEF Grounded
<1>5. ByHome'
  <2>1. ASSUME NEW x \in Widgets, NEW u \in up'[x] \ {x}
        PROVE  x # Root /\ Home[x] \in up'[x] /\ u \in up'[Home[x]]
    <3> DEFINE h == Home[x]
    <3>1. u \in up[x] \ {x} /\ (w \in up[x] => u \notin Above[w])
      BY <1>3
    <3>2. x # Root /\ h \in up[x] /\ u \in up[h] /\ h \in Widgets
      BY <1>2, <3>1 DEF TreeInv, ByHome
    <3> HIDE DEF h
    <3>3. w \in up[x] => h \notin Above[w]
      BY <1>1, <1>2, <3>1, <3>2
    <3>4. w \in up[h] => w \in up[x]
      BY <1>2, <3>2
    <3>5. h \in up'[x] /\ u \in up'[h]
      BY <1>3, <3>1, <3>2, <3>3, <3>4
    <3>6. QED
      BY <3>2, <3>5 DEF h
  <2>2. QED
    BY <2>1 DEF ByHome
<1>6. Nested'
  <2>1. ASSUME NEW x \in Widgets, NEW v \in up'[x], NEW y \in up'[v]
        PROVE  y \in up'[x]
    <3>1. v \in up[x] /\ v \in Widgets /\ y \in up[v] /\ y \in up[x]
      BY <1>2, <1>3
    <3>2. w \in up[x] => w \in up[v]
      BY <1>1, <1>2, <1>3, <3>1
    <3>3. QED
      BY <1>3, <3>1, <3>2
  <2>2. QED
    BY <2>1 DEF Nested
<1>7. Chained'
  <2>1. ASSUME NEW x \in Widgets, NEW u \in up'[x], NEW v \in up'[x],
               u \in up[v]
        PROVE  u \in up'[v]
    BY <1>2, <1>3, <2>1
  <2>2. \A x \in Widgets : \A u, v \in up'[x] : u \in up[v] \/ v \in up[u]
    BY <1>2, <1>3
  <2>3. QED
    BY <2>1, <2>2 DEF Chained
<1>8. QED
  BY <1>4, <1>5, <1>6, <1>7 DEF TreeInv

-----------------------------------------------------------------------------
(* Requests for layout *)

RelayoutInv == FlagsOK /\ TreeInv /\ RequestsReachRoot

\* After setRelayoutNeeded() the widget and all it is in have the flag, and so
\* has, as before, the container of whatever has it.
LEMMA RequestKeepsFlags ==
    ASSUME RelayoutAssumption, RelayoutInv,
           NEW w \in Widgets, setRelayoutNeeded(w)
    PROVE  /\ relayoutNeeded' \in [Widgets -> BOOLEAN]
           /\ relayoutNeeded'[w]
           /\ \A x \in Widgets \ {Root} :
                  added(x) /\ relayoutNeeded'[x] => relayoutNeeded'[Home[x]]
<1> DEFINE new == {v \in up[w] :
                      \A u \in up[w] : v \in up[u] => ~relayoutNeeded[u]}
<1>1. /\ relayoutNeeded \in [Widgets -> BOOLEAN]
      /\ relayoutNeeded' = [v \in Widgets |-> relayoutNeeded[v] \/ v \in new]
  BY DEF RelayoutInv, FlagsOK, setRelayoutNeeded
<1>2. /\ up \in [Widgets -> SUBSET Widgets]
      /\ \A x \in Widgets : x \in up[x]
      /\ \A x \in Widgets : \A v \in up[x] : up[v] \subseteq up[x]
      /\ \A u, v \in up[w] : u \in up[v] \/ v \in up[u]
  BY DEF RelayoutInv, TreeInv, Grounded, Nested, Chained
<1>3. \A u \in Widgets : \A v \in up[u] : u \in up[v] => u = v
  BY Antisymmetric DEF RelayoutInv, TreeInv
<1>4. relayoutNeeded'[w]
  <2>1. CASE relayoutNeeded[w]
    BY <1>1, <2>1
  <2>2. CASE ~relayoutNeeded[w]
    <3>1. w \in new
      BY <1>2, <1>3, <2>2
    <3>2. QED
      BY <1>1, <3>1
  <2>3. QED
    BY <2>1, <2>2
<1>5. ASSUME NEW x \in Widgets \ {Root}, added(x), relayoutNeeded'[x]
      PROVE  relayoutNeeded'[Home[x]]
  <2>1. Home[x] \in up[x] /\ Home[x] \in Widgets
    BY <1>2, <1>5 DEF added
  <2>2. CASE relayoutNeeded[x]
    BY <1>1, <1>5, <2>1, <2>2 DEF RelayoutInv, RequestsReachRoot
  <2>3. CASE ~relayoutNeeded[x]
    <3>1. x \in new
      BY <1>1, <1>5, <2>3
    <3>2. Home[x] \in up[w]
      BY <1>2, <2>1, <3>1
    <3>3. ASSUME NEW u \in up[w], Home[x] \in up[u], relayoutNeeded[u]
          PROVE  u = Home[x]
      <4>1. u \notin {x} /\ x \notin up[u]
        BY <1>2, <3>1, <3>3
      <4>2. u \in up[x] \ {x}
        BY <1>2, <3>1, <4>1
      <4>3. u \in up[Home[x]]
        BY <4>2 DEF RelayoutInv, TreeInv, ByHome
      <4>4. QED
        BY <1>3, <2>1, <3>3, <4>3
    <3>4. Home[x] \in new \/ relayoutNeeded[Home[x]]
      BY <3>2, <3>3
    <3>5. QED
      BY <1>1, <2>1, <3>4
  <2>4. QED
    BY <2>2, <2>3
<1>6. QED
  BY <1>1, <1>4, <1>5

\* A layout takes flags away from the top down.
LEMMA LayoutKeepsFlags ==
    ASSUME RelayoutInv, NEW top \in Widgets, NEW dims, up' = up,
           \/ layOut(top, dims, LaidOut(top, dims))
           \/ layOut(top, dims, {})
    PROVE  relayoutNeeded' \in [Widgets -> BOOLEAN] /\ RequestsReachRoot'
<1>1. PICK laid \in {LaidOut(top, dims), {}} : layOut(top, dims, laid)
  OBVIOUS
<1>2. /\ relayoutNeeded \in [Widgets -> BOOLEAN]
      /\ relayoutNeeded' =
             [w \in Widgets |-> relayoutNeeded[w] /\ w \notin laid]
  BY <1>1 DEF RelayoutInv, FlagsOK, layOut
<1>3. up \in [Widgets -> SUBSET Widgets]
      /\ \A x \in Widgets : \A v \in up[x] : up[v] \subseteq up[x]
  BY DEF RelayoutInv, TreeInv, Grounded, Nested
<1>4. ASSUME NEW x \in Widgets \ {Root}, Home[x] \in up[x],
             relayoutNeeded[x], Home[x] \in laid
      PROVE  x \in laid
  <2> DEFINE ok(u) == relayoutNeeded[u] \/ (InFrame(u) /\ dims[u] # dim[u])
  <2>1. /\ laid = LaidOut(top, dims)
        /\ laid = {w \in Under(top) :
                      \A u \in (up[w] \cap Under(top)) \ {top} : ok(u)}
    BY <1>1, <1>4 DEF LaidOut
  <2>2. x \in Under(top) /\ Home[x] \in Widgets
    BY <1>3, <1>4, <2>1 DEF Under
  <2>3. \A u \in up[x] : u = x \/ u \in up[Home[x]]
    BY DEF RelayoutInv, TreeInv, ByHome
  <2>4. ok(x)
    BY <1>4
  <2> HIDE DEF ok
  <2>5. QED
    BY <1>4, <2>1, <2>2, <2>3, <2>4
<1>5. RequestsReachRoot'
  <2>1. ASSUME NEW x \in Widgets \ {Root}, added(x)', relayoutNeeded'[x]
        PROVE  relayoutNeeded'[Home[x]]
    <3>1. Home[x] \in up[x] /\ Home[x] \in Widgets
      BY <1>3, <2>1 DEF added
    <3>2. relayoutNeeded[x] /\ x \notin laid
      BY <1>2, <2>1
    <3>3. relayoutNeeded[Home[x]]
      BY <3>1, <3>2 DEF RelayoutInv, RequestsReachRoot, added
    <3>4. Home[x] \notin laid
      BY <1>4, <3>1, <3>2
    <3>5. QED
      BY <1>2, <3>1, <3>3, <3>4
  <2>2. QED
    BY <2>1 DEF RequestsReachRoot
<1>6. QED
  BY <1>2, <1>5

\* The flags of caches are always Boolean.
LEMMA FlagsTyped ==
    ASSUME FlagsOK, [Next]_vars
    PROVE  cacheDirty' \in [Widgets -> BOOLEAN]
BY DEF FlagsOK, Next, vars, setText, setColor, add, remove, getLayoutParams,
       resize, render, renderInternal

LEMMA RelayoutStep ==
    ASSUME RelayoutAssumption, RelayoutInv, [Next]_vars
    PROVE  RelayoutInv'
<1>1. Home \in [Widgets \ {Root} -> Widgets]
      /\ Removable \subseteq Widgets \ {Root}
      /\ Adjustable \subseteq Widgets \ {Root} /\ Root \in Widgets
      /\ Leaves \subseteq Widgets
  BY DEF RelayoutAssumption, Leaves
<1>2. SUFFICES ASSUME TRUE
               PROVE  /\ relayoutNeeded' \in [Widgets -> BOOLEAN]
                      /\ TreeInv' /\ RequestsReachRoot'
  BY FlagsTyped DEF RelayoutInv, FlagsOK
<1>3. ASSUME up' = up
      PROVE  TreeInv'
  BY <1>3 DEF RelayoutInv, TreeInv, Grounded, ByHome, Nested, Chained
<1>4. ASSUME NEW w \in Widgets, setRelayoutNeeded(w), up' = up
      PROVE  relayoutNeeded' \in [Widgets -> BOOLEAN] /\ RequestsReachRoot'
  BY <1>4, RequestKeepsFlags DEF RequestsReachRoot, added
<1>5. ASSUME NEW w \in Leaves, NEW c \in Contents[w],
             setText(w, c) \/ setColor(w, c)
      PROVE  /\ relayoutNeeded' \in [Widgets -> BOOLEAN]
             /\ TreeInv' /\ RequestsReachRoot'
  <2>1. CASE setText(w, c)
    BY <1>1, <1>3, <1>4, <2>1 DEF setText
  <2>2. CASE setColor(w, c)
    BY <1>3, <2>2 DEF setColor, RelayoutInv, FlagsOK, RequestsReachRoot, added
  <2>3. QED
    BY <1>5, <2>1, <2>2
<1>6. ASSUME NEW w \in Removable, add(w)
      PROVE  /\ relayoutNeeded' \in [Widgets -> BOOLEAN]
             /\ TreeInv' /\ RequestsReachRoot'
  <2>1. TreeInv'
    BY <1>6, AddKeepsTree DEF RelayoutInv
  <2>2. /\ relayoutNeeded' \in [Widgets -> BOOLEAN] /\ relayoutNeeded'[Home[w]]
        /\ \A x \in Widgets \ {Root} :
               Home[x] \in up[x] /\ relayoutNeeded'[x] =>
                   relayoutNeeded'[Home[x]]
    BY <1>1, <1>6, RequestKeepsFlags DEF add, added
  <2>3. ASSUME NEW x \in Widgets \ {Root}, Home[x] \in up'[x], x # w
        PROVE  Home[x] \in up[x]
    <3>1. up'[x] = IF w \in up[x] THEN up[x] \cup up[Home[w]] ELSE up[x]
      BY <1>6 DEF add
    <3>2. w \in up[x] \ {x} => Home[x] \in up[x]
      BY DEF RelayoutInv, TreeInv, ByHome
    <3>3. QED
      BY <2>3, <3>1, <3>2
  <2>4. QED
    BY <2>1, <2>2, <2>3 DEF RequestsReachRoot, added
<1>7. ASSUME NEW w \in Removable, remove(w)
      PROVE  /\ relayoutNeeded' \in [Widgets -> BOOLEAN]
             /\ TreeInv' /\ RequestsReachRoot'
  <2>1. TreeInv'
    BY <1>7, RemoveKeepsTree DEF RelayoutInv
  <2>2. /\ relayoutNeeded' \in [Widgets -> BOOLEAN]
        /\ \A x \in Widgets \ {Root} :
               Home[x] \in up[x] /\ relayoutNeeded'[x] =>
                   relayoutNeeded'[Home[x]]
    BY <1>1, <1>7, RequestKeepsFlags DEF remove, added
  <2>3. \A x \in Widgets : up'[x] \subseteq up[x]
    BY <1>7 DEF remove
  <2>4. QED
    BY <2>1, <2>2, <2>3 DEF RequestsReachRoot, added
<1>8. ASSUME NEW w \in Adjustable, NEW p \in {"min", "max"},
             getLayoutParams(w, p)
      PROVE  /\ relayoutNeeded' \in [Widgets -> BOOLEAN]
             /\ TreeInv' /\ RequestsReachRoot'
  BY <1>1, <1>3, <1>4, <1>8 DEF getLayoutParams
<1>9. ASSUME NEW w \in Widgets, NEW d \in Lengths, resize(w, d)
      PROVE  /\ relayoutNeeded' \in [Widgets -> BOOLEAN]
             /\ TreeInv' /\ RequestsReachRoot'
  BY <1>3, <1>9, LayoutKeepsFlags DEF resize
<1>10. CASE render
  BY <1>1, <1>3, <1>10, LayoutKeepsFlags DEF render
<1>11. CASE UNCHANGED vars
  BY <1>3, <1>11 DEF vars, RelayoutInv, FlagsOK, RequestsReachRoot, added
<1>12. QED
  BY <1>5, <1>6, <1>7, <1>8, <1>9, <1>10, <1>11 DEF Next

LEMMA RelayoutInvariant == Spec => []RelayoutInv
<1>1. Init => RelayoutInv
  BY TreeInit, RelayoutAssumption
     DEF Init, RelayoutInv, FlagsOK, RequestsReachRoot
<1>2. RelayoutInv /\ [Next]_vars => RelayoutInv'
  BY RelayoutStep, RelayoutAssumption
<1>3. QED
  BY <1>1, <1>2, PTL DEF Spec

\* A request for layout is known to all that the widget is in, whatever is
\* laid out, added and removed.
THEOREM RequestsAlwaysReachRoot == Spec => []RequestsReachRoot
<1>1. RelayoutInv => RequestsReachRoot
  BY DEF RelayoutInv
<1>2. QED
  BY <1>1, RelayoutInvariant, PTL

-----------------------------------------------------------------------------
(* Textures *)

\* renderInternal() leaves no cache clean that has no texture, when there was
\* none before.
LEMMA DrawingMakesTextures ==
    ASSUME NEW dims, NEW dirty \in [Widgets -> BOOLEAN],
           renderInternal(dims, dirty),
           NEW w \in Widgets, ~cacheDirty'[w], ~cacheTex'[w].exists
    PROVE  ~dirty[w] /\ ~cacheTex[w].exists
<1> DEFINE drawn == Drawn(dims, dirty)
<1>1. cacheDirty'[w] = (dirty[w] /\ w \notin Cached \cap drawn)
  BY DEF renderInternal
<1>2. CASE w \in Cached \cap drawn /\ dirty[w]
  <2>1. cacheTex'[w].exists = TRUE
    BY <1>2 DEF renderInternal
  <2>2. QED
    BY <2>1
<1>3. CASE ~(w \in Cached \cap drawn /\ dirty[w])
  <2>1. cacheTex'[w] = cacheTex[w]
    BY <1>3 DEF renderInternal
  <2>2. QED
    BY <1>1, <1>3, <2>1
<1>4. QED
  BY <1>2, <1>3

\* A request drops textures only of widgets that it gives the flag.
LEMMA RequestDropsTextures ==
    ASSUME FlagsOK, NEW w \in Widgets, setRelayoutNeeded(w),
           cacheDirty' = cacheDirty, Cached \subseteq Widgets, CacheHasTexture
    PROVE  CacheHasTexture'
<1> DEFINE new == {v \in up[w] :
                      \A u \in up[w] : v \in up[u] => ~relayoutNeeded[u]}
<1>1. ASSUME NEW x \in Cached, ~cacheDirty'[x], ~cacheTex'[x].exists
      PROVE  relayoutNeeded'[x]
  <2>1. /\ relayoutNeeded'[x] = (relayoutNeeded[x] \/ x \in new)
        /\ cacheTex'[x] = IF x \in new THEN NoTexture ELSE cacheTex[x]
    BY DEF setRelayoutNeeded
  <2>2. CASE x \in new
    BY <2>1, <2>2
  <2>3. CASE x \notin new
    BY <1>1, <2>1, <2>3 DEF CacheHasTexture
  <2>4. QED
    BY <2>2, <2>3
<1>2. QED
  BY <1>1 DEF CacheHasTexture

\* When a frame takes a request from a widget, it marks its cache as dirty.
LEMMA FramesClearCaches ==
    ASSUME TreeInv, NEW top \in Widgets, NEW laid \in SUBSET Widgets,
           NEW w \in laid, w # top, InFrame(w)
    PROVE  w \in Cleared(top, laid)
BY DEF TreeInv, Grounded, Cleared, clearCache

LEMMA LaidOutTyped ==
    ASSUME NEW top, NEW dims
    PROVE  LaidOut(top, dims) \in SUBSET Widgets
BY DEF LaidOut, Under

LEMMA TextureStep ==
    ASSUME RelayoutAssumption, RelayoutInv, [Next]_vars, CacheHasTexture,
           \A w \in Cached : InFrame(w)
    PROVE  CacheHasTexture'
<1>1. Home \in [Widgets \ {Root} -> Widgets]
      /\ Removable \subseteq Widgets \ {Root}
      /\ Adjustable \subseteq Widgets \ {Root} /\ Root \in Widgets
      /\ Leaves \subseteq Widgets /\ Cached \subseteq Widgets
  BY DEF RelayoutAssumption, Leaves
<1>2. FlagsOK /\ TreeInv
  BY DEF RelayoutInv
<1>3. ASSUME NEW w \in Widgets, setRelayoutNeeded(w), cacheDirty' = cacheDirty
      PROVE  CacheHasTexture'
  BY <1>1, <1>2, <1>3, RequestDropsTextures
<1>4. ASSUME NEW w \in Leaves, NEW c \in Contents[w],
             setText(w, c) \/ setColor(w, c)
      PROVE  CacheHasTexture'
  <2>1. CASE setText(w, c)
    BY <1>1, <1>3, <2>1 DEF setText
  <2>2. CASE setColor(w, c)
    <3>1. \A x \in Cached : cacheDirty[x] => cacheDirty'[x]
      BY <1>1, <2>2 DEF setColor
    <3>2. relayoutNeeded' = relayoutNeeded /\ cacheTex' = cacheTex
      BY <2>2 DEF setColor
    <3>3. QED
      BY <3>1, <3>2 DEF CacheHasTexture
  <2>3. QED
    BY <1>4, <2>1, <2>2
<1>5. ASSUME NEW w \in Removable, add(w) \/ remove(w)
      PROVE  CacheHasTexture'
  BY <1>1, <1>3, <1>5 DEF add, remove
<1>6. ASSUME NEW w \in Adjustable, NEW p \in {"min", "max"},
             getLayoutParams(w, p)
      PROVE  CacheHasTexture'
  BY <1>1, <1>3, <1>6 DEF getLayoutParams
<1>7. ASSUME NEW top \in Widgets, NEW d \in Lengths, ~InFrame(top),
             resize(top, d)
      PROVE  CacheHasTexture'
  <2> DEFINE laid == LaidOut(top, dimForWidget(top, d))
             cleared == clearCache(top) \cup Cleared(top, laid)
  <2>1. /\ relayoutNeeded' =
               [w \in Widgets |-> relayoutNeeded[w] /\ w \notin laid]
        /\ cacheDirty' = [v \in Widgets |-> cacheDirty[v] \/ v \in cleared]
        /\ cacheTex' = cacheTex
    BY <1>7 DEF resize, layOut
  <2>2. laid \in SUBSET Widgets
    BY LaidOutTyped
  <2>3. \A w \in laid : w # top /\ InFrame(w) => w \in cleared
    BY <1>2, <2>2, FramesClearCaches
  <2> HIDE DEF laid, cleared
  <2>4. ASSUME NEW w \in Cached, ~cacheDirty'[w], ~cacheTex'[w].exists
        PROVE  relayoutNeeded'[w]
    <3>1. relayoutNeeded[w] /\ w \notin cleared
      BY <1>1, <2>1, <2>4 DEF CacheHasTexture
    <3>2. InFrame(w) /\ w # top
      BY <1>7
    <3>3. QED
      BY <1>1, <2>1, <2>3, <3>1, <3>2
  <2>5. QED
    BY <2>4 DEF CacheHasTexture
<1>8. ASSUME render
      PROVE  CacheHasTexture'
  <2> DEFINE dims == dimForWidget(Root, dim[Root])
             laid == IF relayoutNeeded[Root] THEN LaidOut(Root, dims) ELSE {}
             dirty == [w \in Widgets |->
                          cacheDirty[w] \/ w \in Cleared(Root, laid)]
  <2>1. layOut(Root, dims, laid) /\ renderInternal(dim', dirty)
    BY <1>8 DEF render
  <2>2. laid \in SUBSET Widgets
    BY LaidOutTyped
  <2>3. \A w \in laid : w # Root /\ InFrame(w) => w \in Cleared(Root, laid)
    BY <1>1, <1>2, <2>2, FramesClearCaches
  <2>4. relayoutNeeded' =
            [w \in Widgets |-> relayoutNeeded[w] /\ w \notin laid]
    BY <2>1 DEF layOut
  <2>5. dirty \in [Widgets -> BOOLEAN]
    BY <1>2 DEF FlagsOK
  <2>6. \A w \in Widgets :
            dirty[w] = (cacheDirty[w] \/ w \in Cleared(Root, laid))
    OBVIOUS
  <2> HIDE DEF laid, dirty, dims
  <2>7. ASSUME NEW w \in Cached, ~cacheDirty'[w], ~cacheTex'[w].exists
        PROVE  relayoutNeeded'[w]
    <3>1. ~dirty[w] /\ ~cacheTex[w].exists
      BY <1>1, <2>1, <2>5, <2>7, DrawingMakesTextures
    <3>2. relayoutNeeded[w] /\ w \notin Cleared(Root, laid)
      BY <1>1, <2>6, <3>1 DEF CacheHasTexture
    <3>3. w \notin laid
      BY <2>3, <3>2 DEF InFrame
    <3>4. QED
      BY <1>1, <2>4, <3>2, <3>3
  <2>8. QED
    BY <2>7 DEF CacheHasTexture
<1>9. CASE UNCHANGED vars
  BY <1>9 DEF vars, CacheHasTexture
<1>10. QED
  BY <1>4, <1>5, <1>6, <1>7, <1>8, <1>9 DEF Next

\* A cached widget is drawn from a texture that is there, when each of them is
\* in a container that resizes its children, as Frame does.  (The property
\* fails for one in a plain Container.)
THEOREM FramedCachesHaveTextures ==
    ASSUME \A w \in Cached : InFrame(w)
    PROVE  Spec => []CacheHasTexture
<1>1. Init => CacheHasTexture
  BY RelayoutAssumption DEF RelayoutAssumption, Init, CacheHasTexture
<1>2. RelayoutInv /\ CacheHasTexture /\ [Next]_vars => CacheHasTexture'
  BY TextureStep, RelayoutAssumption
<1>3. QED
  BY <1>1, <1>2, RelayoutInvariant, PTL DEF Spec

-----------------------------------------------------------------------------
(* Up and down the tree *)

\* How deep a widget is when all are in their containers.
Level(w) == Cardinality(Above[w])

LEMMA HomeIsHigher ==
    ASSUME NEW w \in Widgets
    PROVE  /\ Level(w) \in Nat
           /\ w # Root => /\ Home[w] \in Widgets
                          /\ Level(Home[w]) \in Nat
                          /\ Level(Home[w]) < Level(w)
<1>1. /\ IsFiniteSet(Widgets) /\ Above \in [Widgets -> SUBSET Widgets]
      /\ Home \in [Widgets \ {Root} -> Widgets]
      /\ \A v \in Widgets \ {Root} : Above[v] = {Home[v]} \cup Above[Home[v]]
      /\ \A v \in Widgets : v \notin Above[v]
  BY RelayoutAssumption DEF RelayoutAssumption
<1>2. ASSUME NEW v \in Widgets
      PROVE  IsFiniteSet(Above[v]) /\ Cardinality(Above[v]) \in Nat
  BY <1>1, FS_Subset, FS_CardinalityType
<1>3. ASSUME w # Root
      PROVE  /\ Home[w] \in Widgets
             /\ Cardinality(Above[Home[w]]) < Cardinality(Above[w])
  <2>1. /\ Home[w] \in Widgets /\ Home[w] \notin Above[Home[w]]
        /\ Above[w] = Above[Home[w]] \cup {Home[w]}
    BY <1>1, <1>3
  <2>2. Cardinality(Above[w]) = Cardinality(Above[Home[w]]) + 1
    BY <1>2, <2>1, FS_AddElement
  <2> QED
    BY <1>2, <2>1, <2>2
<1> QED
  BY <1>2, <1>3 DEF Level

LEMMA HigherLevel ==
    ASSUME TreeInv, NEW w \in Widgets, NEW u \in up[w], u # w
    PROVE  Level(u) < Level(w) /\ Level(w) \in Nat /\ Level(u) \in Nat
<1>1. /\ u \in Above[w] /\ u \in Widgets /\ Above[u] \subseteq Above[w]
      /\ u \notin Above[u] /\ IsFiniteSet(Above[w])
  <2>1. u \in Above[w] /\ u \in Widgets /\ Above[w] \subseteq Widgets
    BY RelayoutAssumption DEF RelayoutAssumption, TreeInv, Grounded
  <2> QED
    BY <2>1, RelayoutAssumption, FS_Subset DEF RelayoutAssumption
<1>2. /\ Cardinality(Above[u]) <= Cardinality(Above[w])
      /\ Cardinality(Above[u]) # Cardinality(Above[w])
  BY <1>1, FS_Subset
<1>3. Level(w) \in Nat /\ Level(u) \in Nat
  BY <1>1, HomeIsHigher
<1> QED
  BY <1>2, <1>3 DEF Level

\* Of some widgets one is the highest.
LEMMA Highest ==
    ASSUME NEW T \in SUBSET Widgets, T # {}
    PROVE  \E x \in T : \A y \in T : Level(x) <= Level(y)
<1> DEFINE L == {Level(x) : x \in T}
           R == OpToRel(<, Nat)
<1>1. L \subseteq Nat /\ L # {}
  BY HomeIsHigher
<1>2. IsWellFoundedOn(R, Nat)
  BY NatLessThanWellFounded
<1>3. \A x, y \in Nat : y < x => <<y, x>> \in R
  BY DEF OpToRel
<1> HIDE DEF L, R
<1>4. PICK m \in L : \A y \in L : ~(<<y, m>> \in R)
  BY <1>1, <1>2, WFMin
<1>5. \A y \in L : m <= y
  <2> SUFFICES ASSUME NEW y \in L PROVE m <= y
    OBVIOUS
  <2>1. m \in Nat /\ y \in Nat
    BY <1>1
  <2>2. ~(y < m)
    BY <1>3, <1>4, <2>1
  <2> QED
    BY <2>1, <2>2
<1>6. PICK x \in T : Level(x) = m
  BY <1>4 DEF L
<1> QED
  BY <1>5, <1>6 DEF L

\* What has a flag that goes up to the container of whatever has it, has it
\* all the way up.
LEMMA FlagsGoUp ==
    ASSUME TreeInv, NEW flags,
           \A x \in Widgets \ {Root} : added(x) /\ flags[x] => flags[Home[x]],
           NEW u \in Widgets, flags[u], NEW v \in up[u]
    PROVE  flags[v]
<1> DEFINE T == {x \in Widgets : flags[x] /\ v \in up[x]}
<1>1. PICK x \in T : \A y \in T : Level(x) <= Level(y)
  BY Highest
<1>2. x \in Widgets /\ flags[x] /\ v \in up[x]
  BY <1>1
<1>3. CASE x = v
  BY <1>2, <1>3
<1>4. CASE x # v
  <2>1. x # Root /\ Home[x] \in up[x] /\ v \in up[Home[x]]
    BY <1>2, <1>4 DEF TreeInv, ByHome
  <2>2. Home[x] \in Widgets /\ Level(Home[x]) < Level(x) /\ Level(x) \in Nat
        /\ Level(Home[x]) \in Nat
    BY <1>2, <2>1, HomeIsHigher
  <2>3. flags[Home[x]]
    BY <1>2, <2>1 DEF added
  <2>4. Home[x] \in T
    BY <2>1, <2>2, <2>3
  <2>5. Level(x) <= Level(Home[x])
    BY <1>1, <2>4
  <2> QED
    BY <2>2, <2>5
<1> QED
  BY <1>3, <1>4

\* After a request that w makes, each widget that w is in has the flag, and
\* what has none is not in question.
LEMMA RequestTellsAll ==
    ASSUME RelayoutInv, NEW w \in Widgets, setRelayoutNeeded(w)
    PROVE  /\ \A v \in up[w] : relayoutNeeded'[v]
           /\ \A v \in Widgets : ~relayoutNeeded'[v] =>
                  v \notin up[w] /\ cacheTex'[v] = cacheTex[v]
           /\ \A v \in Widgets : relayoutNeeded[v] => relayoutNeeded'[v]
<1>1. /\ relayoutNeeded' \in [Widgets -> BOOLEAN] /\ relayoutNeeded'[w]
      /\ \A x \in Widgets \ {Root} :
             added(x) /\ relayoutNeeded'[x] => relayoutNeeded'[Home[x]]
  BY RequestKeepsFlags, RelayoutAssumption
<1>2. TreeInv /\ relayoutNeeded \in [Widgets -> BOOLEAN]
  BY DEF RelayoutInv, FlagsOK
<1>3. ASSUME NEW v \in up[w] PROVE relayoutNeeded'[v]
  BY <1>1, <1>2, FlagsGoUp
<1>4. ASSUME NEW v \in Widgets, ~relayoutNeeded'[v]
      PROVE  v \notin up[w] /\ cacheTex'[v] = cacheTex[v]
  BY <1>3, <1>4 DEF setRelayoutNeeded
<1>5. ASSUME NEW v \in Widgets, relayoutNeeded[v] PROVE relayoutNeeded'[v]
  BY <1>5 DEF setRelayoutNeeded
<1> QED
  BY <1>3, <1>4, <1>5

\* What v looks like inside is not touched when a widget is taken from, or
\* put into, a container that is not in v.
LEMMA ElsewhereSame ==
    ASSUME TreeInv, NEW w \in Removable, add(w) \/ remove(w),
           NEW v \in Widgets, v \notin up[Home[w]]
    PROVE  /\ Under(v)' = Under(v)
           /\ \A x \in Under(v) : up'[x] \cap Under(v) = up[x] \cap Under(v)
<1> DEFINE h == Home[w]
<1>1. /\ w \in Widgets /\ w # Root /\ h \in Widgets
      /\ \A x \in Widgets : x \notin Above[x]
      /\ \A x \in Widgets : \A y \in Above[x] : Above[y] \subseteq Above[x]
  BY RelayoutAssumption DEF RelayoutAssumption
<1>2. /\ up \in [Widgets -> SUBSET Widgets]
      /\ \A x \in Widgets : x \in up[x] /\ up[x] \subseteq {x} \cup Above[x]
      /\ \A x \in Widgets : \A y \in up[x] : up[y] \subseteq up[x]
      /\ \A x \in Widgets : \A y, z \in up[x] : y \in up[z] \/ z \in up[y]
      /\ \A x \in Widgets : \A u \in up[x] \ {x} : u \in up[Home[x]]
  BY DEF TreeInv, Grounded, Nested, Chained, ByHome
<1>3. \A x \in Widgets : x \in Under(v) <=> v \in up[x]
  BY DEF Under
<1>4. \A x \in Widgets : x \in Under(v)' <=> v \in up'[x]
  BY DEF Under
<1>5. Under(v) \subseteq Widgets /\ Under(v)' \subseteq Widgets
  BY DEF Under
<1> SUFFICES /\ \A x \in Widgets : v \in up'[x] <=> v \in up[x]
             /\ \A x, u \in Widgets : v \in up[x] /\ v \in up[u] =>
                    (u \in up'[x] <=> u \in up[x])
  <2>1. \A x \in Widgets : up'[x] \subseteq Widgets
    BY <1>1, <1>2 DEF add, remove
  <2> QED
    BY <1>2, <1>3, <1>4, <1>5, <2>1
<1> HIDE DEF h
<1>6. CASE add(w)
  <2>1. \A x \in Widgets :
            up'[x] = IF w \in up[x] THEN up[x] \cup up[h] ELSE up[x]
    BY <1>6 DEF add, h
  <2>2. v \notin up[h]
    BY DEF h
  <2>3. \A u \in up[h] : v \notin up[u]
    BY <1>1, <1>2, <2>2
  <2> QED
    BY <2>1, <2>2, <2>3
<1>7. CASE remove(w)
  <2>1. \A x \in Widgets :
            up'[x] = IF w \in up[x] THEN up[x] \ Above[w] ELSE up[x]
    BY <1>7 DEF remove
  <2>2. ASSUME NEW x \in Widgets, w \in up[x], v \in up[x], v \in Above[w]
        PROVE  FALSE
    <3>1. w \notin up[v]
      BY <1>1, <1>2, <2>2
    <3>2. v \in up[w] \ {w}
      BY <1>1, <1>2, <2>2, <3>1
    <3> QED
      BY <1>1, <1>2, <3>2 DEF h
  <2>3. ASSUME NEW u \in Widgets, u \in Above[w], v \in up[u]
        PROVE  v \in Above[w]
    BY <1>1, <1>2, <2>3
  <2>4. ASSUME NEW x \in Widgets, v \in up[x]
        PROVE  v \in up'[x]
    BY <2>1, <2>2, <2>4
  <2>5. ASSUME NEW x \in Widgets, NEW u \in up[x], v \in up[u], v \in up[x]
        PROVE  u \in up'[x]
    BY <1>2, <2>1, <2>2, <2>3, <2>5
  <2>6. \A x \in Widgets : up'[x] \subseteq up[x]
    BY <2>1
  <2> QED
    BY <2>4, <2>5, <2>6
<1> QED
  BY <1>6, <1>7

-----------------------------------------------------------------------------
(* Lengths *)

\* Induction, with the set of the numbers that have the property.
LEMMA Induction ==
    ASSUME NEW S, 0 \in S, \A n \in Nat : n \in S => n + 1 \in S
    PROVE  Nat \subseteq S
<1> SUFFICES ASSUME NEW k \in Nat, k \notin S PROVE FALSE
  OBVIOUS
<1> DEFINE T == {n \in Nat : n \notin S}
           R == OpToRel(<, Nat)
<1>1. T \subseteq Nat /\ T # {}
  OBVIOUS
<1>2. IsWellFoundedOn(R, Nat)
  BY NatLessThanWellFounded
<1>3. \A x, y \in Nat : y < x => <<y, x>> \in R
  BY DEF OpToRel
<1> HIDE DEF T, R
<1>4. PICK m \in T : \A y \in T : ~(<<y, m>> \in R)
  BY <1>1, <1>2, WFMin
<1>5. m \in Nat /\ m \notin S
  BY <1>4 DEF T
<1>6. m - 1 \in Nat /\ m - 1 < m
  BY <1>5
<1>7. m - 1 \notin T
  BY <1>3, <1>4, <1>5, <1>6
<1>8. m - 1 \in S
  BY <1>6, <1>7 DEF T
<1> QED
  BY <1>5, <1>6, <1>8

\* The length v gets when "top" has length d and the others those of f.
Aim(f, v, top, d) ==
    IF v = top THEN d
    ELSE IF ~InFrame(v) THEN dim[v]
    ELSE IF lp[v] = "min" THEN measure(v) ELSE f[Home[v]]

\* The lengths down to level n are what those above make them.
Fits(f, n, top, d) ==
    /\ f = [v \in Widgets |-> f[v]]
    /\ \A v \in Widgets : Level(v) < n => f[v] = Aim(f, v, top, d)

\* dimForWidget() is defined, and gives each widget its length.
LEMMA AllGetLengths ==
    ASSUME NEW top, NEW d, NEW v \in Widgets
    PROVE  dimForWidget(top, d)[v] = Aim(dimForWidget(top, d), v, top, d)
<1> DEFINE S == {n \in Nat : \E f : Fits(f, n, top, d)}
           N == Cardinality(Widgets) + 1
           IsTarget(f) == f = [x \in Widgets |-> Aim(f, x, top, d)]
<1>1. 0 \in S
  <2> DEFINE f == [x \in Widgets |-> 0]
  <2>1. Fits(f, 0, top, d)
    BY HomeIsHigher DEF Fits
  <2> QED
    BY <2>1
<1>2. ASSUME NEW n \in Nat, n \in S PROVE n + 1 \in S
  <2>1. PICK f : Fits(f, n, top, d)
    BY <1>2
  <2> DEFINE g == [x \in Widgets |->
                     IF Level(x) = n THEN Aim(f, x, top, d) ELSE f[x]]
  <2>2. ASSUME NEW x \in Widgets, Level(x) < n + 1
        PROVE  g[x] = Aim(g, x, top, d)
    <3>1. g[x] = Aim(f, x, top, d)
      BY <2>1, <2>2, HomeIsHigher DEF Fits
    <3>2. InFrame(x) => g[Home[x]] = f[Home[x]]
      BY <2>2, HomeIsHigher DEF InFrame
    <3> HIDE DEF g
    <3> QED
      BY <3>1, <3>2 DEF Aim
  <2>3. g = [x \in Widgets |-> g[x]]
    OBVIOUS
  <2> HIDE DEF g
  <2>4. Fits(g, n + 1, top, d)
    BY <2>2, <2>3 DEF Fits
  <2> QED
    BY <2>4
<1> HIDE DEF S
<1>3. N \in Nat
  BY RelayoutAssumption, FS_CardinalityType DEF RelayoutAssumption
<1>4. N \in S
  BY <1>1, <1>2, <1>3, Induction
<1>5. PICK f : Fits(f, N, top, d)
  BY <1>4 DEF S
<1>6. \A x \in Widgets : Level(x) < N
  BY RelayoutAssumption, FS_CardinalityType, FS_Subset
     DEF RelayoutAssumption, Level
<1>7. IsTarget(f)
  <2>1. \A x \in Widgets : f[x] = Aim(f, x, top, d)
    BY <1>5, <1>6 DEF Fits
  <2> QED
    BY <1>5, <2>1 DEF Fits
<1>8. dimForWidget(top, d) = CHOOSE g : IsTarget(g)
  BY DEF dimForWidget, Aim
<1>9. IsTarget(dimForWidget(top, d))
  BY <1>7, <1>8
<1> QED
  BY <1>9

\* Layout of "top" with the lengths dims, which are those that dimForWidget()
\* gives.
Sized(top, dims, d) ==
    \A v \in Widgets : dims[v] = Aim(dims, v, top, d)

\* A layout gives no widget another length without clearing its cache and
\* those it is in.
LEMMA LengthsChangeDirty ==
    ASSUME RelayoutInv, NEW top \in Widgets, NEW dims, NEW d,
           Sized(top, dims, d), NEW laid,
           layOut(top, dims, laid), laid = LaidOut(top, dims),
           NEW x \in Widgets \ {top}, dim'[x] # dim[x]
    PROVE  InFrame(x) /\ x \in laid
<1>1. up \in [Widgets -> SUBSET Widgets] /\ \A y \in Widgets : y \in up[y]
  BY DEF RelayoutInv, TreeInv, Grounded
<1>2. /\ dim'[x] = dims[x] /\ dims[x] # dim[x]
      /\ x \in Under(top) /\ Home[x] \in laid
  BY DEF layOut
<1>3. InFrame(x)
  BY <1>2 DEF Sized, Aim
<1>4. ASSUME NEW u \in (up[x] \cap Under(top)) \ {top}, u # x
      PROVE  u \in (up[Home[x]] \cap Under(top)) \ {top}
  BY <1>4 DEF RelayoutInv, TreeInv, ByHome
<1>5. \A u \in (up[x] \cap Under(top)) \ {top} :
          relayoutNeeded[u] \/ (InFrame(u) /\ dims[u] # dim[u])
  BY <1>2, <1>3, <1>4 DEF LaidOut
<1>6. x \in laid
  BY <1>2, <1>5 DEF LaidOut
<1> QED
  BY <1>3, <1>6

\* What v looks like inside is what it was: the same widgets, in the same.
Alike(v) ==
    /\ Under(v)' = Under(v)
    /\ \A x \in Under(v) : up'[x] \cap Under(v) = up[x] \cap Under(v)

LEMMA SameMeasure ==
    ASSUME NEW v \in Widgets, Alike(v),
           \A x \in Under(v) \cap Leaves :
               Width[content'[x]] = Width[content[x]]
    PROVE  measure(v)' = measure(v)
<1>1. Measured(v)' = Measured(v)
  BY DEF Alike, Measured
<1>2. Measured(v) \subseteq Under(v)
  BY DEF Measured
<1>3. {Width[content'[x]] : x \in Measured(v) \cap Leaves}
          = {Width[content[x]] : x \in Measured(v) \cap Leaves}
  BY <1>2
<1> QED
  BY <1>1, <1>3 DEF measure

\* The picture of w when lengths are as given.
PictureOf(w, dims) ==
    {Look(v, dims) :
        v \in {x \in Under(w) : \A u \in up[x] \cap Under(w) : dims[u] > 0}}

LEMMA SamePicture ==
    ASSUME NEW v \in Widgets, Alike(v), v \in Under(v),
           \A x \in Under(v) : dim'[x] = dim[x],
           \A x \in Under(v) \cap Leaves : content'[x] = content[x]
    PROVE  Picture(v)' = Picture(v)
<1> DEFINE Seen == {x \in Under(v) :
                      \A u \in up[x] \cap Under(v) : dim[u] > 0}
           SeenNow == {x \in Under(v) :
                         \A u \in up'[x] \cap Under(v) : dim'[u] > 0}
<1>1. Seen = SeenNow
  BY DEF Alike
<1>2. \A x \in Seen : Look(x, dim)' = Look(x, dim)
  BY DEF Look
<1>3. Picture(v) = {Look(x, dim) : x \in Seen}
  BY DEF Picture
<1>4. Picture(v)' = {Look(x, dim)' : x \in SeenNow}
  BY DEF Picture, Alike
<1> QED
  BY <1>1, <1>2, <1>3, <1>4

-----------------------------------------------------------------------------
(* Lengths are settled where no layout is requested *)

Expected(w) == IF lp[w] = "min" THEN measure(w) ELSE dim[Home[w]]

\* A widget in a frame that has no request has the length it asks for.
SettledAt(w) ==
    added(w) /\ InFrame(w) /\ ~relayoutNeeded[Home[w]] => dim[w] = Expected(w)

Settled ==
    /\ DOMAIN content = Leaves /\ DOMAIN lp = Widgets
    /\ \A w \in Widgets : SettledAt(w)

\* A request of t changes lengths asked for only of what has a flag then.
LEMMA RequestKeepsSettled ==
    ASSUME RelayoutInv, RelayoutInv', Settled,
           NEW t \in Widgets, setRelayoutNeeded(t), dim' = dim,
           NEW w \in Widgets,
           ~relayoutNeeded'[w] =>
               /\ Alike(w)
               /\ \A x \in Under(w) \cap Leaves :
                      Width[content'[x]] = Width[content[x]],
           InFrame(w) /\ ~relayoutNeeded'[Home[w]] =>
               lp'[w] = lp[w] /\ (added(w)' => added(w))
    PROVE  SettledAt(w)'
<1> SUFFICES ASSUME added(w)', InFrame(w), ~relayoutNeeded'[Home[w]]
             PROVE  dim'[w] = Expected(w)'
  BY DEF SettledAt, InFrame
<1>1. added(w) /\ lp'[w] = lp[w] /\ w # Root
  BY DEF InFrame
<1>2. ~relayoutNeeded'[w]
  BY <1>1 DEF RelayoutInv, RequestsReachRoot
<1>3. measure(w)' = measure(w)
  BY <1>2, SameMeasure
<1>4. ~relayoutNeeded[Home[w]]
  <2>1. Home[w] \in Widgets
    BY <1>1, HomeIsHigher
  <2> QED
    BY <2>1, RequestTellsAll
<1>5. dim[w] = Expected(w)
  BY <1>1, <1>4 DEF Settled, SettledAt
<1> QED
  BY <1>1, <1>3, <1>5 DEF Expected

\* A layout gives the children of all it lays out the lengths they ask for,
\* and leaves the others with what they, and their containers, have.
LEMMA LayoutKeepsSettled ==
    ASSUME RelayoutInv, Settled, NEW top \in Widgets, ~InFrame(top),
           NEW dims, NEW d, Sized(top, dims, d), NEW laid,
           laid = LaidOut(top, dims), layOut(top, dims, laid),
           UNCHANGED <<content, up, lp>>, NEW w \in Widgets
    PROVE  SettledAt(w)'
<1> SUFFICES ASSUME added(w)', InFrame(w), ~relayoutNeeded'[Home[w]]
             PROVE  dim'[w] = Expected(w)'
  BY DEF SettledAt, InFrame
<1> DEFINE h == Home[w]
<1>1. /\ w # top /\ w # Root /\ h \in up[w] /\ h \in Widgets
  BY HomeIsHigher DEF InFrame, added
<1>2. /\ up \in [Widgets -> SUBSET Widgets]
      /\ \A x \in Widgets : x \in up[x]
      /\ \A x \in Widgets : \A v \in up[x] : up[v] \subseteq up[x]
  BY DEF RelayoutInv, TreeInv, Grounded, Nested
<1>3. Alike(w)
  BY DEF Alike, Under
<1>4. measure(w)' = measure(w)
  BY <1>3, SameMeasure
<1>5. Expected(w)' = IF lp[w] = "min" THEN measure(w) ELSE dim'[h]
  BY <1>4 DEF Expected
<1>6. /\ dim' = [x \in Widgets |->
                     IF x = top \/ (x \in Under(top) /\ Home[x] \in laid)
                     THEN dims[x] ELSE dim[x]]
      /\ relayoutNeeded' =
             [x \in Widgets |-> relayoutNeeded[x] /\ x \notin laid]
  BY DEF layOut
<1>7. CASE h \in laid
  <2>1. h \in Under(top) /\ w \in Under(top)
    BY <1>1, <1>2, <1>7 DEF LaidOut, Under
  <2>2. dim'[w] = dims[w]
    BY <1>6, <1>7, <2>1
  <2>3. dims[w] = IF lp[w] = "min" THEN measure(w) ELSE dims[h]
    BY <1>1 DEF Sized, Aim
  <2>4. CASE h = top
    BY <1>5, <1>6, <2>2, <2>3, <2>4
  <2>5. CASE h # top
    <3>1. top \in up[h] \ {h}
      BY <2>1, <2>5 DEF Under
    <3>2. h # Root /\ Home[h] \in up[h] /\ top \in up[Home[h]]
      BY <1>1, <3>1 DEF RelayoutInv, TreeInv, ByHome
    <3>3. Home[h] \in Under(top) /\ up[Home[h]] \subseteq up[h]
      BY <1>1, <1>2, <3>2 DEF Under
    <3>4. \A u \in (up[h] \cap Under(top)) \ {top} :
              relayoutNeeded[u] \/ (InFrame(u) /\ dims[u] # dim[u])
      BY <1>7 DEF LaidOut
    <3>5. Home[h] \in laid
      BY <3>3, <3>4 DEF LaidOut
    <3>6. dim'[h] = dims[h]
      BY <1>1, <1>6, <2>1, <3>5
    <3> QED
      BY <1>5, <2>2, <2>3, <3>6
  <2> QED
    BY <2>4, <2>5
<1>8. CASE h \notin laid
  <2>1. ~relayoutNeeded[h] /\ added(w)
    BY <1>1, <1>6, <1>8 DEF added
  <2>2. dim[w] = Expected(w)
    BY <2>1 DEF Settled, SettledAt
  <2>3. dim'[w] = dim[w]
    BY <1>1, <1>6, <1>8
  <2>4. h # top
    <3>1. top \in Under(top)
      BY <1>2 DEF Under
    <3>2. (up[top] \cap Under(top)) \ {top} = {}
      BY RelayoutAssumption, Antisymmetric DEF RelayoutInv, TreeInv, Under
    <3>3. top \in laid
      BY <3>1, <3>2 DEF LaidOut
    <3> QED
      BY <1>8, <3>3
  <2>5. dim'[h] = dim[h]
    BY <1>1, <1>8, <2>4, LengthsChangeDirty
  <2> QED
    BY <1>5, <2>2, <2>3, <2>5 DEF Expected
<1> QED
  BY <1>7, <1>8

LEMMA SettledStep ==
    ASSUME RelayoutInv, RelayoutInv', Settled, [Next]_vars
    PROVE  Settled'
<1>1. /\ Home \in [Widgets \ {Root} -> Widgets]
      /\ Removable \subseteq Widgets \ {Root}
      /\ Adjustable \subseteq Widgets \ {Root} /\ Root \in Widgets
      /\ Leaves \subseteq Widgets
  BY RelayoutAssumption DEF RelayoutAssumption, Leaves
<1>2. DOMAIN content = Leaves /\ DOMAIN lp = Widgets
  BY DEF Settled
<1>3. ASSUME up' = up, NEW w \in Widgets PROVE Alike(w)
  BY <1>3 DEF Alike, Under
<1>4. ASSUME NEW l \in Leaves, NEW c \in Contents[l], setText(l, c)
      PROVE  Settled'
  <2>1. /\ setRelayoutNeeded(l) /\ up' = up /\ lp' = lp /\ dim' = dim
        /\ l \in Widgets /\ content' = [content EXCEPT ![l] = c]
    BY <1>1, <1>4 DEF setText
  <2>2. DOMAIN content' = Leaves
    BY <1>2, <2>1
  <2>3. ASSUME NEW w \in Widgets, ~relayoutNeeded'[w],
               NEW x \in Under(w) \cap Leaves
        PROVE  Width[content'[x]] = Width[content[x]]
    <3>1. l \notin Under(w)
      BY <2>1, <2>3, RequestTellsAll DEF Under
    <3> QED
      BY <1>2, <2>1, <3>1
  <2>4. ASSUME NEW w \in Widgets PROVE SettledAt(w)'
    BY <1>3, <2>1, <2>3, RequestKeepsSettled DEF added
  <2> QED
    BY <1>2, <2>1, <2>2, <2>4 DEF Settled
<1>5. ASSUME NEW l \in Leaves, NEW c \in Contents[l], setColor(l, c)
      PROVE  Settled'
  <2>1. /\ UNCHANGED <<up, lp, dim, relayoutNeeded>>
        /\ content' = [content EXCEPT ![l] = c]
        /\ Width[c] = Width[content[l]]
    BY <1>5 DEF setColor
  <2>2. DOMAIN content' = Leaves
    BY <1>2, <2>1
  <2>3. \A x \in Leaves : Width[content'[x]] = Width[content[x]]
    BY <1>2, <2>1
  <2>4. ASSUME NEW w \in Widgets PROVE SettledAt(w)'
    <3>1. measure(w)' = measure(w)
      BY <1>3, <2>1, <2>3, SameMeasure
    <3> QED
      BY <2>1, <3>1 DEF Settled, SettledAt, Expected, added
  <2> QED
    BY <1>2, <2>1, <2>2, <2>4 DEF Settled
<1>6. ASSUME NEW t \in Removable, add(t) \/ remove(t)
      PROVE  Settled'
  <2>1. /\ setRelayoutNeeded(Home[t]) /\ UNCHANGED <<content, lp, dim>>
        /\ t \in Widgets /\ t # Root /\ Home[t] \in Widgets
    BY <1>1, <1>6 DEF add, remove
  <2>2. ASSUME NEW w \in Widgets, ~relayoutNeeded'[w] PROVE Alike(w)
    BY <1>6, <2>1, <2>2, RequestTellsAll, ElsewhereSame
       DEF Alike, RelayoutInv
  <2>3. ASSUME NEW w \in Widgets, InFrame(w), ~relayoutNeeded'[Home[w]],
               added(w)'
        PROVE  added(w)
    <3>1. CASE remove(t)
      BY <2>3, <3>1 DEF remove, added
    <3>2. CASE add(t)
      <4>1. up'[w] = IF t \in up[w] THEN up[w] \cup up[Home[t]] ELSE up[w]
        BY <3>2 DEF add
      <4>2. t # w
        <5>1. Home[t] \in up[Home[t]]
          BY <2>1 DEF RelayoutInv, TreeInv, Grounded
        <5> QED
          BY <2>1, <2>3, <5>1, RequestTellsAll
      <4>3. t \in up[w] \ {w} => Home[w] \in up[w]
        BY DEF RelayoutInv, TreeInv, ByHome
      <4> QED
        BY <2>3, <4>1, <4>2, <4>3 DEF added
    <3> QED
      BY <1>6, <3>1, <3>2
  <2>4. ASSUME NEW w \in Widgets PROVE SettledAt(w)'
    BY <2>1, <2>2, <2>3, RequestKeepsSettled
  <2> QED
    BY <1>2, <2>1, <2>4 DEF Settled
<1>7. ASSUME NEW t \in Adjustable, NEW p \in {"min", "max"},
             getLayoutParams(t, p)
      PROVE  Settled'
  <2>1. /\ setRelayoutNeeded(Home[t]) /\ UNCHANGED <<content, up, dim>>
        /\ t \in Widgets /\ t # Root /\ Home[t] \in Widgets
        /\ lp' = [lp EXCEPT ![t] = p]
    BY <1>1, <1>7 DEF getLayoutParams
  <2>2. ASSUME NEW w \in Widgets, ~relayoutNeeded'[Home[w]]
        PROVE  lp'[w] = lp[w]
    <3>1. Home[t] \in up[Home[t]]
      BY <2>1 DEF RelayoutInv, TreeInv, Grounded
    <3>2. w # t
      BY <2>1, <2>2, <3>1, RequestTellsAll
    <3> QED
      BY <1>2, <2>1, <3>2
  <2>3. ASSUME NEW w \in Widgets PROVE SettledAt(w)'
    BY <1>3, <2>1, <2>2, RequestKeepsSettled DEF added
  <2>4. DOMAIN lp' = Widgets
    BY <1>2, <2>1
  <2> QED
    BY <1>2, <2>1, <2>3, <2>4 DEF Settled
<1>8. ASSUME NEW top \in Widgets, NEW d \in Lengths, ~InFrame(top),
             resize(top, d)
      PROVE  Settled'
  <2>1. PICK dims : dims = dimForWidget(top, d)
    OBVIOUS
  <2>2. PICK laid : laid = LaidOut(top, dims)
    OBVIOUS
  <2>3. layOut(top, dims, laid) /\ UNCHANGED <<content, up, lp>>
    BY <1>8, <2>1, <2>2 DEF resize
  <2>4. Sized(top, dims, d)
    BY <2>1, AllGetLengths DEF Sized
  <2>5. ASSUME NEW w \in Widgets PROVE SettledAt(w)'
    BY <1>8, <2>2, <2>3, <2>4, LayoutKeepsSettled
  <2> QED
    BY <1>2, <2>3, <2>5 DEF Settled
<1>9. CASE render
  <2>1. PICK dims : dims = dimForWidget(Root, dim[Root])
    OBVIOUS
  <2>2. PICK laid : laid = IF relayoutNeeded[Root]
                           THEN LaidOut(Root, dims) ELSE {}
    OBVIOUS
  <2>3. layOut(Root, dims, laid) /\ UNCHANGED <<content, up, lp>>
    BY <1>9, <2>1, <2>2 DEF render
  <2>4. PICK d : d = dim[Root]
    OBVIOUS
  <2>5. Sized(Root, dims, d) /\ ~InFrame(Root)
    BY <2>1, <2>4, AllGetLengths DEF Sized, InFrame
  <2>6. ASSUME NEW w \in Widgets PROVE SettledAt(w)'
    <3>1. CASE laid = LaidOut(Root, dims)
      BY <1>1, <2>3, <2>5, <3>1, LayoutKeepsSettled
    <3>2. CASE laid = {}
      <4>1. dims[Root] = dim[Root]
        BY <1>1, <2>4, <2>5 DEF Sized, Aim
      <4>2. \A x \in Widgets : dim'[x] = dim[x]
                              /\ relayoutNeeded'[x] = relayoutNeeded[x]
        BY <2>3, <3>2, <4>1 DEF layOut, RelayoutInv, FlagsOK
      <4>3. measure(w)' = measure(w)
        BY <1>3, <2>3, SameMeasure
      <4>4. InFrame(w) => Home[w] \in Widgets
        BY HomeIsHigher DEF InFrame
      <4> QED
        BY <2>3, <4>2, <4>3, <4>4
           DEF Settled, SettledAt, Expected, added, InFrame
    <3> QED
      BY <2>2, <3>1, <3>2
  <2> QED
    BY <1>2, <2>3, <2>6 DEF Settled
<1>10. CASE UNCHANGED vars
  <2>1. ASSUME NEW w \in Widgets PROVE SettledAt(w)'
    <3>1. measure(w)' = measure(w)
      BY <1>3, <1>10, SameMeasure DEF vars
    <3> QED
      BY <1>10, <3>1 DEF vars, Settled, SettledAt, Expected, added
  <2> QED
    BY <1>2, <1>10, <2>1 DEF vars, Settled
<1> QED
  BY <1>4, <1>5, <1>6, <1>7, <1>8, <1>9, <1>10 DEF Next

\* One pass of layout is enough, however deep widgets are and whatever changed
\* since: when the root has no request, all in it have the lengths they ask
\* for (Morda.cpp:139-160, Widget.cpp:104-142, Frame.cpp:15-24).
THEOREM OneLayoutSettles == Spec => []LayoutSettles
<1>1. Init => Settled
  <2> SUFFICES ASSUME Init PROVE Settled
    OBVIOUS
  <2>1. /\ DOMAIN content = Leaves /\ DOMAIN lp = Widgets
        /\ \A w \in Widgets : relayoutNeeded[w]
    BY DEF Init
  <2>2. \A w \in Widgets : InFrame(w) => Home[w] \in Widgets
    BY HomeIsHigher DEF InFrame
  <2> QED
    BY <2>1, <2>2 DEF Settled, SettledAt
<1>2. RelayoutInv /\ RelayoutInv' /\ Settled /\ [Next]_vars => Settled'
  BY SettledStep
<1>3. RelayoutInv /\ Settled => LayoutSettles
  <2> SUFFICES ASSUME RelayoutInv, Settled, ~relayoutNeeded[Root],
                      NEW w \in Under(Root) \ {Root}
               PROVE  /\ ~relayoutNeeded[w]
                      /\ InFrame(w) =>
                            dim[w] = IF lp[w] = "min" THEN measure(w)
                                     ELSE dim[Home[w]]
    BY DEF LayoutSettles
  <2>1. ASSUME NEW x \in Under(Root) PROVE ~relayoutNeeded[x]
    <3>1. x \in Widgets /\ Root \in up[x]
      BY DEF Under
    <3> QED
      BY <3>1, FlagsGoUp DEF RelayoutInv, RequestsReachRoot
  <2>2. /\ w \in Widgets /\ w # Root /\ Home[w] \in up[w]
        /\ Root \in up[Home[w]] /\ Home[w] \in Widgets
    BY HomeIsHigher DEF RelayoutInv, TreeInv, ByHome, Under
  <2>3. Home[w] \in Under(Root)
    BY <2>2 DEF Under
  <2> QED
    BY <2>1, <2>2, <2>3 DEF Settled, SettledAt, Expected, added
<1> QED
  BY <1>1, <1>2, <1>3, RelayoutInvariant, PTL DEF Spec

-----------------------------------------------------------------------------
(* What is drawn from textures *)

\* A request drops the texture of what it gives a flag, and a layout takes
\* the flag from whatever will be drawn.
NoneWhenRequested ==
    \A w \in Widgets : relayoutNeeded[w] => ~cacheTex[w].exists

CurrentInv ==
    RelayoutInv /\ CacheHasTexture /\ NoneWhenRequested /\ CacheIsCurrent
    /\ DOMAIN content = Leaves

LEMMA PicturesAre ==
    ASSUME NEW v, UNCHANGED <<content, up>>
    PROVE  /\ Picture(v) = PictureOf(v, dim)
           /\ Picture(v)' = PictureOf(v, dim')
BY DEF Picture, PictureOf, Under, Look

LEMMA RequestKeepsCurrent ==
    ASSUME CurrentInv, NEW t \in Widgets, setRelayoutNeeded(t),
           UNCHANGED <<dim, cacheDirty>>,
           \A w \in Widgets : ~relayoutNeeded'[w] =>
               /\ Alike(w)
               /\ \A x \in Under(w) \cap Leaves : content'[x] = content[x]
    PROVE  NoneWhenRequested' /\ CacheIsCurrent'
<1>1. RelayoutInv /\ Cached \subseteq Widgets
  BY RelayoutAssumption DEF RelayoutAssumption, CurrentInv
<1>2. ASSUME NEW w \in Widgets, relayoutNeeded'[w]
      PROVE  ~cacheTex'[w].exists
  BY <1>2 DEF setRelayoutNeeded, NoTexture, CurrentInv, NoneWhenRequested
<1>3. ASSUME NEW w \in Cached, ~cacheDirty'[w], cacheTex'[w].exists
      PROVE  cacheTex'[w].image = Picture(w)'
  <2>1. w \in Widgets /\ ~relayoutNeeded'[w]
    BY <1>1, <1>2, <1>3
  <2>2. cacheTex'[w] = cacheTex[w]
    BY <1>1, <2>1, RequestTellsAll
  <2>3. w \in Under(w)
    BY <1>1, <2>1 DEF RelayoutInv, TreeInv, Grounded, Under
  <2>4. Picture(w)' = Picture(w)
    BY <2>1, <2>3, SamePicture
  <2> QED
    BY <1>3, <2>2, <2>4 DEF CurrentInv, CacheIsCurrent
<1> QED
  BY <1>2, <1>3 DEF NoneWhenRequested, CacheIsCurrent

\* Layout changes the picture of nothing it does not mark as dirty.
LEMMA LayoutKeepsPictures ==
    ASSUME RelayoutInv, NEW top \in Widgets, NEW dims, NEW d,
           Sized(top, dims, d), NEW laid,
           layOut(top, dims, laid), laid = LaidOut(top, dims),
           UNCHANGED <<content, up>>,
           NEW v \in Widgets, v \notin Cleared(top, laid),
           dim'[top] = dim[top] \/ v \notin clearCache(top)
    PROVE  Picture(v)' = Picture(v)
<1>1. ASSUME NEW x \in Under(v), dim'[x] # dim[x]
      PROVE  FALSE
  <2>1. x \in Widgets /\ v \in up[x]
    BY DEF Under
  <2>2. x # top
    BY <1>1, <2>1 DEF clearCache
  <2>3. InFrame(x) /\ x \in laid
    BY <1>1, <2>1, <2>2, LengthsChangeDirty
  <2> QED
    BY <2>1, <2>2, <2>3 DEF Cleared, clearCache
<1>2. Alike(v) /\ v \in Under(v)
  BY DEF Alike, Under, RelayoutInv, TreeInv, Grounded
<1>3. \A x \in Under(v) \cap Leaves : content'[x] = content[x]
  OBVIOUS
<1> QED
  BY <1>1, <1>2, <1>3, SamePicture

\* What is drawn of a widget to its texture is the picture of it, with that of
\* each cached widget in it that is not dirty taken from its texture.
LEMMA DrawsPicture ==
    ASSUME TreeInv, NEW dims, NEW dirty, NEW v \in Cached,
           v \in Drawn(dims, dirty), dirty[v],
           \A u \in Cached \cap Drawn(dims, dirty) :
               ~dirty[u] => cacheTex[u].image = PictureOf(u, dims),
           renderInternal(dims, dirty)
    PROVE  cacheTex'[v].image = PictureOf(v, dims)
<1> DEFINE drawn == Drawn(dims, dirty)
           Image(w) == IF w \in Cached /\ ~dirty[w] THEN cacheTex[w].image
                       ELSE {Look(w, dims)}
           Visible(w) == {x \in Under(w) :
                             \A u \in up[x] \cap Under(w) : dims[u] > 0}
<1>1. /\ up \in [Widgets -> SUBSET Widgets]
      /\ \A x \in Widgets : x \in up[x]
      /\ \A x \in Widgets : \A y \in up[x] : up[y] \subseteq up[x]
      /\ \A x \in Widgets : \A y, z \in up[x] : y \in up[z] \/ z \in up[y]
  BY DEF TreeInv, Grounded, Nested, Chained
<1>2. v \in Widgets /\ Cached \subseteq Widgets
  BY RelayoutAssumption DEF RelayoutAssumption
<1>3. cacheTex'[v].image = UNION {Image(x) : x \in drawn \cap Under(v)}
  BY <1>2 DEF renderInternal
<1>4. \A w : PictureOf(w, dims) = {Look(x, dims) : x \in Visible(w)}
  BY DEF PictureOf
<1>5. \A x, w \in Widgets : x \in Under(w) <=> w \in up[x]
  BY DEF Under
<1>6. \A w : Under(w) \subseteq Widgets
  BY DEF Under
<1>7. ASSUME NEW x
      PROVE  x \in drawn <=> /\ x \in Widgets /\ Root \in up[x]
                             /\ \A u \in up[x] :
                                    /\ dims[u] > 0
                                    /\ u \in Cached /\ u # x => dirty[u]
  BY DEF Drawn, Under
<1> HIDE DEF drawn
<1>8. ASSUME NEW x \in drawn \cap Under(v)
      PROVE  Image(x) \subseteq PictureOf(v, dims)
  <2>1. /\ x \in Widgets /\ v \in up[x]
        /\ \A u \in up[x] : dims[u] > 0
    BY <1>5, <1>7, <1>2
  <2>2. CASE x \in Cached /\ ~dirty[x]
    <3>1. Image(x) = PictureOf(x, dims)
      BY <2>2 DEF drawn
    <3>2. Visible(x) \subseteq Visible(v)
      <4> SUFFICES ASSUME NEW y \in Visible(x) PROVE y \in Visible(v)
        OBVIOUS
      <4>1. y \in Widgets /\ x \in up[y] /\ v \in up[y]
        BY <1>1, <1>5, <1>6, <2>1
      <4>2. ASSUME NEW u \in up[y] PROVE dims[u] > 0
        <5>1. CASE x \in up[u]
          BY <1>1, <1>5, <4>1, <5>1
        <5>2. CASE u \in up[x]
          BY <2>1, <5>2
        <5> QED
          BY <1>1, <4>1, <5>1, <5>2
      <4> QED
        BY <1>2, <1>5, <4>1, <4>2
    <3> QED
      BY <1>4, <3>1, <3>2
  <2>3. CASE ~(x \in Cached /\ ~dirty[x])
    <3>1. x \in Visible(v)
      BY <2>1
    <3> QED
      BY <1>4, <2>3, <3>1
  <2> QED
    BY <2>2, <2>3
<1>9. ASSUME NEW y \in Visible(v)
      PROVE  \E x \in drawn \cap Under(v) : Look(y, dims) \in Image(x)
  <2>1. /\ y \in Widgets /\ v \in up[y] /\ Root \in up[v]
        /\ \A u \in up[v] : dims[u] > 0 /\ (u \in Cached => dirty[u])
    <3>1. v \in drawn
      BY DEF drawn
    <3> QED
      BY <1>2, <1>5, <1>6, <1>7, <3>1
  <2>2. ASSUME NEW u \in up[y]
        PROVE  dims[u] > 0 /\ (u \in up[v] \/ v \in up[u]) /\ u \in Widgets
    <3>1. u \in up[v] \/ v \in up[u]
      BY <1>1, <2>1
    <3> QED
      BY <1>1, <1>2, <1>5, <2>1, <3>1
  <2> DEFINE Clean == {u \in up[y] : u \in Cached /\ ~dirty[u]}
  <2>3. CASE Clean = {}
    <3>1. y \in drawn \cap Under(v)
      BY <1>1, <1>2, <1>5, <1>7, <2>1, <2>2, <2>3
    <3>2. ~(y \in Cached /\ ~dirty[y])
      BY <1>1, <2>1, <2>3
    <3> QED
      BY <3>1, <3>2
  <2>4. CASE Clean # {}
    <3>1. PICK x \in Clean : \A u \in Clean : Level(x) <= Level(u)
      BY <1>2, <2>4, Highest
    <3>2. /\ x \in up[y] /\ x \in Widgets /\ x \in Cached /\ ~dirty[x]
          /\ v \in up[x]
      BY <2>1, <2>2
    <3>3. ASSUME NEW u \in up[x], u \in Cached, u # x
          PROVE  dirty[u]
      <4>1. u \in up[y]
        BY <1>1, <2>1, <3>2
      <4>2. Level(u) < Level(x) /\ Level(x) \in Nat /\ Level(u) \in Nat
        BY <3>2, <3>3, HigherLevel
      <4>3. u \notin Clean
        BY <3>1, <4>2
      <4> QED
        BY <3>3, <4>1, <4>3
    <3>4. x \in drawn \cap Under(v)
      BY <1>1, <1>2, <1>5, <1>7, <2>1, <2>2, <3>2, <3>3
    <3>5. Image(x) = PictureOf(x, dims)
      BY <3>2, <3>4 DEF drawn
    <3>6. y \in Visible(x)
      BY <1>5, <2>1, <2>2, <3>2
    <3>7. Look(y, dims) \in Image(x)
      BY <1>4, <3>5, <3>6
    <3> QED
      BY <3>4, <3>7
  <2> QED
    BY <2>3, <2>4
<1> QED
  BY <1>3, <1>4, <1>8, <1>9

\* When all is drawn, the textures of what was dirty are new and the others
\* show the widgets as they are laid out now.
LEMMA RenderKeepsCurrent ==
    ASSUME CurrentInv, CacheHasTexture', \A w \in Cached : InFrame(w), render
    PROVE  NoneWhenRequested' /\ CacheIsCurrent'
<1>1. RelayoutInv /\ TreeInv /\ CacheHasTexture /\ Cached \subseteq Widgets
      /\ Root \in Widgets /\ cacheDirty \in [Widgets -> BOOLEAN]
  BY RelayoutAssumption DEF RelayoutAssumption, CurrentInv, RelayoutInv, FlagsOK
<1>2. PICK dims, d : dims = dimForWidget(Root, d) /\ d = dim[Root]
  OBVIOUS
<1>3. PICK laid : laid = IF relayoutNeeded[Root]
                         THEN LaidOut(Root, dims) ELSE {}
  OBVIOUS
<1>4. PICK dirty : dirty = [w \in Widgets |->
                              cacheDirty[w] \/ w \in Cleared(Root, laid)]
  OBVIOUS
<1>5. /\ layOut(Root, dims, laid) /\ UNCHANGED <<content, up>>
      /\ renderInternal(dim', dirty)
  BY <1>2, <1>3, <1>4 DEF render
<1>6. /\ Sized(Root, dims, d) /\ dims[Root] = dim[Root]
      /\ dim'[Root] = dim[Root]
  <2>1. Sized(Root, dims, d)
    BY <1>2, AllGetLengths DEF Sized
  <2>2. dims[Root] = dim[Root]
    BY <1>1, <1>2, <2>1 DEF Sized, Aim
  <2> QED
    BY <1>1, <1>5, <2>1, <2>2 DEF layOut
<1>7. PICK now : now = dim'
  OBVIOUS
<1>8. ASSUME NEW w \in Widgets, ~dirty[w]
      PROVE  Picture(w)' = Picture(w)
  <2>1. w \notin Cleared(Root, laid)
    BY <1>4, <1>8
  <2>2. CASE laid = LaidOut(Root, dims)
    BY <1>1, <1>5, <1>6, <2>1, <2>2, LayoutKeepsPictures
  <2>3. CASE laid = {}
    <3>1. \A x \in Widgets : dim'[x] = dim[x]
      BY <1>5, <1>6, <2>3 DEF layOut
    <3>2. Alike(w) /\ w \in Under(w) /\ Under(w) \subseteq Widgets
      BY <1>1, <1>5 DEF Alike, Under, TreeInv, Grounded
    <3>3. \A x \in Under(w) \cap Leaves : content'[x] = content[x]
      BY <1>5
    <3> QED
      BY <3>1, <3>2, <3>3, SamePicture
  <2> QED
    BY <1>3, <2>2, <2>3
<1>9. ASSUME NEW w \in Widgets, Root \in up[w], relayoutNeeded[w]
      PROVE  w \in laid
  <2>1. \A u \in up[w] : relayoutNeeded[u]
    BY <1>1, <1>9, FlagsGoUp DEF RelayoutInv, RequestsReachRoot
  <2>2. w \in Under(Root) /\ relayoutNeeded[Root]
    BY <1>9, <2>1 DEF Under
  <2> QED
    BY <1>3, <2>1, <2>2 DEF LaidOut
<1>10. \A w \in Drawn(now, dirty) : w \in Widgets /\ Root \in up[w]
  BY DEF Drawn, Under
<1>11. ASSUME NEW w \in Cached, ~dirty[w], w \in Drawn(now, dirty)
       PROVE  cacheTex[w].exists
  <2>1. w \in Widgets /\ Root \in up[w] /\ ~cacheDirty[w]
        /\ w \notin Cleared(Root, laid)
    BY <1>1, <1>4, <1>10, <1>11
  <2>2. CASE relayoutNeeded[w]
    <3>1. w \in laid /\ InFrame(w) /\ w # Root
      BY <1>9, <2>1, <2>2 DEF InFrame
    <3>2. laid \in SUBSET Widgets
      BY <1>3, LaidOutTyped
    <3> QED
      BY <1>1, <2>1, <3>1, <3>2, FramesClearCaches
  <2> QED
    BY <2>1, <2>2, <1>1 DEF CacheHasTexture
<1>12. \A w \in Widgets : Picture(w)' = PictureOf(w, now)
  BY <1>5, <1>7, PicturesAre
<1>13. ASSUME NEW u \in Cached \cap Drawn(now, dirty), ~dirty[u]
       PROVE  cacheTex[u].image = PictureOf(u, now)
  <2>1. u \in Widgets /\ ~cacheDirty[u] /\ cacheTex[u].exists
    BY <1>1, <1>4, <1>11, <1>13
  <2>2. cacheTex[u].image = Picture(u)
    BY <2>1 DEF CurrentInv, CacheIsCurrent
  <2> QED
    BY <1>8, <1>12, <1>13, <2>1, <2>2
<1>14. renderInternal(now, dirty)
  BY <1>5, <1>7
<1>15. /\ \A w \in Widgets : ~(w \in Cached \cap Drawn(now, dirty) /\ dirty[w])
              => cacheTex'[w] = cacheTex[w] /\ (~cacheDirty'[w] => ~dirty[w])
       /\ \A w \in Widgets : relayoutNeeded'[w] =>
              relayoutNeeded[w] /\ w \notin laid
  BY <1>5, <1>14 DEF renderInternal, layOut
<1>16. ASSUME NEW w \in Widgets, relayoutNeeded'[w]
       PROVE  ~cacheTex'[w].exists
  BY <1>9, <1>10, <1>15, <1>16 DEF CurrentInv, NoneWhenRequested
<1>17. ASSUME NEW w \in Cached, ~cacheDirty'[w], cacheTex'[w].exists
       PROVE  cacheTex'[w].image = Picture(w)'
  <2>1. CASE w \in Drawn(now, dirty) /\ dirty[w]
    <3>1. cacheTex'[w].image = PictureOf(w, now)
      BY <1>1, <1>13, <1>14, <2>1, DrawsPicture
    <3> QED
      BY <1>1, <1>12, <3>1
  <2>2. CASE ~(w \in Drawn(now, dirty) /\ dirty[w])
    <3>1. w \in Widgets /\ cacheTex'[w] = cacheTex[w] /\ ~dirty[w]
      BY <1>1, <1>15, <1>17, <2>2
    <3>2. ~cacheDirty[w]
      BY <1>4, <3>1
    <3> QED
      BY <1>8, <1>17, <3>1, <3>2 DEF CurrentInv, CacheIsCurrent
  <2> QED
    BY <2>1, <2>2
<1> QED
  BY <1>16, <1>17 DEF NoneWhenRequested, CacheIsCurrent

LEMMA CurrentStep ==
    ASSUME CurrentInv, RelayoutInv', CacheHasTexture', [Next]_vars,
           \A w \in Cached : InFrame(w)
    PROVE  CurrentInv'
<1>1. /\ Removable \subseteq Widgets \ {Root}
      /\ Adjustable \subseteq Widgets \ {Root} /\ Root \in Widgets
      /\ Leaves \subseteq Widgets /\ Cached \subseteq Widgets
      /\ \A w \in Widgets : w # Root => Home[w] \in Widgets
  BY RelayoutAssumption, HomeIsHigher DEF RelayoutAssumption, Leaves
<1>2. RelayoutInv /\ DOMAIN content = Leaves
      /\ NoneWhenRequested /\ CacheIsCurrent
  BY DEF CurrentInv
<1>3. ASSUME up' = up, NEW w \in Widgets PROVE Alike(w) /\ w \in Under(w)
  BY <1>2, <1>3 DEF Alike, Under, RelayoutInv, TreeInv, Grounded
<1> SUFFICES /\ NoneWhenRequested' /\ CacheIsCurrent'
             /\ DOMAIN content' = Leaves
  BY DEF CurrentInv
<1>4. ASSUME NEW l \in Leaves, NEW c \in Contents[l], setText(l, c)
      PROVE  NoneWhenRequested' /\ CacheIsCurrent' /\ DOMAIN content' = Leaves
  <2>1. /\ setRelayoutNeeded(l) /\ up' = up /\ UNCHANGED <<dim, cacheDirty>>
        /\ l \in Widgets /\ content' = [content EXCEPT ![l] = c]
    BY <1>1, <1>4 DEF setText
  <2>2. ASSUME NEW w \in Widgets, ~relayoutNeeded'[w],
               NEW x \in Under(w) \cap Leaves
        PROVE  content'[x] = content[x]
    <3>1. l \notin Under(w)
      BY <1>2, <2>1, <2>2, RequestTellsAll DEF Under
    <3> QED
      BY <1>2, <2>1, <3>1
  <2> QED
    BY <1>2, <1>3, <2>1, <2>2, RequestKeepsCurrent
<1>5. ASSUME NEW l \in Leaves, NEW c \in Contents[l], setColor(l, c)
      PROVE  NoneWhenRequested' /\ CacheIsCurrent' /\ DOMAIN content' = Leaves
  <2>1. /\ UNCHANGED <<up, dim, relayoutNeeded, cacheTex>>
        /\ content' = [content EXCEPT ![l] = c]
        /\ \A v \in Widgets :
              ~cacheDirty'[v] => ~cacheDirty[v] /\ v \notin up[l]
    BY <1>5 DEF setColor, clearCache
  <2>2. ASSUME NEW w \in Cached, ~cacheDirty'[w], cacheTex'[w].exists
        PROVE  cacheTex'[w].image = Picture(w)'
    <3>1. w \in Widgets /\ ~cacheDirty[w] /\ l \notin Under(w)
      BY <1>1, <2>1, <2>2 DEF Under
    <3>2. \A x \in Under(w) \cap Leaves : content'[x] = content[x]
      BY <1>2, <2>1, <3>1
    <3>3. Picture(w)' = Picture(w)
      BY <1>3, <2>1, <3>1, <3>2, SamePicture
    <3> QED
      BY <1>2, <2>1, <2>2, <3>1, <3>3 DEF CacheIsCurrent
  <2>3. DOMAIN content' = Leaves
    BY <1>2, <2>1
  <2> QED
    BY <1>2, <2>1, <2>2, <2>3 DEF NoneWhenRequested, CacheIsCurrent
<1>6. ASSUME NEW t \in Removable, add(t) \/ remove(t)
      PROVE  NoneWhenRequested' /\ CacheIsCurrent' /\ DOMAIN content' = Leaves
  <2>1. /\ setRelayoutNeeded(Home[t]) /\ UNCHANGED <<content, dim, cacheDirty>>
        /\ t \in Widgets /\ t # Root /\ Home[t] \in Widgets
    BY <1>1, <1>6 DEF add, remove
  <2>2. ASSUME NEW w \in Widgets, ~relayoutNeeded'[w] PROVE Alike(w)
    BY <1>2, <1>6, <2>1, <2>2, RequestTellsAll, ElsewhereSame
       DEF Alike, RelayoutInv
  <2> QED
    BY <1>2, <2>1, <2>2, RequestKeepsCurrent
<1>7. ASSUME NEW t \in Adjustable, NEW p \in {"min", "max"},
             getLayoutParams(t, p)
      PROVE  NoneWhenRequested' /\ CacheIsCurrent' /\ DOMAIN content' = Leaves
  <2>1. /\ setRelayoutNeeded(Home[t])
        /\ UNCHANGED <<content, up, dim, cacheDirty>> /\ Home[t] \in Widgets
    BY <1>1, <1>7 DEF getLayoutParams
  <2> QED
    BY <1>2, <1>3, <2>1, RequestKeepsCurrent
<1>8. ASSUME NEW top \in Widgets, NEW d \in Lengths, ~InFrame(top),
             resize(top, d)
      PROVE  NoneWhenRequested' /\ CacheIsCurrent' /\ DOMAIN content' = Leaves
  <2>1. PICK dims : dims = dimForWidget(top, d)
    OBVIOUS
  <2>2. PICK laid : laid = LaidOut(top, dims)
    OBVIOUS
  <2>3. /\ layOut(top, dims, laid) /\ UNCHANGED <<content, up, cacheTex>>
        /\ \A v \in Widgets : ~cacheDirty'[v] =>
              /\ ~cacheDirty[v]
              /\ v \notin clearCache(top) /\ v \notin Cleared(top, laid)
    BY <1>8, <2>1, <2>2 DEF resize
  <2>4. Sized(top, dims, d)
    BY <2>1, AllGetLengths DEF Sized
  <2>5. ASSUME NEW w \in Cached, ~cacheDirty'[w], cacheTex'[w].exists
        PROVE  cacheTex'[w].image = Picture(w)'
    <3>1. Picture(w)' = Picture(w)
      BY <1>1, <1>2, <2>2, <2>3, <2>4, <2>5, LayoutKeepsPictures
    <3> QED
      BY <1>1, <1>2, <2>3, <2>5, <3>1 DEF CacheIsCurrent
  <2>6. \A w \in Widgets : relayoutNeeded'[w] => relayoutNeeded[w]
    BY <2>3 DEF layOut
  <2> QED
    BY <1>2, <2>3, <2>5, <2>6 DEF NoneWhenRequested, CacheIsCurrent
<1>9. CASE render
  BY <1>2, <1>9, RenderKeepsCurrent DEF render
<1>10. CASE UNCHANGED vars
  <2>1. \A w \in Widgets : Picture(w)' = Picture(w)
    BY <1>10, PicturesAre DEF vars
  <2> QED
    BY <1>1, <1>2, <1>10, <2>1 DEF vars, NoneWhenRequested, CacheIsCurrent
<1> QED
  BY <1>4, <1>5, <1>6, <1>7, <1>8, <1>9, <1>10 DEF Next

\* A texture that is used shows the texts, colours and lengths that the widgets
\* in it have now, however caches are nested, when each cached widget is in a
\* container that resizes its children (Widget.cpp:146-280).
THEOREM CachesAreCurrent ==
    ASSUME \A w \in Cached : InFrame(w)
    PROVE  Spec => []CacheIsCurrent
<1>1. Init => CurrentInv
  <2> SUFFICES ASSUME Init PROVE CurrentInv
    OBVIOUS
  <2>1. /\ DOMAIN content = Leaves /\ Cached \subseteq Widgets
        /\ \A w \in Widgets : relayoutNeeded[w] /\ ~cacheTex[w].exists
    BY RelayoutAssumption DEF RelayoutAssumption, Init, NoTexture
  <2>2. RelayoutInv
    BY TreeInit, RelayoutAssumption
       DEF Init, RelayoutInv, FlagsOK, RequestsReachRoot
  <2> QED
    BY <2>1, <2>2
       DEF CurrentInv, CacheHasTexture, NoneWhenRequested, CacheIsCurrent
<1>2. RelayoutInv' /\ CacheHasTexture' /\ CurrentInv /\ [Next]_vars =>
          CurrentInv'
  BY CurrentStep
<1>3. CurrentInv => CacheIsCurrent
  BY DEF CurrentInv
<1> QED
  BY <1>1, <1>2, <1>3, RelayoutInvariant, FramedCachesHaveTextures, PTL DEF Spec
=============================================================================

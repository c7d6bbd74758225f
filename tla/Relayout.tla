------------------------------ MODULE Relayout ------------------------------
(***************************************************************************)
(* Layout requests and cached pictures (Widget.cpp, Container.cpp,         *)
(* Frame.cpp, Morda::render).                                              *)
(*                                                                         *)
(* A widget that needs another layout sets a flag on itself and on all it  *)
(* is in; the next Morda::render() lays out what is flagged, from the root *)
(* down, and draws.  A widget with the "cache" property draws itself and   *)
(* all inside it to a texture, which is used until it is marked as dirty.  *)
(*                                                                         *)
(* A Frame gives its children their lengths, a plain Container leaves them *)
(* as they are; Window, ScrollArea and LinearArea are like Frame in that   *)
(* they resize() all their children.  Lengths stand for both dimensions.   *)
(* Positions and visibility are left out: moveTo() and setVisible() do     *)
(* nothing about layout or caches.                                         *)
(***************************************************************************)
EXTENDS Integers, FiniteSets, FiniteSetsExt

CONSTANTS
    Widgets, Root,
    Home,           \* the container that a widget is in when it is in any
    Above,          \* and all the ones that this one is in
    Frames, Containers,     \* the widgets that are Frames, and plain ones
    Cached,         \* the widgets with the property cache{true}
    Contents,       \* for each leaf what it may show: a text in a colour
    Width,          \* the length that a leaf wants for it
    Lengths,        \* that the program resizes to
    Removable,      \* the widgets that the program removes and adds, and
    Adjustable      \* those whose layout parameters it changes

ASSUME RelayoutAssumption ==
    /\ Root \in Widgets /\ IsFiniteSet(Widgets)
    /\ Home \in [Widgets \ {Root} -> Widgets]
    /\ Above \in [Widgets -> SUBSET Widgets] /\ Above[Root] = {}
    /\ \A w \in Widgets \ {Root} : Above[w] = {Home[w]} \cup Above[Home[w]]
    /\ \A w \in Widgets : w \notin Above[w]
    /\ \A w \in Widgets : \A v \in Above[w] : Above[v] \subseteq Above[w]
    /\ \A w \in Widgets : \A u, v \in Above[w] :
           u = v \/ u \in Above[v] \/ v \in Above[u]
    /\ \A w \in Widgets \ {Root} : Home[w] \in Frames \cup Containers
    /\ Frames \cup Containers \subseteq Widgets
    /\ Frames \cap Containers = {}
    /\ Cached \subseteq Widgets
    /\ \A w \in DOMAIN Contents : \A c \in Contents[w] : Width[c] \in Nat
    /\ Lengths \subseteq Nat
    /\ Removable \cup Adjustable \subseteq Widgets \ {Root}

VARIABLES
    content,        \* of each leaf
    up,             \* each widget with the containers it is in now
    lp,             \* its layout parameter dx: min or max
    dim,
    relayoutNeeded,
    cacheDirty, cacheTex

vars == <<content, up, lp, dim, relayoutNeeded, cacheDirty, cacheTex>>

NoTexture == [exists |-> FALSE, image |-> {}]
Leaves == Widgets \ (Frames \cup Containers)

InFrame(w) == w # Root /\ Home[w] \in Frames

added(w) == Home[w] \in up[w]
Under(w) == {v \in Widgets : w \in up[v]}

-----------------------------------------------------------------------------
(* Requests *)

OnlyItself(w) ==                \* mutant: containers are not told
    /\ relayoutNeeded' = [relayoutNeeded EXCEPT ![w] = TRUE]
    /\ cacheTex' = [cacheTex EXCEPT ![w] =
                       IF relayoutNeeded[w] THEN @ ELSE NoTexture]

\* It goes up as far as the first that has the flag already.
setRelayoutNeeded(w) ==
    LET new == {v \in up[w] :
                   \A u \in up[w] : v \in up[u] => ~relayoutNeeded[u]}
    IN /\ relayoutNeeded' = [v \in Widgets |-> relayoutNeeded[v] \/ v \in new]
       /\ cacheTex' = [v \in Widgets |->
                          IF v \in new THEN NoTexture ELSE cacheTex[v]]

DirtyItself(w) == {w}           \* mutant: containers are not told

\* The widgets that clearCache() marks.
clearCache(w) == up[w]

setText(w, c) ==
    /\ content' = [content EXCEPT ![w] = c]
    /\ setRelayoutNeeded(w)
    /\ UNCHANGED <<up, lp, dim, cacheDirty>>

\* Another colour, with no effect on the length.
setColor(w, c) ==
    /\ c # content[w] /\ Width[c] = Width[content[w]]
    /\ content' = [content EXCEPT ![w] = c]
    /\ cacheDirty' = [v \in Widgets |-> cacheDirty[v] \/ v \in clearCache(w)]
    /\ UNCHANGED <<up, lp, dim, relayoutNeeded, cacheTex>>

add(w) ==
    /\ ~added(w)
    /\ up' = [v \in Widgets |->
                 IF w \in up[v] THEN up[v] \cup up[Home[w]] ELSE up[v]]
    /\ setRelayoutNeeded(Home[w])
    /\ UNCHANGED <<content, lp, dim, cacheDirty>>

remove(w) ==
    /\ added(w)
    /\ up' = [v \in Widgets |->
                 IF w \in up[v] THEN up[v] \ Above[w] ELSE up[v]]
    /\ setRelayoutNeeded(Home[w])
    /\ UNCHANGED <<content, lp, dim, cacheDirty>>

\* The program gets the parameters of w from its container, and changes them.
getLayoutParams(w, p) ==
    /\ added(w)
    /\ lp' = [lp EXCEPT ![w] = p]
    /\ setRelayoutNeeded(Home[w])
    /\ UNCHANGED <<content, up, dim, cacheDirty>>

-----------------------------------------------------------------------------
(* Layout *)

\* What measure() looks at: a Frame asks its children, and a plain Container
\* does not know what is in it.
Measured(w) ==
    LET under == Under(w)
    IN {v \in under : \A u \in (up[v] \cap under) \ {v} : u \in Frames}

\* The least length of w.
measure(w) ==
    Max({0} \cup {Width[content[v]] : v \in Measured(w) \cap Leaves})

\* The lengths of widgets after the layout of "top" with length d.
dimForWidget(top, d) ==
    LET target[v \in Widgets] ==
            IF v = top THEN d
            ELSE IF ~InFrame(v) THEN dim[v]
            ELSE IF lp[v] = "min" THEN measure(v) ELSE target[Home[v]]
    IN target

NotWhenSame(top, dims) ==       \* mutant: resize() to the same length returns
    LET under == Under(top)
    IN {w \in under : \A u \in (up[w] \cap under) \ {top} :
           IF InFrame(u) THEN dims[u] # dim[u] ELSE relayoutNeeded[u]}

\* The widgets whose layOut() is called from that of "top".
LaidOut(top, dims) ==
    LET under == Under(top)
    IN {w \in under : \A u \in (up[w] \cap under) \ {top} :
           relayoutNeeded[u] \/ (InFrame(u) /\ dims[u] # dim[u])}

DirtyWhenResized(top, laid) ==  \* mutant: a request alone clears no cache
    UNION {clearCache(w) :
              w \in {v \in laid \ {top} : InFrame(v) /\ ~relayoutNeeded[v]}}

\* Frame::layOut() uses resize(), which clears caches; Container::layOut()
\* does not.
Cleared(top, laid) ==
    UNION {clearCache(w) : w \in {v \in laid \ {top} : InFrame(v)}}

\* What becomes of lengths and flags.
layOut(top, dims, laid) ==
    /\ dim' = [w \in Widgets |->
                  IF w = top \/ (w \in Under(top) /\ Home[w] \in laid)
                  THEN dims[w] ELSE dim[w]]
    /\ relayoutNeeded' = [w \in Widgets |-> relayoutNeeded[w] /\ w \notin laid]

\* resize() by the program: of the root, when the viewport changes, or of what
\* a plain Container holds.
resize(w, d) ==
    /\ dim[w] = d => relayoutNeeded[w]
    /\ LET dims == dimForWidget(w, d)
           laid == LaidOut(w, dims)
           cleared == clearCache(w) \cup Cleared(w, laid)
       IN /\ layOut(w, dims, laid)
          /\ cacheDirty' = [v \in Widgets |-> cacheDirty[v] \/ v \in cleared]
    /\ UNCHANGED <<content, up, lp, cacheTex>>

-----------------------------------------------------------------------------
(* Morda::render() *)

\* The widgets that are drawn, not taken from the texture of another one.
Drawn(dims, dirty) ==
    {w \in Under(Root) : \A u \in up[w] :
        dims[u] > 0 /\ (u \in Cached /\ u # w => dirty[u])}

\* What w itself looks like.
Look(w, dims) ==
    IF w \in Leaves THEN <<w, dims[w], content[w]>> ELSE <<w, dims[w]>>

\* renderInternal(), when the lengths and the caches are as given.
renderInternal(dims, dirty) ==
    LET drawn == Drawn(dims, dirty)
        Image(w) == IF w \in Cached /\ ~dirty[w] THEN cacheTex[w].image
                    ELSE {Look(w, dims)}
    IN /\ cacheTex' = [w \in Widgets |->
              IF w \in Cached \cap drawn /\ dirty[w]
              THEN [exists |-> TRUE,
                    image |-> UNION {Image(v) : v \in drawn \cap Under(w)}]
              ELSE cacheTex[w]]
       /\ cacheDirty' = [w \in Widgets |->
                            dirty[w] /\ w \notin Cached \cap drawn]

render ==
    /\ LET dims == dimForWidget(Root, dim[Root])
           laid == IF relayoutNeeded[Root] THEN LaidOut(Root, dims) ELSE {}
           cleared == Cleared(Root, laid)
       IN /\ layOut(Root, dims, laid)
          /\ renderInternal(dim', [w \in Widgets |->
                                     cacheDirty[w] \/ w \in cleared])
    /\ UNCHANGED <<content, up, lp>>

-----------------------------------------------------------------------------
\* A description is inflated: every widget has its children, none has been
\* laid out, and lengths are as their "dx" property says.
Init ==
    /\ content \in [Leaves -> UNION {Contents[w] : w \in Leaves}]
    /\ \A w \in Leaves : content[w] \in Contents[w]
    /\ up = [w \in Widgets |-> {w} \cup Above[w]]
    /\ lp = [w \in Widgets |-> "min"]
    /\ dim = [w \in Widgets |-> 0]
    /\ relayoutNeeded = [w \in Widgets |-> TRUE]
    /\ cacheDirty = [w \in Widgets |-> TRUE]
    /\ cacheTex = [w \in Widgets |-> NoTexture]

Next ==
    \/ \E w \in Leaves : \E c \in Contents[w] : setText(w, c) \/ setColor(w, c)
    \/ \E w \in Removable : add(w) \/ remove(w)
    \/ \E w \in Adjustable, p \in {"min", "max"} : getLayoutParams(w, p)
    \/ \E w \in Widgets, d \in Lengths : ~InFrame(w) /\ resize(w, d)
    \/ render

Spec == Init /\ [][Next]_vars

-----------------------------------------------------------------------------
(* Properties *)

\* No widget has a negative length: -1, which asks for the least length in
\* measure(), does not get out of it.
TypeOK ==
    /\ \A w \in Leaves : content[w] \in Contents[w]
    /\ up \in [Widgets -> SUBSET Widgets]
    /\ lp \in [Widgets -> {"min", "max"}]
    /\ \A w \in Widgets : dim[w] \in Nat
    /\ relayoutNeeded \in [Widgets -> BOOLEAN]
    /\ cacheDirty \in [Widgets -> BOOLEAN]
    /\ \A w \in Widgets : cacheTex[w].exists \in BOOLEAN

\* setRelayoutNeeded(): "The layout will be performed when needed."  What
\* asks for a layout is found from the root, so the request is known to all
\* it is in, wherever requests stopped halfway and whatever was laid out,
\* added or removed since.
RequestsReachRoot ==
    \A w \in Widgets \ {Root} :
        added(w) /\ relayoutNeeded[w] => relayoutNeeded[Home[w]]

\* ASSERT(this->cacheTex) in renderFromCache(): a cache that is not dirty
\* has its texture, but for what the next layout will make dirty.
CacheHasTexture ==
    \A w \in Cached :
        ~cacheDirty[w] /\ ~cacheTex[w].exists => relayoutNeeded[w]

\* What a widget and all inside it look like.
Picture(w) ==
    LET under == Under(w)
    IN {Look(v, dim) :
           v \in {x \in under : \A u \in up[x] \cap under : dim[u] > 0}}

\* "pre-rendering this widget to texture and render from texture for faster
\* rendering", with the same result: a texture that is used shows the texts,
\* colours and lengths that the widgets in it have now.
CacheIsCurrent ==
    \A w \in Cached :
        ~cacheDirty[w] /\ cacheTex[w].exists => cacheTex[w].image = Picture(w)

\* One pass of layout is enough: when the root has no request left, nothing
\* in it has, and each widget in a Frame has the length that the Frame and
\* its own content ask for, deep as it may be.
LayoutSettles ==
    ~relayoutNeeded[Root] =>
        \A w \in Under(Root) \ {Root} :
            /\ ~relayoutNeeded[w]
            /\ InFrame(w) =>
                  dim[w] = IF lp[w] = "min" THEN measure(w) ELSE dim[Home[w]]
=============================================================================

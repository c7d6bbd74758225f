--------------------------- MODULE ResourceManager ---------------------------
(***************************************************************************)
(* Resource packs, the resources loaded from them, and the textures and    *)
(* image matrices that images and nine-patches make of themselves.         *)
(*                                                                         *)
(* Objects are shared: an object lives while the program or another        *)
(* object holds it.  The manager and the caches only know the objects:     *)
(* their pointers are weak.  No user code runs within a load, so that a    *)
(* load is one step, with the loads it makes for what it refers to.        *)
(*                                                                         *)
(* The files of images are left out but for whether they are SVG, which    *)
(* is rendered for every size; another image is its own texture.           *)
(***************************************************************************)
EXTENDS Naturals, Sequences, FiniteSetsExt, SequencesExt

CONSTANTS
    Files,          \* the descriptions of packs that exist
    Mounted,        \* those the program mounts
    Includes,       \* of each file, the files it includes, in their order
    Described,      \* of each file, what it says of the names it describes
    TypeOf,         \* of each name, the type it is loaded as
    Loads,          \* the names the program calls load() with
    Sizes,          \* of textures
    Natural,        \* the request for a texture of no given size
    NaturalSize,    \* what it comes to
    SizeAt,         \* of each scale, the size of a nine-patch's texture
    Ids,            \* bound: the objects there can be,
    Beyond,         \* and one too many
    MaxMounts,      \* bound: calls of mountResPack()
    None

Types == {"texture", "image", "cursor", "ninepatch"}
Names == DOMAIN TypeOf
Scales == DOMAIN SizeAt

\* Files do not include each other in a circle, since mounting would not come
\* to an end.  What a description refers to is loaded as the type that it is.
ASSUME ResourceAssumption ==
    /\ IsFiniteSet(Files)
    /\ Includes \in [Files -> Seq(UNION {Range(Includes[f]) : f \in Files})]
    /\ \A F \in SUBSET Files :
           F # {} => \E f \in F : Range(Includes[f]) \cap F = {}
    /\ None \notin Ids /\ Beyond \notin Ids /\ None # Beyond
    /\ None \notin Files /\ Mounted \subseteq Files
    /\ None \notin Names /\ Loads \subseteq Names
    /\ TypeOf \in [Names -> Types]
    /\ \A f \in Files : \A n \in DOMAIN Described[f] :
           LET ref == Described[f][n].ref
           IN /\ n \in Names
              /\ ref # None => ref \in Names
              /\ ref # None /\ TypeOf[n] = "image" => TypeOf[ref] = "texture"
              /\ ref # None /\ TypeOf[n] = "cursor" => TypeOf[ref] = "image"
    /\ MaxMounts \in Nat

VARIABLES
    packs,      \* the packs that are mounted: their files
    resMap,     \* of each name, the resource it had last
    heap,       \* the objects that live
    held,       \* the objects the program holds
    mounts      \* history: the files mountResPack() was called with

vars == <<packs, resMap, heap, held, mounts>>

Only(f, S) == [x \in DOMAIN f \cap S |-> f[x]]
With(f, x, y) == [z \in DOMAIN f \cup {x} |-> IF z = x THEN y ELSE f[z]]

-----------------------------------------------------------------------------
(* Objects *)

Object(kind, name, refs) ==
    [kind |-> kind, name |-> name, refs |-> refs, svg |-> FALSE,
     cache |-> << >>, parent |-> None, key |-> None, natural |-> FALSE]

Fresh(h) == IF Ids \subseteq DOMAIN h THEN Beyond
            ELSE CHOOSE id \in Ids \ DOMAIN h : TRUE

Bounded(h) == Beyond \notin DOMAIN h

\* What the objects of S keep alive: chains of references are that long.
Kept(h, S) ==
    LET WithRefs(T) == T \cup UNION {h[i].refs : i \in T}
    IN WithRefs(WithRefs(S))

\* A weak pointer to an object that is gone designates nothing.
Weak(i, alive) == IF i \in alive THEN i ELSE None

ErasedAll(h, i, alive) ==       \* mutant: a death empties the cache
    IF \E d \in DOMAIN h \ alive : h[d].parent = i THEN DOMAIN h[i].cache
    ELSE {}

\* Textures and matrices that die erase their keys from their parent's cache.
Erased(h, i, alive) ==
    {h[d].key : d \in {e \in DOMAIN h \ alive : h[e].parent = i}}

Survivors(h, alive) ==
    [i \in alive |->
        [h[i] EXCEPT !.cache = Only(@, DOMAIN @ \ Erased(h, i, alive)),
                     !.parent = Weak(@, alive)]]

\* The objects of h that are left, and what the map knows of them, when the
\* program holds those of S.
Collect(h, map, S) ==
    LET alive == Kept(h, S) \cap DOMAIN h
    IN /\ heap' = Survivors(h, alive)
       /\ resMap' = [name \in DOMAIN map |-> Weak(map[name], alive)]

-----------------------------------------------------------------------------
(* Packs *)

IncluderFirst(packs_, f) ==     \* mutant: included packs are mounted after it
    IF DOMAIN Described[f] = {} THEN packs_ ELSE <<f>> \o packs_

Includer(packs_, f) == IF DOMAIN Described[f] = {} THEN packs_
                       ELSE Append(packs_, f)

\* The packs that mountResPack() mounts for each file, and whether it comes to
\* its end: an include that cannot be read throws.
MountedBy ==
    LET M[f \in Files] ==
            LET Include(done, g) ==
                    IF done.threw THEN done
                    ELSE IF g \notin Files THEN [done EXCEPT !.threw = TRUE]
                    ELSE [packs |-> done.packs \o M[g].packs,
                          threw |-> M[g].threw]
                included == FoldLeft(Include,
                                [packs |-> << >>, threw |-> FALSE],
                                Includes[f])
            IN IF included.threw THEN included
               ELSE [included EXCEPT !.packs = Includer(@, f)]
    IN M

mountResPack(f) ==
    /\ Len(mounts) < MaxMounts
    /\ packs' = packs \o MountedBy[f].packs
    /\ mounts' = Append(mounts, f)
    /\ UNCHANGED <<resMap, heap, held>>

\* The packs that describe the name; the newest one is taken.
Describing(name) == {k \in DOMAIN packs : name \in DOMAIN Described[packs[k]]}

findResourceInScript(name) ==
    LET says == Described[packs[Max(Describing(name))]][name]
    IN [name |-> name, ref |-> says.ref,
        svg |-> says.svg, broken |-> says.broken]

-----------------------------------------------------------------------------
(* Loading *)

\* A load goes from a heap and a map to others; no result is an exception.
Loading == [heap |-> heap, map |-> resMap, result |-> None]

ExpiredStays(s, name) == s      \* mutant: the name stays

\* findResourceInResMap() erases the name of a resource that is gone.
Cleaned(s, name) ==
    IF name \in DOMAIN s.map /\ s.map[name] = None
    THEN [s EXCEPT !.map = Only(@, DOMAIN @ \ {name})]
    ELSE s

\* A resource that is found must be of the type asked for.
findResourceInResMap(s, name, type) ==
    IF /\ name \in DOMAIN s.map
       /\ s.map[name] # None
       /\ s.heap[s.map[name]].kind = type
    THEN s.map[name]
    ELSE None

\* std::map::insert() leaves a name alone that is there.
addResource(s, name) ==
    IF s.result = None \/ name \in DOMAIN s.map THEN s
    ELSE [s EXCEPT !.map = With(@, name, s.result)]

\* T::load() is Make; its result has the object o.
Load(s, name, type, Make(_, _)) ==
    LET found == findResourceInResMap(s, name, type)
        t == Cleaned(s, name)
    IN IF found # None
       THEN [s EXCEPT !.result = found]
       ELSE IF Describing(name) = {}
       THEN [t EXCEPT !.result = None]
       ELSE addResource(Make(t, findResourceInScript(name)), name)

New(s, o) ==
    LET id == Fresh(s.heap)
    IN [s EXCEPT !.heap = With(@, id, o), !.result = id]

\* What a resource needs is loaded; then its own description may be broken.
Finish(s, d, o) ==
    IF d.broken THEN [s EXCEPT !.result = None] ELSE New(s, o)

MakeTexture(s, d) == Finish(s, d, Object("texture", d.name, {}))

LoadTexture(s, name) == Load(s, name, "texture", MakeTexture)

\* An image is a file, or a part of a texture.
MakeImage(s, d) ==
    LET t == LoadTexture(s, d.ref)
    IN IF d.ref = None
       THEN Finish(s, d, [Object("image", d.name, {}) EXCEPT !.svg = d.svg])
       ELSE IF t.result = None THEN t
       ELSE Finish(t, d, Object("image", d.name, {t.result}))

LoadImage(s, name) == Load(s, name, "image", MakeImage)

MakeCursor(s, d) ==
    LET t == LoadImage(s, d.ref)
    IN IF d.ref = None THEN [s EXCEPT !.result = None]
       ELSE IF t.result = None THEN t
       ELSE Finish(t, d, Object("cursor", d.name, {t.result}))

LoadCursor(s, name) == Load(s, name, "cursor", MakeCursor)

\* A nine-patch has an image of its own, which has no name.
MakeNinePatch(s, d) ==
    LET t == Finish(s, d, [Object("image", None, {}) EXCEPT !.svg = d.svg])
    IN IF t.result = None THEN t
       ELSE New(t, Object("ninepatch", d.name, {t.result}))

LoadNinePatch(s, name) == Load(s, name, "ninepatch", MakeNinePatch)

LoadAs(name) ==
    CASE TypeOf[name] = "texture" -> LoadTexture(Loading, name)
      [] TypeOf[name] = "image" -> LoadImage(Loading, name)
      [] TypeOf[name] = "cursor" -> LoadCursor(Loading, name)
      [] TypeOf[name] = "ninepatch" -> LoadNinePatch(Loading, name)

\* What the load made and nothing holds goes with the exception.
load(name) ==
    /\ LET s == LoadAs(name)
       IN /\ Bounded(s.heap)
          /\ held' = IF s.result = None THEN held ELSE held \cup {s.result}
          /\ Collect(s.heap, s.map, held')
    /\ UNCHANGED <<packs, mounts>>

-----------------------------------------------------------------------------
(* Textures of images, matrices of nine-patches *)

Cached(s, i, key) ==
    IF key \in DOMAIN s.heap[i].cache THEN s.heap[i].cache[key] ELSE None

Changed(s, i, o) == [s EXCEPT !.heap = With(@, i, o)]

\* A new object of i, which puts it into its cache.
Offspring(s, i, key, o) ==
    LET t == New(s, [o EXCEPT !.parent = i, !.key = key])
    IN Changed(t, i, [t.heap[i] EXCEPT !.cache = With(@, key, t.result)])

\* The texture of image i for a request, which is the key; rendering decides
\* the size, under which the texture is kept.
Texture(s, i, request) ==
    LET size == IF request = Natural THEN NaturalSize ELSE request
        asked == Changed(s, i, [s.heap[i] EXCEPT
                                    !.natural = @ \/ request = Natural])
    IN IF ~s.heap[i].svg
       THEN [s EXCEPT !.result = i]
       ELSE IF Cached(s, i, request) # None
       THEN [s EXCEPT !.result = Cached(s, i, request)]
       ELSE Offspring(asked, i, size, Object("quad", None, {}))

\* The matrix of nine-patch n: nine parts of a texture of its image.
Matrix(s, n, image, scale) ==
    LET t == Texture(s, image, SizeAt[scale])
    IN IF Cached(s, n, scale) # None
       THEN [s EXCEPT !.result = Cached(s, n, scale)]
       ELSE Offspring(t, n, scale, Object("matrix", None, {t.result}))

Get(s) ==
    /\ Bounded(s.heap)
    /\ heap' = s.heap
    /\ held' = held \cup {s.result}
    /\ UNCHANGED <<packs, resMap, mounts>>

getTexture(i, request) ==
    /\ i \in held /\ heap[i].kind = "image"
    /\ Get(Texture(Loading, i, request))

getMatrix(n, scale) ==
    /\ n \in held /\ heap[n].kind = "ninepatch"
    /\ \E image \in heap[n].refs \cap DOMAIN heap :
           Get(Matrix(Loading, n, image, scale))

\* The program gives up an object.
Release(i) ==
    /\ i \in held
    /\ held' = held \ {i}
    /\ Collect(heap, resMap, held')
    /\ UNCHANGED <<packs, mounts>>

-----------------------------------------------------------------------------
(* The specification *)

Init ==
    /\ packs = << >> /\ resMap = << >> /\ heap = << >>
    /\ held = {} /\ mounts = << >>

Next ==
    \/ \E f \in Mounted : mountResPack(f)
    \/ \E name \in Loads : load(name)
    \/ \E i \in DOMAIN heap : \E request \in Sizes \cup {Natural} :
           getTexture(i, request)
    \/ \E n \in DOMAIN heap : \E scale \in Scales : getMatrix(n, scale)
    \/ \E i \in held : Release(i)

Spec == Init /\ [][Next]_vars

-----------------------------------------------------------------------------
(* Properties *)

Resources == {i \in DOMAIN heap : heap[i].name # None}

\* As long as a resource lives its name designates it: the program gets it
\* whenever it loads the name, there never is a second one with that name,
\* and what addResource() asserts is true. Loads that fail half way through
\* and resources that are gone leave names behind that must not be in the way.
OneOfAName ==
    \A i \in Resources :
        /\ heap[i].name \in DOMAIN resMap
        /\ resMap[heap[i].name] = i

\* What the include trees say of a name: a file that was read to its end
\* comes before what it includes, a later include before an earlier one.
Complete ==
    LET C[f \in Files] == \A k \in DOMAIN Includes[f] :
                              Includes[f][k] \in Files /\ C[Includes[f][k]]
    IN C

\* The file in the tree of each file that describes the name.
Deciding(name) ==
    LET D[f \in Files] ==
            LET files == Includes[f]
                read == {k \in DOMAIN files :
                            /\ files[k] \in Files
                            /\ \A j \in 1 .. k - 1 :
                                   files[j] \in Files /\ Complete[files[j]]}
                hits == {k \in read : D[files[k]] # None}
            IN IF Complete[f] /\ name \in DOMAIN Described[f] THEN f
               ELSE IF hits = {} THEN None
               ELSE D[files[Max(hits)]]
    IN D

\* A name is found where the include trees of the files the program mounted
\* say it is, the newest tree first, and that of a file that could not be
\* included as far as it was read. The manager has a list only.
FindsByPrecedence ==
    \A name \in UNION {DOMAIN Described[f] : f \in Files} :
        LET deciding == Deciding(name)
            trees == {k \in DOMAIN mounts : deciding[mounts[k]] # None}
            describing == Describing(name)
        IN IF trees = {} THEN describing = {}
           ELSE /\ describing # {}
                /\ packs[Max(describing)] = deciding[mounts[Max(trees)]]

\* An image has one texture of a size and a nine-patch one matrix of a scale
\* at a time, whatever dies in between. An image that is asked for its natural
\* size is the exception: that request is never found in the cache.
RendersOnce ==
    \A i, j \in DOMAIN heap :
        /\ heap[i].parent # None
        /\ heap[j].parent = heap[i].parent
        /\ heap[j].key = heap[i].key
        => i = j \/ heap[heap[i].parent].natural
=============================================================================

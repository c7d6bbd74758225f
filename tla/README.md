# morda in TLA+

morda is a widget toolkit: a tree of widgets, drawn with OpenGL, that handles mouse, keyboard and
character input, lays itself out, updates its animations, and builds its widgets from scripts. The modules here
model the parts of it whose correctness depends on the order of calls: the scheduler of periodic updates, the
dispatch of mouse events, the keyboard focus, layout requests and cached pictures, the widgets that show long
sequences of a program's items, the text editor, buttons and their groups, the inflater and the resource manager.
TLC checks small instances of each, and TLAPS proves what the runs check of all of them, apart from what
section 4 names, for every size. Paths below are relative to `src/src/morda/` unless they begin with `src/`.

## 1. The system

**One thread.** All of morda runs in the UI thread. The main loop (`src/examples/sdl2example/src/main.cpp`,
`src/tests/app/src/mordavokne/`) waits for an event or for the time that `Morda::update()` returned, hands the
events to `Morda::onMouseMove/onMouseButton/onMouseHover/onKeyEvent/onCharacterInput`, updates, and calls
`Morda::render()`. Other threads can only call `postToUiThread_ts()`, whose functions the UI thread runs later.
There are no locks, and no two handlers run at a time.

**The hard part is re-entrance and delay.** Nearly every operation calls virtual methods and callbacks that belong to
the program, in the middle of its own work: `update()` of a timer while the queue is being emptied,
`onFocusChanged()` while the focus changes, `onMouseButton()` of a child while its container loops over its
children. That code may call any method of any widget. What was read before the call may be wrong after it. The
other source of trouble is work that is put off: a layout asked for now and done in the next `render()`, a
notification posted to the UI thread, an iterator or an index cached until the list asks again, a pointer
captured from a press to a release that may be a long time coming. There is no persistence and no
network, so there are no crashes to recover from and no messages to lose.

| component | state | operations | interacts with | must hold | modelled |
|---|---|---|---|---|---|
| Updater (`Updateable.*`) | two queues sorted by end time, the list `toAdd`, the time of the last update; in each object `isUpdating`, `queue`, `iter`, `pendingAddition` | `startUpdating`, `stopUpdating`, `update`, `addPending`, `popFront` | main loop (wait), user `update()` | no call after stop, none early, none much too late, none forgotten; wrap-around of the uint32 clock | `Updater` |
| Mouse dispatch (`Container.cpp`, `Widget.*`, `Morda.cpp`) | children lists, `isBlocked`, `mouseCaptureMap`, `hovered` | `onMouseButton`, `onMouseMove`, `onHoverChanged`, `add`, `remove`, `makeTopmost`, `setVisible`, `setEnabled` | user handlers, tree, layout | presses are paired with releases, captures end, no list changes under its loop, hovering follows the pointer | `MouseDispatch` |
| Keyboard focus (`Morda.cpp`, `Widget.cpp`, `TextInput.cpp`) | `focusedWidget`, `isFocused` of each widget, blinking | `setFocusedWidget`, `focus`, `unfocus`, `onKeyEvent`, `onCharacterInput` | `onFocusChanged()`, Updater | Morda and widgets agree | `Focus` |
| Layout and caches (`Widget.*`, `Container.cpp`, `Frame.cpp`, `Morda.cpp`) | `relayoutNeeded`, `cacheDirty`, `cacheTex`, rectangles | `setRelayoutNeeded`, `resize`, `layOut`, `clearCache`, `renderInternal` | tree, every widget that changes | requests reach the root, one pass is enough, caches are current | `Relayout` |
| List (`widgets/List.*`) | widgets shown, `posIndex`, `posOffset`, the tail items | `layOut`, `setScrollPosAsFactor`, `notifyDataSetChanged`, `setItemsProvider` | provider (user code), posted calls | shows the provider's items, in order, without gaps; scroll bar agrees | `List` |
| TreeView (`widgets/TreeView.*`) | tree of visible items with sizes, cached iterator and index | `getWidget`, `recycle`, `collapse`, `uncollapse`, `notifyItemAdded/Removed/Changed` | List, user's provider | index and path agree | `TreeView` |
| Text input (`widgets/TextInput.*`, `TextWidget.*`) | text, cursor, selection, first visible character and its offset, ctrl and shift | keys, characters, mouse, `setCursorIndex`, `onResize` | Focus, Updater | cursor and selection within the text and drawn where they are; flags follow the keys | `TextInput`, `Focus` |
| Buttons, choice groups (`widgets/button/`) | pressed, what `PushButton` remembers of it, checked, the active button | mouse handlers, `setChecked`, signals | mouse dispatch, user code | one checked button in a group, no button stuck | `Buttons` |
| Inflater (`Inflater.*`, `widgets/core/container/Container.cpp`) | factories, stacks of templates and variables | `inflate`, `pushTemplates`, `pushVariables`, constructors | containers, lists, user code | the stacks are as before after each inflate; a widget is what its definitions say, and references read the innermost variable, except where merging puts other values before them | `Inflater` |
| Resource manager, resources (`ResourceManager.*`, `resources/`) | mounted packs, map of weak pointers; caches of textures and matrices | `mountResPack`, `load`, `get` | nested loads, the program that holds objects | one live object for a name, found in the right pack; nothing is rendered twice | `ResourceManager` |
| Overlay, drop-down, Window, ScrollArea, LinearArea, Slider | geometry, context menus, dragging | mouse handlers, `layOut` | mouse dispatch, layout | clamping, space given out in full | no, see section 6 |
| OpenGL wrappers, shaders, fonts, images, archives, passive widgets | handles | draw, decode | libraries | what the libraries promise | no: I/O without an order of its own |

`PROJECT.json` lists every component with its sources, and every hazard at its line with the properties that cover
it, or the reason why none does.

## 2. The modules

Each module has the state of its component as variables under the names the code uses and one action for
each method, or for each part of a method between two calls of user code. The user's code is in the model as
nondeterministic choice: wherever the code calls a virtual method of the program, the program may do
any of the listed operations, any number of times. Definitions marked *mutant* are faulty versions of the
definition below them, for checking that the properties notice.

**`Updater`** models `Updateable.cpp` with its environment, the main loop. `phase` says where the thread is:
waiting, in event handlers, or in one of the loops of `Updater::update()`; `running` is the object whose
`update()` runs. A queue is a sequence of nodes, each with the object, the end time, and whether the object's
`iter` designates it, so that `erase(iter)` removes the node that the code would remove. Objects are held by
weak references in the queues: `Alive` says whether `lock()` succeeds. The clock counts modulo `Modulus` and
advances between any two steps; `age` and `spent` are real time, for properties and for the bounds.
**`PeriodicTimers`** is what the scheduler promises: independent timers that fire when their period is over and
one at a time. `Updater` implements it under the mapping at its end (`ImplementsTimers`).

**`MouseDispatch`** models nested virtual calls with an explicit stack: each frame has the method, the
widget, the child its loop is at, and where in the method it is. A frame "user" is a handler of the program, in which
`UserCalls` may happen. `owed` counts the presses that a widget returned true for, or was sent as captured, and for which
it saw no release yet. Geometry is reduced to the set `under` of widgets at the event's position, which a
widget's move may change.

**`Focus`** splits `setFocusedWidget()` where it calls `onFocusChanged()`: `Lose` clears the old widget's flag, `Gain`
sets the new one. The stack holds calls in progress. `TextInput` is modelled with what it does in
`onFocusChanged()` and in `setCursorIndex()`, which focuses the widget and starts the blinking.

**`Relayout`** has the tree as `up`, the set of containers (and itself) that each widget is in. `setRelayoutNeeded()`
goes up to the first widget that has the flag, as in the code, and drops textures on the way. A layout is one step:
which `layOut()` methods are called is `LaidOut`, the lengths that come out are `dimForWidget`, and the caches marked
as dirty are `Cleared`. A texture is the set of looks (length, text, colour) of all that was drawn into it.
Frames stand for all containers that `resize()` their children; plain containers do not.

**`List`** has the widgets shown with the index each was made for, which is how the code finds them again, and the
tail items from which the scroll position is computed. A provider's items change at once and the call that tells
the list is posted. Lengths are integers; `Round` is `std::round()`.

**`TreeView`** models the items provider of the widget. Items are paths. `size` is the field `size_var` of the nodes of
`visibleTree`; the arithmetic of `next`, `prev` and `pos` is done on these numbers, not on the tree they should describe.
`iter` and `iterIndex` are the cached iterator and its index.

**`TextInput`** is the editor. A text is a sequence of characters with widths. What moves the cursor goes through
`PutCursor`, which is `setCursorIndex()` with the change of the text before it; the loops over characters, which walk from the
first visible one, or back from the cursor, are the least or greatest index at which they stop. Positions in pixels are kept by
the code beside the indices, so they are variables of their own here. `held` is what the keyboard does and `pressed` what
the widget saw of it.

**`Buttons`** has a stack of calls like `MouseDispatch`. An event goes to the captor or to the button below the pointer, as
`Hover`, `Handle` and `Count`, in between which `onPressedChanged()` runs; `setChecked()` is split where it unchecks the last
active button and where it emits the signal. A move is passed to the children one after the other (`Move` pushes a frame for each, `Pass` takes
it). While a signal is emitted the program may check and hide buttons
(`UserCodeIn` says in which signals), so these calls nest.

**`Inflater`** has the two stacks as sequences of layers and each call of `inflate()` whose constructor is running as a frame.
`InflateNode` is all of `inflate()` before the constructor: the template that is merged in, what is pushed, and each exception
with what it leaves pushed. Constructors inflate the widgets they hold, or a chain of their own, return or throw, at any
time; `Unwind` is the destructor of `ScopeExit`. `kept` are the items that lists and selectors inflate later. `globals`
is history: what the program declared at the outermost level. The properties find the definitions of a widget in the scripts
alone (`Definitions`, `Meaning`), without the stacks. A property has a list of values, because `mergeGUIChain()` does not only replace: it
descends into the property and takes a value that begins with a capital (`Capitals`) for a widget, so `text{Hello}` in a template and
`text{@{v}}` in its use make `text{Hello @{v}}`, where the reference is not replaced and the template's value is the first one
(`MergedValues`, `Substituted`); for a variable, that is an exception (`PushVariables`).

**`ResourceManager`** has objects in a `heap`; the map of names and the caches are weak, so `Collect` computes after each
step what is still held, by the program or by other objects, and what dies erases its key from its parent's cache. No user code
runs within a load, so a load is one step; nested loads are operators from a heap and a map to others, and an
exception half way through keeps what they did so far.

The `...Proofs` modules hold theorems. The `MC...` modules give instances for
TLC. The components touch each other at few points, and at these each module has the other side in its environment:
user code in `Updater` is event handlers, a `layOut` in `MouseDispatch` is a step that resets `isBlocked`, the
blinking in `Focus` is a subscription that `Updater` shows to be kept. `TreeView` takes calls of `List`
(`getWidget`, `recycle`, in any order and for any index), and `List` takes any provider. `TextInput` gets and loses the focus
at any time, which is `Focus`, and characters only while it has it. `Buttons` contains the part of `MouseDispatch` that
decides who captures a pointer.

## 3. The runs

| run | question | bounds |
|---|---|---|
| `updater` | Are the queues, the pending list and the objects consistent; is no call much too late or after a stop; is every subscriber eventually called; is it an implementation of timers (which has no call too early)? | 2 objects, clock of 5 values, periods 0 and 1, waits and busy times of at most 1 tick |
| `updater_restart` | *violation*: is there no call after `stopUpdating()`, also if `update()` restarts its own object? | clock of 8 values |
| `mouse` | Presses, releases, captures and hovering while user code changes the tree, and while widgets move and containers are laid out | a container in the root with a widget in each; 1 pointer with 2 buttons and a program that changes the tree, or 2 pointers with 1 button and a program that moves widgets |
| `mouse_layout` | *violation*: does a list of children never change under its loop, when a handler lays out? | 1 pointer |
| `focus` | Focus changes from handlers and from `onFocusChanged()` | 2 text inputs in a panel, 6 nested calls |
| `list` | What the list shows, with outdated information too; scroll factors | at most 4 items of two kinds, list lengths 3 and 4, factors in thirds, 2 posted calls |
| `treeview` | Sizes, cached iterator and paths through every sequence of changes | at most 6 items in any shape |
| `relayout` | Requests, lengths and textures through changes of texts, colours, parameters, tree and viewport | a cached frame with a label and a cached plain container with a text |
| `textinput` | Cursor, selection, view and modifier flags through keys, characters, the mouse, resizing and changes of the focus | texts of at most 3 characters of widths 1, 4 and 2 (the space), widgets of widths 4 and 6 |
| `buttons` | Checked and pressed buttons while signal handlers check and hide buttons | two choices in a group and a toggle, 1 pointer with 2 keys, 3 calls below a handler's |
| `inflater` | Scopes, merged definitions and variables through nested calls and exceptions | a widget, one it holds, two templates, one extending the other in some scripts; values with capitals and without; 3 nested calls, 2 layers at the outermost level |
| `resources` | Names, packs and caches through mounts, failing loads and releases | 4 packs that include, override and break each other, 2 mounts, 5 objects |

**Why the bounds are enough.** `updater`: what can go wrong involves one object and one other that is before or
after it in a queue, two queues, and a wrap-around, and the clock of 5 passes its wrap several times in the
reachable states; 0 is a period that is always due, and 1 is more than a turn of the loop may take. `mouse`: a container
in a container is the least tree in which events go down, captures are kept at two levels and hovering has to be
undone inside; a second child of the root gives a place for the pointer to go. `focus`: two widgets can steal the focus
from each other, and 6 calls hold a change of focus within another one. `list`: the list has both more and fewer
items than it can show, of even and of uneven length, and with two calls posted it is one change behind again after it was two behind. `treeview`: with 6 items there are three levels
with siblings at each and an item that is first, inner and last. `relayout`: every kind of widget (leaf, frame, plain
container, cached or not) is inside every other. `textinput`: a text may be shorter and longer than the widget, a character as
wide as it, and a word has something before and after it. `buttons`: a handler may check the other button of a
group within a click, and the handler of that one may check the first again. `inflater`: a name is declared at the
outermost level, in a template and in a node, and each may refer to the one outside; a reference overrides values with a capital, in one template
and in two, and values without, and variables do too. `resources`: a cursor, its image and the
texture of that live with a texture and a matrix made on request. Bounds in guards are named in the modules: `MaxAge`, `MaxBusy`, `MaxIdle`,
`MaxDepth`, `MaxCount`, `MaxPosted`, `MaxItems`, `MaxLength`, `MaxCalls`, `MaxGlobals`, `MaxMounts`, `Ids`, and `clicks` in the
programs of `MCMouseDispatch`.

**Fairness.** Only `updater` states liveness (`EventuallyCalled`, under `FairSpec`). The thread never stops: a wait ends, `update()` and event
handlers return (weak fairness of `Wake` and `UpdateLoop`). Time passes: however often the loop goes round with a wait of 0, the
clock ticks again and again (strong fairness of `Tick`, since between two waits no more than `MaxBusy` ticks fit).
Nothing is assumed of user code, which may start, stop and drop objects for ever.
The clock must not make a full turn between two calls of `update()` while an object is subscribed: with a `Modulus` of 3 rather
than 5, busy periods and a wait of one tick each add up to a turn, the wrap-around is not seen, and an object may wait for ever.
For the real clock a turn is 49 days. The proofs assume as much (`ClockIsSlow`), and `MCUpdater` has TLC evaluate that it is so in the instances.

**Deadlock** is checked in every run: in none does the system stop.

## 4. What is proved

TLAPS checks these theorems for every value of the constants that the modules' ASSUMEs allow.

*Updater* (`MordaProofs`): `TypeCorrect`; `QueuesAreSorted`; `FrontAssertionsHold`, the assertions in `update()`,
whatever the clock does; and, when no `update()` restarts its own object (`~RestartInCallback`),
`ScheduleIsConsistent` and `StoppedIsNotCalled`, and, when besides the clock makes no full turn between two updates
(`ClockIsSlow`), `NeverTooLate` and `TimersAreImplemented`, the refinement. Consistency is inductive with the type invariant: each action removes or
inserts one node, and the lemmas about a queue after one removal or insertion (`RemoveEntry` and those that follow) say
what becomes of order and distinctness. Sorting alone is not inductive with the assertions: `TimingInv` adds that all
end times in the active queue are at least the last time and all in the inactive one are before it, with the
phases in which this holds already for the new time. The last two theorems rest on `RealTime`, which relates the clock's
values to what has really passed. `Ahead` is the time from the last update until an entry comes round, over the wrap-around where the
queue says so, and `Lag` how far the clock is from that update; for each entry the age of its period and `Ahead` add up to
the period and `Lag` (`EntryTimed`), and in each phase `Lag` has a bound below a full turn (`LagBounded`). What is put into a queue satisfies this because of the
choice `addPending()` makes (`EndIsAhead`), a wrap-around keeps it because the queues change roles, what is popped has nothing ahead of
it any more (`PoppedIsDue`), and the wait is computed from the least `Ahead` of all entries (`FrontIsNearest`), so that no entry
is passed by more than `Oversleep`. `MordaProofs`, which has the two parts that the class `Morda` keeps, begins with the lemmas on sequences they need.

*Mouse events* (`MouseProofs`): `TypeCorrect`, `ChildrenAreStable`, `NoneCapturesTwice`, `CapturesEnd` and `PressesGetReleases`, for
any children, pointers and numbers of buttons, when no program both lays containers out and changes lists of children
(`LayOutsApart`; the run `mouse_layout` shows what happens otherwise). `StackInv` says what calls can be in progress: each goes on at a
place that its container's list has, calls above one that has begun its loop are of widgets below its container, so that a
container has one loop at most, and this one blocks it. A list cannot change under a loop because the flag that the loop's end clears is that of no other
loop. A call of `onMouseButton()` that waits has found an entry whose widget is alive and gets the event, or has found none and the entry
is still free (`Passes`), which gives the assertion. `CaptureInv` counts clicks in the middle of an event: `Entry` is what a container will remember
once the call that has returned to it is taken into account, and `Held` the number of buttons down before the event has reached the root's map. The root counts no more
than `Held`, a container in it no more than the root counts for that container, and a widget waits for as many releases as the entry that names
it. When no button is held, all of these are 0.

`HoversInsideHovered` and `HoversWhereItIs` are for programs that leave the tree as it is (`TreeStays` in the properties) while handlers
move widgets and lay containers out, and for widgets that lie inside their parents (`Nested`; section 5). Neither property is inductive: a container is
hovered only after its `onMouseMove()` has returned, its children before that, and a widget may move away while any of the calls
above it is at any place. `HoverInv` says where the calls have got to. `Inside`: a hovered child is in a hovered container, or a call that un-hovers it is on the stack
and not past it (`Some("unhovers", ...)`), or its container handles a move and is under the pointer, so that it will be hovered.
`Others`: for the pointers that the event is not of, hovering is settled. `ButtonsShown`: a button event goes only to containers that are hovered or not under the pointer, because
a press hovers the child before it is passed on. `Follows`: while a move is handled, a hovered child at
either level is under the pointer or a loop that will leave it has not got to it yet, also for the children of a container that the
root's loop will still come to. A move goes through a list from its end and un-hovering from its beginning; `IsAt` says for which children a call is not past them. The shape of the stack comes from `StackInv`, and a widget being in
one place of the tree, which `Container::add()` enforces (`Container.cpp:219`), is part of `MouseAssumption`.

*Relayout* (`RelayoutProofs`): `RequestsAlwaysReachRoot` and `OneLayoutSettles`, for every tree, and `FramedCachesHaveTextures` and
`CachesAreCurrent`, for every tree whose cached widgets are in frames. `RequestsReachRoot` speaks of a widget and its container,
while a request goes up until it meets a flag, so the proof needs that what a widget is in is a chain through its
containers. `TreeInv` says so in four parts: a widget is in itself and things above it; what it is in, it is in
through its container; what that is in, it is in; and of two that it is in, one is in the other. `add` and `remove` keep
this (`AddKeepsTree`, `RemoveKeepsTree`), requests and layouts keep the flags (`RequestKeepsFlags`,
`LayoutKeepsFlags`). For textures: a request drops a texture only where it sets a flag, a layout
that takes the flag from a widget in a frame marks its cache as dirty, and drawing a dirty cache makes a texture.
Without the assumption about frames the property fails (section 5).

That one layout is enough is not inductive, since a request may be pending for one part of the tree while another is laid out by
itself (`resize()` of what a plain container holds). `Settled` says it for each widget in a frame whose container has no request. A request
gives the flag to all that the widget is in (`FlagsGoUp`, `RequestTellsAll`), and what a widget elsewhere looks like inside, on which
its least length and its picture depend, is not touched (`ElsewhereSame`). A layout gives a widget another length only if it
lays it out too (`LengthsChangeDirty`). The lengths come from a recursion down the tree, which is defined because widgets have a level
(`AllGetLengths`): the set of widgets is finite. For pictures, `CurrentInv` adds that what has a request has no texture, so that a change below a widget leaves
no old texture of it, even where the request met a flag half way. What is drawn into a texture takes the pictures of clean caches
from theirs: each visible widget is drawn itself or is in the picture of the highest clean cache above it (`DrawsPicture`).

*Focus* (`MordaProofs`): `FocusIsKnown` and `OnlyFocusedBlinks`, for any tree of widgets and any depth of nested calls, when no
program acts as a widget loses the focus (`"lost"` not in `UserCodeIn`). While calls are in progress Morda and the widgets
disagree for a moment, and the invariant says how far: a widget that takes itself for focused is Morda's; it blinks unless the call
that makes it blink is still on the stack; and above a call that gives the focus there is only the loss of the widget before.

*TextInput* (`WidgetProofs`): `CursorStaysInText`, `PositionsAreRight`, `PressesHitNearest` and `FlagsNameHeldKeys`, for all fonts, widths and lengths. The
first three are for a program that calls `setText()` only while the cursor and the
selection are at the beginning (no `"setTextLater"` in `UserCalls`), and the second for widgets that are not narrower than their cursor (section 5).
`CursorInText` is inductive once `PutCursor` is known to keep it (`PutCursorKeeps`), for which each operation has to show
that it passes an index that is a natural number. Positions are sums over the text. The prover cannot use the library's induction theorems, but `Induction`
states the principle with the set of the numbers that have the property, and follows from the least element of a set of
numbers; with it the function in `Advance` exists and is unique (`SumExists`, `SumsAgree`), and so `Advance` grows by one character at a time, depends on
nothing but the characters between its indices and does not decrease (`AdvanceOfLast`, `AdvancesAgree`, `AdvanceGrows`). `DrawnAtIndex` is then kept by `setCursorIndex()`
(`PutCursorDraws`), and by the only edit that does not call it, the deletion of the character behind the cursor (`DeleteKeepsDrawn`).
That the loop of `posToIndex()` finds the nearest index (`NearestIndex`) follows from the middle of the character it stops at and of the one it passed last.

*List* (`WidgetProofs`): `ListTypeCorrect`, and `ShowsTheItems` when no call scrolls past all the widgets shown (`FarScrolls = FALSE`, section 5), for all
providers and items of any lengths, even or not. `ShowsItems` is not inductive: the code finds widgets again by `addedIndex`,
which three loops keep, so `KnowsWhatItShows` adds that it is the index of the first of them whenever there are any. A new layout keeps that only
because something is in view of the item at `posIndex` (`posOffset` is less than its length): were it not, the loop would leave that item behind, and perhaps all
widgets with it, and `addedIndex` would stop before the new ones. `TailIsCutInFirst` shows it of the position that
`updateTailItemsInfo()` finds, `ArrangeResult` of any position the loops end with: the widgets before the rectangle are the first ones,
since lengths are positive (`ExtentGrows`, `SegmentIsInterval`). All of this is about a list that has been told of every change.

`RecyclesTheIndices` is about one that has yet to be told of one change too, under the same condition. `KnowsIndices` is what it then knows: the widgets shown have the
indices from `posIndex` on, and a list that shows nothing has an `addedIndex` that is not set or that the items come up to only by as many as
calls are posted. One item more is at most the next one, so the first widget that is got gets `addedIndex` right (`LayOutKnowsIndices`). With two it may not,
which is why the property is about one (section 5).

`CoversTheList`, `ShowsBothEnds` and `KeepsTheFactor` are about items of one length s, for every number of them, every length of the list, every s and every factor
n / `Steps`, far scrolls included. Then all extents are multiples of s (`EvenExtent`), and the loops leave the position s * `posIndex` + `posOffset` as it is (`EvenArranged`).
`EvenState` is the invariant: what is scrolled away is less than s; the tail items, of which there are `numTailItems`, are as long as the list and
`firstTailItemOffset` together, or (-1) all items are shorter than the list; and the tail is that of the last items once the list is told of all changes. It holds in between too, except for the last part, with
tail items that may no longer exist: `count` less their number then wraps around, to an index beyond the tail (`MinusIs`, `WrappedIndex`). A position that is not
beyond the one that shows the tail leaves items enough to fill the list (`EvenCovers`). What `setScrollPosAsFactor()` computes is such a position
(`EvenScrolled`): the mean length of a tail item is s, so index and offset together are n / `Steps` of the last position, rounded once (`RoundReduced`), and rounding moves nothing
past an integer (`RoundedStays`): neither past the item nor past the end.

*TreeView* (`TreeProofs`): `SizesAreRight`, `SubtreesAreWhole`, `IteratorIsAtIndex` and `ItemsAreFound`, with `TreeTypeCorrect`, for any number of items in
any shape. The properties are inductive together with what a tree is (`TreeInv`): with an item, the one it is in and those before it
are there too (`IsTree`), for the program's items and for those in view, which are among them, and the sizes count
them (`KeptTree`); the iterator is at the end, or on an item in view before which there are `iterIndex` others (`AtIndex`). An index is thus the number of
items before one in the lexicographic order of paths, which `Less` is shown to be (`LessIsTotal`, `LessIsTransitive`). The code
never computes it: `++` and `--` go through children and siblings, and are shown to go to the next item in that order and the one before (`NextIs`,
with `GapClimbs` and `Climbs` for the way up out of a last child; `PrevIs`, with `LastIs` for the way down), so that the loops that walk from one
item to another count what is between them (`Iterates`, `AdvancedIs`, `LeftIs`). An item that is added or removed moves its later siblings and all below them by
one. That is an injection of paths that keeps the order (`UpIsInjective`, `UpKeepsOrder`) and undoes its inverse, and what is counted below a node or before an
item changes by what came or went (`ShiftCounts`, `Grown`, `Shrunk`). Collapsing and uncollapsing replace what is
below an item (`ReplacedIsTree`, `ReplacedSizes`, `ReplacedIndexes`); an iterator in what goes is moved by the loops of `collapse()` and of `correctIteratorAfterDeletion()` (`UpperIs`,
`DeletionKeeps`). A change below a collapsed item leaves what is in view as it is, because `pos()`, which follows the path as far as there are nodes, then stops at
another one (`PosIs`, `HiddenKeeps`). The recursive functions exist by `Recursion`.

*Buttons* (`ButtonsProofs`): `OneIsChecked` and `ActiveStaysChecked`, when no handler acts as a button is unchecked, `MemoryIsRight`, and
`PressedStaysHeld`, when no button is hidden while it is pressed. The first two need to know the
stack while the active button changes: `Swapping` says that the calls below have changed all they will, except for one that waits for the last
active button to be unchecked. Handlers that check buttons nest on top of such a stack only where all calls are calm. An active
button that is not checked has a call in progress that checks it or makes another one active (`ActiveOrSwaps`), and none but toggle buttons and a
replaced one are unchecked (`UncheckedRightly`). For the memory, the invariant says of
each button that the memory is right or that a call of `onPressedChanged()` for it is in progress (`Remembered`). For who holds a pressed button, the clicks that
the container counts have to be compared with the keys: the count of a captured pointer may be too low (a key that went down elsewhere), but never too high
(`Counted`), so a captor that was pressed has all keys counted (`HoldsCaptor`) and is not let go of while the left one is down. A button
that holds without being the captor is under the pointer (`HoldsOver`), or is about to hear that the pointer has left it (`LeavesNext`).

*Inflater* (`InflaterProofs`): `ScopeIsRestored`, `ConstructorsTakeDefinitions` (that is `TakesAfterDefinitions`) and `ReferencesReadInnermost`
(`ReadsInnermost`), for all scripts (`InflaterAssumption` types them; a variable has a value, and a template says something), constructors and depths, when constructors do not call `inflate()` with
declarations of their own before the first widget. What a frame found (`outer`) and what it works in (`inside`) differ by the layers it will pop, on both stacks, at every level,
so that an exception at any step restores the scope of whoever catches it. For what widgets are made of, `Describes` says that a node that was
merged says what a chain of definitions says, the nearest first (`MergeDescribes`, with both ways in which merging gives up on a removed property). The
values of a property follow from the nearest two definitions that have it (`Says`): a merge that does not fail leaves what the nearest one says, after capitals if the one it
overrides has capitals (`SaysMore`, `MergedSays`). `Meant` says that a stack knows exactly the
names that its levels declare, each as a node its definitions describe. The definitions at a level depend on the levels up to it only (`SameDefs`),
so what a stack means outlives the calls pushed on it; a new call, or a declaration of the program, adds the layer its level declares
(`PushMeant`, `OpeningIsRight`, `DeclaringIsRight`). That the recursive function `Definitions` exists is `DefOfDefines`; that whoever looks up a variable
finds its `Meaning` follows level by level (`FindsMeaning`).

*ResourceManager* (`ResourceProofs`): `NamesAreShared`, `CachesHaveOne` and `NamesAreFound` (that is `FindsByPrecedence`), for any finite set of packs whose includes
are not circular (`ResourceAssumption`: `mountResPack()` would not return). A load is a chain of nested loads, and `Sound` is what each of them keeps: objects
are records of their kind, every object with a name is the one the map has, which is of the type of that name, and what the map designates
has the name or is gone. `Listed` adds, for what is rendered from a parent, that it lives in the cache of that parent under its key:
so a request with that key finds it, and a death erases an entry of its own. Loads add objects and touch no cache (`Adds`), and what a
nine-patch renders for its matrix goes to its image and not to its own cache (`Apart`).
For the precedence, the files are ranked so that what a file includes ranks lower (`FilesHaveRanks`); then what `MountedBy`, `Complete` and `Deciding` are
defined as, functions of themselves, they are (`DefinedAlongIncludes`), and by the rank of the file the last pack of what it mounts that describes a name
is the one its include tree decides on (`FilesMountTheirTrees`): within a file by the number of includes read, one of which may throw. The manager's list is a
concatenation of those (`FindsInBoth`), the last mount that decides the name last.

*Only model-checked*: liveness (`EventuallyCalled`), which is out of the prover's reach. Every invariant and action property that a passing run checks, and the
refinement, is proved, some under a condition on what the program or user code does: that condition is the value that the run gives the constant.
`QueuesAreSorted`, `TypeCorrect`, `ListTypeCorrect`, `TreeTypeCorrect` and `ItemsAreFound` (`FindsItem`: an index below `count()` has an item) are proved and
no run checks them apart from what they support and follow from.

## 5. Where code and documentation differ

Shown by a run:

- `updater_restart` (`Updateable.cpp:75`): an `update()` that stops and starts its own object is queued twice, and a later
  `stopUpdating()` removes one node. The comment promises that no update follows (`Updateable.hpp:116`).
- `mouse_layout` (`Container.cpp:200`): `BlockedFlagGuard` sets `isBlocked` to false when it ends, whatever it was before. After
  a nested `layOut()` the list of children may be changed under the loop that called the handler.

Shown by a run with another value of a constant:

- List with `FarScrolls = TRUE` violates `ShowsItems`: one scroll beyond all that is shown leaves widgets of the wrong items (`List.cpp:185`).
- List with `MaxPosted = 3`, `MaxCount = 3`, `Lengths = {1}`, `Steps = 1` and `InitialItems = {<<big>>}` violates `RecyclesWhatItGot`, of which `RecyclesByIndex` is the part that holds:
  a list that shows nothing keeps its `addedIndex`, which the loops only ever lower. When items are added before the list is told, the first widget that is got may turn
  out to be before the rectangle, and the next one is added one behind its index; a second layout gives it back as the item before (`List.cpp:279`), while `recycle()`
  documents the "index of item to recycle widget of" (`List.hpp:59`). The posted call puts that right.
- Relayout with the root among `Containers` rather than `Frames`, and a cached widget in it, violates `CacheHasTexture`: a layout request drops textures without
  marking caches as dirty (`Widget.cpp:141`), and a plain container lays out without `resize()`, so that the assertion in
  `renderFromCache()` fails.
- Focus with `"lost"` in `UserCodeIn` violates `FocusAgrees`: a widget that takes the focus back within `onFocusChanged()` when it
  loses it leaves two widgets focused.
- TextInput with `"setTextLater"` in `UserCalls` violates `CursorInText`: the indices stay behind the end of the text (`TextWidget.hpp:70`).
- Buttons with `"unchecked"` in `UserCodeIn` violates `OneChecked`: the handler checks the button that is being unchecked. With
  `"hidePressed"` in `UserCalls` it violates `PressedIsHeld`: a button that is hidden while it is captured stays pressed.
- Inflater with declarations in `InnerCalls` violates `ScopesNest`: `ScopeExit` pops the layer of the nested call and leaves its own.

Met while modelling, and kept out of the models by the guards and constants named here:

- Updater: when the thread is idle for nearly a full turn of the clock with nothing queued, an object that is
  started then may be put into the wrong queue (`Updateable.cpp:97`); `MaxIdle` is smaller.
- Mouse: a disabled widget stays hovered (`Container.cpp:155`) and gets the events of a capture (`Widget.hpp:43`); a
  hovered widget that is taken out and put back within a handler fails `ASSERT(!isHovered())` (`Container.cpp:253`); children of a hidden
  container stay hovered (`Widget.hpp:472`); a child that reaches out of its parent is not reached by the pointer there (`Nested`).
- Focus: a disabled text input that has the focus still gets characters (`Morda.cpp:227-234`), and keeps its modifier flags.
- List: items of uneven length may leave a gap (`CoversList` is for even ones); a provider that is replaced while its
  notification is posted has the call follow a null pointer; a scroll before the first layout divides by zero; a list that is scrolled by a
  handler of one of its own items throws, because its children are being iterated.
- TreeView: `notifyItemRemoved()` below a collapsed item, removal with the iterator at the end, and `recycle()` on an
  emptied tree fail assertions (`TreeView.hpp:53`, `TreeView.hpp:227`, `TreeView.cpp:73`); `recycle()` is given an index from before the change.
- Relayout: `moveTo()` and `setVisible()` do not mark caches (`Widget.hpp:276`, `Widget.hpp:469`).
- TextInput: `cursorPos` is not initialised before the first `setCursorIndex()` (`Uninitialized`) and is not computed again by `onResize()`;
  in a widget narrower than its cursor it becomes negative, which the assertion of `setCursorIndex()` excludes (`TextInput.cpp:166`).
- Buttons: a second pointer that presses a pressed button fails an assertion (`Button.cpp:59`); a checked button that is added to a group does not uncheck the one that is checked there; a hidden captor can be hovered and pressed again.
- Inflater: a template that removes one property and has others is taken for a property with several values and throws (`Inflater.cpp:101`);
  templates of the same list are not merged with each other; a template that says nothing and is extended by another fails an assertion
  (`Inflater.cpp:254`), and a variable without a value has to be the only one of its list where a template is merged (`Inflater.cpp:105`): `InflaterAssumption`
  excludes both; a variable whose name begins with a capital is declared twice when a template is merged that has it too, and one that is declared
  twice in one list throws (`Inflater.cpp:353`): the lists of variables are functions here, and their names begin with small letters; a template that holds a widget of its own name is inflated without end; an
  item of a list is inflated in whatever scope there is when the list asks for it (`GetWidget`); a reference to a variable that is not known stays in the property.
- ResourceManager: a request for the natural size of an SVG image is never found in the cache, so each makes a texture, and the death of an
  older one erases the entry of a newer (`natural`); a name that is loaded as two types fails the assertion of `addResource()`; includes in a
  circle never end; an include that fails leaves the packs before it mounted; a resource that is held keeps its definition when
  a pack that overrides it is mounted.

## 6. Not modelled

- **Overlay, drop-down selector, Window's posted calls.** These keep a list of open menus and post calls that close them. A model would be one of
  programs that add no widget to an overlay after its construction, since `Overlay::onChildrenListChanged()` does not come back then:
  taking the layer out makes it add another one, which is not the last child either (`Overlay.cpp:36`). What was
  seen while reading: `Container::remove()` does not call `onTopmostChanged()` for the widget that becomes topmost (`Container.cpp:262`, `Widget.hpp:523`);
  two presses on two windows before the posted calls have run leave one topmost and the other focused (`Window.cpp:420-436`);
  the hiding that a menu posts hides whatever menu is the last one by then (`DropDownSelector.cpp:253-262`).
- **Sliders, scroll areas, linear areas, dragging of windows.** Sums and quotients of lengths in floating point, computed from the children or from one event
  and the one before; the order of calls they depend on, captures and layouts, is in `MouseDispatch` and `Relayout`.
- **Includes and files** of scripts and packs: input without an order of its own, apart from the order of packs, which
  `ResourceManager` has.
- **OpenGL wrappers, shaders, images, archives, passive widgets, glyphs.** Each method is one call of a library, and what it does is the library's.
- **Vendored libraries** (`src/android`): FreeType, libpng and libjpeg are most of the lines of the repository and none of its program.
- **Exceptions out of user code** other than constructors: the main loop does not handle them, so the program ends.

## 7. Running

    tlc -config Updater.cfg MCUpdater
    tlapm MordaProofs.tla

Each run takes from some seconds to about two minutes; `PROJECT.json` pairs configurations with modules, and each property with a
mutated definition that violates it.

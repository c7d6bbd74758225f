SPECIFICATION Spec
CONSTANTS
    root = root
    box = box
    a = a
    b = b
    p = p
    q = q
    Widgets = {root, box, a, b}
    Root = root
    Containers = {root, box}
    NoWidget = NoWidget
    Pointers = {p, q}
    InitialChildren <- MCChildren
    Programs <- MCPrograms
    Nested = TRUE
INVARIANTS PressesAreReleased CaptureEnds NotCapturedYet HoveredInsideHovered
PROPERTIES ChildrenStableInLoops HoverFollowsPointer

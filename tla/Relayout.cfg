SPECIFICATION Spec
CONSTANTS
    root = root
    window = window
    label = label
    box = box
    text = text
    word = word
    longer = longer
    red = red
    Widgets = {root, window, label, box, text}
    Root = root
    Home <- MCHome
    Above <- MCAbove
    Frames = {root, window}
    Containers = {box}
    Cached = {window, box}
    Contents <- MCContents
    Width <- MCWidth
    Lengths = {2}
    Removable = {box, text}
    Adjustable = {window, label, box}
INVARIANTS RequestsReachRoot CacheHasTexture CacheIsCurrent LayoutSettles

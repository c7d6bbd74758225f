SPECIFICATION FocusSpec
CONSTANTS
    root = root
    panel = panel
    t1 = t1
    t2 = t2
    Widgets = {root, panel, t1, t2}
    TextInputs = {t1, t2}
    NoWidget = NoWidget
    Root = root
    Parent <- MCParent
    UserCodeIn = {"handlers", "gained"}
    MaxDepth = 6
INVARIANTS FocusAgrees FocusSettled

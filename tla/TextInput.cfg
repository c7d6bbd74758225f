SPECIFICATION Spec
CONSTANTS
    Chars = {"i", "m", " "}
    Space = " "
    charAdvance <- MCAdvance
    CursorWidth = 1
    Widths = {4, 6}
    UserCalls = {"setCursorIndex", "setText", "resize", "focus"}
    MaxLength = 3
INVARIANTS CursorInText DrawnAtIndex PressHitsNearest FlagsFollowKeys

SPECIFICATION Spec
CONSTANTS
    first = first
    second = second
    toggle = toggle
    group = group
    Buttons = {first, second, toggle}
    Toggles = {toggle}
    Groups = {group}
    NoGroup = NoGroup
    GroupOf <- MCGroupOf
    NoButton = NoButton
    Children <- MCChildren
    Pointers = {p}
    Keys = {"LEFT", "RIGHT"}
    UserCalls <- MCUserCalls
    UserCodeIn = {"pressedChanged", "checked"}
    MaxCalls = 3
INVARIANTS OneChecked ActiveIsChecked MemoryAgrees PressedIsHeld

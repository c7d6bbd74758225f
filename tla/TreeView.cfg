SPECIFICATION Spec
CONSTANTS
    MaxItems = 6
INVARIANTS SizesCount AllOrNone IterAtIndex

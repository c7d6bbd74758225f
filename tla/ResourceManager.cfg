SPECIFICATION Spec
CONSTANTS
    Files = {"main", "base", "skin", "partial"}
    Mounted = {"main", "skin", "partial"}
    Includes <- MCIncludes
    Described <- MCDescribed
    TypeOf <- MCTypeOf
    Loads = {"cursor", "image", "patch"}
    Sizes = {1}
    Natural = 0
    NaturalSize = 1
    SizeAt <- MCSizeAt
    Ids = {1, 2, 3, 4, 5}
    Beyond = Beyond
    MaxMounts = 2
    None = None
INVARIANTS OneOfAName FindsByPrecedence RendersOnce

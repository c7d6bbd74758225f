SPECIFICATION Spec
CONSTANTS
    root = root
    kid = kid
    one = one
    two = two
    v = v
    w = w
    Nodes = {root, kid, one, two}
    Scripts <- MCScripts
    Calls <- MCCalls
    InnerCalls <- MCInnerCalls
    Values <- MCValues
    Variables <- MCVariables
    Capitals = {4, 6}
    Factories = {"Box", "Select", "List"}
    Builds <- MCBuilds
    None = None
    SeveralValues = SeveralValues
    BadDeclaration = BadDeclaration
    NoFactory = NoFactory
    UserError = UserError
    MaxDepth = 3
    MaxGlobals = 2
INVARIANTS ScopesNest TakesAfterDefinitions ReadsInnermost

SPECIFICATION Spec
CONSTANTS
    Main = Main
    B = B
    C = C
    X = X
    Y = Y
    Default = Default
    ModuleIds = {Main, B, C}
    ExportNames = {X, Y, Default}
    Star = Star
    None = None
    Null = Null
    Ambiguous = Ambiguous
    BadDefault = BadDefault
    SyntaxError = SyntaxError
    OtherError = OtherError
    MaxImports = 1
    Graphs <- PassedOnTooEarly
INVARIANT BindingsHaveEnvironments
CHECK_DEADLOCK FALSE

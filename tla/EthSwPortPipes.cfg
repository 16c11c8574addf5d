CONSTANTS
    Paths <- MCPaths
    MaxPipes = 3
SPECIFICATION Spec
PROPERTY NoSideEffect

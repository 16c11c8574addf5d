CONSTANTS
    Paths <- MCPaths
    MaxPipes = 3
SPECIFICATION Spec
PROPERTIES
    AdminStatusIsTrue
    DownIsTrue

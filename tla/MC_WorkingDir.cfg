\* chdir and getcwd at the code's buffer sizes: cwd[32], 31 path characters.
CONSTANTS
    CwdSize = 32
    PathMax = 31
    Err = Err
    Paths <- MCPaths
SPECIFICATION Spec
INVARIANT CwdFits

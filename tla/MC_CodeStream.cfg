CONSTANTS
    Chunk = 3
    Programs <- WellFormed
SPECIFICATION Spec
PROPERTY ExecutesProgram

SPECIFICATION Spec
CONSTANTS
    VGA_WIDTH = 2
    VGA_HEIGHT = 2
    SizeT = 16
    MaxStrSize = 4
    Prompts <- MCPrompts
    Codes = {14, 28, 30, 42, 69}
    Numbers = {7, 305}
    MaxLen = 4
INVARIANTS
    InsideScreen
    TypedTextIsOnScreen
    PrintsItsText
CHECK_DEADLOCK FALSE

SPECIFICATION Spec
CONSTANTS
  TTY_WIDTH = 3
  TTY_HEIGHT = 3
  Characters = {"a"}
  MaxLines = 3
INVARIANT ScreenShowsTail
INVARIANT LineShown
PROPERTY LineStays

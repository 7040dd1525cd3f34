SPECIFICATION Spec
CONSTANTS
  Keys = {"KEYPAD_8", "UP_ARROW", "PRINT_SCREEN"}
  SEND_COMMAND_RETRY_LIMIT = 3
  KEYBOARD_EVENT_QUEUE_SIZE = 2
  MaxActions = 3
INVARIANT NothingInvented
INVARIANT KeyStateFollows
PROPERTY HandlerReturns
PROPERTY EventsArePolled

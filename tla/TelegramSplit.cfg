CONSTANTS
    MaxText = 6
    MaxLen = 3
SPECIFICATION SplitSpec
PROPERTIES
    SplitProgresses
CHECK_DEADLOCK FALSE

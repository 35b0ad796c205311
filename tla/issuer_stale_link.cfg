SPECIFICATION Spec
CONSTANTS
    None = None
    Symbols = {1, 2}
    Bodies = {}
    Imports <- StaleImports
    Answers <- MCAnswers
    FeedAnswers = {}
    Captures <- OneCapture
    Window = {1}
    MaxLate = 0
    MaxTrouble = 3
PROPERTY DisputedNotEvidenced
CHECK_DEADLOCK FALSE

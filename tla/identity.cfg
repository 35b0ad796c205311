SPECIFICATION Spec
CONSTANTS
    None = None
    Symbols = {1, 2}
    Bodies <- MCBodies
    Imports <- MCImports
    Answers <- MCAnswers
    FeedAnswers <- MCFeed
    Captures <- MCCaptures
    Window = {1}
    MaxLate = 1
    MaxTrouble = 2
INVARIANT ClosureLosesNothing
PROPERTY HeldStaysOut
PROPERTY HoldsWork
CHECK_DEADLOCK FALSE

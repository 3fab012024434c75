CONSTANTS
    Markers <- TwoParts
    Parts <- OneSlash
    Titles = {"t"}
    Unnamed = {}
    Levels = {2}
    Texts <- SomeTexts
    NoText = NoText
    MaxBlocks = 4
    ShingleK = 2
    Threshold = 50
    MaxVersions = 3
SPECIFICATION AlignSpec
INVARIANTS AddedIsFresh
CHECK_DEADLOCK FALSE

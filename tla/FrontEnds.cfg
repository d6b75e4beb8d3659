SPECIFICATION Spec
CONSTANTS
    MaxItems = 5
    MenuRows <- OneToThree
    ListRows = 2
    Chars <- Typed
    Offered <- SomeLines
    FieldWidths <- TwoOrThree
    MaxLen = 4
    Texts <- SomeTexts
    Heights <- OneToThree
    JumpKeys = 2
    MaxHScroll = 1
    MaxEntries = 4
    PageLines <- SomeLinesLeft
    Files <- TwoFiles
    Config = ".config"
    Contents <- TwoContents
    MaxCalls = 4
    Forests <- SomeForests
    MaxSteps = 5
INVARIANTS
    ScreenShowsMenu
    EditsLikeALine
    ShowsTheRightLines
    SearchFinds
    PageHoldsCurrent
    FullViewTracks
    NothingLostSilently
CHECK_DEADLOCK FALSE

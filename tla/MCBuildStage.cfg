SPECIFICATION Spec
CONSTANTS
    DotNames = {2}
    TwoDotNames = {3}
    Paths <- SomePaths
    Contents = {"f", "g"}
    AptConf <- Deepest
    Bases <- SomeBases
    Sources <- SomeSources
    Results <- SomeResults
    MaxLayers = 3
INVARIANTS TypeOK FilesAgree OverrideStaysOut OnlyTwoFailuresLeave
PROPERTIES BreaksOnlyByReplacement LayerCarriesStep DiffersOnlyThere
CHECK_DEADLOCK FALSE

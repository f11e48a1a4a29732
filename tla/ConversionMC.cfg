CONSTANTS
    Texts = {"e", "r", "long"}
    NoText = "none"
    Language <- MCLanguage
    LongTexts = {"long"}
    Items <- MCItems
    Families <- MCFamilies
    MaxItems = 5
SPECIFICATION Spec
INVARIANTS CaptionsMeetTheirObjects CitationsPointToTheirReferences ItemsAreInTheirLists TablesAreWrittenOnce
CHECK_DEADLOCK FALSE

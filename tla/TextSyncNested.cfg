\* Out-of-order signals: slots of the editor edit while an edit is being signalled.
SPECIFICATION Spec
CONSTANTS
    Tab = Tab
    Space = Space
    Char = {a, b, Tab, Space}
    TabWidth = 2
    Texts <- MCTexts
    MaxLen = 2
    MaxNested = 3
    MinRemoval = 1
    RefusalSilent = FALSE
INVARIANTS
    NoArmedFlagAtRest
PROPERTIES
    ImplementsSharedText
    ClosedForGood
CHECK_DEADLOCK FALSE

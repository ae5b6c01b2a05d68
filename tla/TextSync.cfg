\* In-order signals: the editor reports each edit before the next is made.
SPECIFICATION Spec
CONSTANTS
    Tab = Tab
    Space = Space
    Char = {a, b, Tab, Space}
    TabWidth = 4
    Texts <- MCTexts
    MaxLen = 3
    MaxNested = 1
    MinRemoval = 1
    RefusalSilent = TRUE
INVARIANTS
    InOrderInv
PROPERTY
    ImplementsSharedText
CHECK_DEADLOCK FALSE

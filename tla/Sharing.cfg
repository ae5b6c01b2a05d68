SPECIFICATION SharingSpec
CONSTANTS
    MaxRequests = 2
INVARIANTS
    OpenedIsUploaded
    SourcelessOnlyAgain
PROPERTY
    ComesBack
CHECK_DEADLOCK FALSE

SPECIFICATION Spec
CONSTANTS
    Handles <- AllHandles
    Storages = {s1, s2, s3, s4, s5}
    Keys <- AllKeys
    Vals <- AllVals
    NoTable = NoTable
    KeyRank <- KeysSorted
    Codes = {0, 64}
    Locations = {"/a"}
    Texts <- AllTexts
    StatusCodes = {200}
    Drafts <- DraftTables
    Foreign <- ForeignStreams
    EditVals <- EditValues
    MaxEdits = 2
INVARIANTS PrefixInv PlansAgree
PROPERTIES HeadersAreValues PrefixSettles
CHECK_DEADLOCK FALSE

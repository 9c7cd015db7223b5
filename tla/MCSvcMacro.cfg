SPECIFICATION MacroSpec
CONSTANTS
    Arguments <- MCArguments
    Members <- MCMembers
    Items <- MCItems
    MaxMembers = 2
    MaxDepth = 3
    Chars <- MCChars
INVARIANTS HalvesFit ArgumentsDecide PathsComeApart
CHECK_DEADLOCK FALSE

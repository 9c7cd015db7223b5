SPECIFICATION Spec
CONSTANTS
    Limits <- LimitChoices
    Window = 2
    SuffixLen = 1
    Demands <- DemandChoices
INVARIANTS LimitedInv PromisedIsLendable
PROPERTIES StateSaysEnd ReadExactReturns

\* Two interfaces of at most two services each, in every order.
CONSTANTS
  Chars <- MCChars
  InterfaceTexts <- MCInterfaceTexts
  ServiceTexts <- MCServiceTexts
  Locations <- MCLocations
  MaxInterfaces = 2
  MaxServices = 2
SPECIFICATION Spec
INVARIANTS
  ResolveIsLongestPrefix
  RoutersAgree
  TrieHolds
CHECK_DEADLOCK FALSE

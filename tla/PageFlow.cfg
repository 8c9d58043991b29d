CONSTANTS
  Word <- MCWord
  LowerOf <- MCLowerOf
  Decoded <- MCDecoded
  NumberOf <- MCNumberOf
  BadExtension = {"a.pdf"}
  LowValuePatterns <- MCLowValuePatterns
  MaxUrlLength = 12
  MaxQueryParams = 1
  ContentWindow = 4
  StandaloneWindow = 3
  StartWindow = 2
  StartSlack = 1
  IsoDateIn <- MCIsoDateIn
  Cases <- MCCases
  Node <- MCNode
  Height <- MCHeight
  Later <- MCLater
  Listing <- MCListing
  Programs = {"mt", "st"}
SPECIFICATION Spec
INVARIANTS TypeOK NoPageTwice QueuedIsMeant FilteredAlike RecordedReachesIndex RecordIsOnePage
PROPERTY ReloadKeepsUrls
CHECK_DEADLOCK FALSE

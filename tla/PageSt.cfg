CONSTANTS
  Word <- MCWord
  LowerOf <- MCLowerOf
  Decoded <- MCDecoded
  NumberOf <- MCNumberOf
  BadExtension = {"a.pdf"}
  LowValuePatterns <- MCLowValuePatterns
  MaxUrlLength = 12
  MaxQueryParams = 1
  ContentWindow = 4
  StandaloneWindow = 3
  StartWindow = 2
  StartSlack = 1
  IsoDateIn <- MCIsoDateIn
  Cases <- MCFewCases
  Node <- MCFewNode
  Height <- MCFewHeight
  Later <- MCLater
  Listing <- MCListing
  Programs = {"st"}
SPECIFICATION FairSpec
PROPERTY StoredReachesIndex
CHECK_DEADLOCK FALSE

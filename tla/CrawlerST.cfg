CONSTANTS
  a1 = a1
  a2 = a2
  a3 = a3
  b = b
  root = root
  part = part
  Url = {a1, a2, a3, b}
  Domain = {"a", "b", "b:8080"}
  DomainOf <- MCDomainOf
  HostOf <- MCHostOf
  DefaultDelay = 1
  Agent = {"*", "bot", "other"}
  RulePath = {root, part}
  Length <- MCLength
  Starts <- MCStarts
  Bot = "bot"
  Seeds = {a1, a2}
  LinksOf <- MCLinksOf
  RobotsFiles <- MCRobotsFiles
  MaxPages = 2
  MaxRetries = 1
  MaxAge = 2
  NoUrl = NoUrl
SPECIFICATION Spec
INVARIANTS TypeOK EveryUrlAccounted RobotsRespected StoredIsOneResponse
PROPERTIES BestDueFirst CrawlDelayKept QueuedGetsTaken

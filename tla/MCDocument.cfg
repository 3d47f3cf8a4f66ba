SPECIFICATION SpecCookies
CONSTANTS
  a1 = a1
  a2 = a2
  b1 = b1
  c1 = c1
  hostA = hostA
  hostB = hostB
  hostC = hostC
  URLs = {a1, a2, b1, c1}
  NoURL = NoURL
  Hosts = {hostA, hostB, hostC}
  NoHost = NoHost
  NoAnswer = NoAnswer
  HostOf <- MCHostOf
  Answers <- MCAnswers
  MaxDocumentSize = 2
  HeadBeforeGet = {b1}
  Persistent = {a1, a2, b1}
  MaxFaults = 2
  num_retries = 2
  HostName <- MCHostName
  PathOf <- MCPathOf
  SetCookie <- MCSetCookie
  Imported <- MCImported
  TopLevelDomains = {"com", "edu", "net", "org", "gov", "mil", "int"}
  NoDate = NoDate
  MaxTime = 1
  MaxCookies = 2
INVARIANTS FaultsTolerated HeaderFound CookiesComeBack
PROPERTIES AnswersAreOwn RetrievalEnds

SPECIFICATION Spec
CONSTANTS
  a = a  b = b  c = c  s = s  t = t
  NoRef = NoRef  NoURL = NoURL  NoServer = NoServer  NoBody = NoBody
  URLs <- Pages
  Servers <- Hosts
  ServerOf <- OnTwoServers
  Disallowed <- NoneForbidden
  LocalURLs <- NoneForbidden
  RobotsReplies = {"none"}
  KeepAliveReplies = {TRUE, FALSE}
  MaxDocuments <- Unlimited
  MaxRequests = 2
  StartURLs <- JustA
  MinimalURLs <- AandB
  Normal <- Identity
  InLimits <- Pages
  Statuses = {"ok", "not_found", "no_host"}
  Directives = {}
  Links <- Fan
  LinkHops = {1}
  Descriptions = {"empty"}
  Redirects <- None
  Body <- AllDifferent
  MaxVersion = 1
  MaxHops = 1
  CheckUniqueMD5 = FALSE
  MarkDeadServers = TRUE
  Modes = {"update", "minimal"}
  Signals = FALSE
  MaxRuns = 2
  MaxDocID = 8
INVARIANTS
  TypeOK
  FetchedOnce
  NothingForgotten
  EverythingRetrieved
  HopsReal
CHECK_DEADLOCK FALSE

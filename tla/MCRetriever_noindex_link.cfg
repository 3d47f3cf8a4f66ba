SPECIFICATION Spec
CONSTANTS
  a = a  b = b  c = c  s = s  t = t
  NoRef = NoRef  NoURL = NoURL  NoServer = NoServer  NoBody = NoBody
  URLs <- AandB
  Servers <- Hosts
  ServerOf <- OnOneServer
  Disallowed <- NoneForbidden
  LocalURLs <- NoneForbidden
  RobotsReplies = {"none"}
  KeepAliveReplies = {TRUE}
  MaxDocuments <- Unlimited
  MaxRequests <- Unlimited
  StartURLs <- JustA
  MinimalURLs <- JustA
  Normal <- Identity
  InLimits <- AandB
  Statuses = {"ok"}
  Directives = {"noindex"}
  Links <- Pair
  LinkHops = {1}
  Descriptions = {"words"}
  Redirects <- None
  Body <- AllDifferent
  MaxVersion = 1
  MaxHops = 2
  CheckUniqueMD5 = FALSE
  MarkDeadServers = TRUE
  Modes = {"update"}
  Signals = FALSE
  MaxRuns = 1
  MaxDocID = 5
INVARIANTS
  NoindexNotPosted
CHECK_DEADLOCK FALSE

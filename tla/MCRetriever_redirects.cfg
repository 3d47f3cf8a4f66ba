SPECIFICATION Spec
CONSTANTS
  a = a  b = b  c = c  s = s  t = t
  NoRef = NoRef  NoURL = NoURL  NoServer = NoServer  NoBody = NoBody
  URLs <- Pages
  Servers <- Hosts
  ServerOf <- OnTwoServers
  Disallowed <- JustC
  LocalURLs <- NoneForbidden
  RobotsReplies = {"none", "rules"}
  KeepAliveReplies = {TRUE}
  MaxDocuments <- Unlimited
  MaxRequests <- Unlimited
  StartURLs <- JustA
  MinimalURLs <- JustA
  Normal <- Identity
  InLimits <- Pages
  Statuses = {"ok", "redirect"}
  Directives = {}
  Links <- Cycle
  LinkHops = {0, 1}
  Descriptions = {"words"}
  Redirects <- RedirectCycle
  Body <- Mirror
  MaxVersion = 2
  MaxHops = 1
  CheckUniqueMD5 = TRUE
  MarkDeadServers = TRUE
  Modes = {"update"}
  Signals = FALSE
  MaxRuns = 2
  MaxDocID = 8
INVARIANTS
  LiveRecordsIndexed
  ContentsOnce
  RobotsObeyed
PROPERTIES
  HopsNeverGrow
CHECK_DEADLOCK FALSE

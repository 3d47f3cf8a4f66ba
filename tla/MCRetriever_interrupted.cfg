SPECIFICATION Spec
CONSTANTS
  a = a  b = b  c = c  s = s  t = t
  NoRef = NoRef  NoURL = NoURL  NoServer = NoServer  NoBody = NoBody
  URLs <- Pages
  Servers <- Hosts
  ServerOf <- OnTwoServers
  Disallowed <- AandB
  LocalURLs <- AandB
  RobotsReplies = {"none", "rules", "unreachable"}
  KeepAliveReplies = {TRUE}
  MaxDocuments = 1
  MaxRequests <- Unlimited
  StartURLs <- AandC
  MinimalURLs <- JustA
  Normal <- Identity
  InLimits <- Pages
  Statuses = {"ok", "no_host"}
  Directives = {}
  Links <- Star
  LinkHops = {1}
  Descriptions = {"empty"}
  Redirects <- None
  Body <- AllDifferent
  MaxVersion = 1
  MaxHops = 2
  CheckUniqueMD5 = FALSE
  MarkDeadServers = FALSE
  Modes = {"update"}
  Signals = TRUE
  MaxRuns = 2
  MaxDocID = 8
INVARIANTS
  AtMostOneDropped
  WithinServerLimit
PROPERTIES
  DigEnds
CHECK_DEADLOCK FALSE

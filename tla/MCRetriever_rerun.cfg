SPECIFICATION Spec
CONSTANTS
  a = a  b = b  c = c  s = s  t = t
  NoRef = NoRef  NoURL = NoURL  NoServer = NoServer  NoBody = NoBody
  URLs <- AandB
  Servers <- Hosts
  ServerOf <- OnOneServer
  Disallowed <- NoneForbidden
  LocalURLs <- NoneForbidden
  RobotsReplies = {"none"}
  KeepAliveReplies = {TRUE}
  MaxDocuments <- Unlimited
  MaxRequests <- Unlimited
  StartURLs <- JustA
  MinimalURLs <- JustA
  Normal <- Identity
  InLimits <- AandB
  Statuses = {"ok", "not_changed", "not_parsable"}
  Directives = {"noindex", "no_parser"}
  Links <- Pair
  LinkHops = {1}
  Descriptions = {"short", "words"}
  Redirects <- None
  Body <- AllDifferent
  MaxVersion = 2
  MaxHops = 2
  CheckUniqueMD5 = FALSE
  MarkDeadServers = TRUE
  Modes = {"initial", "update"}
  Signals = FALSE
  MaxRuns = 2
  MaxDocID = 6
INVARIANTS
  BufferOfThisPage
  PostingsMatchRecords
  RetrievedIsCurrent
PROPERTIES
  DocsSpec
CHECK_DEADLOCK FALSE

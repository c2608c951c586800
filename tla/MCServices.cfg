CONSTANTS
  Callers = {c1, c2}
  Operations = {o1, o2, o3}
  Disposers = {o1}
  Lookups = {c1}
  NoConfig = "undefined"
  Like <- MCLike
  Texts <- MCTexts
  Extractions <- MCExtractions
  Replies <- MCReplies
  Offers <- MCOffers
  Middlewares <- MCMiddlewares
  PreToolUse <- MCPreToolUse
  PostToolUse <- MCPostToolUse
  ToolNames <- MCToolNames
  Ends <- MCEnds
  Names <- MCNames
  Service <- MCService
  Sources <- MCSources
  Embedded <- MCEmbedded
  Files <- MCFiles
  Directory <- MCDirectory
  PatchRows <- MCPatchRows
  Profiles <- MCProfiles
  c1 = c1
  c2 = c2
  o1 = o1
  o2 = o2
  o3 = o3
  Everywhere = Everywhere
  Torn = Torn
  Nothing = Nothing
  Sessions = {s1, s2}
  MaxIndexChanges = 2
  Bodies = {0, 1, 2}
  Limits = {1, 2}
  MaxEntries = 2
  Ids = {s1, s2, s3}
  LocalWidth = 2
  RelatedWidth = 1
  RelatedCap = 3
  NameRows = 1
  HitLimit = 3
  MaxChanges = 3
  MaxRetries = 2
  MaxChain = 2
  MaxMounts = 3
  MaxUnmounts = 3
  Tabs = {t1, t2}
  MaxSockets = 2
  MaxTabChanges = 1
  Providers = {p1, p2}
  Keys = {k1, k2}
  MaxUpdates = 4
  MaxSkillChanges = 3
  MaxOverrides = 3
SYMMETRY Alike
SPECIFICATION MCSpec
INVARIANTS ServicesTypeOK  GraphExact LlmExact DeniesHold TornDown   RegistriesExact
CHECK_DEADLOCK FALSE

SPECIFICATION Spec
CONSTANTS
  dir = dir
  file = file
  quarantine = quarantine
  older = older
  newer = newer
  shell = shell
  watcher = watcher
  Path = {dir, file, quarantine}
  Nested <- Family
  Place <- Places
  Identity = {older, newer}
  Invocation = {shell}
  Observer = {watcher}
  Event <- Events
  QueryLimit = 2
  MaxLinks = 1
  MaxNotes = 1
  MaxRequests = 2
  MaxSelected = 1
  Operation = {"add"}
  Request = {"tree", "file"}
  Caller = {"first", "retry"}
  Session <- Sessions
  Content <- SessionContents
  SafeInteger = 4
  Rederived <- Derivation
  Rekeyed <- Rekeying
  Snapshots <- Primary
  Boundaries <- FreezeRecords
  Recovered <- NothingRecovered
  Journals <- JournalNames
  Receipt <- AllReceipts
  Staged <- Campaigns
  Options <- PassOptions
  MaxChanges = 2
  Writer = {"writer"}
  Adopter = {"adopter"}
  Image <- Images
  MaxWrites = 2
  Tool = {"install", "lib", "util"}
  Text <- SomeTexts
  Gone = Gone
  PinFile <- PinFiles
  Scanned <- RelativeImports
  MaxEdits = 2
  RequestId = {1, 2}
  Method = {"initialize", "list", "graph", "knowledge"}
  MaxPending = 1
  MaxFrames = 3
  Vertex = {1, 2, 3, 4}
  RelType = {"calls", "owns"}
  Build = {1, 2}
  Contents <- GraphContents
  Query <- Queries
  PageSize = 2
  MaxVisits = 3
  MaxRows = 5
  MaxQueries = 10
  EdgeCap = 4
  SearchCap = 2
  ExportCap = 4
  Providers = 2
  Knowledge <- KnowledgeOf
  KeepsHistory = {2}
  Grants <- SomeGrants
  Limit = 3
  MaxChars = 4
  MaxRegrants = 2
  Builds <- ViewedBuilds
  ScopedCall <- ViewCalls
  LoadCap = 5
  CallCap = 1
  PageCap = 2
  HopCap = 2
  VisitCap = 3
  MaxScopedFrames = 3
INVARIANTS TypeOK UnblockedIsReleased AdditionsAreExact MigrationsAreExact AnsweredExactlyOnce PagesAreTheNeighborhood PathIsShortest ContextIsHonest PacketIsHonest AnswersStayInView DisclosureIsAuthorized
PROPERTIES AssessmentsAreCautious SessionsSettle
CHECK_DEADLOCK FALSE

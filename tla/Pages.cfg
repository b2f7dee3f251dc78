SPECIFICATION PagesSpec
CONSTANTS
  w1 = w1  w2 = w2  x1 = x1  x2 = x2  x3 = x3  y1 = y1  y2 = y2
  z1 = z1  z2 = z2  z3 = z3
  NoOverride = NoOverride  Several = Several
  HlrWorkers = {w1, w2}
  MaxAsked = 3
  BatchSize = 2
  EnvLimit = 3
  Overrides = {2}
  LastDay = 1
  MaxAnswered = 4
  SpamWorkers = {w1, w2}
  Numbers = {z1, z2}
  Purchased = {z1}
  SpamRoutes = {y1}
  Tokens = {x1, x2}
  StartScores = {3}
  Replies <- McReplies
  Writers = {w1, w2}
  Pushers = {x1, x2}
  PageLimit = 1
  LastId = 3
  LastRow = 2
  RouteWorkers = {w1, w2}
  RouteNames = {x1, x2}
  KnownProviders = {z1, z2}
  OtherProviders = {z3}
  Files <- McFiles
  LastRoute = 2
  DictWorkers = {w1, w2}
  LastValue = 2
  Labels = {x1, x2, x3}
  Folded <- McFolded
  Scopes = {y1, y2}
  Phones = {z1}
  CardWorkers = {w1, w2}
  ExternalIds = {x1, x2}
  CardServers = {y1, y2}
  CardGeos = {z1}
  LastCard = 2
  NoScheme = NoScheme
  NoteWorkers = {w1, w2}
  Schemes = {y1}
  Comments = {x1, x2}
  Moments = {1, 2}
  LastEvent = 3
  LegacyIds = {2}
  LastRowId = 2
SYMMETRY PageSymmetry
INVARIANTS
  AnswersCounted ScoreChain TokenScoresOnce
  NothingSkipped SnapshotWhole
  RoutesRecorded ImportTakesHold
  NamesApart LabelsFollow NumbersApart CommentsFollow
  ImportedLinksHold
PROPERTIES ScopesWhole CommitsLeaveIdsFree

SPECIFICATION Spec
CHECK_DEADLOCK FALSE
CONSTANTS
  Workspaces = {"w1", "w2"}
  ListReaders = {"switcher"}
  Screens = {{"switcher"}, {"report", "link"}}
  FailingParts = {}
  MaxAnswers = 2
  MaxReads = 2
  MaxEpoch = 1
  MaxChanges = 1
  MaxRemovals = 1
  MaxEvents = 2
  AnswersMayBeLost = FALSE

  Tabs = {"a", "b"}
  MaxStarts = 3
  MaxEnds = 1
  MaxAsks = 2

  FeedSpaces = {"v", "w"}
  MaxFeedEpoch = 2
  MaxFeedEvents = 1

  Spaces = {"a", "n"}
  HomeSpaces = {"a"}
  SpaceNames = {"a", "b"}
  Abouts = {""}
  MaxSpaceCalls = 2
  MaxSpaceEdits = 1
  MaxSpaceEvents = 1
  OtherTab = TRUE

  Users = {"a", "b"}
  Founder = "a"
  Invites = {"i"}
  Slots = {1, 2}
  MaxTeamCalls = 2

  RuleIds = {"x"}
  MaxComments = 2
  MaxMade = 3
  MaxRuleCalls = 2
  MaxOthers = 1

  MaxTourMoves = 4

  Viewports <- MCViewports
  CardSizes <- MCCardSizes
  TargetRects <- MCTargetRects

  Home = "home"
  Nimbus = "nimbus"
  Orbit = "orbit"
  MadeSpaces = {"made"}
  SeededRepos <- MCSeededRepos
  FreshRepos = {"f"}
  Presets = {"b"}
  Customs = {"c", "d"}
  MaxCustomProfiles = 1
  Mates = {"m"}
  MaxMockCalls = 5

  ScanRepos = {"r"}
  MockBranches = {"m", "d"}
  MainBranch = "m"
  Headed = {"m"}
  Selections = {"s", "t"}
  MaxMockScans = 2
  MaxMockEdits = 1

INVARIANTS CacheInv ChangesStayShown SignInInv FeedInv WorkspaceInv PanelsInv MockApiInv
PROPERTIES MembershipChangesRightly EndedIsRemembered

SPECIFICATION Spec
CHECK_DEADLOCK FALSE
CONSTANTS
  Links = {"r"}
  OtherLinks = {"x"}
  MaxActs = 2

  Tenants = {"w1", "w2"}
  Repos = {"r", "s"}
  HomeOf <- MCHomeOf
  Heads = {"main", "dev"}
  MaxMoves = 1

  FolderFiles = {"b"}
  TopFiles = {}
  DetectedFiles = {"b"}
  MaxLoads = 2
  MaxSaves = 2

  ProfileIds = {"b", "c"}
  Presets = {"b"}
  ProjectIds = {"p"}
  MaxCustom = 1
  Fields = {"weights"}
  MaxChanges = 2

  OverviewRepos = {1, 2, 3}
  HealthValues <- MCHealth
  NameOf <- MCNameOf
  MaxAttention = 2
  MaxScanning = 1
  MaxRescoring = 1

INVARIANTS ProjectsInv SavesOnlyWhatWasRead ProfilesInv OverviewInv
PROPERTIES RedirectStaysInWorkspace

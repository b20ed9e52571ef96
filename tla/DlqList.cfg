SPECIFICATION AnalysisSpec
CONSTANTS
  Pools = {p1}
  Lines = {l1}
  Vdevs = {v1}
  Readings = {0, 1, 2}
  Prose = {}
  KernelLines = {k1}
  MaxSize = 2
  Window = 2
  MaxClock = 3
  EventPools = {"tank", "data"}
  Devices = {"", "d1"}
  MaxBuffer = 3
  Related = 1
  Times = {0, 1}
  MaxPosts = 4
  AboveFaulted = 0
  AboveSector = 0
  AboveLatency = 0
  AboveSpikes = 1
  Collectors = {c1, c2}
  MaxErrors = 3
  Readable = 2
  MaxAge = 2
  Hours24 = 1
  Hours1 = 0
  MaxHours = 2
  MaxCollects = 3
  Feeders = {f1, f2}
  Ratios = {1, 7, 9}
  WindowSize = 4
  Every = 2
  Enough = 3
  Sensitivity = 1
  MaxAnomalies = 2
  MaxPoints = 6
  Samplers = {q1, q2}
  MaxBytes = 3
  MaxStamps = 4
  Width = 16
  Disks = {"sda"}
  Counters = {0, 1, 1024}
  Total = 10
  Totals = {10, 15}
  Levels = {0, 3, 6, 8, 9}
  MaxDay = 4
  MaxReadings = 4
  Uses = {50, 79, 80, 81, 90, 91, 100}
  Shares = {0, 40, 60, 100}
  Sizes = {2, 4, 8}
  Drives = {1, 2, 3, 4, 5, 6}
  MaxVdevs = 3
  MaxAdded = 2
  Ages = {1, 60, 100, 200, 400}
  Held = {0, 1, 3}
  MaxSnapshots = 2
  Errs = {0, 2, 7}
  Counts = {0, 1, 50, 99, 100}
  MaxTrend = 4
  Gaps = {0, 6, 48}
  Delays = {1, 2, 5, 9}
  Percents = {50, 70, 90}
  AlertAbove = 70
  Samples = 4
  MaxProfiled = 3
  Prices = {0, 1, 3}
  MaxUsages = 2
INVARIANTS
  AnalysisTypeOK
  NoRepeatInWindow
  NothingMissed
  IncreasesCounted
  OneDetector
  
  ForecastsAgree
  
PROPERTIES
  BytesAccounted
